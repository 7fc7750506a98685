------------------------- MODULE AlertRouterProofs -------------------------
(***************************************************************************)
(* The alert router, for any number of routes, handlers, alerts, silences  *)
(* and moments: nothing is lost between a queue and its worker's outcome,  *)
(* the dedupe window, and purging.                                         *)
(***************************************************************************)
EXTENDS AlertRouter, TLAPS

-----------------------------------------------------------------------------
(* Sequences and time.                                                     *)

LEMMA ConcatAssociative ==
  ASSUME NEW S, NEW a \in Seq(S), NEW b \in Seq(S), NEW c \in Seq(S)
  PROVE  (a \o b) \o c = a \o (b \o c)
OBVIOUS

LEMMA ConcatEmpty ==
  ASSUME NEW S, NEW a \in Seq(S)
  PROVE  a \o <<>> = a /\ <<>> \o a = a
OBVIOUS

\* Taking the head of a queue to the end of a batch.
LEMMA Received ==
  ASSUME NEW S, NEW a \in Seq(S), NEW b \in Seq(S), b # <<>>
  PROVE  Append(a, Head(b)) \o Tail(b) = a \o b
<1> DEFINE l == Append(a, Head(b)) \o Tail(b)
           r == a \o b
<1>1. /\ Head(b) = b[1] /\ Head(b) \in S /\ Tail(b) \in Seq(S) /\ Len(Tail(b)) = Len(b) - 1
      /\ Len(b) \in Nat \ {0} /\ Len(a) \in Nat
      /\ \A i \in 1 .. Len(b) - 1 : Tail(b)[i] = b[i + 1]
  OBVIOUS
<1>2. /\ Append(a, Head(b)) \in Seq(S) /\ Len(Append(a, Head(b))) = Len(a) + 1
      /\ Append(a, Head(b))[Len(a) + 1] = b[1]
      /\ \A i \in 1 .. Len(a) : Append(a, Head(b))[i] = a[i]
  BY <1>1
<1>3. l \in Seq(S) /\ r \in Seq(S) /\ Len(l) = Len(a) + Len(b) /\ Len(r) = Len(a) + Len(b)
  BY <1>1, <1>2
<1>4. ASSUME NEW i \in 1 .. Len(r) PROVE l[i] = r[i]
  <2>1. CASE i <= Len(a)  BY <1>1, <1>2, <2>1
  <2>2. CASE i = Len(a) + 1  BY <1>1, <1>2, <2>2
  <2>3. CASE i > Len(a) + 1  BY <1>1, <1>2, <1>3, <2>3
  <2>4. QED  BY <1>1, <1>3, <2>1, <2>2, <2>3
<1> HIDE DEF l, r
<1>5. l = r  BY <1>3, <1>4
<1>6. QED  BY <1>5 DEF l, r

LEMMA TailLeft ==
  ASSUME NEW S, NEW s \in Seq(S), s # <<>>, Len(s) # 1
  PROVE  Tail(s) \in Seq(S) /\ Tail(s) # <<>>
<1>1. Len(s) \in Nat \ {0}  OBVIOUS
<1>2. Tail(s) \in Seq(S) /\ Len(Tail(s)) = Len(s) - 1  OBVIOUS
<1>3. Len(Tail(s)) # 0  BY <1>1, <1>2
<1>4. Len(<<>>) = 0  OBVIOUS
<1>5. Tail(s) # <<>>  BY <1>3, <1>4, Zenon
<1>6. QED  BY <1>2, <1>5

LEMMA SetOfConcat ==
  ASSUME NEW S, NEW a \in Seq(S), NEW b \in Seq(S), NEW e \in ToSet(a \o b)
  PROVE  e \in ToSet(a) \/ e \in ToSet(b)
<1>1. PICK i \in 1 .. Len(a) + Len(b) : e = (a \o b)[i]  BY DEF ToSet
<1>2. CASE i <= Len(a)  BY <1>1, <1>2 DEF ToSet
<1>3. CASE i > Len(a)
  <2>1. e = b[i - Len(a)] /\ i - Len(a) \in 1 .. Len(b)  BY <1>1, <1>3
  <2>2. QED  BY <2>1 DEF ToSet
<1>4. QED  BY <1>2, <1>3

\* Whole seconds: less than a second earlier, never negative, and in order.
LEMMA Seconds ==
  ASSUME NEW t \in Nat
  PROVE  Truncated(t) \in Nat /\ Truncated(t) <= t /\ t < Truncated(t) + SecondTicks
<1>1. t \div SecondTicks \in Int /\ t \div SecondTicks >= 0  BY TicksAssumption
<1>2. (t \div SecondTicks) * SecondTicks <= t  BY TicksAssumption
<1>3. t < (t \div SecondTicks) * SecondTicks + SecondTicks  BY TicksAssumption
<1>4. (t \div SecondTicks) * SecondTicks \in Nat  BY <1>1, TicksAssumption
<1>5. QED  BY <1>2, <1>3, <1>4 DEF Truncated

LEMMA SecondsInOrder ==
  ASSUME NEW t \in Nat, NEW u \in Nat, t <= u
  PROVE  Truncated(t) <= Truncated(u)
<1> DEFINE a == t \div SecondTicks
           b == u \div SecondTicks
<1>1. a \in Int /\ b \in Int /\ SecondTicks \in Nat \ {0}  BY TicksAssumption
<1>2. a <= b
  <2>1. a * SecondTicks <= t /\ u < b * SecondTicks + SecondTicks
    BY Seconds DEF Truncated
  <2> HIDE DEF a, b
  <2>2. a * SecondTicks < (b + 1) * SecondTicks  BY <1>1, <2>1
  <2>3. QED  BY <1>1, <2>2
<1> HIDE DEF a, b
<1>3. a * SecondTicks <= b * SecondTicks  BY <1>1, <1>2
<1>4. QED  BY <1>3 DEF Truncated, a, b

LEMMA MinuteOfNow ==
  ASSUME NEW t \in Moments
  PROVE  t \div MinuteTicks \in 0 .. Horizon \div MinuteTicks
<1>1. t \in Nat /\ Horizon \in Nat /\ t <= Horizon  BY BoundsAssumption DEF Moments
<1>2. t \div MinuteTicks <= Horizon \div MinuteTicks /\ t \div MinuteTicks >= 0
  BY <1>1, TicksAssumption
<1>3. QED  BY <1>1, <1>2, TicksAssumption

-----------------------------------------------------------------------------
(* Types, in three parts: the database and the clock, the handlers, and    *)
(* the queues with their workers.                                          *)

StoreOK ==
  /\ now \in Moments
  /\ seen \in [Alerts -> Moments \union {Never}]
  /\ rate \in [RouteNames -> [0 .. Horizon \div MinuteTicks -> Nat]]
  /\ silence \in [Silences -> Moments \union {Never}]
  /\ stopping \in BOOLEAN
  /\ posts \in 0 .. MaxPosts
  /\ restarts \in 0 .. MaxRestarts

HandlerStates == [pc: {"idle", "silence", "match", "rate", "dedupe", "mark", "enqueue"},
                  todo: Seq(Alerts), route: 1 .. Len(Routes) + 1, at: Moments, raced: BOOLEAN]

\* A handler that is not idle has an alert in hand, and past the matchers a
\* route.
HandlersOK ==
  /\ handler \in [Handlers -> HandlerStates]
  /\ \A h \in Handlers :
       /\ handler[h].pc # "idle" => handler[h].todo # <<>>
       /\ handler[h].pc \in {"rate", "dedupe", "mark", "enqueue"} => handler[h].route <= Len(Routes)

WorkerStates == [pc: {"select", "slack", "email", "backoff", "stopped"},
                 batch: Seq(Entry), leaving: BOOLEAN]
Received2 == [{"slack", "email"} -> SUBSET Entry]

QueuesOK ==
  /\ dlq \in [RouteNames -> SUBSET Entry]
  /\ queue \in [RouteNames -> Seq(Entry)]
  /\ \A rt \in RouteNames : Len(queue[rt]) <= Capacity
  /\ worker \in [RouteNames -> WorkerStates]
  /\ accepted \in [RouteNames -> Seq(Entry)]
  /\ settled \in [RouteNames -> Seq(Entry)]
  /\ received \in [RouteNames -> Received2]

TypeInv == StoreOK /\ HandlersOK /\ QueuesOK

LEMMA InvIsTyped == TypeInv => TypeOK
BY DEF TypeInv, TypeOK, StoreOK, HandlersOK, QueuesOK, HandlerStates, WorkerStates, Received2

LEMMA Numbers == Horizon \in Nat /\ 0 \in Moments /\ Len(Routes) \in Nat /\ Capacity \in Nat
                 /\ MaxPosts \in Nat /\ MaxRestarts \in Nat
BY BoundsAssumption, RoutesAssumption DEF Moments

LEMMA IdleIsState == IdleHandler \in HandlerStates
BY Numbers DEF IdleHandler, HandlerStates

LEMMA NewIsState == NewWorker \in WorkerStates
BY DEF NewWorker, WorkerStates

\* What a handler has in hand.
LEMMA InHand ==
  ASSUME HandlersOK, NEW h \in Handlers
  PROVE  /\ handler[h] \in HandlerStates
         /\ handler[h].pc # "idle" => Alert(h) \in Alerts
         /\ handler[h].pc \in {"rate", "dedupe", "mark", "enqueue"} => Route(h) \in RouteNames
<1>1. handler[h] \in HandlerStates  BY DEF HandlersOK
<1>2. handler[h].todo \in Seq(Alerts) /\ handler[h].route \in 1 .. Len(Routes) + 1
  BY <1>1 DEF HandlerStates
<1>3. handler[h].pc # "idle" => Alert(h) \in Alerts  BY <1>2 DEF HandlersOK, Alert
<1>4. handler[h].pc \in {"rate", "dedupe", "mark", "enqueue"} => Route(h) \in RouteNames
  <2> SUFFICES ASSUME handler[h].pc \in {"rate", "dedupe", "mark", "enqueue"}
      PROVE  Route(h) \in RouteNames
    OBVIOUS
  <2>1. handler[h].route \in 1 .. Len(Routes)  BY <1>2, Numbers DEF HandlersOK
  <2>2. QED  BY <2>1 DEF Route, RouteNames
<1>5. QED  BY <1>1, <1>3, <1>4

LEMMA HeldIsEntry ==
  ASSUME HandlersOK, NEW h \in Handlers, handler[h].pc # "idle"
  PROVE  /\ Held(h) \in Entry /\ Held(h).alert = Alert(h)
         /\ Held(h).at = handler[h].at /\ Held(h).raced = handler[h].raced
BY InHand DEF Held, Entry, HandlerStates

\* What a mark does to the handlers: h goes on, those it overlaps are raced.
LEMMA Marking ==
  ASSUME HandlersOK, StoreOK, NEW h \in Handlers, MarkSeen(h), NEW g \in Handlers
  PROVE  /\ handler'[g] \in HandlerStates
         /\ handler'[g].todo = handler[g].todo /\ handler'[g].route = handler[g].route
         /\ g = h => /\ handler'[g].pc = "enqueue" /\ handler'[g].at = now
                     /\ handler'[g].raced = handler[g].raced
         /\ g # h => handler'[g].pc = handler[g].pc /\ handler'[g].at = handler[g].at
         /\ g # h /\ Overlaps(g, h) => handler'[g].raced = TRUE
         /\ g # h /\ ~Overlaps(g, h) => handler'[g] = handler[g]
<1>1. handler[g] \in HandlerStates /\ now \in Moments  BY InHand DEF StoreOK
<1>2. CASE g = h
  <2>1. handler'[g] = [handler[g] EXCEPT !.pc = "enqueue", !.at = now]  BY <1>2 DEF MarkSeen
  <2>2. QED  BY <1>1, <1>2, <2>1 DEF HandlerStates
<1>3. CASE g # h /\ Overlaps(g, h)
  <2>1. handler'[g] = [handler[g] EXCEPT !.raced = TRUE]  BY <1>3 DEF MarkSeen
  <2>2. QED  BY <1>1, <1>3, <2>1 DEF HandlerStates
<1>4. CASE g # h /\ ~Overlaps(g, h)
  <2>1. handler'[g] = handler[g]  BY <1>4 DEF MarkSeen
  <2>2. QED  BY <1>1, <1>4, <2>1
<1>5. QED  BY <1>2, <1>3, <1>4

\* A handler goes from one state to another, the others stay.
LEMMA HandlerMoves ==
  ASSUME HandlersOK, NEW h \in Handlers, NEW x \in HandlerStates,
         handler' = [handler EXCEPT ![h] = x],
         x.pc # "idle" => x.todo # <<>>,
         x.pc \in {"rate", "dedupe", "mark", "enqueue"} => x.route <= Len(Routes)
  PROVE  HandlersOK'
<1>1. handler' \in [Handlers -> HandlerStates]  BY DEF HandlersOK
<1>2. ASSUME NEW g \in Handlers
      PROVE  /\ handler'[g].pc # "idle" => handler'[g].todo # <<>>
             /\ handler'[g].pc \in {"rate", "dedupe", "mark", "enqueue"} => handler'[g].route <= Len(Routes)
  <2>1. CASE g = h
    <3>1. handler'[g] = x  BY <2>1 DEF HandlersOK
    <3>2. QED  BY <3>1
  <2>2. CASE g # h
    <3>1. handler'[g] = handler[g]  BY <2>2 DEF HandlersOK
    <3>2. QED  BY <3>1 DEF HandlersOK
  <2>3. QED  BY <2>1, <2>2
<1>3. QED  BY <1>1, <1>2 DEF HandlersOK

LEMMA GoesTo ==
  ASSUME HandlersOK, NEW h \in Handlers,
         NEW pc \in {"match", "rate", "dedupe", "mark"}, Goto(h, pc),
         handler[h].pc # "idle", pc = "match" \/ handler[h].route <= Len(Routes)
  PROVE  HandlersOK'
<1> DEFINE x == [pc |-> pc, todo |-> handler[h].todo, route |-> handler[h].route,
                 at |-> handler[h].at, raced |-> handler[h].raced]
<1>1. handler[h] \in HandlerStates  BY InHand
<1>2. [handler[h] EXCEPT !.pc = pc] = x  BY <1>1 DEF HandlerStates
<1>3. x \in HandlerStates  BY <1>1 DEF HandlerStates
<1>4. handler' = [handler EXCEPT ![h] = x]  BY <1>2 DEF Goto
<1>5. x.todo # <<>>  BY DEF HandlersOK
<1>6. x.pc = pc /\ x.route = handler[h].route  OBVIOUS
<1> HIDE DEF x
<1>7. QED  BY <1>3, <1>4, <1>5, <1>6, HandlerMoves

LEMMA ToNextRoute ==
  ASSUME HandlersOK, NEW h \in Handlers, NextRoute(h),
         handler[h].pc # "idle", handler[h].route <= Len(Routes)
  PROVE  HandlersOK'
<1> DEFINE x == [pc |-> "match", todo |-> handler[h].todo, route |-> handler[h].route + 1, at |-> 0, raced |-> FALSE]
<1>1. handler[h] \in HandlerStates  BY InHand
<1>3. x \in HandlerStates  BY <1>1, Numbers DEF HandlerStates
<1>4. handler' = [handler EXCEPT ![h] = x]  BY DEF NextRoute
<1>5. x.todo # <<>> /\ x.pc = "match"  BY DEF HandlersOK
<1> HIDE DEF x
<1>6. QED  BY <1>3, <1>4, <1>5, HandlerMoves

LEMMA ToNextAlert ==
  ASSUME HandlersOK, NEW h \in Handlers, NextAlert(h), handler[h].pc # "idle"
  PROVE  HandlersOK'
<1>1. handler[h] \in HandlerStates /\ handler[h].todo \in Seq(Alerts) /\ handler[h].todo # <<>>
  BY InHand DEF HandlersOK, HandlerStates
<1>2. CASE Len(handler[h].todo) = 1
  <2>1. handler' = [handler EXCEPT ![h] = IdleHandler]  BY <1>2 DEF NextAlert
  <2>2. IdleHandler.pc = "idle"  BY DEF IdleHandler
  <2>3. QED  BY <2>1, <2>2, IdleIsState, HandlerMoves
<1>3. CASE Len(handler[h].todo) # 1
  <2> DEFINE x == [pc |-> "silence", todo |-> Tail(handler[h].todo), route |-> 1, at |-> 0, raced |-> FALSE]
  <2>1. Tail(handler[h].todo) \in Seq(Alerts) /\ Tail(handler[h].todo) # <<>>
    <3> HIDE DEF x
    <3>1. QED  BY <1>1, <1>3, TailLeft
  <2>2. x \in HandlerStates  BY <2>1, Numbers DEF HandlerStates
  <2>4. handler' = [handler EXCEPT ![h] = x]  BY <1>3 DEF NextAlert, Begun
  <2>5. x.todo # <<>> /\ x.pc = "silence"  BY <2>1
  <2> HIDE DEF x
  <2>6. QED  BY <2>2, <2>4, <2>5, HandlerMoves
<1>4. QED  BY <1>2, <1>3

\* Types hold initially.
LEMMA TypeInit == Init => TypeInv
<1> SUFFICES ASSUME Init PROVE TypeInv
  OBVIOUS
<1>1. StoreOK
  <2>1. now \in Moments /\ posts \in 0 .. MaxPosts /\ restarts \in 0 .. MaxRestarts
    BY Numbers DEF Init
  <2>2. QED  BY <2>1 DEF Init, StoreOK
<1>2. HandlersOK
  <2>1. handler \in [Handlers -> HandlerStates]  BY IdleIsState DEF Init
  <2>2. QED  BY <2>1 DEF Init, HandlersOK, IdleHandler
<1>3. QueuesOK
  <2>1. worker \in [RouteNames -> WorkerStates]  BY NewIsState DEF Init
  <2>2. \A rt \in RouteNames : Len(queue[rt]) <= Capacity  BY Numbers DEF Init
  <2>3. QED  BY <2>1, <2>2 DEF Init, QueuesOK, Received2
<1>4. QED  BY <1>1, <1>2, <1>3 DEF TypeInv

\* Every step of a handler moves it to a state of its type.
LEMMA HandlerStep ==
  ASSUME HandlersOK, StoreOK, NEW h \in Handlers, Ingest(h)
  PROVE  HandlersOK'
<1> USE DEF At
<1>1. CASE CheckSilence(h)
  BY <1>1, ToNextAlert, GoesTo DEF CheckSilence
<1>2. CASE MatchRoute(h)
  <2>1. CASE handler[h].route > Len(Routes)
    BY <1>2, <2>1, ToNextAlert DEF MatchRoute
  <2>2. CASE ~(handler[h].route > Len(Routes))
    <3>1. handler[h].route <= Len(Routes)
      BY <2>2, InHand, Numbers DEF HandlerStates
    <3>2. QED  BY <1>2, <2>2, <3>1, GoesTo, ToNextRoute DEF MatchRoute
  <2>3. QED  BY <2>1, <2>2
<1>3. CASE IncRate(h)
  <2>1. handler[h].pc = "rate" /\ (Goto(h, "dedupe") \/ NextRoute(h))  BY <1>3 DEF IncRate
  <2>2. handler[h].route <= Len(Routes)  BY <2>1 DEF HandlersOK
  <2>3. QED  BY <2>1, <2>2, GoesTo, ToNextRoute
<1>4. CASE CheckSeen(h)
  <2>1. handler[h].pc = "dedupe" /\ (Goto(h, "mark") \/ NextRoute(h))  BY <1>4 DEF CheckSeen
  <2>2. handler[h].route <= Len(Routes)  BY <2>1 DEF HandlersOK
  <2>3. QED  BY <2>1, <2>2, GoesTo, ToNextRoute
<1>5. CASE MarkSeen(h)
  <2>1. \A g \in Handlers : handler'[g] \in HandlerStates  BY <1>5, Marking
  <2>2. handler' = [g \in Handlers |-> handler'[g]]  BY <1>5 DEF MarkSeen
  <2>3. handler[h].pc = "mark"  BY <1>5 DEF MarkSeen
  <2>4. ASSUME NEW g \in Handlers
        PROVE  /\ handler'[g].pc # "idle" => handler'[g].todo # <<>>
               /\ handler'[g].pc \in {"rate", "dedupe", "mark", "enqueue"} => handler'[g].route <= Len(Routes)
    <3>1. handler'[g].todo = handler[g].todo /\ handler'[g].route = handler[g].route
      BY <1>5, Marking
    <3>2. handler[g].pc = "mark" \/ handler'[g].pc = handler[g].pc
      BY <1>5, <2>3, Marking
    <3>3. QED  BY <3>1, <3>2 DEF HandlersOK
  <2>5. QED  BY <2>1, <2>2, <2>4 DEF HandlersOK
<1>6. CASE Enqueue(h)
  <2>1. handler[h].pc = "enqueue" /\ NextRoute(h)  BY <1>6 DEF Enqueue
  <2>2. handler[h].route <= Len(Routes)  BY <2>1 DEF HandlersOK
  <2>3. QED  BY <2>1, <2>2, ToNextRoute
<1>7. QED  BY <1>1, <1>2, <1>3, <1>4, <1>5, <1>6 DEF Ingest

\* The end of a flush and its beginning keep the workers' types.
LEMMA SettleTyped ==
  ASSUME QueuesOK, NEW rt \in RouteNames, NEW leaving \in BOOLEAN, Settle(rt, leaving)
  PROVE  worker' \in [RouteNames -> WorkerStates] /\ settled' \in [RouteNames -> Seq(Entry)]
<1> DEFINE x == [pc |-> IF leaving THEN "stopped" ELSE "select", batch |-> <<>>, leaving |-> FALSE]
<1>1. worker \in [RouteNames -> WorkerStates] /\ worker[rt].batch \in Seq(Entry)
      /\ settled[rt] \in Seq(Entry)
  BY DEF QueuesOK, WorkerStates
<1>2. x \in WorkerStates  BY DEF WorkerStates
<1>3. worker' = [worker EXCEPT ![rt] = x]  BY DEF Settle
<1> HIDE DEF x
<1>4. worker' \in [RouteNames -> WorkerStates]  BY <1>1, <1>2, <1>3
<1>5. settled[rt] \o worker[rt].batch \in Seq(Entry)  BY <1>1
<1>6. settled' \in [RouteNames -> Seq(Entry)]  BY <1>5 DEF Settle, QueuesOK
<1>7. QED  BY <1>4, <1>6

LEMMA BeginFlushTyped ==
  ASSUME QueuesOK, NEW rt \in RouteNames, NEW leaving \in BOOLEAN, BeginFlush(rt, leaving)
  PROVE  worker' \in [RouteNames -> WorkerStates] /\ settled' \in [RouteNames -> Seq(Entry)]
<1> DEFINE first == NextChannel(rt, {})
           x == [pc |-> first, batch |-> worker[rt].batch, leaving |-> leaving]
<1>1. CASE first = "settle"  BY <1>1, SettleTyped DEF BeginFlush
<1>2. CASE first # "settle"
  <2>1. first \in {"slack", "email"}  BY <1>2 DEF NextChannel
  <2>2. worker \in [RouteNames -> WorkerStates]  BY DEF QueuesOK
  <2>3. x \in WorkerStates  BY <2>1, <2>2 DEF WorkerStates
  <2>4. worker' = [worker EXCEPT ![rt] = x] /\ settled' = settled  BY <1>2 DEF BeginFlush
  <2> HIDE DEF x
  <2>5. QED  BY <2>2, <2>3, <2>4 DEF QueuesOK
<1>3. QED  BY <1>1, <1>2

\* A worker that moves to another step of the flush.
LEMMA WorkerGoesOn ==
  ASSUME QueuesOK, NEW rt \in RouteNames, NEW pc \in {"slack", "email", "stopped"},
         worker' = [worker EXCEPT ![rt].pc = pc]
  PROVE  worker' \in [RouteNames -> WorkerStates]
<1>1. worker \in [RouteNames -> WorkerStates]  BY DEF QueuesOK
<1>2. [worker[rt] EXCEPT !.pc = pc] \in WorkerStates  BY <1>1 DEF WorkerStates
<1>3. QED  BY <1>1, <1>2

LEMMA SleepTyped ==
  ASSUME QueuesOK, NEW rt \in RouteNames, SleepOn(rt)
  PROVE  worker' \in [RouteNames -> WorkerStates]
<1> DEFINE x == [pc |-> "backoff", batch |-> worker[rt].batch, leaving |-> worker[rt].leaving]
<1>1. worker \in [RouteNames -> WorkerStates]  BY DEF QueuesOK
<1>2. x \in WorkerStates  BY <1>1 DEF WorkerStates
<1>3. worker' = [worker EXCEPT ![rt] = x]  BY DEF SleepOn
<1> HIDE DEF x
<1>4. QED  BY <1>1, <1>2, <1>3

\* What a batch holds, and what adding it to a set of entries gives.
LEMMA BatchIsEntries ==
  ASSUME QueuesOK, NEW rt \in RouteNames
  PROVE  worker[rt].batch \in Seq(Entry) /\ ToSet(worker[rt].batch) \in SUBSET Entry
         /\ worker[rt].leaving \in BOOLEAN
<1>1. worker[rt] \in WorkerStates  BY DEF QueuesOK
<1>2. worker[rt].batch \in Seq(Entry) /\ worker[rt].leaving \in BOOLEAN  BY <1>1 DEF WorkerStates
<1>3. QED  BY <1>2 DEF ToSet

LEMMA GivenTyped ==
  ASSUME QueuesOK, NEW rt \in RouteNames, NEW c \in {"slack", "email"},
         received' = [received EXCEPT ![rt][c] = @ \union ToSet(worker[rt].batch)]
  PROVE  received' \in [RouteNames -> Received2]
<1>1. received \in [RouteNames -> Received2]  BY DEF QueuesOK
<1>2. received[rt] \in Received2  BY <1>1
<1>3. [received[rt] EXCEPT ![c] = @ \union ToSet(worker[rt].batch)] \in Received2
  BY <1>2, BatchIsEntries DEF Received2
<1>4. QED  BY <1>1, <1>3

\* The disjuncts of Next, named as the proofs split it.
IngestStep  == \E h \in Handlers : Ingest(h)
PostStep    == \E h \in Handlers : \E payload \in Payloads : Post(h, payload)
ReceiveStep == \E rt \in RouteNames : Receive(rt)
WorkStep    == \E rt \in RouteNames : Work(rt)
PutStep     == \E s \in Silences, until \in Moments : PutSilence(s, until)

LEMMA NextSplits ==
  Next => \/ IngestStep \/ PostStep \/ ReceiveStep \/ WorkStep \/ PutStep
          \/ PurgeExpiredSilences \/ Tick \/ Cancel \/ Restart
BY DEF Next, IngestStep, PostStep, ReceiveStep, WorkStep, PutStep

\* The database, the clock and the counters keep their types.
LEMMA StoreStep ==
  ASSUME StoreOK, HandlersOK, Next
  PROVE  StoreOK'
<1> USE DEF stored, bounded
<1>1. CASE IngestStep
  <2> PICK h \in Handlers : Ingest(h)  BY <1>1 DEF IngestStep
  <2>1. CASE CheckSilence(h) \/ MatchRoute(h) \/ CheckSeen(h) \/ Enqueue(h)
    BY <2>1 DEF CheckSilence, MatchRoute, CheckSeen, Enqueue, StoreOK
  <2>2. CASE IncRate(h)
    <3> DEFINE rt == Route(h)
               minute == now \div MinuteTicks
    <3>1. rt \in RouteNames  BY <2>2, InHand DEF IncRate, At
    <3>2. minute \in 0 .. Horizon \div MinuteTicks  BY MinuteOfNow DEF StoreOK
    <3>3. rate' = rate \/ rate' = [rate EXCEPT ![rt][minute] = @ + 1]
      BY <2>2 DEF IncRate
    <3>4. UNCHANGED <<now, seen, silence, stopping, posts, restarts>>  BY <2>2 DEF IncRate
    <3> HIDE DEF rt, minute
    <3>5. rate' \in [RouteNames -> [0 .. Horizon \div MinuteTicks -> Nat]]
      <4>1. rate[rt] \in [0 .. Horizon \div MinuteTicks -> Nat]  BY <3>1 DEF StoreOK
      <4>2. rate[rt][minute] \in Nat  BY <3>2, <4>1, Zenon
      <4>3. rate[rt][minute] + 1 \in Nat  BY <4>2
      <4>4. [rate[rt] EXCEPT ![minute] = @ + 1] \in [0 .. Horizon \div MinuteTicks -> Nat]
        BY <4>1, <4>3, <3>2
      <4>5. QED  BY <3>1, <3>3, <4>4 DEF StoreOK
    <3>6. QED  BY <3>4, <3>5 DEF StoreOK
  <2>3. CASE MarkSeen(h)
    <3>1. now \in Nat /\ now <= Horizon  BY Numbers DEF StoreOK, Moments
    <3>2. Truncated(now) \in Moments  BY <3>1, Seconds, Numbers DEF Moments
    <3>3. seen' \in [Alerts -> Moments \union {Never}]  BY <2>3, <3>2 DEF MarkSeen, StoreOK
    <3>4. QED  BY <2>3, <3>3 DEF MarkSeen, StoreOK
  <2>4. QED  BY <2>1, <2>2, <2>3 DEF Ingest
<1>2. CASE PostStep
  <2>1. posts \in 0 .. MaxPosts /\ posts < MaxPosts /\ posts' = posts + 1
    BY <1>2 DEF PostStep, Post, StoreOK
  <2>2. posts' \in 0 .. MaxPosts  BY <2>1, Numbers
  <2>3. QED  BY <1>2, <2>2 DEF PostStep, Post, StoreOK
<1>3. CASE ReceiveStep  BY <1>3 DEF ReceiveStep, Receive, StoreOK
<1>4. CASE WorkStep
  <2>1. UNCHANGED <<now, seen, rate, silence, stopping, posts, restarts>>
    BY <1>4 DEF WorkStep, Work, TimedWork, SendSlack, SendEmail, TickerFlush, LeaveFlush, WakeUp, Delivered, Failed
  <2>2. QED  BY <2>1 DEF StoreOK
<1>5. CASE PutStep  BY <1>5 DEF PutStep, PutSilence, StoreOK
<1>6. CASE PurgeExpiredSilences  BY <1>6 DEF PurgeExpiredSilences, StoreOK
<1>7. CASE Tick
  <2>1. now' \in Moments  BY <1>7, Numbers DEF Tick, StoreOK, Moments
  <2>2. QED  BY <1>7, <2>1 DEF Tick, StoreOK
<1>8. CASE Cancel  BY <1>8 DEF Cancel, StoreOK
<1>9. CASE Restart
  <2>1. restarts' \in 0 .. MaxRestarts  BY <1>9, Numbers DEF Restart, StoreOK
  <2>2. QED  BY <1>9, <2>1 DEF Restart, StoreOK
<1>10. QED
  BY <1>1, <1>2, <1>3, <1>4, <1>5, <1>6, <1>7, <1>8, <1>9, NextSplits

\* The handlers keep theirs.
LEMMA HandlersStep ==
  ASSUME StoreOK, HandlersOK, Next
  PROVE  HandlersOK'
<1>1. CASE IngestStep  BY <1>1, HandlerStep DEF IngestStep
<1>2. CASE PostStep
  <2> PICK h \in Handlers, payload \in Payloads : Post(h, payload)  BY <1>2 DEF PostStep
  <2> DEFINE x == [pc |-> "silence", todo |-> payload, route |-> 1, at |-> 0, raced |-> FALSE]
  <2>1. payload \in Seq(Alerts) /\ payload # <<>>  BY PayloadsAssumption
  <2>2. x \in HandlerStates  BY <2>1, Numbers DEF HandlerStates
  <2>3. handler' = [handler EXCEPT ![h] = x]  BY DEF Post, Begun
  <2>4. x.todo # <<>> /\ x.pc = "silence"  BY <2>1
  <2> HIDE DEF x
  <2>5. QED  BY <2>2, <2>3, <2>4, HandlerMoves
<1>3. CASE Restart
  <2>1. handler' \in [Handlers -> HandlerStates]  BY <1>3, IdleIsState DEF Restart
  <2>2. QED  BY <1>3, <2>1 DEF Restart, HandlersOK, IdleHandler
<1>4. CASE ReceiveStep \/ WorkStep \/ PutStep \/ PurgeExpiredSilences \/ Tick \/ Cancel
  <2>1. handler' = handler
    BY <1>4 DEF ReceiveStep, Receive, WorkStep, Work, TimedWork, SendSlack, SendEmail, TickerFlush, LeaveFlush, WakeUp, Delivered,
                Failed, PutStep, PutSilence, PurgeExpiredSilences, Tick, Cancel
  <2>2. QED  BY <2>1 DEF HandlersOK
<1>5. QED  BY <1>1, <1>2, <1>3, <1>4, NextSplits

\* The queues, the workers and the histories keep theirs.
LEMMA QueuesStep ==
  ASSUME TypeInv, Next
  PROVE  QueuesOK'
<1> USE DEF stored, history
<1>0. StoreOK /\ HandlersOK /\ QueuesOK  BY DEF TypeInv
<1>1. CASE IngestStep
  <2> PICK h \in Handlers : Ingest(h)  BY <1>1 DEF IngestStep
  <2>1. CASE CheckSilence(h) \/ MatchRoute(h) \/ IncRate(h) \/ CheckSeen(h) \/ MarkSeen(h)
    BY <1>0, <2>1 DEF CheckSilence, MatchRoute, IncRate, CheckSeen, MarkSeen, QueuesOK
  <2>2. CASE Enqueue(h)
    <3> DEFINE rt == Route(h)
               entry == Held(h)
    <3>1. rt \in RouteNames /\ handler[h].pc # "idle"
      BY <1>0, <2>2, InHand DEF Enqueue, At
    <3>2. entry \in Entry  BY <1>0, <3>1, HeldIsEntry
    <3>3. UNCHANGED <<dlq, worker, settled, received>>  BY <2>2 DEF Enqueue
    <3>4. CASE ~HasRoom(rt)
      BY <1>0, <2>2, <3>3, <3>4 DEF Enqueue, QueuesOK
    <3>5. CASE HasRoom(rt)
      <4>1. queue' = [queue EXCEPT ![rt] = Append(@, entry)]
            /\ accepted' = [accepted EXCEPT ![rt] = Append(@, entry)]
        BY <2>2, <3>5 DEF Enqueue
      <4>2. queue[rt] \in Seq(Entry) /\ accepted[rt] \in Seq(Entry) /\ Len(queue[rt]) < Capacity
        BY <1>0, <3>1, <3>5 DEF QueuesOK, HasRoom
      <4> HIDE DEF rt, entry
      <4>3. Append(queue[rt], entry) \in Seq(Entry) /\ Append(accepted[rt], entry) \in Seq(Entry)
            /\ Len(Append(queue[rt], entry)) = Len(queue[rt]) + 1 /\ Len(queue[rt]) \in Nat
        BY <3>2, <4>2
      <4>4. queue' \in [RouteNames -> Seq(Entry)] /\ accepted' \in [RouteNames -> Seq(Entry)]
        BY <1>0, <4>1, <4>3 DEF QueuesOK
      <4>5. Len(Append(queue[rt], entry)) <= Capacity  BY <4>2, <4>3, Numbers
      <4>6. \A r \in RouteNames : Len(queue'[r]) <= Capacity
        BY <1>0, <4>1, <4>5 DEF QueuesOK
      <4>7. QED  BY <1>0, <3>3, <4>4, <4>6 DEF QueuesOK
    <3>6. QED  BY <3>4, <3>5
  <2>3. QED  BY <2>1, <2>2 DEF Ingest
<1>2. CASE ReceiveStep
  <2> PICK rt \in RouteNames : Receive(rt)  BY <1>2 DEF ReceiveStep
  <2> DEFINE b == Append(worker[rt].batch, Head(queue[rt]))
  <2>1. queue[rt] \in Seq(Entry) /\ queue[rt] # <<>> /\ Len(queue[rt]) <= Capacity
        /\ worker[rt] \in WorkerStates
    BY <1>0 DEF Receive, QueuesOK
  <2>2. Head(queue[rt]) \in Entry /\ Tail(queue[rt]) \in Seq(Entry)
        /\ Len(Tail(queue[rt])) = Len(queue[rt]) - 1 /\ Len(queue[rt]) \in Nat
    BY <2>1
  <2>3. b \in Seq(Entry)  BY <1>0, <2>2, BatchIsEntries
  <2> HIDE DEF b
  <2>4. [worker[rt] EXCEPT !.batch = b] \in WorkerStates  BY <2>1, <2>3 DEF WorkerStates
  <2>5. worker' = [worker EXCEPT ![rt] = [worker[rt] EXCEPT !.batch = b]]  BY DEF Receive, b
  <2>6. worker' \in [RouteNames -> WorkerStates]  BY <1>0, <2>4, <2>5 DEF QueuesOK
  <2>7. queue' = [queue EXCEPT ![rt] = Tail(queue[rt])]  BY DEF Receive
  <2>8. queue' \in [RouteNames -> Seq(Entry)]  BY <1>0, <2>2, <2>7 DEF QueuesOK
  <2>9. Len(Tail(queue[rt])) <= Capacity  BY <2>1, <2>2, Numbers
  <2>10. \A r \in RouteNames : Len(queue'[r]) <= Capacity  BY <1>0, <2>7, <2>9 DEF QueuesOK
  <2>11. QED  BY <1>0, <2>6, <2>8, <2>10 DEF QueuesOK, Receive
<1>3. CASE WorkStep
  <2> PICK rt \in RouteNames : Work(rt)  BY <1>3 DEF WorkStep
  <2>1. CASE TickerFlush(rt)
    <3>1. worker' \in [RouteNames -> WorkerStates] /\ settled' \in [RouteNames -> Seq(Entry)]
      BY <1>0, <2>1, BeginFlushTyped DEF TickerFlush
    <3>2. QED  BY <1>0, <2>1, <3>1 DEF TickerFlush, QueuesOK
  <2>2. CASE LeaveFlush(rt)
    <3>1. worker' \in [RouteNames -> WorkerStates] /\ settled' \in [RouteNames -> Seq(Entry)]
      <4>1. CASE worker[rt].batch # <<>>
        BY <1>0, <2>2, <4>1, BeginFlushTyped DEF LeaveFlush
      <4>2. CASE worker[rt].batch = <<>>
        <5>1. worker' = [worker EXCEPT ![rt].pc = "stopped"] /\ settled' = settled
          BY <2>2, <4>2 DEF LeaveFlush
        <5>2. QED  BY <1>0, <5>1, WorkerGoesOn DEF QueuesOK
      <4>3. QED  BY <4>1, <4>2
    <3>2. QED  BY <1>0, <2>2, <3>1 DEF LeaveFlush, QueuesOK
  <2>3. CASE WakeUp(rt)
    <3>1. worker' \in [RouteNames -> WorkerStates] /\ settled' \in [RouteNames -> Seq(Entry)]
      BY <1>0, <2>3, SettleTyped, BatchIsEntries DEF WakeUp
    <3>2. QED  BY <1>0, <2>3, <3>1 DEF WakeUp, QueuesOK
  <2>4. ASSUME NEW c \in {"slack", "email"}, Delivered(rt, c) PROVE QueuesOK'
    <3>1. received' \in [RouteNames -> Received2]  BY <1>0, <2>4, GivenTyped DEF Delivered
    <3>2. worker' \in [RouteNames -> WorkerStates] /\ settled' \in [RouteNames -> Seq(Entry)]
      <4> DEFINE next == NextChannel(rt, {"slack", c})
      <4>1. CASE next = "settle"
        BY <1>0, <2>4, <4>1, SettleTyped, BatchIsEntries DEF Delivered
      <4>2. CASE next # "settle"
        <5>1. next \in {"slack", "email", "stopped"}  BY <4>2 DEF NextChannel
        <5>2. worker' = [worker EXCEPT ![rt].pc = next] /\ settled' = settled
          BY <2>4, <4>2 DEF Delivered
        <5> HIDE DEF next
        <5>3. QED  BY <1>0, <5>1, <5>2, WorkerGoesOn DEF QueuesOK
      <4>3. QED  BY <4>1, <4>2
    <3>3. UNCHANGED <<dlq, queue, accepted>>  BY <2>4 DEF Delivered
    <3>4. QED  BY <1>0, <3>1, <3>2, <3>3 DEF QueuesOK
  <2>5. ASSUME NEW c \in {"slack", "email"}, Failed(rt, c) PROVE QueuesOK'
    <3>1. received' \in [RouteNames -> Received2]
      <4>1. CASE received' = received  BY <1>0, <4>1 DEF QueuesOK
      <4>2. CASE received' = [received EXCEPT ![rt][c] = @ \union ToSet(worker[rt].batch)]
        BY <1>0, <4>2, GivenTyped
      <4>3. QED  BY <2>5, <4>1, <4>2 DEF Failed
    <3>2. worker' \in [RouteNames -> WorkerStates]  BY <1>0, <2>5, SleepTyped DEF Failed
    <3>3. dlq' \in [RouteNames -> SUBSET Entry]
      <4>1. dlq' = [dlq EXCEPT ![rt] = dlq[rt] \union ToSet(worker[rt].batch)]  BY <2>5 DEF Failed
      <4>2. QED  BY <1>0, <4>1, BatchIsEntries DEF QueuesOK
    <3>4. UNCHANGED <<queue, accepted, settled>>  BY <2>5 DEF Failed
    <3>5. QED  BY <1>0, <3>1, <3>2, <3>3, <3>4 DEF QueuesOK
  <2>6. QED  BY <2>1, <2>2, <2>3, <2>4, <2>5 DEF Work, TimedWork, SendSlack, SendEmail
<1>4. CASE Restart
  <2>1. worker' \in [RouteNames -> WorkerStates]  BY <1>4, NewIsState DEF Restart
  <2>2. \A r \in RouteNames : Len(queue'[r]) <= Capacity  BY <1>4, Numbers DEF Restart
  <2>3. QED  BY <1>0, <1>4, <2>1, <2>2 DEF Restart, QueuesOK
<1>5. CASE PostStep \/ PutStep \/ PurgeExpiredSilences \/ Tick \/ Cancel
  <2>1. UNCHANGED <<dlq, queue, worker, accepted, settled, received>>
    BY <1>5 DEF PostStep, Post, PutStep, PutSilence, PurgeExpiredSilences, Tick, Cancel
  <2>2. QED  BY <1>0, <2>1 DEF QueuesOK
<1>6. QED  BY <1>1, <1>2, <1>3, <1>4, <1>5, NextSplits

LEMMA TypeStep == TypeInv /\ [Next]_vars => TypeInv'
<1> SUFFICES ASSUME TypeInv, [Next]_vars PROVE TypeInv'
  OBVIOUS
<1>1. CASE Next  BY <1>1, StoreStep, HandlersStep, QueuesStep DEF TypeInv
<1>2. CASE UNCHANGED vars
  BY <1>2 DEF vars, stored, bounded, history, TypeInv, StoreOK, HandlersOK, QueuesOK
<1>3. QED  BY <1>1, <1>2

\* Every variable has its type, in every reachable state.
THEOREM TypeCorrect == Spec => []TypeOK
<1>1. Spec => []TypeInv  BY TypeInit, TypeStep, PTL DEF Spec
<1>2. QED  BY <1>1, InvIsTyped, PTL

-----------------------------------------------------------------------------
(* Nothing is lost inside.                                                 *)

\* A worker's step passes entries on from its batch, none is lost or added.
LEMMA WorkPassesOn ==
  ASSUME QueuesOK, NEW rt \in RouteNames, Work(rt), NEW r \in RouteNames
  PROVE  settled'[r] \o worker'[r].batch = settled[r] \o worker[r].batch
<1>1. worker \in [RouteNames -> WorkerStates] /\ settled \in [RouteNames -> Seq(Entry)]
      /\ settled[r] \in Seq(Entry) /\ worker[r].batch \in Seq(Entry) /\ worker[r] \in WorkerStates
  BY BatchIsEntries DEF QueuesOK
<1>2. ASSUME NEW leaving, Settle(rt, leaving)
      PROVE  settled'[r] \o worker'[r].batch = settled[r] \o worker[r].batch
  <2>1. CASE r = rt
    <3>1. settled'[r] = settled[r] \o worker[r].batch /\ worker'[r].batch = <<>>
      BY <1>1, <1>2, <2>1 DEF Settle
    <3>2. settled[r] \o worker[r].batch \in Seq(Entry)  BY <1>1
    <3>3. QED  BY <3>1, <3>2, ConcatEmpty
  <2>2. CASE r # rt  BY <1>1, <1>2, <2>2 DEF Settle
  <2>3. QED  BY <2>1, <2>2
<1>3. ASSUME NEW leaving, BeginFlush(rt, leaving)
      PROVE  settled'[r] \o worker'[r].batch = settled[r] \o worker[r].batch
  <2>1. CASE NextChannel(rt, {}) = "settle"  BY <1>2, <1>3, <2>1 DEF BeginFlush
  <2>2. CASE NextChannel(rt, {}) # "settle"
    <3> DEFINE x == [pc |-> NextChannel(rt, {}), batch |-> worker[rt].batch,
                     leaving |-> leaving]
    <3>1. worker' = [worker EXCEPT ![rt] = x] /\ settled' = settled
      BY <1>3, <2>2 DEF BeginFlush
    <3>2. x.batch = worker[rt].batch  OBVIOUS
    <3> HIDE DEF x
    <3>3. worker'[r].batch = worker[r].batch  BY <1>1, <3>1, <3>2
    <3>4. QED  BY <3>1, <3>3
  <2>3. QED  BY <2>1, <2>2
<1>4. ASSUME NEW pc, worker' = [worker EXCEPT ![rt].pc = pc], settled' = settled
      PROVE  settled'[r] \o worker'[r].batch = settled[r] \o worker[r].batch
  <2>1. worker'[r].batch = worker[r].batch  BY <1>1, <1>4 DEF WorkerStates
  <2>2. QED  BY <1>4, <2>1
<1>5. CASE TickerFlush(rt)  BY <1>5, <1>3 DEF TickerFlush
<1>6. CASE LeaveFlush(rt)  BY <1>6, <1>3, <1>4 DEF LeaveFlush
<1>7. CASE WakeUp(rt)  BY <1>7, <1>2 DEF WakeUp
<1>8. ASSUME NEW c \in {"slack", "email"}, Delivered(rt, c)
      PROVE  settled'[r] \o worker'[r].batch = settled[r] \o worker[r].batch
  BY <1>8, <1>2, <1>4 DEF Delivered
<1>9. ASSUME NEW c \in {"slack", "email"}, Failed(rt, c)
      PROVE  settled'[r] \o worker'[r].batch = settled[r] \o worker[r].batch
  <2>1. worker'[r].batch = worker[r].batch /\ settled' = settled
    BY <1>1, <1>9 DEF Failed, SleepOn
  <2>2. QED  BY <2>1
<1>10. QED  BY <1>5, <1>6, <1>7, <1>8, <1>9 DEF Work, TimedWork, SendSlack, SendEmail

LEMMA NothingLostStep ==
  ASSUME TypeInv, NothingLostInside, [Next]_vars
  PROVE  NothingLostInside'
<1> USE DEF stored, history, bounded
<1> SUFFICES ASSUME restarts' = 0, NEW r \in RouteNames
    PROVE  accepted'[r] = settled'[r] \o worker'[r].batch \o queue'[r]
  BY DEF NothingLostInside
<1> DEFINE Holds == accepted'[r] = settled'[r] \o worker'[r].batch \o queue'[r]
<1>0. StoreOK /\ HandlersOK /\ QueuesOK  BY DEF TypeInv
<1>1. /\ settled[r] \in Seq(Entry) /\ queue[r] \in Seq(Entry) /\ worker[r].batch \in Seq(Entry)
      /\ accepted \in [RouteNames -> Seq(Entry)] /\ queue \in [RouteNames -> Seq(Entry)]
  BY <1>0, BatchIsEntries DEF QueuesOK
<1>2. ASSUME restarts' = restarts
      PROVE  accepted[r] = settled[r] \o worker[r].batch \o queue[r]
  BY <1>2 DEF NothingLostInside
<1>3. ASSUME UNCHANGED <<restarts, accepted, settled, worker, queue>> PROVE Holds
  BY <1>2, <1>3
<1>4. CASE IngestStep
  <2> PICK h \in Handlers : Ingest(h)  BY <1>4 DEF IngestStep
  <2>1. CASE CheckSilence(h) \/ MatchRoute(h) \/ IncRate(h) \/ CheckSeen(h) \/ MarkSeen(h)
    BY <2>1, <1>3 DEF CheckSilence, MatchRoute, IncRate, CheckSeen, MarkSeen
  <2>2. CASE Enqueue(h)
    <3> DEFINE rt == Route(h)
               entry == Held(h)
    <3>1. UNCHANGED <<restarts, settled, worker>>  BY <2>2 DEF Enqueue
    <3>2. CASE ~HasRoom(rt)  BY <1>3, <2>2, <3>1, <3>2 DEF Enqueue
    <3>3. CASE HasRoom(rt)
      <4>1. entry \in Entry
        BY <1>0, <2>2, HeldIsEntry DEF Enqueue, At
      <4>2. queue' = [queue EXCEPT ![rt] = Append(@, entry)]
            /\ accepted' = [accepted EXCEPT ![rt] = Append(@, entry)]
        BY <2>2, <3>3 DEF Enqueue
      <4>3. CASE r = rt
        <5>1. queue'[r] = Append(queue[r], entry) /\ accepted'[r] = Append(accepted[r], entry)
          BY <1>1, <4>2, <4>3
        <5> DEFINE done == settled[r] \o worker[r].batch
                   q == queue[r]
        <5> HIDE DEF entry, rt
        <5>2. done \in Seq(Entry) /\ q \in Seq(Entry)  BY <1>1
        <5>3. accepted'[r] = Append(done \o q, entry) /\ queue'[r] = Append(q, entry)
              /\ settled'[r] \o worker'[r].batch = done
          BY <1>2, <3>1, <5>1, Zenon
        <5> HIDE DEF done, q
        <5>4. Append(done \o q, entry) = done \o Append(q, entry)  BY <4>1, <5>2
        <5>5. QED  BY <5>3, <5>4, Zenon
      <4>4. CASE r # rt
        <5>1. queue'[r] = queue[r] /\ accepted'[r] = accepted[r]  BY <1>1, <4>2, <4>4
        <5>2. QED  BY <1>2, <3>1, <5>1
      <4>5. QED  BY <4>3, <4>4
    <3>4. QED  BY <3>2, <3>3
  <2>3. QED  BY <2>1, <2>2 DEF Ingest
<1>5. CASE ReceiveStep
  <2> PICK rt \in RouteNames : Receive(rt)  BY <1>5 DEF ReceiveStep
  <2>1. UNCHANGED <<restarts, accepted, settled>>  BY DEF Receive
  <2>2. CASE r = rt
    <3> DEFINE b == worker[r].batch
               q == queue[r]
               done == settled[r]
    <3>1. worker'[r].batch = Append(b, Head(q)) /\ queue'[r] = Tail(q) /\ q # <<>>
      BY <1>0, <2>2 DEF Receive, QueuesOK, WorkerStates
    <3>2. b \in Seq(Entry) /\ q \in Seq(Entry) /\ done \in Seq(Entry)  BY <1>1
    <3>0. accepted'[r] = (done \o b) \o q /\ settled'[r] = done  BY <1>2, <2>1
    <3> HIDE DEF b, q, done
    <3>3. Head(q) \in Entry /\ Tail(q) \in Seq(Entry)  BY <3>1, <3>2
    <3>4. Append(b, Head(q)) \in Seq(Entry)  BY <3>2, <3>3
    <3>5. Append(b, Head(q)) \o Tail(q) = b \o q  BY <3>1, <3>2, Received
    <3>6. (done \o b) \o q = done \o (b \o q)  BY SMTT(25), <3>2, ConcatAssociative
    <3> DEFINE longer == Append(b, Head(q))
               rest == Tail(q)
    <3> HIDE DEF longer, rest
    <3>7. (done \o longer) \o rest = done \o (longer \o rest)
      <4>1. longer \in Seq(Entry) /\ rest \in Seq(Entry)  BY <3>3, <3>4 DEF longer, rest
      <4>2. QED  BY SMTT(25), <3>2, <4>1, ConcatAssociative
    <3>8. QED  BY <3>0, <3>1, <3>5, <3>6, <3>7, Zenon DEF longer, rest
  <2>3. CASE r # rt
    <3>1. worker'[r] = worker[r] /\ queue'[r] = queue[r]
      BY <1>0, <2>3 DEF Receive, QueuesOK
    <3>2. QED  BY <1>2, <2>1, <3>1
  <2>4. QED  BY <2>2, <2>3
<1>6. CASE WorkStep
  <2> PICK rt \in RouteNames : Work(rt)  BY <1>6 DEF WorkStep
  <2>1. UNCHANGED <<restarts, queue, accepted>>
    BY DEF Work, TimedWork, SendSlack, SendEmail, TickerFlush, LeaveFlush, WakeUp, Delivered, Failed
  <2>2. settled'[r] \o worker'[r].batch = settled[r] \o worker[r].batch
    BY <1>0, WorkPassesOn
  <2>3. QED  BY <1>2, <2>1, <2>2, Zenon
<1>7. CASE PostStep \/ PutStep \/ PurgeExpiredSilences \/ Tick \/ Cancel
  BY <1>3, <1>7 DEF PostStep, Post, PutStep, PutSilence, PurgeExpiredSilences, Tick, Cancel
<1>8. CASE Restart
  <2>1. restarts \in Nat /\ restarts' = restarts + 1  BY <1>0, <1>8, Numbers DEF StoreOK, Restart
  <2>2. QED  BY <2>1
<1>9. CASE UNCHANGED vars  BY <1>3, <1>9 DEF vars
<1>10. QED  BY <1>4, <1>5, <1>6, <1>7, <1>8, <1>9, NextSplits

\* While the process has not been restarted, every alert a route's queue took
\* is settled, in the batch or still queued, once and in the order taken.
THEOREM NothingIsLostInside == Spec => []NothingLostInside
<1>1. Init => NothingLostInside
  <2> SUFFICES ASSUME Init, NEW r \in RouteNames
      PROVE  accepted[r] = settled[r] \o worker[r].batch \o queue[r]
    BY DEF NothingLostInside
  <2>1. accepted[r] = <<>> /\ settled[r] = <<>> /\ worker[r].batch = <<>> /\ queue[r] = <<>>
    BY DEF Init, NewWorker
  <2>2. <<>> \o <<>> = <<>>  OBVIOUS
  <2>3. QED  BY <2>1, <2>2
<1>2. TypeInv /\ NothingLostInside /\ [Next]_vars => NothingLostInside'  BY NothingLostStep
<1>3. QED  BY <1>1, <1>2, TypeInit, TypeStep, PTL DEF Spec

-----------------------------------------------------------------------------
(* No silent loss.                                                         *)

\* What is accounted for on a route: stored, or given to every channel.
Accounted(rt, e) == e \in dlq[rt] \/ \A c \in Channels[rt] : e \in received[rt][c]

\* A batch that is on its way to e-mail has been given to Slack where the
\* route has Slack, and one whose worker sleeps has been stored.
OnTheWay ==
  \A rt \in RouteNames :
    /\ worker[rt].pc = "email" /\ "slack" \in Channels[rt]
         => ToSet(worker[rt].batch) \subseteq received[rt]["slack"]
    /\ worker[rt].pc = "backoff" => ToSet(worker[rt].batch) \subseteq dlq[rt]

LossInv == NoSilentLoss /\ OnTheWay

\* Nothing is taken back from a channel or from the bucket.
Grows ==
  \A rt \in RouteNames :
    /\ dlq[rt] \subseteq dlq'[rt]
    /\ \A c \in {"slack", "email"} : received[rt][c] \subseteq received'[rt][c]

\* What was accounted for stays so.
LEMMA StaysAccounted ==
  ASSUME Grows, NEW rt \in RouteNames, NEW e, Accounted(rt, e)
  PROVE  Accounted(rt, e)'
<1>1. Channels[rt] \subseteq {"slack", "email"}  BY ChannelsAssumption
<1>2. QED  BY <1>1 DEF Grows, Accounted

LEMMA GivenGrows ==
  ASSUME QueuesOK, NEW rt \in RouteNames, NEW c \in {"slack", "email"},
         received' = [received EXCEPT ![rt][c] = @ \union ToSet(worker[rt].batch)]
  PROVE  /\ \A r \in RouteNames : \A d \in {"slack", "email"} : received[r][d] \subseteq received'[r][d]
         /\ ToSet(worker[rt].batch) \subseteq received'[rt][c]
<1>1. received \in [RouteNames -> Received2]  BY DEF QueuesOK
<1>2. received[rt] \in [{"slack", "email"} -> SUBSET Entry]  BY <1>1 DEF Received2
<1>3. received'[rt] = [received[rt] EXCEPT ![c] = @ \union ToSet(worker[rt].batch)]  BY <1>1
<1>4. received'[rt][c] = received[rt][c] \union ToSet(worker[rt].batch)  BY <1>2, <1>3
<1>5. \A d \in {"slack", "email"} : d # c => received'[rt][d] = received[rt][d]  BY <1>2, <1>3
<1>6. \A r \in RouteNames : r # rt => received'[r] = received[r]  BY <1>1
<1>7. QED  BY <1>4, <1>5, <1>6

\* A flush may end when the whole batch is accounted for.
LEMMA SettleAccounts ==
  ASSUME QueuesOK, LossInv, Grows, NEW rt \in RouteNames, NEW leaving, Settle(rt, leaving),
         \A e \in ToSet(worker[rt].batch) : Accounted(rt, e)'
  PROVE  LossInv'
<1>1. worker \in [RouteNames -> WorkerStates] /\ settled \in [RouteNames -> Seq(Entry)]
      /\ worker[rt].batch \in Seq(Entry)
  BY BatchIsEntries DEF QueuesOK
<1>2. NoSilentLoss'
  <2> SUFFICES ASSUME NEW r \in RouteNames, NEW e \in ToSet(settled'[r])
      PROVE  Accounted(r, e)'
    BY DEF NoSilentLoss, Accounted
  <2>1. ASSUME e \in ToSet(settled[r]) PROVE Accounted(r, e)'
    <3>1. Accounted(r, e)  BY <2>1 DEF LossInv, NoSilentLoss, Accounted
    <3>2. QED  BY <3>1, StaysAccounted
  <2>2. CASE r = rt
    <3>1. settled'[r] = settled[r] \o worker[r].batch /\ settled[r] \in Seq(Entry)
      BY <1>1, <2>2 DEF Settle
    <3>2. e \in ToSet(settled[r]) \/ e \in ToSet(worker[r].batch)
      BY <1>1, <2>2, <3>1, SetOfConcat
    <3>3. QED  BY <2>1, <2>2, <3>2
  <2>3. CASE r # rt
    <3>1. settled'[r] = settled[r]  BY <1>1, <2>3 DEF Settle
    <3>2. QED  BY <2>1, <3>1
  <2>4. QED  BY <2>2, <2>3
<1>3. OnTheWay'
  <2> SUFFICES ASSUME NEW r \in RouteNames
      PROVE  /\ worker'[r].pc = "email" /\ "slack" \in Channels[r]
                  => ToSet(worker'[r].batch) \subseteq received'[r]["slack"]
             /\ worker'[r].pc = "backoff" => ToSet(worker'[r].batch) \subseteq dlq'[r]
    BY DEF OnTheWay, ToSet
  <2>1. CASE r = rt
    <3>1. worker'[r].pc \in {"stopped", "select"}  BY <1>1, <2>1 DEF Settle
    <3>2. QED  BY <3>1
  <2>2. CASE r # rt
    <3>1. worker'[r] = worker[r]  BY <1>1, <2>2 DEF Settle
    <3>2. QED  BY <3>1 DEF LossInv, OnTheWay, Grows
  <2>3. QED  BY <2>1, <2>2
<1>4. QED  BY <1>2, <1>3 DEF LossInv

\* Other steps of a worker settle nothing, and change the state of one worker.
LEMMA UnsettledAccounts ==
  ASSUME QueuesOK, LossInv, Grows, settled' = settled, NEW rt \in RouteNames,
         \A r \in RouteNames : r # rt => worker'[r] = worker[r],
         worker'[rt].pc = "email" /\ "slack" \in Channels[rt]
           => ToSet(worker'[rt].batch) \subseteq received'[rt]["slack"],
         worker'[rt].pc = "backoff" => ToSet(worker'[rt].batch) \subseteq dlq'[rt]
  PROVE  LossInv'
<1>1. NoSilentLoss'
  <2> SUFFICES ASSUME NEW r \in RouteNames, NEW e \in ToSet(settled[r])
      PROVE  Accounted(r, e)'
    BY DEF NoSilentLoss, Accounted, ToSet
  <2>1. Accounted(r, e)  BY DEF LossInv, NoSilentLoss, Accounted
  <2>2. QED  BY <2>1, StaysAccounted
<1>2. OnTheWay'
  <2> SUFFICES ASSUME NEW r \in RouteNames
      PROVE  /\ worker'[r].pc = "email" /\ "slack" \in Channels[r]
                  => ToSet(worker'[r].batch) \subseteq received'[r]["slack"]
             /\ worker'[r].pc = "backoff" => ToSet(worker'[r].batch) \subseteq dlq'[r]
    BY DEF OnTheWay, ToSet
  <2>1. CASE r = rt  BY <2>1
  <2>2. CASE r # rt
    <3>1. worker'[r] = worker[r]  BY <2>2
    <3>2. QED  BY <3>1 DEF LossInv, OnTheWay, Grows
  <2>3. QED  BY <2>1, <2>2
<1>3. QED  BY <1>1, <1>2 DEF LossInv

LEMMA LossWork ==
  ASSUME QueuesOK, LossInv, NEW rt \in RouteNames, Work(rt)
  PROVE  LossInv'
<1> USE DEF Is
<1>0. worker \in [RouteNames -> WorkerStates] /\ worker[rt] \in WorkerStates
      /\ Channels[rt] \subseteq {"slack", "email"}
  BY ChannelsAssumption DEF QueuesOK
<1>1. ASSUME UNCHANGED <<dlq, received>> PROVE Grows  BY <1>1 DEF Grows
<1>2. ASSUME NEW leaving, UNCHANGED <<dlq, received>>, BeginFlush(rt, leaving) PROVE LossInv'
  <2> DEFINE first == NextChannel(rt, {})
  <2>0. Grows  BY <1>1, <1>2
  <2>1. CASE first = "settle"
    <3>1. Channels[rt] = {}  BY <1>0, <2>1 DEF NextChannel
    <3>2. \A e \in ToSet(worker[rt].batch) : Accounted(rt, e)'  BY <3>1 DEF Accounted
    <3>3. Settle(rt, leaving)  BY <1>2, <2>1 DEF BeginFlush
    <3>4. QED  BY <2>0, <3>2, <3>3, SettleAccounts
  <2>2. CASE first # "settle"
    <3> DEFINE x == [pc |-> first, batch |-> worker[rt].batch,
                     leaving |-> leaving]
    <3>1. worker' = [worker EXCEPT ![rt] = x] /\ settled' = settled
      BY <1>2, <2>2 DEF BeginFlush
    <3>2. x.pc = first /\ first \in {"slack", "email"}  BY <2>2 DEF NextChannel
    <3>3. first = "email" => "slack" \notin Channels[rt]  BY DEF NextChannel
    <3> HIDE DEF x, first
    <3>4. worker'[rt] = x /\ \A r \in RouteNames : r # rt => worker'[r] = worker[r]
      BY <1>0, <3>1
    <3>5. worker'[rt].pc = first  BY <3>2, <3>4
    <3>6. ~(worker'[rt].pc = "email" /\ "slack" \in Channels[rt]) /\ worker'[rt].pc # "backoff"
      BY <3>2, <3>3, <3>5
    <3>7. QED  BY <2>0, <3>1, <3>4, <3>6, UnsettledAccounts
  <2>3. QED  BY <2>1, <2>2
<1>3. CASE TickerFlush(rt)  BY <1>2, <1>3 DEF TickerFlush, stored
<1>4. CASE LeaveFlush(rt)
  <2>1. UNCHANGED <<dlq, received>>  BY <1>4 DEF LeaveFlush, stored
  <2>2. CASE worker[rt].batch # <<>>  BY <1>2, <1>4, <2>1, <2>2 DEF LeaveFlush
  <2>3. CASE worker[rt].batch = <<>>
    <3>1. worker' = [worker EXCEPT ![rt].pc = "stopped"] /\ settled' = settled
      BY <1>4, <2>3 DEF LeaveFlush
    <3>2. worker'[rt].pc = "stopped" /\ \A r \in RouteNames : r # rt => worker'[r] = worker[r]
      BY <1>0, <3>1 DEF WorkerStates
    <3>3. QED  BY <1>1, <2>1, <3>1, <3>2, UnsettledAccounts
  <2>4. QED  BY <2>2, <2>3
<1>5. CASE WakeUp(rt)
  <2>1. UNCHANGED <<dlq, received>> /\ Settle(rt, worker[rt].leaving)  BY <1>5 DEF WakeUp, stored
  <2>2. Grows  BY <1>1, <2>1
  <2>3. ToSet(worker[rt].batch) \subseteq dlq'[rt]
    BY <1>5, <2>1 DEF WakeUp, LossInv, OnTheWay
  <2>4. \A e \in ToSet(worker[rt].batch) : Accounted(rt, e)'  BY <2>3 DEF Accounted
  <2>5. QED  BY <2>1, <2>2, <2>4, SettleAccounts
<1>6. ASSUME NEW c \in {"slack", "email"}, Delivered(rt, c) PROVE LossInv'
  <2> DEFINE next == NextChannel(rt, {"slack", c})
  <2>1. /\ \A r \in RouteNames : \A d \in {"slack", "email"} : received[r][d] \subseteq received'[r][d]
        /\ ToSet(worker[rt].batch) \subseteq received'[rt][c]
    BY <1>6, GivenGrows DEF Delivered
  <2>2. dlq' = dlq  BY <1>6 DEF Delivered, stored
  <2>3. Grows  BY <2>1, <2>2 DEF Grows
  <2>4. CASE next = "settle"
    <3>1. Settle(rt, worker[rt].leaving)  BY <1>6, <2>4 DEF Delivered
    <3>2. c = "email" \/ Channels[rt] \subseteq {"slack"}  BY <1>0, <2>4 DEF NextChannel
    <3>3. c = "email" /\ "slack" \in Channels[rt] => ToSet(worker[rt].batch) \subseteq received'[rt]["slack"]
      BY <1>6, <2>1 DEF Delivered, LossInv, OnTheWay
    <3>4. \A d \in Channels[rt] : ToSet(worker[rt].batch) \subseteq received'[rt][d]
      BY <1>0, <2>1, <3>2, <3>3
    <3>5. \A e \in ToSet(worker[rt].batch) : Accounted(rt, e)'  BY <3>4 DEF Accounted
    <3>6. QED  BY <2>3, <3>1, <3>5, SettleAccounts
  <2>5. CASE next # "settle"
    <3>1. worker' = [worker EXCEPT ![rt].pc = next] /\ settled' = settled
      BY <1>6, <2>5 DEF Delivered
    <3>2. next = "email" /\ c = "slack"  BY <2>5 DEF NextChannel
    <3> HIDE DEF next
    <3>3. worker'[rt].pc = next /\ worker'[rt].batch = worker[rt].batch
          /\ \A r \in RouteNames : r # rt => worker'[r] = worker[r]
      BY <1>0, <3>1 DEF WorkerStates
    <3>4. ToSet(worker'[rt].batch) \subseteq received'[rt]["slack"] /\ worker'[rt].pc # "backoff"
      BY <2>1, <3>2, <3>3
    <3>5. QED  BY <2>3, <3>1, <3>3, <3>4, UnsettledAccounts
  <2>6. QED  BY <2>4, <2>5
<1>7. ASSUME NEW c \in {"slack", "email"}, Failed(rt, c) PROVE LossInv'
  <2>1. \A r \in RouteNames : \A d \in {"slack", "email"} : received[r][d] \subseteq received'[r][d]
    <3>1. CASE received' = received  BY <3>1
    <3>2. CASE received' = [received EXCEPT ![rt][c] = @ \union ToSet(worker[rt].batch)]
      BY <3>2, GivenGrows
    <3>3. QED  BY <1>7, <3>1, <3>2 DEF Failed
  <2>2. dlq' = [dlq EXCEPT ![rt] = dlq[rt] \union ToSet(worker[rt].batch)]  BY <1>7 DEF Failed
  <2>3. ToSet(worker[rt].batch) \subseteq dlq'[rt] /\ \A r \in RouteNames : dlq[r] \subseteq dlq'[r]
    BY <2>2 DEF QueuesOK
  <2>4. Grows  BY <2>1, <2>3 DEF Grows
  <2> DEFINE x == [pc |-> "backoff", batch |-> worker[rt].batch, leaving |-> worker[rt].leaving]
  <2>5. worker' = [worker EXCEPT ![rt] = x] /\ settled' = settled  BY <1>7 DEF Failed, SleepOn
  <2>6. x.pc = "backoff" /\ x.batch = worker[rt].batch  OBVIOUS
  <2> HIDE DEF x
  <2>7. worker'[rt] = x /\ \A r \in RouteNames : r # rt => worker'[r] = worker[r]
    BY <1>0, <2>5
  <2>8. QED  BY <2>3, <2>4, <2>5, <2>6, <2>7, UnsettledAccounts
<1>8. QED  BY <1>3, <1>4, <1>5, <1>6, <1>7 DEF Work, TimedWork, SendSlack, SendEmail

LEMMA LossStep ==
  ASSUME TypeInv, LossInv, [Next]_vars
  PROVE  LossInv'
<1> USE DEF stored, history
<1>0. QueuesOK  BY DEF TypeInv
<1>1. ASSUME UNCHANGED <<dlq, received, settled, worker>> PROVE LossInv'
  BY <1>1 DEF LossInv, NoSilentLoss, OnTheWay, ToSet
<1>2. CASE IngestStep
  BY <1>1, <1>2 DEF IngestStep, Ingest, CheckSilence, MatchRoute, IncRate, CheckSeen, MarkSeen, Enqueue
<1>3. CASE ReceiveStep
  <2> PICK rt \in RouteNames : Receive(rt)  BY <1>3 DEF ReceiveStep
  <2>1. UNCHANGED <<dlq, received, settled>>  BY DEF Receive
  <2>2. worker'[rt].pc = "select" /\ \A r \in RouteNames : r # rt => worker'[r] = worker[r]
    BY <1>0 DEF Receive, Is, QueuesOK, WorkerStates
  <2>3. Grows  BY <2>1 DEF Grows
  <2>4. QED  BY <1>0, <2>1, <2>2, <2>3, UnsettledAccounts
<1>4. CASE WorkStep  BY <1>0, <1>4, LossWork DEF WorkStep
<1>5. CASE PostStep \/ PutStep \/ PurgeExpiredSilences \/ Tick \/ Cancel
  BY <1>1, <1>5 DEF PostStep, Post, PutStep, PutSilence, PurgeExpiredSilences, Tick, Cancel
<1>6. CASE Restart
  <2>1. UNCHANGED <<dlq, received, settled>> /\ \A r \in RouteNames : worker'[r].pc = "select"
    BY <1>6 DEF Restart, NewWorker
  <2>2. NoSilentLoss'  BY <2>1 DEF LossInv, NoSilentLoss, ToSet
  <2>3. OnTheWay'  BY <2>1 DEF OnTheWay
  <2>4. QED  BY <2>2, <2>3 DEF LossInv
<1>7. CASE UNCHANGED vars  BY <1>1, <1>7 DEF vars
<1>8. QED  BY <1>2, <1>3, <1>4, <1>5, <1>6, <1>7, NextSplits

\* What a worker is done with has been given to every channel of its route or
\* is in the dead-letter bucket, whatever fails and however often the process
\* starts again.
THEOREM NothingSilentlyLost == Spec => []NoSilentLoss
<1>1. Init => LossInv
  BY DEF Init, NewWorker, LossInv, NoSilentLoss, OnTheWay, ToSet
<1>2. TypeInv /\ LossInv /\ [Next]_vars => LossInv'  BY LossStep
<1>3. LossInv => NoSilentLoss  BY DEF LossInv
<1>4. QED  BY <1>1, <1>2, <1>3, TypeInit, TypeStep, PTL DEF Spec

-----------------------------------------------------------------------------
(* Purging is invisible.                                                   *)

\* A purge takes away only silences that no longer silence anything.
LEMMA PurgeKeepsSilenced ==
  ASSUME StoreOK, PurgeExpiredSilences, NEW a \in Alerts
  PROVE  Silenced(a)' = Silenced(a)
<1>1. now' = now /\ now \in Nat  BY Numbers DEF PurgeExpiredSilences, bounded, StoreOK, Moments
<1>2. ASSUME NEW s \in Silences PROVE (now' > silence'[s]) = (now > silence[s])
  <2>1. CASE now > silence[s]
    <3>1. silence'[s] = -1  BY <2>1 DEF PurgeExpiredSilences, Expired, Never
    <3>2. now' > silence'[s]  BY <1>1, <3>1
    <3>3. QED  BY <2>1, <3>2
  <2>2. CASE ~(now > silence[s])
    <3>1. silence'[s] = silence[s]  BY <2>2 DEF PurgeExpiredSilences, Expired
    <3>2. QED  BY <1>1, <3>1
  <2>3. QED  BY <2>1, <2>2
<1>3. \A s \in Silences : (a \in Covers[s] /\ ~(now' > silence'[s]))
                            <=> (a \in Covers[s] /\ ~(now > silence[s]))
  BY <1>2
<1>4. QED  BY <1>3 DEF Silenced, Expired

\* Purging expired silences never changes which alerts are silenced, whatever
\* the moment it runs at.
THEOREM PurgeUnseen == Spec => PurgeIsInvisible
<1>1. TypeInv /\ [Next]_vars
        => [(\A s \in Silences : silence'[s] \in {silence[s], Never})
              => \A a \in Alerts : Silenced(a)' = Silenced(a)]_silence
  <2> SUFFICES ASSUME TypeInv, [Next]_vars, silence' # silence,
                      \A s \in Silences : silence'[s] \in {silence[s], Never}
      PROVE  \A a \in Alerts : Silenced(a)' = Silenced(a)
    OBVIOUS
  <2>1. StoreOK  BY DEF TypeInv
  <2>2. ~UNCHANGED vars /\ ~IngestStep /\ ~PostStep /\ ~ReceiveStep /\ ~WorkStep /\ ~Tick /\ ~Cancel /\ ~Restart
    BY DEF vars, stored, IngestStep, Ingest, CheckSilence, MatchRoute, IncRate, CheckSeen, MarkSeen,
           Enqueue, PostStep, Post, ReceiveStep, Receive, WorkStep, Work, TimedWork, SendSlack, SendEmail, TickerFlush, LeaveFlush,
           WakeUp, Delivered, Failed, Tick, Cancel, Restart
  <2>3. ~PutStep
    <3> SUFFICES ASSUME NEW s \in Silences, NEW until \in Moments, PutSilence(s, until) PROVE FALSE
      BY DEF PutStep
    <3>1. silence'[s] = until /\ until # silence[s]  BY <2>1 DEF PutSilence, StoreOK
    <3>2. until # Never  BY Numbers DEF Moments, Never
    <3>3. QED  BY <3>1, <3>2
  <2>4. PurgeExpiredSilences  BY <2>2, <2>3, NextSplits
  <2>5. QED  BY <2>1, <2>4, PurgeKeepsSilenced
<1>2. QED  BY <1>1, TypeInit, TypeStep, PTL DEF Spec, PurgeIsInvisible

-----------------------------------------------------------------------------
(* The dedupe window, however webhook calls overlap.                       *)

\* What was marked as seen: no later than t, and marks remembers it or a later
\* mark.
Dated(e, t, marks) == e.at <= t /\ marks[e.alert] >= Truncated(e.at)

\* A mark of alert a made at t is out of e's window.
Old(e, a, rt, t) == e.alert = a => t - e.at > Window[rt] - SecondTicks

\* A handler on its way to the queue has an entry in hand.
Marked(h) == handler[h].pc = "enqueue"

\* A handler that is about to mark, and whose check no mark has overtaken.
Checked(h) == handler[h].pc = "mark" /\ ~handler[h].raced

TakenInv ==
  /\ WindowKept
  /\ \A rt \in RouteNames : \A i \in 1 .. Len(accepted[rt]) : Dated(accepted[rt][i], now, seen)

\* The entries on their way to the queue keep their distance from what the
\* queue took before, and from each other.
MarkedInv ==
  /\ \A h \in Handlers : Marked(h) => Dated(Held(h), now, seen)
  /\ \A h \in Handlers : Marked(h) =>
       \A i \in 1 .. Len(accepted[Route(h)]) :
         /\ Apart(Held(h), accepted[Route(h)][i], Route(h))
         /\ Apart(accepted[Route(h)][i], Held(h), Route(h))
  /\ \A g, h \in Handlers :
       Marked(g) /\ Marked(h) /\ g # h /\ Route(g) = Route(h) => Apart(Held(g), Held(h), Route(h))

\* The mark of a handler that nobody has raced is out of the window of all of
\* them.
CheckedInv ==
  \A h \in Handlers : Checked(h) =>
    /\ \A i \in 1 .. Len(accepted[Route(h)]) : Old(accepted[Route(h)][i], Alert(h), Route(h), now)
    /\ \A g \in Handlers : Marked(g) /\ Route(g) = Route(h) => Old(Held(g), Alert(h), Route(h), now)

WindowInv == TakenInv /\ MarkedInv /\ CheckedInv

\* An entry a route took, and the fields of any entry.
LEMMA TakenIsEntry ==
  ASSUME QueuesOK, NEW rt \in RouteNames, NEW i \in 1 .. Len(accepted[rt])
  PROVE  accepted[rt][i] \in Entry
<1>1. accepted[rt] \in Seq(Entry)  BY DEF QueuesOK
<1>2. QED  BY <1>1

LEMMA EntryFields ==
  ASSUME NEW e \in Entry
  PROVE  e.alert \in Alerts /\ e.at \in Nat /\ e.raced \in BOOLEAN
BY Numbers DEF Entry, Moments

LEMMA Clock == StoreOK => now \in Nat /\ SecondTicks \in Nat \ {0}
BY Numbers, TicksAssumption DEF StoreOK, Moments

LEMMA Limits ==
  ASSUME StoreOK, NEW a \in Alerts, NEW rt \in RouteNames
  PROVE  seen[a] \in Int /\ Window[rt] \in Nat
BY Numbers, WindowAssumption DEF StoreOK, Moments, Never

\* The passing of time disturbs neither.
LEMMA StaysOld ==
  ASSUME NEW e \in Entry, NEW a, NEW rt \in RouteNames, NEW t \in Nat, NEW u \in Nat, t <= u,
         Old(e, a, rt, t)
  PROVE  Old(e, a, rt, u)
<1>1. e.at \in Nat /\ Window[rt] \in Nat /\ SecondTicks \in Nat
  BY EntryFields, WindowAssumption, TicksAssumption
<1>2. QED  BY <1>1 DEF Old

LEMMA StaysDated ==
  ASSUME NEW e \in Entry, NEW t \in Nat, NEW u \in Nat, t <= u, NEW marks, Dated(e, t, marks)
  PROVE  Dated(e, u, marks)
<1>1. e.at \in Nat  BY EntryFields
<1>2. QED  BY <1>1 DEF Dated

\* What is not seen recently is old.
LEMMA NotSeenIsOld ==
  ASSUME StoreOK, NEW e \in Entry, Dated(e, now, seen), NEW a \in Alerts, NEW rt \in RouteNames,
         ~SeenRecently(a, rt)
  PROVE  Old(e, a, rt, now)
<1> SUFFICES ASSUME e.alert = a PROVE now - e.at > Window[rt] - SecondTicks
  BY DEF Old
<1> DEFINE at == e.at
           t  == Truncated(at)
           s  == seen[a]
           w  == Window[rt]
<1>1. at \in Nat /\ s \in Int /\ w \in Nat /\ now \in Nat /\ SecondTicks \in Nat \ {0}
  BY EntryFields, Limits, Clock
<1>2. s >= t  BY DEF Dated
<1>3. ~(s # Never /\ now - s < w)  BY DEF SeenRecently
<1> HIDE DEF at, s, w
<1>4. t \in Nat /\ at < t + SecondTicks  BY <1>1, Seconds
<1> HIDE DEF t
<1>5. s # Never  BY <1>1, <1>2, <1>4 DEF Never
<1>6. now - s >= w  BY <1>1, <1>3, <1>5
<1>7. now - at > w - SecondTicks  BY <1>1, <1>2, <1>4, <1>6
<1>8. QED  BY <1>7 DEF at, w

\* A handler that is about to mark or to put, whose state a step leaves alone.
LEMMA HoldsOn ==
  ASSUME HandlersOK, NEW h \in Handlers, handler'[h] = handler[h],
         handler[h].pc \in {"mark", "enqueue"}
  PROVE  /\ Held(h)' = Held(h) /\ Route(h)' = Route(h) /\ Alert(h)' = Alert(h)
         /\ Held(h) \in Entry /\ Route(h) \in RouteNames /\ Alert(h) \in Alerts
         /\ Held(h).alert = Alert(h)
BY HeldIsEntry, InHand DEF Held, Alert, Route

\* Only time passes, or less than that, for the handlers of the invariant.
LEMMA WindowStays ==
  ASSUME TypeInv, WindowInv, UNCHANGED <<accepted, seen>>, now' \in Nat, now <= now',
         \A h \in Handlers : handler'[h] = handler[h] \/ handler'[h].pc \notin {"mark", "enqueue"}
  PROVE  WindowInv'
<1>1. StoreOK /\ HandlersOK /\ QueuesOK /\ now \in Nat  BY Clock DEF TypeInv
<1>2. \A rt \in RouteNames : \A i \in 1 .. Len(accepted[rt]) : accepted[rt][i] \in Entry
  BY <1>1, TakenIsEntry
<1>3. TakenInv'
  <2>1. \A rt \in RouteNames : \A i \in 1 .. Len(accepted[rt]) : Dated(accepted[rt][i], now', seen)
    BY <1>1, <1>2, StaysDated DEF WindowInv, TakenInv
  <2>2. QED  BY <2>1 DEF WindowInv, TakenInv, WindowKept, Apart, Dated, Truncated
<1>4. \A h \in Handlers : handler'[h].pc \in {"mark", "enqueue"} =>
        /\ handler'[h] = handler[h] /\ Held(h)' = Held(h) /\ Route(h)' = Route(h)
        /\ Alert(h)' = Alert(h) /\ Held(h) \in Entry /\ Route(h) \in RouteNames /\ Alert(h) \in Alerts
  BY <1>1, HoldsOn
<1>5. \A h \in Handlers : (Marked(h)' => Marked(h)) /\ (Checked(h)' => Checked(h))
  BY <1>4 DEF Marked, Checked
<1>6. MarkedInv'
  <2>1. ASSUME NEW h \in Handlers, Marked(h)'
        PROVE  /\ Dated(Held(h), now, seen)'
               /\ (\A i \in 1 .. Len(accepted[Route(h)]) :
                     /\ Apart(Held(h), accepted[Route(h)][i], Route(h))
                     /\ Apart(accepted[Route(h)][i], Held(h), Route(h)))'
    <3>1. Marked(h) /\ Held(h)' = Held(h) /\ Route(h)' = Route(h) /\ Held(h) \in Entry
      BY <1>4, <1>5, <2>1 DEF Marked
    <3>2. Dated(Held(h), now', seen)
      BY <1>1, <3>1, StaysDated DEF WindowInv, MarkedInv
    <3>3. \A i \in 1 .. Len(accepted[Route(h)]) :
            /\ Apart(Held(h), accepted[Route(h)][i], Route(h))
            /\ Apart(accepted[Route(h)][i], Held(h), Route(h))
      BY <3>1 DEF WindowInv, MarkedInv
    <3>4. QED  BY <3>1, <3>2, <3>3 DEF Dated, Apart, Truncated
  <2>2. ASSUME NEW g \in Handlers, NEW h \in Handlers, Marked(g)', Marked(h)', g # h,
               Route(g)' = Route(h)'
        PROVE  Apart(Held(g), Held(h), Route(h))'
    <3>1. Marked(g) /\ Held(g)' = Held(g) /\ Marked(h) /\ Held(h)' = Held(h)
          /\ Route(g) = Route(h) /\ Route(h)' = Route(h)
      BY <1>4, <1>5, <2>2 DEF Marked
    <3>2. Apart(Held(g), Held(h), Route(h))  BY <2>2, <3>1 DEF WindowInv, MarkedInv
    <3>3. QED  BY <3>1, <3>2 DEF Apart
  <2>3. QED  BY <2>1, <2>2 DEF MarkedInv
<1>7. CheckedInv'
  <2> SUFFICES ASSUME NEW h \in Handlers, Checked(h)'
      PROVE  /\ (\A i \in 1 .. Len(accepted[Route(h)]) : Old(accepted[Route(h)][i], Alert(h), Route(h), now))'
             /\ (\A g \in Handlers : Marked(g) /\ Route(g) = Route(h) => Old(Held(g), Alert(h), Route(h), now))'
    BY DEF CheckedInv
  <2>1. Checked(h) /\ Route(h)' = Route(h) /\ Alert(h)' = Alert(h) /\ Route(h) \in RouteNames
    BY <1>4, <1>5 DEF Checked
  <2>2. ASSUME NEW i \in 1 .. Len(accepted[Route(h)])
        PROVE  Old(accepted[Route(h)][i], Alert(h), Route(h), now')
    <3>1. Old(accepted[Route(h)][i], Alert(h), Route(h), now) /\ accepted[Route(h)][i] \in Entry
      BY <1>2, <2>1 DEF WindowInv, CheckedInv
    <3>2. QED  BY <1>1, <2>1, <3>1, StaysOld
  <2>3. ASSUME NEW g \in Handlers, Marked(g)', Route(g)' = Route(h)'
        PROVE  Old(Held(g), Alert(h), Route(h), now') /\ Held(g)' = Held(g)
    <3>1. Marked(g) /\ Held(g)' = Held(g) /\ Route(g) = Route(h) /\ Held(g) \in Entry
      BY <1>4, <1>5, <2>1, <2>3 DEF Marked
    <3>2. Old(Held(g), Alert(h), Route(h), now)  BY <2>1, <3>1 DEF WindowInv, CheckedInv
    <3>3. QED  BY <1>1, <2>1, <3>1, <3>2, StaysOld
  <2>4. QED  BY <2>1, <2>2, <2>3 DEF Old
<1>8. QED  BY <1>3, <1>6, <1>7 DEF WindowInv

\* A handler that takes another step of the loops is not about to mark or put.
LEMMA ElsewhereInTheLoop ==
  ASSUME HandlersOK, NEW h \in Handlers,
         NextAlert(h) \/ NextRoute(h) \/ \E pc \in {"match", "rate", "dedupe"} : Goto(h, pc)
  PROVE  \A g \in Handlers : handler'[g] = handler[g] \/ handler'[g].pc \notin {"mark", "enqueue"}
<1> SUFFICES ASSUME NEW g \in Handlers
    PROVE  handler'[g] = handler[g] \/ handler'[g].pc \notin {"mark", "enqueue"}
  OBVIOUS
<1>0. handler \in [Handlers -> HandlerStates] /\ handler[h] \in HandlerStates  BY DEF HandlersOK
<1>1. CASE g = h
  <2>1. ASSUME NextAlert(h) PROVE handler'[h].pc \in {"idle", "silence"}
    BY <1>0, <2>1 DEF NextAlert, IdleHandler, Begun
  <2>2. ASSUME NextRoute(h) PROVE handler'[h].pc = "match"
    BY <1>0, <2>2 DEF NextRoute
  <2>3. ASSUME NEW pc \in {"match", "rate", "dedupe"}, Goto(h, pc) PROVE handler'[h].pc = pc
    BY <1>0, <2>3 DEF Goto, HandlerStates
  <2>4. QED  BY <1>1, <2>1, <2>2, <2>3
<1>2. CASE g # h
  <2>1. handler'[g] = handler[g]  BY <1>0, <1>2 DEF NextAlert, NextRoute, Goto
  <2>2. QED  BY <2>1
<1>3. QED  BY <1>1, <1>2

\* Marking the alert: the new entry keeps its distance from those the check saw,
\* and whoever is between check and mark of the same alert has now been raced.
LEMMA WindowMark ==
  ASSUME TypeInv, WindowInv, NEW h \in Handlers, MarkSeen(h)
  PROVE  WindowInv'
<1> DEFINE a     == Alert(h)
           rt    == Route(h)
           entry == [alert |-> a, at |-> now, raced |-> handler[h].raced]
<1>1. StoreOK /\ HandlersOK /\ QueuesOK /\ now \in Nat /\ SecondTicks \in Nat \ {0}
  BY Clock DEF TypeInv
<1>2. handler[h].pc = "mark" /\ now' = now /\ accepted' = accepted
      /\ seen' = [seen EXCEPT ![a] = Truncated(now)]
  BY DEF MarkSeen, At, bounded, history
<1>3. a \in Alerts /\ rt \in RouteNames /\ entry \in Entry
  BY <1>1, <1>2, InHand DEF StoreOK, Entry, HandlerStates
<1>4. Window[rt] \in Nat  BY <1>1, <1>3, Limits
<1>5. Marked(h)' /\ ~Checked(h)' /\ Held(h)' = entry /\ Route(h)' = rt
  BY <1>1, Marking DEF Marked, Checked, Held, Alert, Route
<1>6. ASSUME NEW g \in Handlers, g # h, Marked(g)'
      PROVE  /\ Marked(g) /\ Held(g)' = Held(g) /\ Route(g)' = Route(g)
             /\ Held(g) \in Entry /\ Dated(Held(g), now, seen)
  <2>1. handler'[g].pc = handler[g].pc  BY <1>1, <1>6, Marking
  <2>2. Marked(g) /\ ~Overlaps(g, h)  BY <1>6, <2>1 DEF Marked, Overlaps, At
  <2>3. handler'[g] = handler[g]  BY <1>1, <1>6, <2>2, Marking
  <2>4. Held(g)' = Held(g) /\ Route(g)' = Route(g) /\ Held(g) \in Entry
    BY <1>1, <2>2, <2>3, HoldsOn DEF Marked
  <2>5. QED  BY <2>2, <2>4 DEF WindowInv, MarkedInv
<1>7. ASSUME NEW g \in Handlers, Checked(g)'
      PROVE  /\ g # h /\ Checked(g) /\ Route(g)' = Route(g) /\ Alert(g)' = Alert(g)
             /\ ~(Alert(g) = a /\ Route(g) = rt)
  <2>1. g # h  BY <1>5, <1>7
  <2>2. handler'[g].pc = "mark" /\ handler'[g].raced # TRUE  BY <1>7 DEF Checked
  <2>3. handler[g].pc = "mark" /\ ~Overlaps(g, h)  BY <1>1, <2>1, <2>2, Marking
  <2>4. handler'[g] = handler[g]  BY <1>1, <2>1, <2>3, Marking
  <2>5. Checked(g)  BY <1>7, <2>3, <2>4 DEF Checked
  <2>6. QED  BY <2>1, <2>3, <2>4, <2>5 DEF Overlaps, At, Alert, Route
<1>8. ASSUME NEW x \in Entry, Dated(x, now, seen)  PROVE  Dated(x, now, seen')
  <2>1. x.alert \in Alerts /\ x.at \in Nat  BY EntryFields
  <2>2. x.at <= now /\ seen[x.alert] >= Truncated(x.at)  BY <1>8 DEF Dated
  <2>3. Truncated(x.at) <= Truncated(now)  BY <1>1, <2>1, <2>2, SecondsInOrder
  <2>4. Truncated(x.at) \in Nat /\ Truncated(now) \in Nat  BY <1>1, <2>1, Seconds
  <2>5. seen'[x.alert] = seen[x.alert] \/ seen'[x.alert] = Truncated(now)
    BY <1>1, <1>2, <2>1 DEF StoreOK
  <2>6. seen'[x.alert] >= Truncated(x.at)  BY <2>2, <2>3, <2>4, <2>5
  <2>7. QED  BY <2>2, <2>6 DEF Dated
<1>9. ASSUME NEW x \in Entry, Dated(x, now, seen), handler[h].raced \/ Old(x, a, rt, now)
      PROVE  Apart(x, entry, rt) /\ Apart(entry, x, rt)
  <2>1. x.at \in Nat /\ x.at <= now /\ handler[h].raced \in BOOLEAN
    BY <1>1, <1>9, EntryFields, InHand DEF Dated, HandlerStates
  <2>2. entry.alert = a /\ entry.at = now /\ entry.raced = handler[h].raced  OBVIOUS
  <2> HIDE DEF a, rt, entry
  <2>3. CASE handler[h].raced  BY <1>1, <2>1, <2>2, <2>3 DEF Apart
  <2>4. CASE Old(x, a, rt, now)
    <3>1. x.alert = a => now - x.at > Window[rt] - SecondTicks  BY <2>4 DEF Old
    <3>2. Apart(x, entry, rt)  BY <2>2, <3>1 DEF Apart
    <3>3. now <= x.at => now = x.at  BY <1>1, <2>1
    <3>4. Apart(entry, x, rt)  BY <2>2, <3>1, <3>3 DEF Apart
    <3>5. QED  BY <3>2, <3>4
  <2>5. QED  BY <1>9, <2>3, <2>4
<1>10. handler[h].raced \/ Checked(h)  BY <1>2 DEF Checked
<1>11. \A r \in RouteNames : \A i \in 1 .. Len(accepted[r]) :
         accepted[r][i] \in Entry /\ Dated(accepted[r][i], now, seen)
  BY <1>1, TakenIsEntry DEF WindowInv, TakenInv
<1>12. Dated(entry, now, seen')
  <2>1. seen'[a] = Truncated(now) /\ Truncated(now) \in Nat  BY <1>1, <1>2, <1>3, Seconds DEF StoreOK
  <2>2. seen'[a] >= Truncated(now) /\ now <= now  BY <1>1, <2>1
  <2>3. QED  BY <2>2 DEF Dated
<1> HIDE DEF entry, a, rt
<1>13. TakenInv'
  <2>1. \A r \in RouteNames : \A i \in 1 .. Len(accepted[r]) : Dated(accepted[r][i], now, seen')
    BY <1>8, <1>11
  <2>2. WindowKept'  BY <1>2 DEF WindowInv, TakenInv, WindowKept, Apart
  <2>3. QED  BY <1>2, <2>1, <2>2 DEF TakenInv, Dated, Truncated
<1>14. MarkedInv'
  <2>1. ASSUME NEW g \in Handlers, Marked(g)'
        PROVE  Dated(Held(g)', now, seen')
    BY <1>5, <1>6, <1>8, <1>12, <2>1
  <2>2. ASSUME NEW g \in Handlers, Marked(g)', NEW i \in 1 .. Len(accepted[Route(g)'])
        PROVE  /\ Apart(Held(g)', accepted[Route(g)'][i], Route(g)')
               /\ Apart(accepted[Route(g)'][i], Held(g)', Route(g)')
    <3>1. CASE g = h
      <4>1. handler[h].raced \/ Old(accepted[rt][i], a, rt, now)
        BY <1>5, <1>10, <2>2, <3>1 DEF WindowInv, CheckedInv, a, rt
      <4>2. accepted[rt][i] \in Entry /\ Dated(accepted[rt][i], now, seen)
        BY <1>3, <1>5, <1>11, <2>2, <3>1
      <4>3. Apart(accepted[rt][i], entry, rt) /\ Apart(entry, accepted[rt][i], rt)
        BY <1>9, <4>1, <4>2
      <4>4. QED  BY <1>5, <3>1, <4>3
    <3>2. CASE g # h
      <4>1. Marked(g) /\ Held(g)' = Held(g) /\ Route(g)' = Route(g)  BY <1>6, <2>2, <3>2
      <4>2. QED  BY <2>2, <4>1 DEF WindowInv, MarkedInv
    <3>3. QED  BY <3>1, <3>2
  <2>3. ASSUME NEW g \in Handlers, g # h, Marked(g)', Route(g)' = rt
        PROVE  Apart(Held(g)', entry, rt) /\ Apart(entry, Held(g)', rt)
    <3>1. /\ Marked(g) /\ Held(g)' = Held(g) /\ Route(g) = rt
          /\ Held(g) \in Entry /\ Dated(Held(g), now, seen)
      BY <1>6, <2>3
    <3>2. handler[h].raced \/ Old(Held(g), a, rt, now)
      BY <1>10, <3>1 DEF WindowInv, CheckedInv, a, rt
    <3>3. QED  BY <1>9, <3>1, <3>2
  <2>4. ASSUME NEW g \in Handlers, NEW k \in Handlers, Marked(g)', Marked(k)', g # k,
               Route(g)' = Route(k)'
        PROVE  Apart(Held(g)', Held(k)', Route(k)')
    <3>1. CASE g = h  BY <1>5, <2>3, <2>4, <3>1
    <3>2. CASE k = h  BY <1>5, <2>3, <2>4, <3>2
    <3>3. CASE g # h /\ k # h
      <4>1. /\ Marked(g) /\ Held(g)' = Held(g) /\ Route(g)' = Route(g)
            /\ Marked(k) /\ Held(k)' = Held(k) /\ Route(k)' = Route(k)
        BY <1>6, <2>4, <3>3
      <4>2. QED  BY <2>4, <4>1 DEF WindowInv, MarkedInv
    <3>4. QED  BY <3>1, <3>2, <3>3
  <2>5. QED  BY <1>2, <2>1, <2>2, <2>4 DEF MarkedInv, Apart, Dated, Truncated
<1>15. CheckedInv'
  <2>1. ASSUME NEW k \in Handlers, Checked(k)', NEW i \in 1 .. Len(accepted[Route(k)'])
        PROVE  Old(accepted[Route(k)'][i], Alert(k)', Route(k)', now)
    BY <1>7, <2>1 DEF WindowInv, CheckedInv
  <2>2. ASSUME NEW k \in Handlers, Checked(k)', NEW g \in Handlers, Marked(g)', Route(g)' = Route(k)'
        PROVE  Old(Held(g)', Alert(k)', Route(k)', now)
    <3>1. Checked(k) /\ Route(k)' = Route(k) /\ Alert(k)' = Alert(k) /\ ~(Alert(k) = a /\ Route(k) = rt)
      BY <1>7, <2>2
    <3>2. CASE g = h
      <4>1. entry.alert = a  BY DEF entry
      <4>2. QED  BY <1>5, <2>2, <3>1, <3>2, <4>1 DEF Old
    <3>3. CASE g # h
      <4>1. Marked(g) /\ Held(g)' = Held(g) /\ Route(g)' = Route(g)  BY <1>6, <2>2, <3>3
      <4>2. Old(Held(g), Alert(k), Route(k), now)  BY <2>2, <3>1, <4>1 DEF WindowInv, CheckedInv
      <4>3. QED  BY <3>1, <4>1, <4>2
    <3>4. QED  BY <3>2, <3>3
  <2>3. QED  BY <1>2, <2>1, <2>2 DEF CheckedInv, Old
<1>16. QED  BY <1>13, <1>14, <1>15 DEF WindowInv

\* Putting the alert into the queue: the entry in hand becomes one that is taken.
LEMMA WindowPut ==
  ASSUME TypeInv, WindowInv, NEW h \in Handlers, Enqueue(h), HasRoom(Route(h))
  PROVE  WindowInv'
<1> DEFINE rt    == Route(h)
           entry == Held(h)
           n     == Len(accepted[rt])
<1>1. StoreOK /\ HandlersOK /\ QueuesOK  BY DEF TypeInv
<1>2. Marked(h) /\ now' = now /\ seen' = seen /\ NextRoute(h)
      /\ accepted' = [accepted EXCEPT ![rt] = Append(@, entry)]
  BY DEF Enqueue, At, bounded, stored, Marked
<1>3. rt \in RouteNames /\ entry \in Entry  BY <1>1, <1>2, InHand, HeldIsEntry DEF Marked
<1>4. Dated(entry, now, seen)  BY <1>2 DEF WindowInv, MarkedInv
<1>5. accepted[rt] \in Seq(Entry) /\ n \in Nat  BY <1>1, <1>3 DEF QueuesOK
<1>6. ASSUME NEW r \in RouteNames, NEW i \in 1 .. Len(accepted'[r])
      PROVE  \/ i \in 1 .. Len(accepted[r]) /\ accepted'[r][i] = accepted[r][i]
             \/ r = rt /\ i = n + 1 /\ accepted'[r][i] = entry
  <2>1. CASE r # rt
    <3>1. accepted'[r] = accepted[r]  BY <1>1, <1>2, <2>1 DEF QueuesOK
    <3>2. QED  BY <1>6, <3>1
  <2>2. CASE r = rt
    <3>1. accepted'[r] = Append(accepted[r], entry)  BY <1>1, <1>2, <2>2 DEF QueuesOK
    <3> HIDE DEF rt, entry
    <3>2. QED  BY <1>3, <1>5, <1>6, <2>2, <3>1
  <2>3. QED  BY <2>1, <2>2
<1>7. ASSUME NEW g \in Handlers, handler'[g].pc \in {"mark", "enqueue"}
      PROVE  g # h /\ handler'[g] = handler[g] /\ handler[g].pc = handler'[g].pc
             /\ Held(g)' = Held(g) /\ Route(g)' = Route(g) /\ Alert(g)' = Alert(g)
             /\ Route(g) \in RouteNames
  <2>1. handler'[h].pc = "match"  BY <1>1, <1>2 DEF NextRoute, HandlersOK
  <2>2. g # h  BY <1>7, <2>1
  <2>3. handler'[g] = handler[g]  BY <1>1, <1>2, <2>2 DEF NextRoute, HandlersOK
  <2>4. QED  BY <1>1, <1>7, <2>2, <2>3, HoldsOn
<1>8. \A g \in Handlers : (Marked(g)' => g # h /\ Marked(g)) /\ (Checked(g)' => g # h /\ Checked(g))
  BY <1>7 DEF Marked, Checked
<1>9. \A i \in 1 .. n : Apart(entry, accepted[rt][i], rt) /\ Apart(accepted[rt][i], entry, rt)
  BY <1>2 DEF WindowInv, MarkedInv
<1>10. \A g \in Handlers : g # h /\ Marked(g) /\ Route(g) = rt =>
         Apart(Held(g), entry, rt) /\ Apart(entry, Held(g), rt)
  BY <1>2 DEF WindowInv, MarkedInv
<1>11. \A k \in Handlers : Checked(k) /\ Route(k) = rt => Old(entry, Alert(k), rt, now)
  BY <1>2 DEF WindowInv, CheckedInv
<1>12. TakenInv'
  <2>1. ASSUME NEW r \in RouteNames, NEW i \in 1 .. Len(accepted'[r])
        PROVE  Dated(accepted'[r][i], now, seen)
    BY <1>4, <1>6, <2>1 DEF WindowInv, TakenInv
  <2>2. ASSUME NEW r \in RouteNames, NEW i \in 1 .. Len(accepted'[r]), NEW j \in 1 .. Len(accepted'[r]),
               i # j
        PROVE  Apart(accepted'[r][i], accepted'[r][j], r)
    <3>1. CASE i \in 1 .. Len(accepted[r]) /\ accepted'[r][i] = accepted[r][i]
      <4>1. CASE j \in 1 .. Len(accepted[r]) /\ accepted'[r][j] = accepted[r][j]
        BY <2>2, <3>1, <4>1 DEF WindowInv, TakenInv, WindowKept
      <4>2. CASE r = rt /\ accepted'[r][j] = entry  BY <1>9, <3>1, <4>2
      <4>3. QED  BY <1>6, <2>2, <4>1, <4>2
    <3>2. CASE r = rt /\ i = n + 1 /\ accepted'[r][i] = entry
      <4>1. CASE j \in 1 .. Len(accepted[r]) /\ accepted'[r][j] = accepted[r][j]
        BY <1>9, <3>2, <4>1
      <4>2. CASE r = rt /\ j = n + 1  BY <2>2, <3>2, <4>2
      <4>3. QED  BY <1>6, <2>2, <4>1, <4>2
    <3>3. QED  BY <1>6, <2>2, <3>1, <3>2
  <2> HIDE DEF rt, entry, n
  <2>3. WindowKept'  BY <2>2 DEF WindowKept, Apart
  <2>4. QED  BY <1>2, <2>1, <2>3 DEF TakenInv, Dated, Truncated
<1>13. MarkedInv'
  <2>1. ASSUME NEW g \in Handlers, Marked(g)'
        PROVE  Dated(Held(g)', now, seen)
    <3>1. Marked(g) /\ Held(g)' = Held(g)  BY <1>7, <1>8, <2>1 DEF Marked
    <3>2. QED  BY <3>1 DEF WindowInv, MarkedInv
  <2>2. ASSUME NEW g \in Handlers, Marked(g)', NEW i \in 1 .. Len(accepted'[Route(g)'])
        PROVE  /\ Apart(Held(g)', accepted'[Route(g)'][i], Route(g)')
               /\ Apart(accepted'[Route(g)'][i], Held(g)', Route(g)')
    <3>1. Marked(g) /\ g # h /\ Held(g)' = Held(g) /\ Route(g)' = Route(g) /\ Route(g) \in RouteNames
      BY <1>7, <1>8, <2>2 DEF Marked
    <3>2. CASE i \in 1 .. Len(accepted[Route(g)]) /\ accepted'[Route(g)][i] = accepted[Route(g)][i]
      BY <3>1, <3>2 DEF WindowInv, MarkedInv
    <3>3. CASE Route(g) = rt /\ accepted'[Route(g)][i] = entry  BY <1>10, <3>1, <3>3
    <3>4. QED  BY <1>6, <2>2, <3>1, <3>2, <3>3
  <2>3. ASSUME NEW g \in Handlers, NEW k \in Handlers, Marked(g)', Marked(k)', g # k,
               Route(g)' = Route(k)'
        PROVE  Apart(Held(g)', Held(k)', Route(k)')
    <3>1. /\ Marked(g) /\ Held(g)' = Held(g) /\ Route(g)' = Route(g)
          /\ Marked(k) /\ Held(k)' = Held(k) /\ Route(k)' = Route(k)
      BY <1>7, <1>8, <2>3 DEF Marked
    <3>2. QED  BY <2>3, <3>1 DEF WindowInv, MarkedInv
  <2> HIDE DEF rt, entry, n
  <2>4. QED  BY <1>2, <2>1, <2>2, <2>3 DEF MarkedInv, Apart, Dated, Truncated
<1>14. CheckedInv'
  <2>1. ASSUME NEW k \in Handlers, Checked(k)', NEW i \in 1 .. Len(accepted'[Route(k)'])
        PROVE  Old(accepted'[Route(k)'][i], Alert(k)', Route(k)', now)
    <3>1. Checked(k) /\ Route(k)' = Route(k) /\ Alert(k)' = Alert(k) /\ Route(k) \in RouteNames
      BY <1>7, <1>8, <2>1 DEF Checked
    <3>2. CASE i \in 1 .. Len(accepted[Route(k)]) /\ accepted'[Route(k)][i] = accepted[Route(k)][i]
      BY <3>1, <3>2 DEF WindowInv, CheckedInv
    <3>3. CASE Route(k) = rt /\ accepted'[Route(k)][i] = entry  BY <1>11, <3>1, <3>3
    <3>4. QED  BY <1>6, <2>1, <3>1, <3>2, <3>3
  <2>2. ASSUME NEW k \in Handlers, Checked(k)', NEW g \in Handlers, Marked(g)', Route(g)' = Route(k)'
        PROVE  Old(Held(g)', Alert(k)', Route(k)', now)
    <3>1. /\ Checked(k) /\ Route(k)' = Route(k) /\ Alert(k)' = Alert(k)
          /\ Marked(g) /\ Held(g)' = Held(g) /\ Route(g)' = Route(g)
      BY <1>7, <1>8, <2>2 DEF Marked, Checked
    <3>2. QED  BY <2>2, <3>1 DEF WindowInv, CheckedInv
  <2> HIDE DEF rt, entry, n
  <2>3. QED  BY <1>2, <2>1, <2>2 DEF CheckedInv, Old
<1>15. QED  BY <1>12, <1>13, <1>14 DEF WindowInv

\* The step from the dedupe check to the marking.
LEMMA WindowCheck ==
  ASSUME TypeInv, WindowInv, NEW h \in Handlers, CheckSeen(h), ~SeenRecently(Alert(h), Route(h))
  PROVE  WindowInv'
<1>1. StoreOK /\ HandlersOK /\ QueuesOK  BY DEF TypeInv
<1>2. handler[h].pc = "dedupe" /\ Goto(h, "mark") /\ UNCHANGED <<now, seen, accepted>>
  BY DEF CheckSeen, At, bounded, stored, history
<1>3. Alert(h) \in Alerts /\ Route(h) \in RouteNames /\ handler[h] \in HandlerStates
  BY <1>1, <1>2, InHand
<1>4. handler'[h].pc = "mark" /\ Alert(h)' = Alert(h) /\ Route(h)' = Route(h)
  BY <1>1, <1>2, <1>3 DEF Goto, HandlersOK, HandlerStates, Alert, Route
<1>5. ASSUME NEW g \in Handlers, g # h  PROVE  handler'[g] = handler[g]
  BY <1>1, <1>2, <1>5 DEF Goto, HandlersOK
<1>6. \A g \in Handlers : Marked(g)' =>
        Marked(g) /\ Held(g)' = Held(g) /\ Route(g)' = Route(g) /\ Held(g) \in Entry
  BY <1>1, <1>4, <1>5, HoldsOn DEF Marked
<1>7. \A k \in Handlers : Checked(k)' =>
        \/ k = h
        \/ Checked(k) /\ Route(k)' = Route(k) /\ Alert(k)' = Alert(k)
  BY <1>1, <1>5, HoldsOn DEF Checked
<1>8. \A i \in 1 .. Len(accepted[Route(h)]) : Old(accepted[Route(h)][i], Alert(h), Route(h), now)
  <2> SUFFICES ASSUME NEW i \in 1 .. Len(accepted[Route(h)])
      PROVE  Old(accepted[Route(h)][i], Alert(h), Route(h), now)
    OBVIOUS
  <2>1. accepted[Route(h)][i] \in Entry /\ Dated(accepted[Route(h)][i], now, seen)
    BY <1>1, <1>3, TakenIsEntry DEF WindowInv, TakenInv
  <2>2. QED  BY <1>1, <1>3, <2>1, NotSeenIsOld
<1>9. ASSUME NEW g \in Handlers, Marked(g)'
      PROVE  Old(Held(g), Alert(h), Route(h), now)
  <2>1. Held(g) \in Entry /\ Dated(Held(g), now, seen)
    BY <1>6, <1>9 DEF WindowInv, MarkedInv
  <2>2. QED  BY <1>1, <1>3, <2>1, NotSeenIsOld
<1>10. TakenInv'
  BY <1>2 DEF WindowInv, TakenInv, WindowKept, Apart, Dated, Truncated
<1>11. MarkedInv'
  BY <1>2, <1>6 DEF WindowInv, MarkedInv, Apart, Dated, Truncated
<1>12. CheckedInv'
  <2>1. ASSUME NEW k \in Handlers, Checked(k)', NEW i \in 1 .. Len(accepted[Route(k)'])
        PROVE  Old(accepted[Route(k)'][i], Alert(k)', Route(k)', now)
    <3>1. CASE k = h  BY <1>4, <1>8, <2>1, <3>1
    <3>2. CASE k # h  BY <1>7, <2>1, <3>2 DEF WindowInv, CheckedInv
    <3>3. QED  BY <3>1, <3>2
  <2>2. ASSUME NEW k \in Handlers, Checked(k)', NEW g \in Handlers, Marked(g)', Route(g)' = Route(k)'
        PROVE  Old(Held(g)', Alert(k)', Route(k)', now)
    <3>1. Marked(g) /\ Held(g)' = Held(g) /\ Route(g)' = Route(g)  BY <1>6, <2>2
    <3>2. CASE k = h  BY <1>4, <1>9, <2>2, <3>1, <3>2
    <3>3. CASE k # h
      <4>1. Checked(k) /\ Route(k)' = Route(k) /\ Alert(k)' = Alert(k)  BY <1>7, <2>2, <3>3
      <4>2. Old(Held(g), Alert(k), Route(k), now)  BY <2>2, <3>1, <4>1 DEF WindowInv, CheckedInv
      <4>3. QED  BY <3>1, <4>1, <4>2
    <3>4. QED  BY <3>2, <3>3
  <2>3. QED  BY <1>2, <2>1, <2>2 DEF CheckedInv, Old
<1>13. QED  BY <1>10, <1>11, <1>12 DEF WindowInv

LEMMA WindowStep ==
  ASSUME TypeInv, WindowInv, [Next]_vars
  PROVE  WindowInv'
<1> USE DEF bounded, stored, history
<1>1. StoreOK /\ HandlersOK /\ QueuesOK  BY DEF TypeInv
<1>2. now \in Nat /\ now <= now  BY <1>1, Numbers DEF StoreOK, Moments
<1>3. CASE IngestStep
  <2> PICK h \in Handlers : Ingest(h)  BY <1>3 DEF IngestStep
  <2>1. ASSUME UNCHANGED <<now, seen, accepted>>,
               NextAlert(h) \/ NextRoute(h) \/ \E pc \in {"match", "rate", "dedupe"} : Goto(h, pc)
        PROVE  WindowInv'
    <3>1. \A g \in Handlers : handler'[g] = handler[g] \/ handler'[g].pc \notin {"mark", "enqueue"}
      BY <1>1, <2>1, ElsewhereInTheLoop
    <3>2. QED  BY <1>2, <2>1, <3>1, WindowStays
  <2>2. CASE CheckSilence(h)  BY <2>1, <2>2 DEF CheckSilence
  <2>3. CASE MatchRoute(h)  BY <2>1, <2>3 DEF MatchRoute
  <2>4. CASE IncRate(h)  BY <2>1, <2>4 DEF IncRate
  <2>5. CASE CheckSeen(h)
    <3>1. CASE SeenRecently(Alert(h), Route(h))  BY <2>1, <2>5, <3>1 DEF CheckSeen
    <3>2. CASE ~SeenRecently(Alert(h), Route(h))  BY <2>5, <3>2, WindowCheck
    <3>3. QED  BY <3>1, <3>2
  <2>6. CASE MarkSeen(h)  BY <2>6, WindowMark
  <2>7. CASE Enqueue(h)
    <3>1. CASE HasRoom(Route(h))  BY <2>7, <3>1, WindowPut
    <3>2. CASE ~HasRoom(Route(h))  BY <2>1, <2>7, <3>2 DEF Enqueue
    <3>3. QED  BY <3>1, <3>2
  <2>8. QED  BY <2>2, <2>3, <2>4, <2>5, <2>6, <2>7 DEF Ingest
<1>4. CASE PostStep
  <2> PICK h \in Handlers, payload \in Payloads : Post(h, payload)  BY <1>4 DEF PostStep
  <2>1. UNCHANGED <<now, seen, accepted>>  BY DEF Post
  <2>2. \A g \in Handlers : handler'[g] = handler[g] \/ handler'[g].pc \notin {"mark", "enqueue"}
    BY <1>1 DEF Post, Begun, HandlersOK
  <2>3. QED  BY <1>2, <2>1, <2>2, WindowStays
<1>5. CASE ReceiveStep \/ WorkStep \/ PutStep \/ PurgeExpiredSilences \/ Cancel
  <2>1. UNCHANGED <<now, seen, accepted, handler>>
    BY <1>5 DEF ReceiveStep, Receive, WorkStep, Work, TimedWork, SendSlack, SendEmail, TickerFlush,
                LeaveFlush, WakeUp, Delivered, Failed, PutStep, PutSilence, PurgeExpiredSilences, Cancel
  <2>2. QED  BY <1>2, <2>1, WindowStays
<1>6. CASE Tick
  <2>1. UNCHANGED <<seen, accepted, handler>> /\ now' = now + 1  BY <1>6 DEF Tick
  <2>2. now' \in Nat /\ now <= now'  BY <1>2, <2>1
  <2>3. QED  BY <2>1, <2>2, WindowStays
<1>7. CASE Restart
  <2>1. UNCHANGED <<now, seen, accepted>>  BY <1>7 DEF Restart
  <2>2. \A g \in Handlers : handler'[g].pc \notin {"mark", "enqueue"}
    BY <1>7 DEF Restart, IdleHandler
  <2>3. QED  BY <1>2, <2>1, <2>2, WindowStays
<1>8. CASE UNCHANGED vars
  <2>1. UNCHANGED <<now, seen, accepted, handler>>  BY <1>8 DEF vars
  <2>2. QED  BY <1>2, <2>1, WindowStays
<1>9. QED  BY <1>3, <1>4, <1>5, <1>6, <1>7, <1>8, NextSplits

\* However many webhook calls run at once, a route takes the same fingerprint
\* again within its dedupe window (short of less than the second the mark is
\* truncated to) only when another handler's mark came between the later one's
\* check and its own mark, the gap that Ingest leaves at router.go:62-67.
THEOREM WindowIsKept == Spec => []WindowKept
<1>1. Init => WindowInv
  BY DEF Init, IdleHandler, WindowInv, TakenInv, MarkedInv, CheckedInv, WindowKept, Marked, Checked
<1>2. TypeInv /\ WindowInv /\ [Next]_vars => WindowInv'  BY WindowStep
<1>3. WindowInv => WindowKept  BY DEF WindowInv, TakenInv
<1>4. QED  BY <1>1, <1>2, <1>3, TypeInit, TypeStep, PTL DEF Spec
=============================================================================
