---------------------------- MODULE AlertRouter ----------------------------
(***************************************************************************)
(* go-alert-router: webhook handlers run Router.Ingest concurrently, each  *)
(* over the alerts of one payload: silences, then for every matching route *)
(* the rate limit, the dedupe window and the route's bounded queue.  One   *)
(* worker per route groups queued alerts into a batch and delivers it to   *)
(* Slack and then to e-mail, or stores it in the dead-letter bucket.       *)
(*                                                                         *)
(* Every BoltDB transaction is a step of its own; dedupe marks, rates,     *)
(* silences and dead letters survive a restart, queues and batches do not. *)
(* Time advances in ticks; SecondTicks of them make a second, MinuteTicks  *)
(* the minute of a rate key (scaled down).                                 *)
(***************************************************************************)
EXTENDS Integers, Sequences, SequencesExt

CONSTANTS
  Alerts,      \* alerts, by fingerprint
  Handlers,    \* concurrent calls of the webhook handler
  Routes,      \* cfg.Routes: route names, in configuration order
  Matches,     \* Matches[rt]: the alerts route rt's matchers accept
  Limit,       \* Limit[rt]: rateLimitPerMin, not positive for no limit
  Window,      \* Window[rt]: dedupeWindow, in ticks
  Channels,    \* Channels[rt]: the subset of {"slack", "email"} configured
  Payloads,    \* the alert lists a webhook call may carry
  Silences,    \* ids of silences
  Covers,      \* Covers[s]: the alerts the silence s matches
  Capacity,    \* capacity of a route's queue (1024 in the code)
  SecondTicks, MinuteTicks,
  Horizon, MaxPosts, MaxRestarts  \* bounds on time, webhook calls, restarts

RouteNames == {Routes[i] : i \in 1 .. Len(Routes)}

ASSUME RoutesAssumption   == Routes \in Seq(STRING)
ASSUME LimitAssumption    == Limit \in [RouteNames -> Int]
ASSUME WindowAssumption   == Window \in [RouteNames -> Nat]
ASSUME MatchesAssumption  == Matches \in [RouteNames -> SUBSET Alerts]
ASSUME ChannelsAssumption == Channels \in [RouteNames -> SUBSET {"slack", "email"}]
ASSUME PayloadsAssumption == Payloads \subseteq Seq(Alerts) \ {<<>>}
ASSUME CoversAssumption   == Covers \in [Silences -> SUBSET Alerts]
ASSUME TicksAssumption    == SecondTicks \in Nat \ {0} /\ MinuteTicks \in Nat \ {0}
ASSUME BoundsAssumption   == {Capacity, Horizon, MaxPosts, MaxRestarts} \subseteq Nat

VARIABLES
  now,        \* the clock
  seen,       \* bucket "dedupe": when a fingerprint was last marked, or Never
  rate,       \* bucket "rate": the count of each route and minute
  silence,    \* bucket "silence": Until of each silence, or Never
  dlq,        \* bucket "dlq": the entries stored for each route
  handler,    \* where each webhook handler is in Ingest
  queue,      \* the channel of each route
  worker,     \* the batch worker of each route
  stopping,   \* the process's context is cancelled
  posts, restarts,  \* counted to bound the model
  accepted,   \* history: the entries put into each route's queue
  settled,    \* history: the entries each worker is done with
  received    \* what each channel of a route has been given

stored   == <<seen, rate, silence, dlq>>
bounded  == <<now, posts, restarts, stopping>>
history  == <<accepted, settled, received>>
vars     == <<stored, handler, queue, worker, bounded, history>>

-----------------------------------------------------------------------------
Never   == -1
Moments == 0 .. Horizon

\* An alert on its way through a route, the moment it was marked as seen, and
\* (history) whether another handler had marked it for the same route between
\* the check and that mark.
Entry == [alert: Alerts, at: Moments, raced: BOOLEAN]

IdleHandler == [pc |-> "idle", todo |-> <<>>, route |-> 1, at |-> 0, raced |-> FALSE]
Begun(todo) == [pc |-> "silence", todo |-> todo, route |-> 1, at |-> 0, raced |-> FALSE]
NewWorker   == [pc |-> "select", batch |-> <<>>, leaving |-> FALSE]

TypeOK ==
  /\ now \in Moments
  /\ seen \in [Alerts -> Moments \union {Never}]
  /\ rate \in [RouteNames -> [0 .. Horizon \div MinuteTicks -> Nat]]
  /\ silence \in [Silences -> Moments \union {Never}]
  /\ dlq \in [RouteNames -> SUBSET Entry]
  /\ handler \in [Handlers -> [pc: {"idle", "silence", "match", "rate", "dedupe", "mark", "enqueue"},
                               todo: Seq(Alerts), route: 1 .. Len(Routes) + 1, at: Moments, raced: BOOLEAN]]
  /\ queue \in [RouteNames -> Seq(Entry)]
  /\ \A rt \in RouteNames : Len(queue[rt]) <= Capacity
  /\ worker \in [RouteNames -> [pc: {"select", "slack", "email", "backoff", "stopped"},
                                batch: Seq(Entry), leaving: BOOLEAN]]
  /\ stopping \in BOOLEAN
  /\ posts \in 0 .. MaxPosts
  /\ restarts \in 0 .. MaxRestarts
  /\ accepted \in [RouteNames -> Seq(Entry)]
  /\ settled \in [RouteNames -> Seq(Entry)]
  /\ received \in [RouteNames -> [{"slack", "email"} -> SUBSET Entry]]

Init ==
  /\ now = 0
  /\ seen = [a \in Alerts |-> Never]
  /\ rate = [rt \in RouteNames |-> [minute \in 0 .. Horizon \div MinuteTicks |-> 0]]
  /\ silence = [s \in Silences |-> Never]
  /\ dlq = [rt \in RouteNames |-> {}]
  /\ handler = [h \in Handlers |-> IdleHandler]
  /\ queue = [rt \in RouteNames |-> <<>>]
  /\ worker = [rt \in RouteNames |-> NewWorker]
  /\ stopping = FALSE
  /\ posts = 0 /\ restarts = 0
  /\ accepted = [rt \in RouteNames |-> <<>>]
  /\ settled = [rt \in RouteNames |-> <<>>]
  /\ received = [rt \in RouteNames |-> [c \in {"slack", "email"} |-> {}]]

-----------------------------------------------------------------------------
(* Ingest, one handler h.                                                  *)

At(h, pc)    == handler[h].pc = pc
Goto(h, pc)  == handler' = [handler EXCEPT ![h].pc = pc]
Alert(h)     == Head(handler[h].todo)
Route(h)     == Routes[handler[h].route]

\* continue of the loop over routes.
NextRoute(h) ==
  handler' = [handler EXCEPT ![h] =
    [pc |-> "match", todo |-> @.todo, route |-> @.route + 1, at |-> 0, raced |-> FALSE]]

\* continue of the loop over alerts; the handler returns after the last.
NextAlert(h) ==
  handler' = [handler EXCEPT ![h] =
    IF Len(@.todo) = 1 THEN IdleHandler
    ELSE Begun(Tail(handler[h].todo))]

\* A webhook call arrives, while the server accepts calls.
Post(h, payload) ==
  /\ At(h, "idle") /\ ~stopping /\ posts < MaxPosts
  /\ handler' = [handler EXCEPT ![h] = Begun(payload)]
  /\ posts' = posts + 1
  /\ UNCHANGED <<stored, queue, worker, now, restarts, stopping, history>>

\* A silence stays in force up to and including its Until.
Expired(until) == now > until
Silenced(a) == \E s \in Silences : a \in Covers[s] /\ ~Expired(silence[s])

CheckSilence(h) ==
  /\ At(h, "silence")
  /\ IF Silenced(Alert(h)) THEN NextAlert(h) ELSE Goto(h, "match")
  /\ UNCHANGED <<stored, queue, worker, bounded, history>>

\* The next route whose matchers accept the alert, or the next alert.
MatchRoute(h) ==
  /\ At(h, "match")
  /\ IF handler[h].route > Len(Routes) THEN NextAlert(h)
     ELSE IF Alert(h) \in Matches[Route(h)] THEN Goto(h, "rate")
     ELSE NextRoute(h)
  /\ UNCHANGED <<stored, queue, worker, bounded, history>>

\* IncRate counts up to the limit; its result allowed is never set to true.
Allowed(rt) == Limit[rt] <= 0
IncRate(h) ==
  LET rt == Route(h)
      minute == now \div MinuteTicks
  IN  /\ At(h, "rate")
      /\ rate' = IF rate[rt][minute] >= Limit[rt] THEN rate
                 ELSE [rate EXCEPT ![rt][minute] = @ + 1]
      /\ IF Allowed(rt) THEN Goto(h, "dedupe") ELSE NextRoute(h)
      /\ UNCHANGED <<seen, silence, dlq, queue, worker, bounded, history>>

\* Variant: the window is read the wrong way round.
SeenLongAgo(a, rt) == seen[a] # Never /\ now - seen[a] > Window[rt]

\* SeenRecently, in a read transaction of its own.
SeenRecently(a, rt) == seen[a] # Never /\ now - seen[a] < Window[rt]
CheckSeen(h) ==
  /\ At(h, "dedupe")
  /\ IF SeenRecently(Alert(h), Route(h)) THEN NextRoute(h) ELSE Goto(h, "mark")
  /\ UNCHANGED <<stored, queue, worker, bounded, history>>

\* MarkSeen stores whole seconds.  A handler that is between its check and its
\* own mark of the same alert, for the same route, does not see this one.
Truncated(t) == (t \div SecondTicks) * SecondTicks
Overlaps(g, h) == At(g, "mark") /\ Alert(g) = Alert(h) /\ Route(g) = Route(h)
MarkSeen(h) ==
  /\ At(h, "mark")
  /\ seen' = [seen EXCEPT ![Alert(h)] = Truncated(now)]
  /\ handler' = [g \in Handlers |->
       IF g = h THEN [handler[g] EXCEPT !.pc = "enqueue", !.at = now]
       ELSE IF Overlaps(g, h) THEN [handler[g] EXCEPT !.raced = TRUE]
       ELSE handler[g]]
  /\ UNCHANGED <<rate, silence, dlq, queue, worker, bounded, history>>

HasRoom(rt) == Len(queue[rt]) < Capacity
Held(h)     == [alert |-> Alert(h), at |-> handler[h].at, raced |-> handler[h].raced]

\* Variant: a full queue gives up its oldest alert.
EnqueueDropOldest(h) ==
  LET rt == Route(h)
  IN  /\ At(h, "enqueue")
      /\ queue' = [queue EXCEPT ![rt] = Append(IF HasRoom(rt) THEN @ ELSE Tail(@), Held(h))]
      /\ accepted' = [accepted EXCEPT ![rt] = Append(@, Held(h))]
      /\ NextRoute(h)
      /\ UNCHANGED <<stored, worker, bounded, settled, received>>

\* The alert is dropped when the queue is full.
Enqueue(h) ==
  LET rt == Route(h)
  IN  /\ At(h, "enqueue")
      /\ IF HasRoom(rt)
         THEN /\ queue' = [queue EXCEPT ![rt] = Append(@, Held(h))]
              /\ accepted' = [accepted EXCEPT ![rt] = Append(@, Held(h))]
         ELSE UNCHANGED <<queue, accepted>>
      /\ NextRoute(h)
      /\ UNCHANGED <<stored, worker, bounded, settled, received>>

Ingest(h) ==
  \/ CheckSilence(h) \/ MatchRoute(h) \/ IncRate(h)
  \/ CheckSeen(h) \/ MarkSeen(h) \/ Enqueue(h)

-----------------------------------------------------------------------------
(* batchWorker, the worker of one route rt.                                *)

Is(rt, pc) == worker[rt].pc = pc

\* case a := <-ch
Receive(rt) ==
  /\ Is(rt, "select") /\ queue[rt] # <<>>
  /\ worker' = [worker EXCEPT ![rt].batch = Append(@, Head(queue[rt]))]
  /\ queue' = [queue EXCEPT ![rt] = Tail(@)]
  /\ UNCHANGED <<stored, handler, bounded, history>>

\* Where a flush starts, or goes on after channel c has succeeded.
NextChannel(rt, done) ==
  IF "slack" \in Channels[rt] \ done THEN "slack"
  ELSE IF "email" \in Channels[rt] \ done THEN "email" ELSE "settle"

\* The end of flush: the batch is cleared, delivered or not; a worker that is
\* leaving because of the cancelled context returns.
Settle(rt, leaving) ==
  /\ settled' = [settled EXCEPT ![rt] = @ \o worker[rt].batch]
  /\ worker' = [worker EXCEPT ![rt] =
       [pc |-> IF leaving THEN "stopped" ELSE "select", batch |-> <<>>, leaving |-> FALSE]]

\* A flush of a batch that is not empty; formatBatch is done here.
BeginFlush(rt, leaving) ==
  LET first == NextChannel(rt, {})
  IN  IF first = "settle" THEN Settle(rt, leaving)
      ELSE /\ worker' = [worker EXCEPT ![rt] =
                [pc |-> first, batch |-> @.batch, leaving |-> leaving]]
           /\ UNCHANGED settled

\* Variant: the ticker leaves a batch of one alone.
TickerFlushGroups(rt) ==
  /\ Is(rt, "select") /\ Len(worker[rt].batch) > 1
  /\ BeginFlush(rt, FALSE)
  /\ UNCHANGED <<stored, handler, queue, bounded, accepted, received>>

\* case <-t.C; an empty batch is nothing to flush.
TickerFlush(rt) ==
  /\ Is(rt, "select") /\ worker[rt].batch # <<>>
  /\ BeginFlush(rt, FALSE)
  /\ UNCHANGED <<stored, handler, queue, bounded, accepted, received>>

\* case <-ctx.Done(): what is still in the channel stays there.
LeaveFlush(rt) ==
  /\ Is(rt, "select") /\ stopping
  /\ IF worker[rt].batch # <<>> THEN BeginFlush(rt, TRUE)
     ELSE worker' = [worker EXCEPT ![rt].pc = "stopped"] /\ UNCHANGED settled
  /\ UNCHANGED <<stored, handler, queue, bounded, accepted, received>>

\* A channel has taken the batch: flush goes on with the next one, or ends.
Delivered(rt, c) ==
  /\ Is(rt, c)
  /\ received' = [received EXCEPT ![rt][c] = @ \union ToSet(worker[rt].batch)]
  /\ LET next == NextChannel(rt, {"slack", c})
     IN  IF next = "settle" THEN Settle(rt, worker[rt].leaving)
         ELSE worker' = [worker EXCEPT ![rt].pc = next] /\ UNCHANGED settled
  /\ UNCHANGED <<stored, handler, queue, bounded, accepted>>

\* The worker sleeps for two seconds with the batch in hand.
SleepOn(rt) ==
  worker' = [worker EXCEPT ![rt] =
    [pc |-> "backoff", batch |-> @.batch, leaving |-> @.leaving]]

\* Variant: a failed batch is not stored.
FailedUnstored(rt, c) ==
  /\ Is(rt, c)
  /\ received' \in {received, [received EXCEPT ![rt][c] = @ \union ToSet(worker[rt].batch)]}
  /\ SleepOn(rt)
  /\ UNCHANGED <<stored, handler, queue, bounded, accepted, settled>>

\* A channel returned an error, having taken the batch or not: the whole batch
\* goes to the dead-letter bucket and the worker sleeps.
Failed(rt, c) ==
  /\ Is(rt, c)
  /\ received' \in {received, [received EXCEPT ![rt][c] = @ \union ToSet(worker[rt].batch)]}
  /\ dlq' = [dlq EXCEPT ![rt] = @ \union ToSet(worker[rt].batch)]
  /\ SleepOn(rt)
  /\ UNCHANGED <<seen, rate, silence, handler, queue, bounded, accepted, settled>>

WakeUp(rt) ==
  /\ Is(rt, "backoff")
  /\ Settle(rt, worker[rt].leaving)
  /\ UNCHANGED <<stored, handler, queue, bounded, accepted, received>>

\* Slack.Send has a client with a timeout; Email.Send times out only while it
\* dials and then waits for each answer of the server, if need be for ever.
SendSlack(rt) == Delivered(rt, "slack") \/ Failed(rt, "slack")
SendEmail(rt) == Delivered(rt, "email") \/ Failed(rt, "email")

\* What a worker does within bounded time.
TimedWork(rt) == TickerFlush(rt) \/ LeaveFlush(rt) \/ WakeUp(rt) \/ SendSlack(rt)
Work(rt)      == TimedWork(rt) \/ SendEmail(rt)

-----------------------------------------------------------------------------
(* Silences, the clock and the process.                                    *)

\* handlePutSilence stores any Until, a silence of the same id is replaced.
PutSilence(s, until) ==
  /\ silence[s] # until
  /\ silence' = [silence EXCEPT ![s] = until]
  /\ UNCHANGED <<seen, rate, dlq, handler, queue, worker, bounded, history>>

\* Variant: a silence is purged at its Until already.
PurgeAtUntil ==
  /\ silence' = [s \in Silences |-> IF now >= silence[s] THEN Never ELSE silence[s]]
  /\ UNCHANGED <<seen, rate, dlq, handler, queue, worker, bounded, history>>

\* The scheduler's PurgeExpiredSilences, one transaction.
PurgeExpiredSilences ==
  /\ silence' = [s \in Silences |-> IF Expired(silence[s]) THEN Never ELSE silence[s]]
  /\ UNCHANGED <<seen, rate, dlq, handler, queue, worker, bounded, history>>

Tick ==
  /\ now < Horizon
  /\ now' = now + 1
  /\ UNCHANGED <<stored, handler, queue, worker, posts, restarts, stopping, history>>

\* SIGTERM or SIGINT cancels the context.
Cancel ==
  /\ ~stopping
  /\ stopping' = TRUE
  /\ UNCHANGED <<stored, handler, queue, worker, now, posts, restarts, history>>

\* The process ends, by a crash or because main returns as soon as Shutdown has
\* been called, and is started again: only the database is left.
Restart ==
  /\ restarts < MaxRestarts
  /\ restarts' = restarts + 1
  /\ stopping' = FALSE
  /\ handler' = [h \in Handlers |-> IdleHandler]
  /\ queue' = [rt \in RouteNames |-> <<>>]
  /\ worker' = [rt \in RouteNames |-> NewWorker]
  /\ UNCHANGED <<stored, now, posts, history>>

-----------------------------------------------------------------------------
Next ==
  \/ \E h \in Handlers : Ingest(h) \/ \E payload \in Payloads : Post(h, payload)
  \/ \E rt \in RouteNames : Receive(rt) \/ Work(rt)
  \/ \E s \in Silences, until \in Moments : PutSilence(s, until)
  \/ PurgeExpiredSilences \/ Tick \/ Cancel \/ Restart

Spec == Init /\ [][Next]_vars

\* Handlers and workers run; Go's select picks at random among the cases that
\* are ready, so a case that is ready again and again is picked (strong
\* fairness).  Time, clients, the e-mail server, signals and crashes owe nothing.
Fairness ==
  /\ \A h \in Handlers : WF_vars(Ingest(h))
  /\ \A rt \in RouteNames : WF_vars(TimedWork(rt)) /\ SF_vars(Receive(rt))

FairSpec == Spec /\ Fairness

-----------------------------------------------------------------------------
(* Properties.                                                             *)

\* Until the process first goes away, what entered a route's queue is, in that
\* order, what its worker is done with, has in its batch, and has yet to receive.
NothingLostInside ==
  restarts = 0 =>
    \A rt \in RouteNames : accepted[rt] = settled[rt] \o worker[rt].batch \o queue[rt]

\* What a worker is done with has reached every channel of the route or is in
\* the dead-letter bucket, restarts or not.
NoSilentLoss ==
  \A rt \in RouteNames : \A e \in ToSet(settled[rt]) :
    e \in dlq[rt] \/ \A c \in Channels[rt] : e \in received[rt][c]

\* Of two entries of a route, f, marked not before e, is out of e's window, or
\* e was marked after f's check.
Apart(e, f, rt) ==
  e.alert = f.alert /\ e.at <= f.at
    => \/ f.at - e.at > Window[rt] - SecondTicks
       \/ f.raced \/ (e.at = f.at /\ e.raced)

\* However webhook calls overlap, and across restarts, a route takes the same
\* fingerprint twice within its window (short of what MarkSeen's truncation takes
\* away) only if the later mark was made by a handler whose check had not seen
\* the earlier one (router.go:62-67).
WindowKept ==
  \A rt \in RouteNames : \A i, j \in 1 .. Len(accepted[rt]) :
    i # j => Apart(accepted[rt][i], accepted[rt][j], rt)

\* Purging expired silences never changes which alerts are silenced.
PurgeIsInvisible ==
  [][(\A s \in Silences : silence'[s] \in {silence[s], Never})
       => \A a \in Alerts : Silenced(a)' = Silenced(a)]_silence

\* What a route has taken is delivered or dead-lettered in the end, unless the
\* process is told to stop or an e-mail server leaves the worker waiting for ever.
EventuallySettled ==
  \A rt \in RouteNames : \A n \in 1 .. MaxPosts :
    [](Len(accepted[rt]) >= n
       => \/ <>(Len(settled[rt]) >= n \/ stopping \/ restarts > 0)
          \/ <>[]Is(rt, "email"))
=============================================================================
