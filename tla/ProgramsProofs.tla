--------------------------- MODULE ProgramsProofs ---------------------------
(***************************************************************************)
(* What each of the Programs promises, for every instance: a section for   *)
(* each program, and the theorems about them.                              *)
(***************************************************************************)
EXTENDS Programs, FiniteSetTheorems, SequenceTheorems, WellFoundedInduction, TLAPS

\* In a step of the Programs each one takes a step of its own or none.
LEMMA OneProgramSteps ==
  [ProgramsNext]_all =>
    /\ [Next]_vars /\ [Loop!Next]_(Loop!vars) /\ [Exporter!Next]_(Exporter!vars)
    /\ [History!Next]_(History!vars) /\ [Checker!Next]_(Checker!vars)
    /\ [Restarter!Next]_(Restarter!vars) /\ [Auditor!Next]_(Auditor!vars)
    /\ [Disk!Next]_(Disk!vars)
  BY DEF ProgramsNext, all, probing, exporting, appending, releases, cluster, auditing, disk,
         Loop!vars, Exporter!vars, History!vars, Checker!vars, Restarter!vars, Auditor!vars,
         Disk!vars

\* The instances' copies of Cardinality.
LEMMA SameCardinality ==
  ASSUME NEW S
  PROVE  /\ Restarter!Cardinality(S) = Cardinality(S) /\ Checker!Cardinality(S) = Cardinality(S)
         /\ Exporter!Cardinality(S) = Cardinality(S) /\ Auditor!Cardinality(S) = Cardinality(S)
  BY DEF Restarter!Cardinality, Checker!Cardinality, Exporter!Cardinality, Auditor!Cardinality,
         Cardinality

\* Taking the head of a sequence leaves its end.
LEMMA TailKeepsEnd ==
  ASSUME NEW S, NEW seq \in Seq(S), seq # <<>>
  PROVE  /\ Head(seq) \in S /\ Tail(seq) \in Seq(S)
         /\ Len(seq) \in Nat /\ Len(seq) > 0 /\ Len(Tail(seq)) = Len(seq) - 1
         /\ Tail(seq) = <<>> => Head(seq) = seq[Len(seq)]
         /\ Tail(seq) # <<>> => Tail(seq)[Len(Tail(seq))] = seq[Len(seq)]
<1>1. Head(seq) \in S /\ Tail(seq) \in Seq(S) /\ Len(Tail(seq)) = Len(seq) - 1
  BY HeadTailProperties
<1>2. Len(seq) \in Nat /\ Len(seq) > 0 /\ Len(<<>>) = 0 /\ Head(seq) = seq[1]
  BY EmptySeq
<1>3. ASSUME Tail(seq) = <<>> PROVE Head(seq) = seq[Len(seq)]
  <2>1. Len(Tail(seq)) = 0
    BY <1>2, <1>3, Zenon
  <2>2. \A n \in Nat : n - 1 = 0 => n = 1
    OBVIOUS
  <2>3. Len(seq) - 1 = 0
    BY <1>1, <2>1, Zenon
  <2>4. Len(seq) = 1
    BY <1>2, <2>2, <2>3, Zenon
  <2> QED
    BY <1>2, <2>4, Zenon
<1>4. ASSUME Tail(seq) # <<>> PROVE Tail(seq)[Len(Tail(seq))] = seq[Len(seq)]
  <2>1. Len(Tail(seq)) \in Nat /\ Len(Tail(seq)) > 0
    BY <1>1, <1>4, EmptySeq
  <2>2. Tail(seq)[Len(Tail(seq))] = seq[Len(Tail(seq)) + 1]
    <3>1. \A i \in 1 .. Len(Tail(seq)) : Tail(seq)[i] = seq[i + 1]
      BY HeadTailProperties
    <3>2. Len(Tail(seq)) \in 1 .. Len(Tail(seq))
      BY <2>1
    <3> QED
      BY <3>1, <3>2
  <2>3. Len(Tail(seq)) + 1 = Len(seq)
    BY <1>1, <1>2
  <2> QED
    BY <2>2, <2>3
<1> QED
  BY <1>1, <1>2, <1>3, <1>4

-----------------------------------------------------------------------------
(* The status dashboard.                                                    *)

\* What was broadcast was stored before; a channel that holds anything ends
\* with the last broadcast unless it refused that one.
HubInv ==
  /\ announced <= payload /\ payload <= round
  /\ scheduler = "broadcasting" => payload = round
  /\ \A c \in Clients :
       /\ client[c] = "away" => subs[c] = <<>>
       /\ subs[c] # <<>> => subs[c][Len(subs[c])] = announced \/ dropped[c] = announced

DashboardInv == TypeOK /\ HubInv /\ NothingMissed

LEMMA DashboardInit == Init => DashboardInv
<1> USE BoundAssumption DEF Init
<1>1. Init => TypeOK
  BY DEF TypeOK, Rounds, None
<1>2. Init => HubInv
  BY DEF HubInv
<1>3. Init => NothingMissed
  BY DEF NothingMissed
<1> QED
  BY <1>1, <1>2, <1>3 DEF DashboardInv

\* A round's checks change nothing the visitors see.
LEMMA ChecksKeep ==
  ASSUME DashboardInv, (\E s \in Services : Acquire(s) \/ checkOne(s)) \/ Tick \/ Checked \/ Stop \/ shutdown
  PROVE  DashboardInv'
<1> USE BoundAssumption DEF DashboardInv, checks, hub
<1>1. UNCHANGED <<round, payload, subs, client, shown, dropped, announced>>
  BY DEF Acquire, checkOne, Tick, Checked, Stop, shutdown
<1>2. scheduler' = "broadcasting" => scheduler = "broadcasting"
  BY DEF Acquire, checkOne, Tick, Checked, Stop, shutdown
<1>3. HubInv' /\ NothingMissed'
  BY <1>1, <1>2 DEF HubInv, NothingMissed, Pending
<1>4. probe' \in [Services -> {"waiting", "running", "up", "down"}]
  <2>1. CASE \E s \in Services : Acquire(s) \/ checkOne(s)
    BY <2>1 DEF Acquire, checkOne, TypeOK
  <2>2. CASE Tick \/ Checked \/ Stop \/ shutdown
    BY <2>2 DEF Tick, Checked, Stop, shutdown, TypeOK
  <2> QED
    BY <2>1, <2>2
<1>5. timeout' = timeout /\ Deadline' = Deadline /\ Deadline \in Int
  BY DEF Acquire, checkOne, Tick, Checked, Stop, shutdown, Deadline, TypeOK
<1>9. clock' \in Nat /\ (clock' = 0 \/ clock' <= Deadline)
  <2>1. clock' = clock \/ (clock < Deadline /\ clock' = clock + 1)
    BY DEF Acquire, checkOne, Tick, Checked, Stop, shutdown
  <2> QED
    BY <1>5, <2>1 DEF TypeOK
<1>6. started' \in [Services -> Nat \union {None}]
  <2>1. CASE \E s \in Services : Acquire(s)
    BY <2>1 DEF Acquire, TypeOK
  <2>2. CASE UNCHANGED started
    BY <2>2 DEF TypeOK
  <2> QED
    BY <2>1, <2>2 DEF checkOne, Tick, Checked, Stop, shutdown
<1>7. /\ scheduler' \in {"idle", "checking", "storing", "broadcasting", "stopped"}
      /\ phase' \in {"running", "stopping", "exited"}
  BY DEF Acquire, checkOne, Tick, Checked, Stop, shutdown, Signal, Exit, TypeOK
<1>8. TypeOK'
  BY <1>1, <1>4, <1>5, <1>6, <1>7, <1>9 DEF TypeOK
<1> QED
  BY <1>3, <1>8

\* A new round, the result stored, and the result broadcast.
LEMMA RoundKeeps ==
  ASSUME DashboardInv, doRound \/ Store
  PROVE  DashboardInv'
<1> USE BoundAssumption DEF DashboardInv, checks, hub
<1>1. UNCHANGED <<subs, client, shown, dropped, announced, phase>>
  BY DEF doRound, Store
<1>2. {round, payload, announced} \subseteq Nat /\ round <= MaxRounds /\ MaxRounds \in Nat
  BY DEF TypeOK, Rounds
<1>3. /\ announced <= payload' /\ payload' <= round' /\ round' \in 0 .. MaxRounds
      /\ scheduler' = "broadcasting" => payload' = round'
  BY <1>2 DEF doRound, Store, HubInv
<1>4. HubInv' /\ NothingMissed'
  BY <1>1, <1>3 DEF HubInv, NothingMissed, Pending
<1>5. /\ probe' \in [Services -> {"waiting", "running", "up", "down"}]
      /\ started' \in [Services -> Nat \union {None}]
      /\ timeout' = timeout /\ Deadline' = Deadline /\ clock' \in {0, clock}
      /\ scheduler' \in {"checking", "broadcasting"}
  BY DEF doRound, Store, Deadline, TypeOK
<1>6. {round, payload, announced}' \subseteq Rounds
  <2>1. announced' \in Nat /\ payload' \in Nat
    BY <1>1, <1>2 DEF doRound, Store
  <2> QED
    BY <1>1, <1>2, <1>3, <2>1 DEF Rounds
<1>7. TypeOK'
  BY <1>1, <1>5, <1>6 DEF TypeOK
<1> QED
  BY <1>4, <1>7

LEMMA BroadcastKeeps ==
  ASSUME DashboardInv, broadcast
  PROVE  DashboardInv'
<1> USE BoundAssumption DEF DashboardInv, checks, hub
<1> DEFINE full == {c \in Subscribed : Len(subs[c]) >= Capacity}
<1>1. /\ subs' = [c \in Clients |-> IF c \in Subscribed \ full THEN Append(subs[c], round) ELSE subs[c]]
      /\ dropped' = [c \in Clients |-> IF c \in full THEN round ELSE dropped[c]]
      /\ announced' = round /\ payload = round /\ scheduler' = "idle"
      /\ UNCHANGED <<timeout, probe, started, clock, round, payload, client, shown, phase>>
  BY DEF broadcast, HubInv
<1>2. \A c \in Clients : subs[c] \in Seq(Rounds) /\ Len(subs[c]) <= Capacity /\ round \in Rounds
  BY DEF TypeOK
<1>3. ASSUME NEW c \in Clients
      PROVE  /\ subs'[c] \in Seq(Rounds) /\ Len(subs'[c]) <= Capacity /\ dropped'[c] \in Rounds
             /\ client[c] = "away" => subs'[c] = <<>>
             /\ client[c] # "away" => \/ subs'[c] # <<>> /\ subs'[c][Len(subs'[c])] = round
                                      \/ dropped'[c] = round
  <2>1. CASE client[c] = "away"
    <3>1. subs'[c] = subs[c] /\ dropped'[c] = dropped[c]
      BY <1>1, <2>1 DEF Subscribed
    <3> QED
      BY <1>2, <2>1, <3>1 DEF HubInv, TypeOK
  <2>2. CASE c \in full
    BY <1>1, <1>2, <2>2 DEF Subscribed
  <2>3. CASE client[c] # "away" /\ c \notin full
    <3>1. subs'[c] = Append(subs[c], round) /\ Len(subs[c]) < Capacity /\ dropped'[c] = dropped[c]
      BY <1>1, <1>2, <2>3 DEF Subscribed
    <3>2. /\ subs'[c] \in Seq(Rounds) /\ Len(subs'[c]) = Len(subs[c]) + 1
          /\ subs'[c] # <<>> /\ subs'[c][Len(subs'[c])] = round
      BY <1>2, <3>1
    <3> QED
      BY <1>2, <2>3, <3>1, <3>2 DEF TypeOK
  <2> QED
    BY <2>1, <2>2, <2>3 DEF Subscribed
<1>4. TypeOK'
  BY <1>1, <1>3 DEF TypeOK, Deadline
<1>5. HubInv'
  <2>1. round \in Nat
    BY DEF TypeOK, Rounds
  <2> QED
    BY <1>1, <1>3, <2>1 DEF HubInv
<1>6. NothingMissed'
  <2>1. round \in Nat
    BY DEF TypeOK, Rounds
  <2> QED
    BY <1>1, <1>3, <2>1 DEF NothingMissed, Pending
<1> QED
  BY <1>4, <1>5, <1>6

\* A visitor's steps: it is subscribed before it reads what is stored.
LEMMA VisitorKeeps ==
  ASSUME DashboardInv, NEW v \in Clients, events(v)
  PROVE  DashboardInv'
<1> USE BoundAssumption DEF DashboardInv, checks, hub
<1>1. UNCHANGED <<timeout, probe, started, clock, scheduler, round, payload, phase, announced>>
  BY DEF events
<1>2. \A c \in Clients : c # v => /\ subs'[c] = subs[c] /\ client'[c] = client[c]
                                  /\ shown'[c] = shown[c] /\ dropped'[c] = dropped[c]
  BY DEF events, subscribe, ReadStored, SendStored, Stream, unsubscribe, TypeOK
<1>3. /\ subs[v] \in Seq(Rounds) /\ Len(subs[v]) <= Capacity
      /\ shown[v] \in Rounds /\ dropped[v] \in Rounds /\ payload \in Rounds
      /\ payload >= announced /\ payload \in Nat /\ announced \in Nat /\ 0 \in Rounds
  BY DEF TypeOK, HubInv, Rounds
<1>4. /\ subs' \in [Clients -> Seq(Rounds)]
      /\ client' \in [Clients -> {"away", "connected", "sending", "streaming"}]
      /\ {shown, dropped}' \subseteq [Clients -> Rounds]
      /\ Len(subs'[v]) <= Capacity
      /\ client'[v] = "away" => subs'[v] = <<>>
      /\ subs'[v] # <<>> => subs'[v][Len(subs'[v])] = announced \/ dropped'[v] = announced
      /\ client'[v] \in {"sending", "streaming"} => Pending(v)' >= announced \/ dropped'[v] = announced
  <2>1. CASE subscribe(v)
    <3>1. subs' = subs /\ subs[v] = <<>>
      BY <2>1 DEF subscribe, HubInv
    <3>2. client' = [client EXCEPT ![v] = "connected"]
      BY <2>1 DEF subscribe
    <3>3. shown' = [shown EXCEPT ![v] = 0] /\ dropped' = [dropped EXCEPT ![v] = 0]
      BY <2>1 DEF subscribe
    <3> QED
      BY <1>3, <3>1, <3>2, <3>3 DEF TypeOK
  <2>2. CASE ReadStored(v)
    <3>1. UNCHANGED <<subs, dropped>> /\ client' = [client EXCEPT ![v] = "sending"]
          /\ shown' = [shown EXCEPT ![v] = payload]
      BY <2>2 DEF ReadStored
    <3>2. subs[v] = <<>> => Pending(v)' = payload
      BY <3>1 DEF Pending, TypeOK
    <3>3. subs[v] # <<>> => Pending(v)' = subs[v][Len(subs[v])]
      BY <3>1 DEF Pending
    <3> QED
      BY <1>3, <2>2, <3>1, <3>2, <3>3 DEF TypeOK, HubInv, ReadStored
  <2>3. CASE SendStored(v)
    <3>1. UNCHANGED <<subs, shown, dropped>> /\ client[v] = "sending"
          /\ client' = [client EXCEPT ![v] = "streaming"]
      BY <2>3 DEF SendStored
    <3>2. Pending(v)' = Pending(v)
      BY <3>1 DEF Pending
    <3> QED
      BY <1>3, <3>1, <3>2 DEF TypeOK, HubInv, NothingMissed
  <2>4. CASE Stream(v)
    <3>1. UNCHANGED <<client, dropped>> /\ client[v] = "streaming" /\ subs[v] # <<>>
          /\ shown' = [shown EXCEPT ![v] = Head(subs[v])]
          /\ subs' = [subs EXCEPT ![v] = Tail(subs[v])]
      BY <2>4 DEF Stream
    <3>2. /\ Head(subs[v]) \in Rounds /\ Tail(subs[v]) \in Seq(Rounds)
          /\ Len(subs[v]) \in Nat /\ Len(subs[v]) > 0 /\ Len(Tail(subs[v])) = Len(subs[v]) - 1
      BY <1>3, <3>1, TailKeepsEnd
    <3>3. Tail(subs[v]) = <<>> => Head(subs[v]) = subs[v][Len(subs[v])]
      BY <1>3, <3>1, TailKeepsEnd
    <3>4. Tail(subs[v]) # <<>> => Tail(subs[v])[Len(Tail(subs[v]))] = subs[v][Len(subs[v])]
      BY <1>3, <3>1, TailKeepsEnd
    <3>5. subs'[v] = Tail(subs[v]) /\ shown'[v] = Head(subs[v]) /\ Pending(v) = subs[v][Len(subs[v])]
      BY <3>1 DEF TypeOK, Pending
    <3>6. Pending(v)' = Pending(v)
      BY <3>3, <3>4, <3>5 DEF Pending
    <3>7. subs'[v] # <<>> => subs'[v][Len(subs'[v])] = subs[v][Len(subs[v])]
      BY <3>3, <3>4, <3>5
    <3>8. Pending(v) >= announced \/ dropped[v] = announced
      BY <3>1 DEF NothingMissed
    <3>9. subs[v][Len(subs[v])] = announced \/ dropped[v] = announced
      BY <3>1 DEF HubInv
    <3>10. subs' \in [Clients -> Seq(Rounds)] /\ {shown, dropped}' \subseteq [Clients -> Rounds]
      BY <3>1, <3>2 DEF TypeOK
    <3>11. Len(subs'[v]) <= Capacity
      BY <1>3, <3>2, <3>5
    <3> QED
      BY <3>1, <3>6, <3>7, <3>8, <3>9, <3>10, <3>11 DEF TypeOK
  <2>5. CASE unsubscribe(v)
    <3>1. UNCHANGED <<shown, dropped>> /\ client' = [client EXCEPT ![v] = "away"]
          /\ subs' = [subs EXCEPT ![v] = <<>>]
      BY <2>5 DEF unsubscribe
    <3>2. <<>> \in Seq(Rounds) /\ Len(<<>>) = 0
      OBVIOUS
    <3> QED
      BY <3>1, <3>2 DEF TypeOK
  <2> QED
    BY <2>1, <2>2, <2>3, <2>4, <2>5 DEF events
<1>5. TypeOK'
  BY <1>1, <1>2, <1>4 DEF TypeOK, Deadline
<1>6. HubInv'
  BY <1>1, <1>2, <1>4 DEF HubInv
<1>7. NothingMissed'
  <2>1. \A c \in Clients : c # v => Pending(c)' = Pending(c)
    BY <1>2 DEF Pending
  <2> QED
    BY <1>1, <1>2, <1>4, <2>1 DEF NothingMissed
<1> QED
  BY <1>5, <1>6, <1>7

LEMMA DashboardStep ==
  ASSUME DashboardInv, [Next]_vars
  PROVE  DashboardInv'
<1>1. CASE UNCHANGED vars
  BY <1>1 DEF vars, checks, hub, DashboardInv, TypeOK, Deadline, HubInv, NothingMissed, Pending
<1>2. CASE Next
  BY <1>2, ChecksKeep, RoundKeeps, BroadcastKeeps, VisitorKeeps DEF Next, runScheduler
<1> QED
  BY <1>1, <1>2

\* A result that is broadcast between a visitor's subscription and its reading
\* of the store is in one of the two, whatever the scheduler and the visitors
\* do in between (main.go:428): a page ends no older than the last broadcast,
\* unless its full channel refused that one.
THEOREM NothingIsMissed == ProgramsSpec => []NothingMissed
<1>1. ProgramsInit => DashboardInv
  BY DashboardInit DEF ProgramsInit
<1>2. DashboardInv /\ [ProgramsNext]_all => DashboardInv'
  BY DashboardStep, OneProgramSteps
<1>3. DashboardInv => NothingMissed
  BY DEF DashboardInv
<1> QED
  BY <1>1, <1>2, <1>3, PTL DEF ProgramsSpec

-----------------------------------------------------------------------------
(* The exporter.                                                            *)

Goroutines == queued \union checking

\* Goroutines are of the last round, and a URL whose result is not of that
\* round has one of the round before and a goroutine that will replace it.
RoundInv ==
  /\ rounds \in Nat
  /\ DOMAIN results = Exporter!Urls
  /\ \A g \in Goroutines : g.entry \in Listings /\ g.round = rounds
  /\ \A u \in Exporter!Urls :
       \/ results[u].of = rounds
       \/ /\ rounds > 0 /\ results[u].of = rounds - 1
          /\ \E g \in Goroutines : UrlOf[g.entry] = u

\* A new round begins when every result is of the last one.
LEMMA RoundBegins ==
  ASSUME RoundInv, Exporter!runRound
  PROVE  RoundInv'
<1> DEFINE new == {[entry |-> e, round |-> rounds + 1] : e \in Listings}
<1>1. Goroutines = {} /\ rounds' = rounds + 1 /\ results' = results
      /\ queued' = queued \union new /\ checking' = checking
  BY DEF Exporter!runRound, Exporter!Waited, Goroutines
<1>2. rounds \in Nat /\ rounds' \in Nat /\ rounds' > 0 /\ rounds' - 1 = rounds
  BY <1>1 DEF RoundInv
<1>3. Goroutines' = new  BY <1>1 DEF Goroutines
<1>4. \A g \in new : g.entry \in Listings /\ g.round = rounds'  BY <1>1
<1>5. \A u \in Exporter!Urls : results[u].of = rounds  BY <1>1 DEF RoundInv
<1>6. \A u \in Exporter!Urls : \E g \in new : UrlOf[g.entry] = u
  <2> SUFFICES ASSUME NEW e \in Listings PROVE \E g \in new : UrlOf[g.entry] = UrlOf[e]
    BY DEF Exporter!Urls
  <2> WITNESS [entry |-> e, round |-> rounds + 1] \in new
  <2> QED  OBVIOUS
<1> HIDE DEF new
<1>7. DOMAIN results' = Exporter!Urls  BY <1>1 DEF RoundInv
<1>8. \A u \in Exporter!Urls : results'[u].of = rounds' - 1 /\ \E g \in new : UrlOf[g.entry] = u
  BY <1>1, <1>2, <1>5, <1>6
<1>9. QED  BY <1>2, <1>3, <1>4, <1>7, <1>8 DEF RoundInv

\* A result of the last round replaces the one its goroutine stands for.
LEMMA ResultStored ==
  ASSUME RoundInv, NEW g \in Goroutines, Exporter!checkURL(g)
  PROVE  RoundInv'
<1>1. PICK up \in BOOLEAN :
        results' = [results EXCEPT ![UrlOf[g.entry]] = [up |-> up, of |-> g.round]]
  BY DEF Exporter!checkURL
<1>2. rounds' = rounds /\ Goroutines' \subseteq Goroutines /\ \A f \in Goroutines : f # g => f \in Goroutines'
  BY DEF Exporter!checkURL, Goroutines
<1>3. g.round = rounds /\ DOMAIN results = Exporter!Urls  BY DEF RoundInv
<1>4. DOMAIN results' = Exporter!Urls  BY <1>1, <1>3
<1>5. \A f \in Goroutines' : f.entry \in Listings /\ f.round = rounds'  BY <1>2 DEF RoundInv
<1>6. ASSUME NEW u \in Exporter!Urls
      PROVE  \/ results'[u].of = rounds'
             \/ /\ rounds' > 0 /\ results'[u].of = rounds' - 1
                /\ \E f \in Goroutines' : UrlOf[f.entry] = u
  <2>1. CASE u = UrlOf[g.entry]
    <3>1. results'[u] = [up |-> up, of |-> g.round]  BY <1>1, <1>3, <2>1
    <3>2. QED  BY <1>2, <1>3, <3>1
  <2>2. CASE u # UrlOf[g.entry]
    <3>1. results'[u] = results[u]  BY <1>1, <1>3, <2>2
    <3>2. \A f \in Goroutines : UrlOf[f.entry] = u => f \in Goroutines'  BY <1>2, <2>2
    <3>3. QED  BY <1>2, <3>1, <3>2 DEF RoundInv
  <2>3. QED  BY <2>1, <2>2
<1>7. rounds' \in Nat  BY <1>2 DEF RoundInv
<1>8. QED  BY <1>4, <1>5, <1>6, <1>7 DEF RoundInv

LEMMA RoundStep ==
  ASSUME RoundInv, [Exporter!Next]_(Exporter!vars)
  PROVE  RoundInv'
<1>1. ASSUME Goroutines' = Goroutines, UNCHANGED <<rounds, results>> PROVE RoundInv'
  BY <1>1 DEF RoundInv
<1>2. ASSUME NEW g \in Goroutines, Exporter!Acquire(g) PROVE RoundInv'
  BY <1>1, <1>2 DEF Exporter!Acquire, Goroutines
<1>3. CASE UNCHANGED Exporter!vars  BY <1>1, <1>3 DEF Exporter!vars, Goroutines
<1>4. QED  BY <1>2, <1>3, RoundBegins, ResultStored DEF Exporter!Next, Goroutines

\* The results one scrape prints are at most one round apart, and from the
\* second round on no URL is missing, however many goroutines are in flight
\* and whichever of two entries of one URL ends last.
THEOREM ScrapeIsOfTwoRounds == ProgramsSpec => []ScrapeOfTwoRounds
<1>1. ProgramsInit => RoundInv
  BY DEF ProgramsInit, Exporter!Init, RoundInv, Goroutines, Exporter!Urls
<1>2. RoundInv /\ [ProgramsNext]_all => RoundInv'
  BY RoundStep, OneProgramSteps
<1>3. RoundInv => ScrapeOfTwoRounds
  <2> SUFFICES ASSUME RoundInv PROVE ScrapeOfTwoRounds
    OBVIOUS
  <2>1. rounds \in Nat /\ \A u \in Exporter!Urls : results[u].of \in {rounds, rounds - 1} /\ results[u].of >= 0
    BY DEF RoundInv
  <2>2. \A u, v \in Exporter!Urls : results[u].of - results[v].of <= 1
    BY <2>1
  <2>3. rounds > 1 => \A u \in Exporter!Urls : results[u].of > 0
    BY <2>1
  <2> QED
    BY <2>2, <2>3 DEF ScrapeOfTwoRounds, Exporter!ScrapeOfTwoRounds, Exporter!Snapshot
<1> QED
  BY <1>1, <1>2, <1>3, PTL DEF ProgramsSpec

-----------------------------------------------------------------------------
(* The history file.                                                        *)

LEMMA EndsWithNone ==
  ASSUME NEW items \in Seq(Appends)
  PROVE  History!EndsWith(items, <<>>)
  BY DEF History!EndsWith

LEMMA EndsWithOneMore ==
  ASSUME NEW items \in Seq(Appends), NEW end \in Seq(Appends), NEW p \in Appends,
         History!EndsWith(items, end)
  PROVE  History!EndsWith(Append(items, p), Append(end, p))
<1> DEFINE more == Append(items, p)
           last == Append(end, p)
<1>1. /\ Len(items) \in Nat /\ Len(end) \in Nat /\ Len(end) <= Len(items)
      /\ Len(more) = Len(items) + 1 /\ Len(last) = Len(end) + 1
  BY DEF History!EndsWith
<1>2. ASSUME NEW i \in 1 .. Len(last)
      PROVE  more[Len(more) - Len(last) + i] = last[i]
  <2>1. Len(more) - Len(last) + i = Len(items) - Len(end) + i
    BY <1>1
  <2>2. CASE i = Len(last)
    <3>1. Len(items) - Len(end) + i = Len(items) + 1
      BY <1>1, <2>2
    <3>2. more[Len(items) + 1] = p /\ last[Len(end) + 1] = p
      OBVIOUS
    <3> QED
      BY <1>1, <2>1, <2>2, <3>1, <3>2
  <2>3. CASE i # Len(last)
    <3>1. i \in 1 .. Len(end) /\ Len(items) - Len(end) + i \in 1 .. Len(items)
      BY <1>1, <2>3
    <3>2. items[Len(items) - Len(end) + i] = end[i]
      BY <3>1 DEF History!EndsWith
    <3>3. more[Len(items) - Len(end) + i] = items[Len(items) - Len(end) + i] /\ last[i] = end[i]
      BY <3>1
    <3> QED
      BY <2>1, <3>2, <3>3
  <2> QED
    BY <2>2, <2>3
<1>3. Len(last) <= Len(more)
  BY <1>1
<1> QED
  BY <1>2, <1>3 DEF History!EndsWith

\* As long as runs do not disturb each other, one at most is writing: the list
\* it read ends with what was written since and its own result, the file ends
\* with that until it is truncated, and nobody writes into it after that.
HistoryInv ==
  /\ History!TypeOK
  /\ ~disturbed =>
       /\ \A p, q \in History!Writing : p = q
       /\ \A p \in History!Writing : History!EndsWith(list[p], Append(since, p))
       /\ (\A p \in Appends : step[p] # "truncated") => History!EndsWith(History!Loaded, since)
       /\ (\E p \in Appends : step[p] = "truncated") => file = History!Nothing

LEMMA LoadedIsList ==
  ASSUME HistoryInv
  PROVE  History!Loaded \in Seq(Appends)
  BY DEF HistoryInv, History!TypeOK, History!Loaded

LEMMA FilesTyped ==
  ASSUME NEW items \in Seq(Appends)
  PROVE  {History!Nothing, History!Part, History!Whole(items)}
           \subseteq [is: {"nothing", "list", "part"}, results: Seq(Appends)]
<1>1. <<>> \in Seq(Appends)
  OBVIOUS
<1> QED
  BY <1>1 DEF History!Nothing, History!Part, History!Whole

LEMMA LoadKeeps ==
  ASSUME HistoryInv, NEW p \in Appends, History!Load(p)
  PROVE  HistoryInv'
<1> USE DEF HistoryInv, History!TypeOK
<1>1. PICK readable \in BOOLEAN :
        /\ list' = [list EXCEPT ![p] = Append(IF readable THEN History!Loaded ELSE <<>>, p)]
        /\ since' = IF disturbed \/ ~readable THEN <<>> ELSE since
  BY DEF History!Load
<1>2. /\ step[p] = "checking" /\ step' = [step EXCEPT ![p] = "loaded"]
      /\ disturbed' = (History!Writing # {}) /\ file' = file
  BY DEF History!Load
<1> DEFINE read == IF readable THEN History!Loaded ELSE <<>>
<1>3. read \in Seq(Appends) /\ since' \in Seq(Appends) /\ History!Loaded \in Seq(Appends)
  BY <1>1, LoadedIsList
<1>4. list'[p] = Append(read, p) /\ list' \in [Appends -> Seq(Appends)]
  BY <1>1, <1>3
<1>5. History!TypeOK'
  BY <1>2, <1>3, <1>4
<1>6. History!Loaded' = History!Loaded
  BY <1>2 DEF History!Loaded
<1>7. ASSUME ~disturbed'
      PROVE  /\ \A q \in Appends : step'[q] \in {"loaded", "truncated"} <=> q = p
             /\ step'[p] = "loaded"
             /\ History!EndsWith(read, since') /\ History!EndsWith(History!Loaded, since')
  <2>1. \A q \in Appends : step[q] \notin {"loaded", "truncated"}
    BY <1>2, <1>7 DEF History!Writing
  <2>2. CASE disturbed \/ ~readable
    <3>1. since' = <<>>
      BY <1>1, <2>2
    <3>2. History!EndsWith(read, <<>>) /\ History!EndsWith(History!Loaded, <<>>)
      BY <1>3, EndsWithNone
    <3>3. History!EndsWith(read, since') /\ History!EndsWith(History!Loaded, since')
      BY <3>1, <3>2, Zenon
    <3> QED
      BY <1>2, <2>1, <3>3
  <2>3. CASE ~disturbed /\ readable
    <3>1. since' = since /\ read = History!Loaded
      BY <1>1, <2>3
    <3>2. History!EndsWith(History!Loaded, since)
      BY <2>1, <2>3
    <3>3. History!EndsWith(read, since') /\ History!EndsWith(History!Loaded, since')
      BY <3>1, <3>2, Zenon
    <3> QED
      BY <1>2, <2>1, <3>3
  <2> QED
    BY <1>2, <2>1, <2>2, <2>3
<1> HIDE DEF read
<1>8. ~disturbed' => History!EndsWith(Append(read, p), Append(since', p))
  BY <1>3, <1>7, EndsWithOneMore
<1>9. ~disturbed' => History!Writing' = {p} /\ \A q \in Appends : step'[q] # "truncated"
  BY <1>7 DEF History!Writing
<1> QED
  BY <1>4, <1>5, <1>6, <1>7, <1>8, <1>9

LEMMA WriteKeeps ==
  ASSUME HistoryInv, NEW p \in Appends, History!Write(p)
  PROVE  HistoryInv'
<1> USE DEF HistoryInv, History!TypeOK
<1>1. /\ step[p] = "truncated" /\ step' = [step EXCEPT ![p] = "done"]
      /\ file' \in {History!Whole(list[p])} \union
                     (IF file = History!Nothing THEN {} ELSE {History!Part})
      /\ since' = Append(since, p) /\ list' = list /\ disturbed' = disturbed
  BY DEF History!Write
<1>2. list[p] \in Seq(Appends) /\ p \in History!Writing
  BY <1>1 DEF History!Writing
<1>3. History!TypeOK'
  <2>1. file' \in {History!Nothing, History!Part, History!Whole(list[p])}
    BY <1>1
  <2>2. file' \in [is: {"nothing", "list", "part"}, results: Seq(Appends)]
    BY <1>2, <2>1, FilesTyped
  <2>3. since' \in Seq(Appends)
    BY <1>1
  <2> QED
    BY <1>1, <2>2, <2>3
<1>4. ASSUME ~disturbed
      PROVE  History!Writing' = {} /\ History!EndsWith(History!Loaded', since')
  <2>1. file = History!Nothing
    BY <1>1, <1>4
  <2>2. file' = History!Whole(list[p])
    BY <1>1, <2>1
  <2>3. History!Loaded' = list[p]
    BY <2>2 DEF History!Loaded, History!Whole
  <2>4. History!EndsWith(list[p], Append(since, p))
    BY <1>2, <1>4
  <2>5. History!Writing' = {}
    BY <1>1, <1>2, <1>4 DEF History!Writing
  <2> QED
    BY <1>1, <2>3, <2>4, <2>5
<1>5. ~disturbed' => \A q \in Appends : step'[q] # "truncated"
  BY <1>1, <1>4 DEF History!Writing
<1> QED
  BY <1>1, <1>3, <1>4, <1>5

LEMMA HistoryStep ==
  ASSUME HistoryInv, [History!Next]_(History!vars)
  PROVE  HistoryInv'
<1> USE DEF HistoryInv, History!TypeOK
<1>1. ASSUME NEW p \in Appends, History!Truncate(p) PROVE HistoryInv'
  <2>1. /\ step[p] = "loaded" /\ step' = [step EXCEPT ![p] = "truncated"]
        /\ file' = History!Nothing
        /\ list' = list /\ since' = since /\ disturbed' = disturbed
    BY <1>1 DEF History!Truncate
  <2>2. History!TypeOK' /\ step'[p] = "truncated"
    BY <2>1, FilesTyped
  <2>3. History!Writing' = History!Writing
    BY <2>1 DEF History!Writing
  <2> QED
    BY <2>1, <2>2, <2>3
<1>2. ASSUME NEW p \in Appends, History!WriteFails(p) \/ (History!Kill(p) /\ step[p] = "truncated")
      PROVE  HistoryInv'
  <2>1. /\ step' \in [Appends -> {"checking", "loaded", "truncated", "done", "killed"}]
        /\ file' \in {file, History!Part, History!Whole(list[p])}
        /\ list' = list /\ since' = since /\ disturbed' = TRUE
    BY <1>2 DEF History!WriteFails, History!Kill
  <2>2. list[p] \in Seq(Appends)
    OBVIOUS
  <2>3. History!TypeOK'
    BY <2>1, <2>2, FilesTyped
  <2> QED
    BY <2>1, <2>3
<1>3. ASSUME NEW p \in Appends, History!Refused(p) \/ (History!Kill(p) /\ step[p] # "truncated")
      PROVE  HistoryInv'
  <2>1. /\ step[p] = "loaded" /\ step'[p] \in {"done", "killed"}
        /\ step' \in [Appends -> {"checking", "loaded", "truncated", "done", "killed"}]
        /\ \A q \in Appends : q # p => step'[q] = step[q]
        /\ UNCHANGED <<file, list, since, disturbed>>
    BY <1>3 DEF History!Refused, History!Kill, History!Writing
  <2>2. History!TypeOK' /\ History!Loaded' = History!Loaded
    BY <2>1 DEF History!Loaded
  <2>3. History!Writing' \subseteq History!Writing
    BY <2>1 DEF History!Writing
  <2>4. \A q \in Appends : step'[q] = "truncated" <=> step[q] = "truncated"
    BY <2>1
  <2> QED
    BY <2>1, <2>2, <2>3, <2>4
<1>4. CASE UNCHANGED History!vars
  BY <1>4 DEF History!vars, History!Writing, History!Loaded
<1> QED
  BY <1>1, <1>2, <1>3, <1>4, LoadKeeps, WriteKeeps DEF History!Next, History!saveJSONAppend

LEMMA HistoryInit == History!Init => HistoryInv
<1> SUFFICES ASSUME History!Init PROVE HistoryInv
  OBVIOUS
<1>1. History!TypeOK
  <2>1. <<>> \in Seq(Appends)
    OBVIOUS
  <2>2. step \in [Appends -> {"checking", "loaded", "truncated", "done", "killed"}]
    BY DEF History!Init
  <2>3. file \in [is: {"nothing", "list", "part"}, results: Seq(Appends)]
    BY <2>1, FilesTyped DEF History!Init
  <2> QED
    BY <2>1, <2>2, <2>3 DEF History!Init, History!TypeOK
<1>2. History!Writing = {} /\ History!Loaded = <<>> /\ since = <<>>
  BY DEF History!Init, History!Writing, History!Loaded, History!Nothing
<1>3. <<>> \in Seq(Appends)
  OBVIOUS
<1>4. History!EndsWith(<<>>, <<>>)
  BY <1>3, EndsWithNone
<1>5. \A p \in Appends : step[p] # "truncated"
  BY DEF History!Init
<1> QED
  BY <1>1, <1>2, <1>4, <1>5 DEF HistoryInv

\* "Append de JSON sem sobrescrever": what runs write one after the other stays
\* at the end of the file, for any number of runs and whatever an overlap, a
\* failed read or write (main.go:89, main.go:103) or a kill did to the file
\* before: those cost what was written before them, and never what comes after.
THEOREM HistoryIsKept == ProgramsSpec => []AppendKeepsHistory
<1>1. ProgramsInit => HistoryInv
  BY HistoryInit DEF ProgramsInit
<1>2. HistoryInv /\ [ProgramsNext]_all => HistoryInv'
  BY HistoryStep, OneProgramSteps
<1>3. HistoryInv => AppendKeepsHistory
  BY DEF HistoryInv, AppendKeepsHistory, History!AppendKeepsHistory, History!Writing
<1> QED
  BY <1>1, <1>2, <1>3, PTL DEF ProgramsSpec

-----------------------------------------------------------------------------
(* The probe loop.                                                          *)

\* While the loop runs, a probe in flight is within its timeout, two probes of
\* a service were started an Interval apart, and so was the one whose result
\* the gauge shows and any older probe still in flight.
Spaced(s) ==
  /\ \A start \in probes[s] :
       /\ start <= now + due - Interval /\ now - start <= Timeouts[s]
       /\ \A other \in probes[s] : start < other => other - start >= Interval
       /\ start < gauge[s].of => gauge[s].of - start >= Interval
  /\ gauge[s].of <= now
  /\ gauge[s].of >= 0 => gauge[s].of <= now + due - Interval

LoopInv == Loop!TypeOK /\ (monitor = "running" => \A s \in Probed : Spaced(s))

LEMMA LoopInit == Loop!Init => LoopInv
  BY LoopAssumption DEF Loop!Init, LoopInv, Loop!TypeOK, Loop!Unset, Spaced

LEMMA LoopTypes ==
  ASSUME LoopInv, NEW s \in Probed
  PROVE  /\ now \in Int /\ due \in Int /\ 0 <= due /\ due <= Interval /\ Interval \in Int
         /\ Timeouts[s] \in Int /\ Timeouts[s] >= 0 /\ gauge[s].of \in Int
         /\ \A start \in probes[s] : start \in Int /\ start >= 0
  BY LoopAssumption DEF LoopInv, Loop!TypeOK

LEMMA LoopStep ==
  ASSUME LoopInv, [Loop!Next]_(Loop!vars)
  PROVE  LoopInv'
<1> USE LoopAssumption DEF LoopInv
<1>1. CASE Loop!probeAll
  <2>1. /\ monitor = "running" /\ due = 0 /\ due' = Interval
        /\ probes' = [s \in Probed |-> probes[s] \union {now}]
        /\ now' = now /\ gauge' = gauge /\ monitor' = monitor
    BY <1>1 DEF Loop!probeAll
  <2>2. Loop!TypeOK'
    BY <2>1 DEF Loop!TypeOK
  <2>3. ASSUME NEW s \in Probed PROVE Spaced(s)'
    <3>1. probes'[s] = probes[s] \union {now} /\ Spaced(s)
      BY <2>1
    <3>2. \A start \in probes[s] : start <= now - Interval
      BY <2>1, <3>1, LoopTypes DEF Spaced
    <3> QED
      BY <2>1, <3>1, <3>2, LoopTypes DEF Spaced
  <2> QED
    BY <2>2, <2>3
<1>2. ASSUME NEW s \in Probed, NEW start \in probes[s], NEW up \in BOOLEAN, Loop!Ended(s, start, up)
      PROVE  LoopInv'
  <2>1. /\ probes' = [probes EXCEPT ![s] = probes[s] \ {start}]
        /\ gauge' = [gauge EXCEPT ![s] = [up |-> up, of |-> start]]
        /\ now' = now /\ due' = due /\ monitor' = monitor
    BY <1>2 DEF Loop!Ended
  <2>2. Loop!TypeOK'
    <3>1. [up |-> up, of |-> start] \in [up: BOOLEAN, of: -1 .. MaxClock]
      BY DEF Loop!TypeOK
    <3> QED
      BY <2>1, <3>1 DEF Loop!TypeOK
  <2>3. ASSUME NEW r \in Probed, Spaced(r) PROVE Spaced(r)'
    <3>1. CASE r # s
      <4>1. probes'[r] = probes[r] /\ gauge'[r] = gauge[r]
        BY <2>1, <3>1 DEF Loop!TypeOK
      <4> QED
        BY <2>1, <2>3, <4>1 DEF Spaced
    <3>2. CASE r = s
      <4>1. probes'[s] = probes[s] \ {start} /\ gauge'[s].of = start
        BY <2>1 DEF Loop!TypeOK
      <4> QED
        BY <2>1, <2>3, <3>2, <4>1, LoopTypes DEF Spaced
    <3> QED
      BY <3>1, <3>2
  <2> QED
    BY <2>1, <2>2, <2>3
<1>3. CASE Loop!Tick
  <2>1. /\ now < MaxClock /\ due > 0 /\ now' = now + 1 /\ due' = due - 1
        /\ probes' = probes /\ gauge' = gauge /\ monitor' = monitor
        /\ \A s \in Probed : \A start \in probes[s] : ~Loop!Over(s, start)
    BY <1>3 DEF Loop!Tick
  <2>2. Loop!TypeOK'
    BY <2>1 DEF Loop!TypeOK
  <2>3. ASSUME NEW s \in Probed, Spaced(s) PROVE Spaced(s)'
    <3>1. \A start \in probes[s] : now - start < Timeouts[s]
      BY <2>1, LoopTypes DEF Loop!Over
    <3> QED
      BY <2>1, <2>3, <3>1, LoopTypes DEF Spaced
  <2> QED
    BY <2>1, <2>2, <2>3
<1>4. CASE Loop!shutdown
  BY <1>4 DEF Loop!shutdown, Loop!Cancel, Loop!Close, Loop!Fatal, Loop!TypeOK
<1>5. CASE UNCHANGED Loop!vars
  BY <1>5 DEF Loop!vars, Loop!TypeOK, Spaced
<1> QED
  BY <1>1, <1>2, <1>3, <1>4, <1>5
  DEF Loop!Next, Loop!probeOne, Loop!fail, Loop!succeed

\* Nothing orders the goroutines of two rounds (monitor.go:52), and still a
\* service whose timeout is shorter than the interval never has its gauge set
\* by an older probe after a newer one.
THEOREM NewestProbeIsShown == ProgramsSpec => NewestProbeWins
<1>1. ProgramsInit => LoopInv
  BY LoopInit DEF ProgramsInit
<1>2. LoopInv /\ [ProgramsNext]_all => LoopInv'
  BY LoopStep, OneProgramSteps
<1>3. LoopInv /\ [ProgramsNext]_all =>
        [\A s \in Probed : monitor = "running" /\ gauge'[s].of < gauge[s].of =>
           Timeouts[s] >= Interval /\ gauge[s].of - gauge'[s].of <= Timeouts[s]]_(Loop!vars)
  <2> SUFFICES ASSUME LoopInv, Loop!Next, NEW s \in Probed, monitor = "running",
                      gauge'[s].of < gauge[s].of
               PROVE  Timeouts[s] >= Interval /\ gauge[s].of - gauge'[s].of <= Timeouts[s]
    BY OneProgramSteps
  <2>1. gauge[s].of \in Int
    BY LoopTypes
  <2>2. gauge' # gauge
    BY <2>1
  <2>3. PICK r \in Probed : \E start \in probes[r], up \in BOOLEAN : Loop!Ended(r, start, up)
    BY <2>2 DEF Loop!Next, Loop!probeAll, Loop!probeOne, Loop!fail, Loop!succeed, Loop!Tick, Loop!shutdown
  <2>4. PICK start \in probes[r], up \in BOOLEAN : gauge' = [gauge EXCEPT ![r] = [up |-> up, of |-> start]]
    BY <2>3 DEF Loop!Ended
  <2>5. r = s /\ gauge'[s].of = start
    BY <2>1, <2>4 DEF LoopInv, Loop!TypeOK
  <2>6. start \in probes[s] /\ Spaced(s)
    BY <2>4, <2>5 DEF LoopInv
  <2> QED
    BY <2>1, <2>5, <2>6, LoopTypes DEF Spaced
<1> QED
  BY <1>1, <1>2, <1>3, PTL DEF ProgramsSpec, NewestProbeWins, Loop!NewestProbeWins

-----------------------------------------------------------------------------
(* The pod restarter.                                                       *)

\* The pods there are and those on some operation's list.
Known == pods \union {item.pod : item \in todo}

\* A uid stands for one pod, also after the pod is gone; a slot of a
\* StatefulSet has one pod, and so one at most on each operation's list.
RestarterInv ==
  /\ age \in Nat /\ created \in Nat
  /\ \A p \in Known : p.slot \in Slots /\ p.uid \in 0 .. created /\ p.born \in 0 .. age
  /\ \A p, q \in Known : p.uid = q.uid => p = q
  /\ \A item \in todo : item.options \in Choices
  /\ \A p, q \in pods : p.slot = q.slot /\ p.slot \in Stable => p = q
  /\ \A i, j \in todo : i.by = j.by /\ i.pod.slot = j.pod.slot /\ i.pod.slot \in Stable => i.pod = j.pod

\* The pods of the start have different uids: there are as many as slots.
LEMMA FirstUids ==
  /\ Cardinality(Slots) \in Nat
  /\ Restarter!Numbering \in [Slots -> 1 .. Cardinality(Slots)]
  /\ \A a, b \in Slots : a # b => Restarter!Numbering[a] # Restarter!Numbering[b]
<1> DEFINE n          == Cardinality(Slots)
           Numberings == {f \in [Slots -> 1 .. n] : \A a, b \in Slots : a # b => f[a] # f[b]}
<1>1. n \in Nat
  BY SlotsAssumption, FS_CardinalityType
<1>2. PICK g \in Bijection(Slots, 1 .. n) : TRUE
  <2>1. IsFiniteSet(1 .. n) /\ Cardinality(1 .. n) = n
    BY <1>1, FS_Interval
  <2> QED
    BY <1>1, <2>1, SlotsAssumption, FS_SameCardinalityBij DEF ExistsBijection
<1>3. g \in Numberings
  BY <1>1, <1>2 DEF Bijection, Injection, IsInjective
<1>4. Restarter!Numbering \in Numberings
  BY <1>3, SameCardinality DEF Restarter!Numbering
<1> QED
  BY <1>1, <1>4

LEMMA RestarterInit == Restarter!Init => RestarterInv
<1> SUFFICES ASSUME Restarter!Init PROVE RestarterInv
  OBVIOUS
<1> DEFINE uid == Restarter!Numbering
<1>1. age = 0 /\ todo = {} /\ created = Cardinality(Slots) /\ created \in Nat
  BY FirstUids, SameCardinality DEF Restarter!Init
<1>2. pods = {[slot |-> a, uid |-> uid[a], born |-> 0] : a \in Slots}
  BY DEF Restarter!Init
<1> HIDE DEF uid
<1>3. Known = pods
  BY <1>1 DEF Known
<1>4. \A p \in pods : p.slot \in Slots /\ p.uid = uid[p.slot] /\ p.born = 0 /\ p = [slot |-> p.slot, uid |-> uid[p.slot], born |-> 0]
  BY <1>2
<1>5. \A a, b \in Slots : uid[a] \in 1 .. created /\ (uid[a] = uid[b] => a = b)
  BY <1>1, FirstUids DEF uid
<1>6. \A p \in pods : p.uid \in 0 .. created /\ p.born \in 0 .. age
  BY <1>1, <1>4, <1>5
<1>7. \A p, q \in pods : p.uid = q.uid \/ p.slot = q.slot => p = q
  BY <1>4, <1>5
<1> QED
  BY <1>1, <1>3, <1>4, <1>6, <1>7 DEF RestarterInv

\* To take items from the lists or pods from the cluster, or to let time pass.
LEMMA FewerKnown ==
  ASSUME RestarterInv, pods' \subseteq pods, todo' \subseteq todo, created' = created, age' \in {age, age + 1}
  PROVE  RestarterInv'
<1>1. Known' \subseteq Known
  BY DEF Known
<1> QED
  BY <1>1 DEF RestarterInv

LEMMA ListKeeps ==
  ASSUME RestarterInv, NEW o \in Operations, Restarter!List(o)
  PROVE  RestarterInv'
<1>1. \A item \in todo : item.by # o
  BY DEF Restarter!List
<1>2. PICK options \in Choices : todo' = todo \union {[by |-> o, pod |-> p, options |-> options] : p \in pods}
  BY DEF Restarter!List
<1>3. UNCHANGED <<age, pods, created>>
  BY DEF Restarter!List
<1>4. \A item \in todo' : item \in todo \/ (item.by = o /\ item.pod \in pods /\ item.options = options)
  BY <1>2
<1>5. Known' \subseteq Known
  BY <1>3, <1>4 DEF Known
<1>6. \A item \in todo' : item.options \in Choices
  BY <1>4 DEF RestarterInv
<1>7. \A i, j \in todo' : i.by = j.by /\ i.pod.slot = j.pod.slot /\ i.pod.slot \in Stable => i.pod = j.pod
  BY <1>1, <1>4 DEF RestarterInv
<1> QED
  BY <1>3, <1>5, <1>6, <1>7 DEF RestarterInv

LEMMA CreateKeeps ==
  ASSUME RestarterInv, NEW slot \in Slots, Restarter!Create(slot)
  PROVE  RestarterInv'
<1> DEFINE pod == [slot |-> slot, uid |-> created + 1, born |-> age]
<1>1. /\ created' = created + 1 /\ pods' = pods \union {pod}
      /\ UNCHANGED <<age, todo>>
      /\ slot \in Stable => \A p \in pods : p.slot # slot
  BY DEF Restarter!Create
<1>2. Known' = Known \union {pod}
  BY <1>1 DEF Known
<1>3. pod.slot = slot /\ pod.uid = created + 1 /\ pod.born = age
  OBVIOUS
<1> HIDE DEF pod
<1>4. \A p \in Known' : p.slot \in Slots /\ p.uid \in 0 .. created' /\ p.born \in 0 .. age
  BY <1>1, <1>2, <1>3 DEF RestarterInv
<1>5. \A p, q \in Known' : p.uid = q.uid => p = q
  <2>1. \A p \in Known : p.uid # pod.uid
    BY <1>3 DEF RestarterInv
  <2> QED
    BY <1>2, <2>1 DEF RestarterInv
<1>6. \A p, q \in pods' : p.slot = q.slot /\ p.slot \in Stable => p = q
  BY <1>1, <1>3 DEF RestarterInv
<1> QED
  BY <1>1, <1>4, <1>5, <1>6 DEF RestarterInv

LEMMA RestarterStep ==
  ASSUME RestarterInv, [Restarter!Next]_(Restarter!vars)
  PROVE  RestarterInv'
<1>1. CASE (\E o \in Operations : Restarter!Visit(o)) \/ Restarter!Exit
  BY <1>1, FewerKnown DEF Restarter!Visit, Restarter!Exit
<1>2. CASE (\E p \in pods : Restarter!Evict(p) \/ Restarter!Gone(p)) \/ Restarter!Tick \/ UNCHANGED Restarter!vars
  BY <1>2, FewerKnown DEF Restarter!Evict, Restarter!Gone, Restarter!Tick, Restarter!vars
<1> QED
  BY <1>1, <1>2, ListKeeps, CreateKeeps DEF Restarter!Next, Restarter!RestartPods, Restarter!Cluster

\* Delete goes by name (restarter.go:70): a pod it ends without meaning to is
\* the newer one in a StatefulSet's slot whose old pod the operation listed.
THEOREM EndedPods == ProgramsSpec => EndsOnlyWhatItMay
<1>1. ProgramsInit => RestarterInv
  BY RestarterInit DEF ProgramsInit
<1>2. RestarterInv /\ [ProgramsNext]_all => RestarterInv'
  BY RestarterStep, OneProgramSteps
<1>3. RestarterInv /\ [ProgramsNext]_all =>
        [\A item \in todo \ todo', p \in pods : p.uid \in ending' \ ending =>
           /\ ~item.options.DryRun
           /\ item.options.Force \/ p.slot \notin Protected
           /\ age - p.born < item.options.MaxAge => p.slot \in Stable /\ ~Restarter!Listed(p, item)]_(Restarter!vars)
  <2> SUFFICES ASSUME RestarterInv, Restarter!Next,
                      NEW item \in todo \ todo', NEW p \in pods, p.uid \in ending' \ ending
               PROVE  /\ ~item.options.DryRun
                      /\ item.options.Force \/ p.slot \notin Protected
                      /\ age - p.born < item.options.MaxAge =>
                           p.slot \in Stable /\ ~Restarter!Listed(p, item)
    BY OneProgramSteps
  <2>1. todo' # todo /\ ending' # ending
    OBVIOUS
  <2>2. PICK o \in Operations : Restarter!Visit(o)
    BY <2>1 DEF Restarter!Next, Restarter!RestartPods, Restarter!List, Restarter!Exit, Restarter!Cluster,
                Restarter!Create, Restarter!Evict, Restarter!Gone, Restarter!Tick
  <2>3. PICK i \in todo :
          /\ todo' = todo \ {i}
          /\ ~Restarter!TooNew(i.pod, i.options) /\ ~i.options.DryRun
          /\ i.options.Force \/ ~Restarter!isDaemonOrStatic(i.pod)
          /\ ending' = ending \union Restarter!Named(i.pod)
    BY <2>1, <2>2 DEF Restarter!Visit
  <2>4. i = item
    BY <2>3
  <2>5. PICK q \in pods : q.uid = p.uid /\ Restarter!NameOf(q) = Restarter!NameOf(item.pod)
    BY <2>3, <2>4 DEF Restarter!Named
  <2>6. q = p /\ item.pod \in Known /\ p \in Known
    BY <2>5 DEF RestarterInv, Known
  <2>7. /\ item.pod.slot \in Slots /\ item.pod.uid \in Nat /\ item.pod.born \in 0 .. age
        /\ p.slot \in Slots /\ p.uid \in Nat /\ p.born \in 0 .. age /\ age \in Nat
        /\ item.options.MaxAge \in Nat
    BY <2>6, ChoicesAssumption DEF RestarterInv
  <2>8. \/ p.slot \in Stable /\ item.pod.slot = p.slot
        \/ p = item.pod
    BY <2>5, <2>6, <2>7, SlotsAssumption DEF Restarter!NameOf, RestarterInv
  <2>9. item.options.MaxAge > 0 => item.pod.born + item.options.MaxAge <= age
    BY <2>3, <2>4, <2>7 DEF Restarter!TooNew
  <2>10. ASSUME age - p.born < item.options.MaxAge
         PROVE  p.slot \in Stable /\ ~Restarter!Listed(p, item)
    <3>1. p # item.pod
      BY <2>7, <2>9, <2>10
    <3> QED
      BY <2>8, <3>1 DEF Restarter!Listed, RestarterInv
  <2> QED
    BY <2>3, <2>4, <2>8, <2>10 DEF Restarter!isDaemonOrStatic
<1> QED
  BY <1>1, <1>2, <1>3, PTL DEF ProgramsSpec, EndsOnlyWhatItMay, Restarter!EndsOnlyWhatItMay

-----------------------------------------------------------------------------
(* The release checker.                                                     *)

\* What compareSemver's chain of cases decides.
LEMMA ComparesInTurn ==
  ASSUME NEW a, NEW b,
         {a.Major, a.Minor, a.Patch, b.Major, b.Minor, b.Patch} \subseteq Int,
         a.Pre \in Nat, b.Pre \in Nat
  PROVE  Checker!compareSemver(a, b) < 0 <=>
           \/ a.Major < b.Major
           \/ a.Major = b.Major /\ a.Minor < b.Minor
           \/ a.Major = b.Major /\ a.Minor = b.Minor /\ a.Patch < b.Patch
           \/ /\ a.Major = b.Major /\ a.Minor = b.Minor /\ a.Patch = b.Patch
              /\ a.Pre # 0 /\ (b.Pre = 0 \/ a.Pre < b.Pre)
<1>1. \A n \in Int : Checker!Sign(n) < 0 <=> n < 0
  BY DEF Checker!Sign
<1>2. CASE a.Major # b.Major
  <2>1. Checker!compareSemver(a, b) = Checker!Sign(a.Major - b.Major)
    BY <1>2 DEF Checker!compareSemver
  <2>2. Checker!compareSemver(a, b) < 0 <=> a.Major < b.Major
    BY <1>1, <2>1
  <2> QED
    BY <1>2, <2>2
<1>3. CASE a.Major = b.Major /\ a.Minor # b.Minor
  <2>1. Checker!compareSemver(a, b) = Checker!Sign(a.Minor - b.Minor)
    BY <1>3 DEF Checker!compareSemver
  <2>2. Checker!compareSemver(a, b) < 0 <=> a.Minor < b.Minor
    BY <1>1, <2>1
  <2> QED
    BY <1>3, <2>2
<1>4. CASE a.Major = b.Major /\ a.Minor = b.Minor /\ a.Patch # b.Patch
  <2>1. Checker!compareSemver(a, b) = Checker!Sign(a.Patch - b.Patch)
    BY <1>4 DEF Checker!compareSemver
  <2>2. Checker!compareSemver(a, b) < 0 <=> a.Patch < b.Patch
    BY <1>1, <2>1
  <2> QED
    BY <1>4, <2>2
<1>5. CASE a.Major = b.Major /\ a.Minor = b.Minor /\ a.Patch = b.Patch
  <2>1. CASE a.Pre = 0 /\ b.Pre # 0
    BY <1>5, <2>1 DEF Checker!compareSemver
  <2>2. CASE a.Pre # 0 /\ b.Pre = 0
    BY <1>5, <2>2 DEF Checker!compareSemver
  <2>3. CASE ~(a.Pre = 0 /\ b.Pre # 0) /\ ~(a.Pre # 0 /\ b.Pre = 0)
    <3>1. Checker!compareSemver(a, b) = Checker!Sign(a.Pre - b.Pre)
      BY <1>5, <2>3 DEF Checker!compareSemver
    <3>2. Checker!compareSemver(a, b) < 0 <=> a.Pre < b.Pre
      BY <1>1, <3>1
    <3> QED
      BY <1>5, <2>3, <3>2
  <2> QED
    BY <2>1, <2>2, <2>3
<1> QED
  BY <1>2, <1>3, <1>4, <1>5

\* Parsing keeps the three numbers and the pre-release of a text.
LEMMA ParsedIsRead ==
  ASSUME NEW text \in VersionText
  PROVE  LET s == Checker!parseSemver(text) IN
           /\ s.Major = Checker!Number(text, 1) /\ s.Minor = Checker!Number(text, 2)
           /\ s.Patch = Checker!Number(text, 3) /\ s.Pre = text.pre
           /\ s.Valid <=> Checker!IsVersion(text)
           /\ {s.Major, s.Minor, s.Patch} \subseteq Int /\ s.Pre \in Nat
<1> DEFINE t == Checker!normalizeVer(text)
           part(i) == IF i <= Len(t.nums) THEN t.nums[i] ELSE 0
<1>1. t.nums = text.nums /\ t.pre = text.pre
  BY DEF Checker!normalizeVer, VersionText
<1>2. text.nums \in Seq(Int) /\ text.pre \in Nat
  BY DEF VersionText
<1>3. \A i \in 1 .. 3 : part(i) \in Int /\ part(i) = Checker!Number(text, i)
  BY <1>1, <1>2 DEF Checker!Number
<1>4. Checker!parseSemver(text).Major = part(1) /\ Checker!parseSemver(text).Minor = part(2)
  BY DEF Checker!parseSemver
<1>5. Checker!parseSemver(text).Patch = part(3) /\ Checker!parseSemver(text).Pre = t.pre
  BY DEF Checker!parseSemver
<1>6. Checker!parseSemver(text).Valid <=> Checker!NotANumber \notin {part(i) : i \in 1 .. 3}
  BY DEF Checker!parseSemver
<1> HIDE DEF part
<1>7. Checker!NotANumber \notin {part(i) : i \in 1 .. 3} <=> Checker!IsVersion(text)
  BY <1>3 DEF Checker!IsVersion
<1> QED
  BY <1>1, <1>2, <1>3, <1>4, <1>5, <1>6, <1>7

\* The code compares two texts as one would who reads them.
LEMMA ComparesAsRead ==
  ASSUME NEW x \in VersionText, NEW y \in VersionText
  PROVE  Checker!compareSemver(Checker!parseSemver(x), Checker!parseSemver(y)) < 0
           <=> Checker!Older(x, y)
<1> DEFINE a == Checker!parseSemver(x)
           b == Checker!parseSemver(y)
           m(i) == Checker!Number(x, i)
           n(i) == Checker!Number(y, i)
<1>1. /\ a.Major = m(1) /\ a.Minor = m(2) /\ a.Patch = m(3) /\ a.Pre = x.pre
      /\ {a.Major, a.Minor, a.Patch} \subseteq Int /\ a.Pre \in Nat
  BY ParsedIsRead
<1>2. /\ b.Major = n(1) /\ b.Minor = n(2) /\ b.Patch = n(3) /\ b.Pre = y.pre
      /\ {b.Major, b.Minor, b.Patch} \subseteq Int /\ b.Pre \in Nat
  BY ParsedIsRead
<1>3. Checker!Older(x, y) <=>
        \/ \E i \in 1 .. 3 : m(i) < n(i) /\ \A j \in 1 .. i - 1 : m(j) = n(j)
        \/ (\A i \in 1 .. 3 : m(i) = n(i)) /\ x.pre # 0 /\ (y.pre = 0 \/ x.pre < y.pre)
  BY DEF Checker!Older
<1> HIDE DEF a, b, m, n
<1>4. Checker!compareSemver(a, b) < 0 <=>
        \/ a.Major < b.Major
        \/ a.Major = b.Major /\ a.Minor < b.Minor
        \/ a.Major = b.Major /\ a.Minor = b.Minor /\ a.Patch < b.Patch
        \/ /\ a.Major = b.Major /\ a.Minor = b.Minor /\ a.Patch = b.Patch
           /\ a.Pre # 0 /\ (b.Pre = 0 \/ a.Pre < b.Pre)
  <2>1. {a.Major, a.Minor, a.Patch, b.Major, b.Minor, b.Patch} \subseteq Int
    BY <1>1, <1>2
  <2> QED
    BY <1>1, <1>2, <2>1, ComparesInTurn
<1>5. (\E i \in 1 .. 3 : m(i) < n(i) /\ \A j \in 1 .. i - 1 : m(j) = n(j)) <=>
        m(1) < n(1) \/ (m(1) = n(1) /\ m(2) < n(2)) \/ (m(1) = n(1) /\ m(2) = n(2) /\ m(3) < n(3))
  <2>1. 1 .. 3 = {1, 2, 3} /\ 1 .. 1 - 1 = {} /\ 1 .. 2 - 1 = {1} /\ 1 .. 3 - 1 = {1, 2}
    OBVIOUS
  <2> QED
    BY <2>1
<1>6. (\A i \in 1 .. 3 : m(i) = n(i)) <=> m(1) = n(1) /\ m(2) = n(2) /\ m(3) = n(3)
  OBVIOUS
<1>7. Checker!compareSemver(a, b) < 0 <=> Checker!Older(x, y)
  BY <1>1, <1>2, <1>3, <1>4, <1>5, <1>6
<1> QED
  BY <1>7 DEF a, b

\* A set of numbers up to n has a greatest one.
LEMMA GreatestExists ==
  ASSUME NEW n \in Nat, NEW S \in SUBSET (1 .. n), S # {}
  PROVE  Checker!Max(S) \in S
<1> DEFINE Above(x) == {y \in S : y > x}
           Aboves == {Above(x) : x \in S}
<1>1. IsFiniteSet(S)
  <2>1. IsFiniteSet(1 .. n)
    BY FS_Interval
  <2> QED
    BY <2>1, FS_Subset
<1>2. Aboves \subseteq FiniteSubsetsOf(S)
  BY <1>1, FS_Subset DEF FiniteSubsetsOf
<1>3. Aboves # {}
  OBVIOUS
<1>4. IsWellFoundedOn(StrictSubsetOrdering(S), FiniteSubsetsOf(S))
  BY <1>1, FS_StrictSubsetOrderingWellFounded
<1> HIDE DEF Aboves
<1>5. PICK U \in Aboves : \A V \in Aboves : ~(<<V, U>> \in StrictSubsetOrdering(S))
  BY <1>2, <1>3, <1>4, WFMin
<1>6. PICK x \in S : U = Above(x)
  BY DEF Aboves
<1>7. \A y \in S : x >= y
  <2> SUFFICES ASSUME NEW y \in S, y > x PROVE FALSE
    OBVIOUS
  <2>1. Above(y) \subseteq Above(x)
    <3>1. \A z \in S : z > y => z > x
      <4> SUFFICES ASSUME NEW z \in S, z > y PROVE z > x
        OBVIOUS
      <4>1. x \in Int /\ y \in Int /\ z \in Int
        OBVIOUS
      <4> QED
        BY <4>1
    <3> QED
      BY <3>1, Zenon
  <2>2. y \in Above(x) /\ y \notin Above(y)
    <3>1. y \in Int /\ ~(y > y)
      OBVIOUS
    <3> QED
      BY <3>1, Zenon
  <2>3. Above(y) # Above(x)
    BY <2>2, Zenon
  <2>4. Above(y) \in Aboves
    BY DEF Aboves
  <2> HIDE DEF Above
  <2>5. Above(x) \in SUBSET S /\ Above(y) \in SUBSET S
    BY DEF Above
  <2>6. <<Above(y), Above(x)>> \in StrictSubsetOrdering(S)
    BY <2>1, <2>3, <2>5 DEF StrictSubsetOrdering
  <2> QED
    BY <1>5, <1>6, <2>4, <2>6
<1> QED
  BY <1>7 DEF Checker!Max

LEMMA CurrentIsTyped ==
  ASSUME NEW repo, Checker!CurrentOf(repo) # Missing
  PROVE  Checker!CurrentOf(repo) \in VersionText
<1> DEFINE entries == {i \in DOMAIN CurrentMap : CurrentMap[i].repo = repo /\ CurrentMap[i].ver # Missing}
<1>1. CASE entries = {}
  BY <1>1, VersionAssumption DEF Checker!CurrentOf, Checker!parseCurrentMap
<1>2. CASE entries # {}
  <2>1. Len(CurrentMap) \in Nat /\ entries \subseteq 1 .. Len(CurrentMap)
    BY VersionAssumption
  <2>2. Checker!Max(entries) \in entries
    BY <1>2, <2>1, GreatestExists
  <2>3. \A i \in entries : CurrentMap[i].ver \in VersionText
    <3> DEFINE Rec == [repo: STRING, ver: VersionText \union {Missing}]
    <3>1. CurrentMap \in Seq(Rec)
      BY VersionAssumption
    <3> HIDE DEF Rec
    <3>2. \A i \in DOMAIN CurrentMap : CurrentMap[i] \in Rec
      BY <3>1
    <3>3. \A i \in DOMAIN CurrentMap : CurrentMap[i].ver \in VersionText \union {Missing}
      BY <3>2 DEF Rec
    <3> QED
      BY <3>3
  <2>4. Checker!parseCurrentMap(repo) = CurrentMap[Checker!Max(entries)].ver
    BY <1>2 DEF Checker!parseCurrentMap
  <2> HIDE DEF entries
  <2>5. Checker!parseCurrentMap(repo) \in VersionText
    BY <2>2, <2>3, <2>4
  <2> QED
    BY <2>5, VersionAssumption DEF Checker!CurrentOf
<1> QED
  BY <1>1, <1>2

\* The entries whose results main has, those of them that failed, those that
\* are behind, and main's results that are one or the other.
Sent       == {e \in Checker!Entries : worker[e] \in {"sent", "done"}}
Late(e)    == Checker!Ok(e) /\ Checker!Outdated(Repos[e], answer[e].tag)
SentOk     == {e \in Sent : Checker!Ok(e)}
SentFailed == {e \in Sent : ~Checker!Ok(e)}
SentLate   == {e \in Sent : Late(e)}
SentBad    == {e \in Sent : ~Checker!Ok(e) \/ Late(e)}
BadResults == {i \in DOMAIN collected : ~collected[i].ok \/ collected[i].outdated}

CheckerTypes ==
  /\ worker \in [Checker!Entries -> {"queued", "fetching", "backoff", "sending", "sent", "done"}]
  /\ answer \in [Checker!Entries -> {Checker!NoAnswer, Checker!Unasked} \union Checker!Answers]
  /\ collected \in Seq(Checker!Result)
  /\ tally \in [ok: Nat, fail: Nat, outdated: Nat, code: {0, 1}]

\* Main's counters count these sets, in whatever order the results come.
TallyInv ==
  /\ tally.ok = Cardinality(SentOk) /\ tally.fail = Cardinality(SentFailed)
  /\ tally.outdated = Cardinality(SentLate)
  /\ tally.code = (IF SentFailed # {} THEN 1 ELSE 0)
  /\ Cardinality(BadResults) = Cardinality(SentBad)

ExitInv ==
  exit # Checker!NoExit =>
    /\ Sent = Checker!Entries
    /\ exit.tests = tally.ok + tally.fail
    /\ exit.code = Checker!ExitCode
    /\ exit.failures = Cardinality(BadResults)

CheckerInv == CheckerTypes /\ TallyInv /\ ExitInv

LEMMA SentFinite ==
  /\ IsFiniteSet(Checker!Entries)
  /\ IsFiniteSet(Sent) /\ IsFiniteSet(SentOk) /\ IsFiniteSet(SentFailed)
  /\ IsFiniteSet(SentLate) /\ IsFiniteSet(SentBad)
<1>1. Checker!Entries = 1 .. Len(Repos) /\ Len(Repos) \in Nat
  BY ReposAssumption DEF Checker!Entries
<1>2. IsFiniteSet(Checker!Entries)
  BY <1>1, FS_Interval
<1>3. /\ Sent \in SUBSET Checker!Entries /\ SentOk \in SUBSET Checker!Entries
      /\ SentFailed \in SUBSET Checker!Entries /\ SentLate \in SUBSET Checker!Entries
      /\ SentBad \in SUBSET Checker!Entries
  BY DEF Sent, SentOk, SentFailed, SentLate, SentBad
<1> QED
  BY <1>2, <1>3, FS_Subset

\* What main counts as outdated is behind for one who reads the two texts.
LEMMA LateIsBehind ==
  ASSUME CheckerTypes, NEW e \in Checker!Entries
  PROVE  Late(e) <=> Checker!Behind(e)
<1> DEFINE cur == Checker!CurrentOf(Repos[e])
           lat == answer[e].tag
<1>1. CASE ~Checker!Ok(e) \/ cur = Missing
  BY <1>1 DEF Late, Checker!Behind, Checker!Outdated
<1>2. CASE Checker!Ok(e) /\ cur # Missing
  <2>1. lat \in VersionText
    <3>1. answer[e] \in {Checker!NoAnswer, Checker!Unasked} \union Checker!Answers /\ answer[e].err = "none"
      BY <1>2 DEF CheckerTypes, Checker!Ok
    <3>2. CASE answer[e] = Checker!Unasked
      <4>1. Checker!NoText \in VersionText
        BY DEF Checker!NoText, VersionText
      <4> QED
        BY <3>2, <4>1 DEF Checker!Unasked
    <3>3. CASE answer[e] # Checker!Unasked
      <4>1. answer[e] \in Checker!Released
        BY <3>1, <3>3 DEF Checker!NoAnswer, Checker!Answers, Checker!Failed
      <4>2. lat \in Tags
        BY <4>1 DEF Checker!Released
      <4> QED
        BY <4>2, VersionAssumption
    <3> QED
      BY <3>2, <3>3
  <2>2. cur \in VersionText
    BY <1>2, CurrentIsTyped
  <2>3. Late(e) <=> /\ Checker!parseSemver(cur).Valid /\ Checker!parseSemver(lat).Valid
                    /\ Checker!compareSemver(Checker!parseSemver(cur), Checker!parseSemver(lat)) < 0
    BY <1>2 DEF Late, Checker!Outdated
  <2>4. Checker!Behind(e) <=> Checker!IsVersion(cur) /\ Checker!IsVersion(lat) /\ Checker!Older(cur, lat)
    BY <1>2 DEF Checker!Behind
  <2> HIDE DEF cur, lat
  <2>5. /\ Checker!parseSemver(cur).Valid <=> Checker!IsVersion(cur)
        /\ Checker!parseSemver(lat).Valid <=> Checker!IsVersion(lat)
    BY <2>1, <2>2, ParsedIsRead
  <2>6. Checker!compareSemver(Checker!parseSemver(cur), Checker!parseSemver(lat)) < 0
          <=> Checker!Older(cur, lat)
    BY <2>1, <2>2, ComparesAsRead
  <2> QED
    BY <2>3, <2>4, <2>5, <2>6
<1> QED
  BY <1>1, <1>2

LEMMA CheckerInit == Checker!Init => CheckerInv
<1> SUFFICES ASSUME Checker!Init PROVE CheckerInv
  OBVIOUS
<1> USE DEF Checker!Init
<1>1. /\ worker \in [Checker!Entries -> {"queued", "fetching", "backoff", "sending", "sent", "done"}]
      /\ answer \in [Checker!Entries -> {Checker!NoAnswer, Checker!Unasked} \union Checker!Answers]
      /\ collected \in Seq(Checker!Result)
      /\ tally \in [ok: Nat, fail: Nat, outdated: Nat, code: {0, 1}]
  OBVIOUS
<1>2. Sent = {}
  BY DEF Sent
<1>3. SentOk = {} /\ SentFailed = {} /\ SentLate = {} /\ SentBad = {}
  BY <1>2 DEF SentOk, SentFailed, SentLate, SentBad
<1>4. BadResults = {}
  BY DEF BadResults
<1>5. TallyInv
  BY <1>3, <1>4, FS_EmptySet DEF TallyInv
<1> QED
  BY <1>1, <1>5 DEF CheckerInv, CheckerTypes, ExitInv

\* A step that leaves what main has, and the answers it is from.
LEMMA CheckerSame ==
  ASSUME CheckerInv, CheckerTypes', Sent' = Sent, \A e \in Sent : answer'[e] = answer[e],
         UNCHANGED <<collected, tally, exit>>
  PROVE  CheckerInv'
<1>1. \A e \in Sent : Checker!Ok(e)' = Checker!Ok(e) /\ Late(e)' = Late(e)
  BY DEF Checker!Ok, Late, Checker!Outdated
<1>2. SentOk' = SentOk /\ SentFailed' = SentFailed /\ SentLate' = SentLate /\ SentBad' = SentBad
  BY <1>1 DEF SentOk, SentFailed, SentLate, SentBad
<1>3. BadResults' = BadResults
  BY DEF BadResults
<1>4. TallyInv'
  BY <1>2, <1>3 DEF CheckerInv, TallyInv
<1>5. ExitInv'
  BY <1>3 DEF CheckerInv, ExitInv, Checker!ExitCode
<1> QED
  BY <1>4, <1>5 DEF CheckerInv

\* Main takes a result, which is counted once.
LEMMA ReceiveKeeps ==
  ASSUME CheckerInv, NEW e \in Checker!Entries, Checker!Receive(e)
  PROVE  CheckerInv'
<1> DEFINE r == Checker!ResultOf(e)
<1>1. /\ worker[e] = "sending" /\ worker' = [worker EXCEPT ![e] = "sent"]
      /\ collected' = Append(collected, r) /\ tally' = Checker!Counted(r)
      /\ UNCHANGED <<attempt, answer, exit>>
  BY DEF Checker!Receive
<1>2. e \notin Sent /\ Sent' = Sent \union {e}
  BY <1>1 DEF Sent, CheckerInv, CheckerTypes
<1>3. r.ok = Checker!Ok(e) /\ r.outdated = Late(e) /\ r \in Checker!Result
  BY DEF Checker!ResultOf, Late, Checker!Result, Checker!Ok, Checker!Outdated
<1> HIDE DEF r
<1>4. \A x : Checker!Ok(x)' = Checker!Ok(x) /\ Late(x)' = Late(x)
  BY <1>1 DEF Checker!Ok, Late, Checker!Outdated
<1>5. /\ SentOk' = IF r.ok THEN SentOk \union {e} ELSE SentOk
      /\ SentFailed' = IF r.ok THEN SentFailed ELSE SentFailed \union {e}
      /\ SentLate' = IF r.outdated THEN SentLate \union {e} ELSE SentLate
      /\ SentBad' = IF ~r.ok \/ r.outdated THEN SentBad \union {e} ELSE SentBad
  BY <1>2, <1>3, <1>4 DEF SentOk, SentFailed, SentLate, SentBad
<1>6. e \notin SentOk /\ e \notin SentFailed /\ e \notin SentLate /\ e \notin SentBad
  BY <1>2 DEF SentOk, SentFailed, SentLate, SentBad
<1>7. /\ Cardinality(SentOk') = Cardinality(SentOk) + (IF r.ok THEN 1 ELSE 0)
      /\ Cardinality(SentFailed') = Cardinality(SentFailed) + (IF r.ok THEN 0 ELSE 1)
      /\ Cardinality(SentLate') = Cardinality(SentLate) + (IF r.outdated THEN 1 ELSE 0)
      /\ Cardinality(SentBad') = Cardinality(SentBad) + (IF ~r.ok \/ r.outdated THEN 1 ELSE 0)
  <2>1. /\ Cardinality(SentOk) \in Nat /\ Cardinality(SentFailed) \in Nat
        /\ Cardinality(SentLate) \in Nat /\ Cardinality(SentBad) \in Nat
    BY SentFinite, FS_CardinalityType
  <2>2. /\ Cardinality(SentOk \union {e}) = Cardinality(SentOk) + 1
        /\ Cardinality(SentFailed \union {e}) = Cardinality(SentFailed) + 1
        /\ Cardinality(SentLate \union {e}) = Cardinality(SentLate) + 1
        /\ Cardinality(SentBad \union {e}) = Cardinality(SentBad) + 1
    BY <1>6, SentFinite, FS_AddElement
  <2> QED
    BY <1>5, <2>1, <2>2
<1>8. Cardinality(BadResults') = Cardinality(BadResults) + (IF ~r.ok \/ r.outdated THEN 1 ELSE 0)
  <2> DEFINE n == Len(collected) + 1
  <2>1. collected \in Seq(Checker!Result) /\ Len(collected) \in Nat
    BY DEF CheckerInv, CheckerTypes
  <2>2. /\ DOMAIN collected = 1 .. Len(collected) /\ DOMAIN collected' = DOMAIN collected \union {n}
        /\ collected'[n] = r /\ \A i \in DOMAIN collected : collected'[i] = collected[i]
    BY <1>1, <1>3, <2>1
  <2>3. n \notin DOMAIN collected
    BY <2>1, <2>2
  <2> HIDE DEF n
  <2>4. /\ n \notin BadResults
        /\ BadResults' = IF ~r.ok \/ r.outdated THEN BadResults \union {n} ELSE BadResults
    BY <2>2, <2>3 DEF BadResults
  <2>5. BadResults \in SUBSET (1 .. Len(collected)) /\ IsFiniteSet(1 .. Len(collected))
    BY <2>1, <2>2, FS_Interval DEF BadResults
  <2>6. IsFiniteSet(BadResults)
    BY <2>5, FS_Subset
  <2>7. Cardinality(BadResults) \in Nat /\ Cardinality(BadResults \union {n}) = Cardinality(BadResults) + 1
    BY <2>4, <2>6, FS_AddElement, FS_CardinalityType
  <2> QED
    BY <2>4, <2>7
<1>9. /\ tally'.ok = tally.ok + (IF r.ok THEN 1 ELSE 0)
      /\ tally'.fail = tally.fail + (IF r.ok THEN 0 ELSE 1)
      /\ tally'.outdated = tally.outdated + (IF r.ok /\ r.outdated THEN 1 ELSE 0)
      /\ tally'.code = IF r.ok THEN tally.code ELSE 1
  BY <1>1 DEF Checker!Counted
<1>10. r.outdated => r.ok
  BY <1>3 DEF Late
<1>11. TallyInv'
  <2>1. tally'.code = IF SentFailed' # {} THEN 1 ELSE 0
    BY <1>5, <1>9 DEF CheckerInv, TallyInv
  <2> QED
    BY <1>7, <1>8, <1>9, <1>10, <2>1 DEF CheckerInv, TallyInv
<1>12. CheckerTypes'
  <2>1. tally' \in [ok: Nat, fail: Nat, outdated: Nat, code: {0, 1}]
    BY <1>1 DEF Checker!Counted, CheckerInv, CheckerTypes
  <2>2. collected' \in Seq(Checker!Result)
    BY <1>1, <1>3 DEF CheckerInv, CheckerTypes
  <2>3. worker' \in [Checker!Entries -> {"queued", "fetching", "backoff", "sending", "sent", "done"}]
    BY <1>1 DEF CheckerInv, CheckerTypes
  <2> QED
    BY <1>1, <2>1, <2>2, <2>3 DEF CheckerInv, CheckerTypes
<1>13. ExitInv'
  BY <1>1, <1>2 DEF CheckerInv, ExitInv
<1> QED
  BY <1>11, <1>12, <1>13 DEF CheckerInv

LEMMA CheckerStep ==
  ASSUME CheckerInv, [Checker!Next]_(Checker!vars)
  PROVE  CheckerInv'
<1>1. ASSUME NEW e \in Checker!Entries, Checker!Acquire(e) \/ Checker!Retry(e) \/ Checker!Release(e)
      PROVE  CheckerInv'
  <2>1. UNCHANGED <<answer, collected, tally, exit>>
    BY <1>1 DEF Checker!Acquire, Checker!Retry, Checker!Release
  <2>2. CheckerTypes' /\ Sent' = Sent
    BY <1>1, <2>1 DEF Checker!Acquire, Checker!Retry, Checker!Release, CheckerInv, CheckerTypes, Sent
  <2> QED
    BY <2>1, <2>2, CheckerSame
<1>2. ASSUME NEW e \in Checker!Entries, Checker!fetchLatest(e) \/ Checker!NotAsked(e)
      PROVE  CheckerInv'
  <2>1. /\ worker[e] = "fetching" /\ UNCHANGED <<collected, tally, exit>>
        /\ \E state \in {"sending", "backoff"} : worker' = [worker EXCEPT ![e] = state]
        /\ \E a \in {Checker!Unasked} \union Checker!Answers : answer' = [answer EXCEPT ![e] = a]
    BY <1>2 DEF Checker!fetchLatest, Checker!NotAsked
  <2>2. CheckerTypes' /\ Sent' = Sent
    BY <2>1 DEF CheckerInv, CheckerTypes, Sent
  <2>3. \A x \in Sent : answer'[x] = answer[x]
    BY <2>1 DEF CheckerInv, CheckerTypes, Sent
  <2> QED
    BY <2>1, <2>2, <2>3, CheckerSame
<1>3. ASSUME Checker!Exit PROVE CheckerInv'
  <2>1. /\ \A e \in Checker!Entries : worker[e] = "done"
        /\ UNCHANGED <<worker, attempt, answer, collected, tally>>
        /\ exit'.code = Checker!ExitCode /\ exit'.tests = tally.ok + tally.fail
        /\ exit'.failures = Cardinality(BadResults)
    BY <1>3, SameCardinality DEF Checker!Exit, BadResults
  <2>2. Sent' = Checker!Entries /\ Sent' = Sent
    BY <2>1 DEF Sent
  <2>3. BadResults' = BadResults /\ Checker!ExitCode' = Checker!ExitCode
    BY <2>1 DEF BadResults, Checker!ExitCode
  <2>4. ExitInv'
    BY <2>1, <2>2, <2>3 DEF ExitInv
  <2>5. \A e : Checker!Ok(e)' = Checker!Ok(e) /\ Late(e)' = Late(e)
    BY <2>1 DEF Checker!Ok, Late, Checker!Outdated
  <2>6. TallyInv'
    BY <2>1, <2>2, <2>3, <2>5 DEF CheckerInv, TallyInv, SentOk, SentFailed, SentLate, SentBad
  <2>7. CheckerTypes'
    BY <2>1 DEF CheckerInv, CheckerTypes
  <2> QED
    BY <2>4, <2>6, <2>7 DEF CheckerInv
<1>4. CASE UNCHANGED Checker!vars
  <2>1. UNCHANGED <<worker, answer, collected, tally, exit>>
    BY <1>4 DEF Checker!vars
  <2>2. CheckerTypes' /\ Sent' = Sent
    BY <2>1 DEF CheckerInv, CheckerTypes, Sent
  <2> QED
    BY <2>1, <2>2, CheckerSame
<1> QED
  BY <1>1, <1>2, <1>3, <1>4, ReceiveKeeps DEF Checker!Next, Checker!fetchWithRetries

\* When main has every result and has left, what it left with is right.
LEMMA ReportFollows == CheckerInv => ReportIsRight
<1> SUFFICES ASSUME CheckerInv, exit # Checker!NoExit
             PROVE  /\ exit.tests = Len(Repos)
                    /\ exit.code = IF \E e \in Checker!Entries : ~Checker!Ok(e) THEN 1
                                   ELSE IF \E e \in Checker!Entries : Checker!Behind(e) THEN OutdatedExit ELSE 0
                    /\ exit.failures = Cardinality({e \in Checker!Entries : ~Checker!Ok(e) \/ Checker!Behind(e)})
  BY SameCardinality DEF ReportIsRight, Checker!ReportIsRight
<1>1. Sent = Checker!Entries
  BY DEF CheckerInv, ExitInv
<1>2. \A e \in Checker!Entries : Late(e) <=> Checker!Behind(e)
  BY LateIsBehind DEF CheckerInv
<1>3. exit.tests = Len(Repos)
  <2>1. SentOk \intersect SentFailed = {} /\ SentOk \union SentFailed = Checker!Entries
    BY <1>1 DEF SentOk, SentFailed
  <2>2. Cardinality(Checker!Entries) = Cardinality(SentOk) + Cardinality(SentFailed)
    <3>1. Cardinality(SentOk \intersect SentFailed) = 0
      BY <2>1, FS_EmptySet
    <3>2. Cardinality(SentOk) \in Nat /\ Cardinality(SentFailed) \in Nat
      BY SentFinite, FS_CardinalityType
    <3>3. Cardinality(SentOk \union SentFailed) =
            Cardinality(SentOk) + Cardinality(SentFailed) - Cardinality(SentOk \intersect SentFailed)
      BY SentFinite, FS_Union
    <3>4. Cardinality(SentOk \union SentFailed) = Cardinality(SentOk) + Cardinality(SentFailed)
      BY <3>1, <3>2, <3>3
    <3> QED
      BY <2>1, <3>4, Zenon
  <2>3. Cardinality(Checker!Entries) = Len(Repos)
    <3>1. Checker!Entries = 1 .. Len(Repos) /\ Len(Repos) \in Nat
      BY ReposAssumption DEF Checker!Entries
    <3>2. Cardinality(1 .. Len(Repos)) = IF 1 > Len(Repos) THEN 0 ELSE Len(Repos) - 1 + 1
      BY <3>1, FS_Interval
    <3> QED
      BY <3>1, <3>2
  <2> QED
    BY <2>2, <2>3 DEF CheckerInv, ExitInv, TallyInv
<1>4. SentFailed # {} <=> \E e \in Checker!Entries : ~Checker!Ok(e)
  BY <1>1 DEF SentFailed
<1>5. tally.outdated > 0 <=> \E e \in Checker!Entries : Checker!Behind(e)
  <2>1. SentLate # {} <=> \E e \in Checker!Entries : Checker!Behind(e)
    BY <1>1, <1>2 DEF SentLate
  <2>2. Cardinality(SentLate) \in Nat /\ (Cardinality(SentLate) = 0 <=> SentLate = {})
    BY SentFinite, FS_EmptySet, FS_CardinalityType
  <2>3. tally.outdated = Cardinality(SentLate)
    BY DEF CheckerInv, TallyInv
  <2> QED
    BY <2>1, <2>2, <2>3
<1>6. exit.code = IF SentFailed # {} THEN 1 ELSE IF tally.outdated > 0 THEN OutdatedExit ELSE 0
  BY DEF CheckerInv, ExitInv, TallyInv, Checker!ExitCode
<1>7. SentBad = {e \in Checker!Entries : ~Checker!Ok(e) \/ Checker!Behind(e)}
  BY <1>1, <1>2 DEF SentBad
<1>8. exit.failures = Cardinality(SentBad)
  BY DEF CheckerInv, ExitInv, TallyInv
<1> QED
  BY <1>3, <1>4, <1>5, <1>6, <1>7, <1>8

\* In whatever order the goroutines end and main takes their results, the
\* report names every entry once and the code main exits with (main.go:633)
\* says what the answers were; what is outdated is read off the texts (first
\* of three numbers that differs, then the pre-releases as strings,
\* main.go:201), whatever stands around their numbers.
THEOREM ReportIsCorrect == ProgramsSpec => []ReportIsRight
<1>1. ProgramsInit => CheckerInv
  BY CheckerInit DEF ProgramsInit
<1>2. CheckerInv /\ [ProgramsNext]_all => CheckerInv'
  BY CheckerStep, OneProgramSteps
<1>3. CheckerInv => ReportIsRight
  BY ReportFollows
<1> QED
  BY <1>1, <1>2, <1>3, PTL DEF ProgramsSpec

-----------------------------------------------------------------------------
(* The access auditor.                                                      *)

\* The events a filter selects, and those of a set before an id in the order
\* the cursor goes: the ones with a later key.
Matching(q)  == {id \in DOMAIN bucket : Auditor!Selected(id, q)}
Ahead(S, id) == {other \in S : other > id}

LEMMA RankOfId ==
  ASSUME NEW S \in SUBSET Nat, IsFiniteSet(S), NEW x
  PROVE  /\ IsFiniteSet(Ahead(S, x)) /\ Cardinality(Ahead(S, x)) \in Nat
         /\ Cardinality(S) \in Nat
         /\ x \in S => Cardinality(Ahead(S, x)) < Cardinality(S)
<1>1. Ahead(S, x) \in SUBSET S /\ (x \in S => x \notin Ahead(S, x))
  <2>1. \A n \in Nat : ~(n > n)
    OBVIOUS
  <2> QED
    BY <2>1 DEF Ahead
<1>2. IsFiniteSet(Ahead(S, x)) /\ Cardinality(Ahead(S, x)) <= Cardinality(S)
      /\ (Cardinality(S) = Cardinality(Ahead(S, x)) => S = Ahead(S, x))
  BY <1>1, FS_Subset
<1>3. Cardinality(Ahead(S, x)) \in Nat /\ Cardinality(S) \in Nat
  BY <1>2, FS_CardinalityType
<1> QED
  BY <1>1, <1>2, <1>3

LEMMA RankRises ==
  ASSUME NEW S \in SUBSET Nat, IsFiniteSet(S), NEW x \in S, NEW y \in S, x < y
  PROVE  Cardinality(Ahead(S, y)) < Cardinality(Ahead(S, x))
<1>1. Ahead(S, y) \in SUBSET Ahead(S, x) /\ y \in Ahead(S, x) /\ y \notin Ahead(S, y)
  <2>1. x \in Nat /\ y \in Nat /\ ~(y > y) /\ y > x
    OBVIOUS
  <2>2. \A z \in S : z \in Nat /\ (z > y => z > x)
    BY <2>1
  <2> QED
    BY <2>1, <2>2 DEF Ahead
<1>2. IsFiniteSet(Ahead(S, x)) /\ Cardinality(Ahead(S, x)) \in Nat /\ Cardinality(Ahead(S, y)) \in Nat
  BY RankOfId
<1>3. /\ Cardinality(Ahead(S, y)) <= Cardinality(Ahead(S, x))
      /\ Cardinality(Ahead(S, x)) = Cardinality(Ahead(S, y)) => Ahead(S, x) = Ahead(S, y)
  BY <1>1, <1>2, FS_Subset
<1> QED
  BY <1>1, <1>2, <1>3

\* No two ids have the same number of ids before them.
LEMMA RanksOfIdsDiffer ==
  ASSUME NEW S \in SUBSET Nat, IsFiniteSet(S), NEW x \in S, NEW y \in S,
         Cardinality(Ahead(S, x)) = Cardinality(Ahead(S, y))
  PROVE  x = y
<1>1. Cardinality(Ahead(S, x)) \in Nat /\ Cardinality(Ahead(S, y)) \in Nat
  BY RankOfId
<1>2. ~(x < y) /\ ~(y < x)
  BY <1>1, RankRises
<1> QED
  BY <1>2

\* The cursor meets an id after those that are before it ...
LEMMA IdAtItsPlace ==
  ASSUME NEW S \in SUBSET Nat, IsFiniteSet(S), NEW x \in S
  PROVE  /\ Cardinality(Ahead(S, x)) + 1 \in 1 .. Cardinality(S)
         /\ Auditor!ByKey(S)[Cardinality(Ahead(S, x)) + 1] = x
<1> DEFINE r == Cardinality(Ahead(S, x))
<1>1. r \in Nat /\ Cardinality(S) \in Nat /\ r < Cardinality(S)
  BY RankOfId
<1>2. r + 1 \in 1 .. Cardinality(S) /\ (r + 1) - 1 = r
  BY <1>1
<1>3. Auditor!ByKey(S)[r + 1] = CHOOSE id \in S : Cardinality({other \in S : other > id}) = (r + 1) - 1
  BY <1>2, SameCardinality DEF Auditor!ByKey
<1>4. Cardinality({other \in S : other > x}) = (r + 1) - 1
  BY <1>2 DEF Ahead
<1>5. \A id \in S : Cardinality({other \in S : other > id}) = (r + 1) - 1 => id = x
  BY <1>2, RanksOfIdsDiffer DEF Ahead
<1> HIDE DEF r
<1>6. (CHOOSE id \in S : Cardinality({other \in S : other > id}) = (r + 1) - 1) = x
  BY <1>4, <1>5
<1> QED
  BY <1>2, <1>3, <1>6 DEF r

\* ... and nothing else: there are as many ids as places.
LEMMA PlacesAreFilled ==
  ASSUME NEW R \in SUBSET Nat, NEW S \in SUBSET R, IsFiniteSet(S)
  PROVE  /\ Auditor!ByKey(S) \in Seq(R) /\ Len(Auditor!ByKey(S)) = Cardinality(S)
         /\ Cardinality(S) \in Nat
<1> DEFINE place(x) == Cardinality(Ahead(S, x)) + 1
           f == [x \in S |-> place(x)]
           T == 1 .. Cardinality(S)
<1>1. Cardinality(S) \in Nat
  BY FS_CardinalityType
<1>2. IsFiniteSet(T) /\ Cardinality(T) = Cardinality(S)
  BY <1>1, FS_Interval
<1>3. \A x \in S : place(x) \in T /\ Auditor!ByKey(S)[place(x)] = x
  BY IdAtItsPlace
<1>4. \A x, y \in S : place(x) = place(y) => x = y
  BY <1>3
<1> HIDE DEF place, T
<1>5. f \in Injection(S, T)
  BY <1>3, <1>4 DEF Injection, IsInjective
<1>6. f \in Surjection(S, T)
  BY <1>2, <1>5, FS_Injection
<1>7. \A i \in T : Auditor!ByKey(S)[i] \in R
  <2> SUFFICES ASSUME NEW i \in T PROVE Auditor!ByKey(S)[i] \in R
    OBVIOUS
  <2>1. PICK x \in S : f[x] = i
    BY <1>6 DEF Surjection
  <2> QED
    BY <1>3, <2>1
<1>8. DOMAIN Auditor!ByKey(S) = T /\ Auditor!ByKey(S) = [i \in T |-> Auditor!ByKey(S)[i]]
  <2> DEFINE idAt(i) == CHOOSE id \in S : Auditor!Cardinality({other \in S : other > id}) = i - 1
  <2>1. Auditor!ByKey(S) = [i \in T |-> idAt(i)]
    BY SameCardinality, Zenon DEF Auditor!ByKey, T
  <2> HIDE DEF idAt
  <2> QED
    BY <2>1
<1> QED
  BY <1>1, <1>7, <1>8 DEF T

\* A page has what is selected from the offset on, as far as its limit, and is
\* full if more is selected; without a limit it is all of it.
LEMMA ListedPage ==
  ASSUME NEW q, q.Limit \in Nat, NEW off \in Nat,
         IsFiniteSet(Ids), Matching(q) \in SUBSET Ids, Ids \subseteq Nat
  PROVE  /\ Auditor!List(q, off) \in Seq(Ids)
         /\ \A x \in Matching(q) :
              /\ q.Limit = 0 /\ off = 0 => x \in Auditor!ToSet(Auditor!List(q, off))
              /\ q.Limit > 0 /\ Cardinality(Ahead(Matching(q), x)) >= off =>
                   \/ x \in Auditor!ToSet(Auditor!List(q, off))
                   \/ /\ Cardinality(Ahead(Matching(q), x)) >= off + q.Limit
                      /\ Len(Auditor!List(q, off)) = q.Limit
<1> DEFINE M      == Matching(q)
           L      == q.Limit
           n      == Cardinality(M)
           line   == Auditor!ByKey(M)
           stop   == IF Auditor!Enough(q, off) < n THEN Auditor!Enough(q, off) ELSE n
           found  == Auditor!Found(q, off)
           cut    == Auditor!From(found, off)
           result == Auditor!List(q, off)
           r(x)   == Cardinality(Ahead(M, x))
<1>1. M \in SUBSET Nat /\ IsFiniteSet(M) /\ n <= Cardinality(Ids) /\ Cardinality(Ids) \in Nat
  BY FS_Subset, FS_CardinalityType
<1>2. line \in Seq(Ids) /\ Len(line) = n /\ n \in Nat
  BY <1>1, PlacesAreFilled
<1>3. \A x \in M : r(x) \in Nat /\ r(x) < n /\ line[r(x) + 1] = x
  BY <1>1, IdAtItsPlace, RankOfId
<1>4. stop = IF L > 0 /\ L + off < n THEN L + off ELSE n
  BY <1>1, <1>2, SameCardinality DEF Auditor!Enough
<1>5. found = SubSeq(line, 1, stop)
  <2>1. found = SubSeq(line, 1, IF Auditor!Enough(q, off) < Len(line) THEN Auditor!Enough(q, off) ELSE Len(line))
    BY Zenon DEF Auditor!Found, Matching
  <2> QED
    BY <1>2, <2>1, Zenon
<1>6. cut = IF off > 0 /\ off < Len(found) THEN SubSeq(found, off + 1, Len(found)) ELSE found
  BY DEF Auditor!From
<1>7. result = IF L > 0 /\ L < Len(cut) THEN SubSeq(cut, 1, L) ELSE cut
  BY DEF Auditor!List, Auditor!UpTo
<1>8. Auditor!ToSet(result) = {result[i] : i \in DOMAIN result}
  BY DEF Auditor!ToSet
<1>9. L \in Nat /\ M \in SUBSET Ids
  OBVIOUS
<1> HIDE DEF M, L, n, line, stop, found, cut, result, r
<1>10. /\ found \in Seq(Ids) /\ Len(found) = stop /\ stop \in Nat
       /\ \A i \in 1 .. stop : found[i] = line[i]
  <2>1. stop \in Nat /\ stop <= Len(line)
    BY <1>2, <1>4, <1>9
  <2> QED
    BY <1>2, <1>5, <2>1
<1> DEFINE from == IF off > 0 /\ off < stop THEN off ELSE 0
<1>11. /\ cut \in Seq(Ids) /\ Len(cut) = stop - from /\ from \in Nat
       /\ \A i \in 1 .. stop - from : cut[i] = line[i + from]
  <2>1. CASE off > 0 /\ off < stop
    BY <1>6, <1>10, <2>1
  <2>2. CASE ~(off > 0 /\ off < stop)
    BY <1>6, <1>10, <2>2
  <2> QED
    BY <2>1, <2>2
<1> DEFINE size == IF L > 0 /\ L < stop - from THEN L ELSE stop - from
<1>12. /\ result \in Seq(Ids) /\ Len(result) = size /\ size \in Nat
       /\ \A i \in 1 .. size : result[i] = line[i + from]
  <2>1. CASE L > 0 /\ L < stop - from
    <3>1. result = SubSeq(cut, 1, L) /\ size = L /\ L <= Len(cut)
      BY <1>7, <1>9, <1>10, <1>11, <2>1
    <3>2. result \in Seq(Ids) /\ Len(result) = L /\ \A i \in 1 .. L : result[i] = cut[i] /\ i \in 1 .. Len(cut)
      BY <1>9, <1>11, <3>1
    <3> QED
      BY <1>9, <1>11, <3>1, <3>2
  <2>2. CASE ~(L > 0 /\ L < stop - from)
    BY <1>7, <1>9, <1>10, <1>11, <2>2
  <2> QED
    BY <2>1, <2>2
<1>13. ASSUME NEW x \in M, L = 0, off = 0 PROVE x \in Auditor!ToSet(result)
  <2>1. r(x) + 1 \in 1 .. size /\ from = 0
    BY <1>2, <1>3, <1>4, <1>13
  <2>2. result[r(x) + 1] = x /\ r(x) + 1 \in DOMAIN result
    BY <1>3, <1>12, <2>1
  <2> QED
    BY <1>8, <2>2
<1>14. ASSUME NEW x \in M, L > 0, r(x) >= off
       PROVE  x \in Auditor!ToSet(result) \/ (r(x) >= off + L /\ Len(result) = L)
  <2>1. r(x) \in Nat /\ r(x) < n
    BY <1>3
  <2>2. from = IF off > 0 THEN off ELSE 0
    BY <1>2, <1>4, <1>9, <1>14, <2>1
  <2>3. from = off
    BY <2>2
  <2>4. CASE r(x) >= off + L
    <3>1. stop = L + off
      BY <1>2, <1>4, <1>9, <1>14, <2>1, <2>4
    <3> QED
      BY <1>9, <1>12, <2>3, <2>4, <3>1
  <2>5. CASE r(x) < off + L
    <3>1. (r(x) - off) + 1 \in 1 .. size /\ ((r(x) - off) + 1) + from = r(x) + 1
      BY <1>2, <1>4, <1>9, <1>14, <2>1, <2>3, <2>5
    <3>2. result[(r(x) - off) + 1] = line[((r(x) - off) + 1) + from]
      BY <1>12, <3>1
    <3>3. line[((r(x) - off) + 1) + from] = x
      BY <1>3, <3>1
    <3>4. (r(x) - off) + 1 \in DOMAIN result
      BY <1>12, <3>1
    <3> QED
      BY <1>8, <3>2, <3>3, <3>4
  <2> QED
    BY <1>9, <2>1, <2>4, <2>5
<1> HIDE DEF size, from
<1> QED
  BY <1>12, <1>13, <1>14 DEF M, L, result, r

\* What the pager asked for is still there and selected; what it has not got
\* of it has as many events before it as its next page leaves out.
PagerInv ==
  /\ Auditor!TypeOK
  /\ offset > 0 => query.Limit > 0
  /\ there \subseteq Matching(query)
  /\ \A id \in there \ seen : Cardinality(Ahead(Matching(query), id)) >= offset
  /\ PagerSeesAll

LEMMA MatchingTypes ==
  ASSUME Auditor!TypeOK, NEW q
  PROVE  /\ Matching(q) \in SUBSET Ids /\ Matching(q) \in SUBSET Nat /\ IsFiniteSet(Matching(q))
<1>1. Matching(q) \in SUBSET Ids
  BY DEF Matching, Auditor!TypeOK
<1> QED
  BY <1>1, AuditorAssumption, FS_Subset

LEMMA PagerInit == Auditor!Init => PagerInv
<1> SUFFICES ASSUME Auditor!Init PROVE PagerInv
  OBVIOUS
<1>1. /\ DOMAIN bucket = {} /\ query \in Queries /\ offset = 0
      /\ page = <<>> /\ there = {} /\ seen = {}
  <2>1. (CHOOSE q \in Queries : TRUE) \in Queries
    BY AuditorAssumption
  <2> QED
    BY <2>1 DEF Auditor!Init
<1>2. Auditor!TypeOK
  BY <1>1, AuditorAssumption DEF Auditor!TypeOK
<1> QED
  BY <1>1, <1>2 DEF PagerInv, PagerSeesAll, Auditor!PagerSeesAll

\* An event that comes in between only adds to what is before another.
LEMMA HandleKeeps ==
  ASSUME PagerInv, Auditor!Handle
  PROVE  PagerInv'
<1>1. /\ UNCHANGED <<query, offset, page, there, seen>>
      /\ \E c \in Commands, id \in Ids \ DOMAIN bucket :
           bucket' = [i \in DOMAIN bucket \union {id} |->
                        IF i = id THEN [Command |-> c, FlagSensitive |-> Auditor!Match(c)] ELSE bucket[i]]
  BY DEF Auditor!Handle
<1>2. PICK c \in Commands, new \in Ids \ DOMAIN bucket :
        /\ DOMAIN bucket' = DOMAIN bucket \union {new}
        /\ bucket'[new] = [Command |-> c, FlagSensitive |-> Auditor!Match(c)]
        /\ \A i \in DOMAIN bucket : bucket'[i] = bucket[i]
  BY <1>1
<1>3. Auditor!TypeOK'
  <2>1. [Command |-> c, FlagSensitive |-> Auditor!Match(c)] \in Auditor!Event
    BY DEF Auditor!Event, Auditor!Match
  <2>2. DOMAIN bucket' \subseteq Ids /\ \A id \in DOMAIN bucket' : bucket'[id] \in Auditor!Event
    BY <1>2, <2>1 DEF PagerInv, Auditor!TypeOK
  <2> QED
    BY <1>1, <2>2 DEF PagerInv, Auditor!TypeOK
<1>4. Matching(query) \subseteq Matching(query)'
  BY <1>1, <1>2 DEF Matching, Auditor!Selected
<1>5. Matching(query)' \in SUBSET Nat /\ IsFiniteSet(Matching(query)')
  <2>1. \A S \in SUBSET Ids : S \in SUBSET Nat /\ IsFiniteSet(S)
    BY AuditorAssumption, FS_Subset
  <2>2. Matching(query)' \in SUBSET Ids
    BY <1>3 DEF Matching, Auditor!TypeOK
  <2> QED
    BY <2>1, <2>2
<1>6. \A id : Cardinality(Ahead(Matching(query), id)) <= Cardinality(Ahead(Matching(query)', id))
  <2> TAKE id
  <2>1. Ahead(Matching(query), id) \in SUBSET Ahead(Matching(query)', id)
    BY <1>4 DEF Ahead
  <2>2. IsFiniteSet(Ahead(Matching(query)', id))
    BY <1>5, RankOfId
  <2> QED
    BY <2>1, <2>2, FS_Subset
<1>7. ASSUME NEW id \in there' \ seen'
      PROVE  Cardinality(Ahead(Matching(query)', id)) >= offset'
  <2>1. Cardinality(Ahead(Matching(query), id)) >= offset
    BY <1>1, <1>7 DEF PagerInv
  <2>2. Cardinality(Ahead(Matching(query), id)) \in Nat /\ offset \in Nat
    BY MatchingTypes, RankOfId, AuditorAssumption DEF PagerInv, Auditor!TypeOK
  <2>3. Cardinality(Ahead(Matching(query)', id)) \in Nat
    BY <1>5, RankOfId
  <2> QED
    BY <1>1, <1>6, <2>1, <2>2, <2>3
<1>8. (offset > 0 => query.Limit > 0)' /\ there' \subseteq Matching(query)' /\ PagerSeesAll'
  BY <1>1, <1>4 DEF PagerInv, PagerSeesAll, Auditor!PagerSeesAll
<1> HIDE DEF PagerInv
<1>9. \A id \in (there \ seen)' : Cardinality(Ahead(Matching(query), id))' >= offset'
  BY <1>7 DEF Ahead
<1> QED
  BY <1>3, <1>8, <1>9 DEF PagerInv

\* Each page leaves to the next one what comes after it, and all that is left
\* is in a page that is not full.
LEMMA PageKeeps ==
  ASSUME PagerInv, NEW q \in Queries, NEW off \in Nat, Auditor!handleList(q, off),
         q.Limit = 0 => off = 0,
         there' \in SUBSET Matching(q), NEW got \in SUBSET Ids,
         \A id \in there' \ got : Cardinality(Ahead(Matching(q), id)) >= off,
         seen' = got \union Auditor!ToSet(page')
  PROVE  PagerInv'
<1>1. /\ query' = q /\ page' = Auditor!List(q, off) /\ bucket' = bucket
      /\ offset' = off + q.Limit /\ offset' <= MaxOffset
  BY DEF Auditor!handleList
<1>2. /\ q.Limit \in Nat /\ MaxOffset \in Nat /\ IsFiniteSet(Ids) /\ Ids \subseteq Nat
      /\ q \in [Since: Int, SensitiveOnly: BOOLEAN, Limit: Nat]
  BY AuditorAssumption
<1>3. Matching(q) \in SUBSET Ids /\ Matching(q) \in SUBSET Nat /\ IsFiniteSet(Matching(q))
  BY MatchingTypes DEF PagerInv
<1>4. Matching(query)' = Matching(q)
  BY <1>1 DEF Matching, Auditor!Selected
<1>5. /\ page' \in Seq(Ids)
      /\ \A id \in Matching(q) :
           /\ q.Limit = 0 /\ off = 0 => id \in Auditor!ToSet(page')
           /\ q.Limit > 0 /\ Cardinality(Ahead(Matching(q), id)) >= off =>
                \/ id \in Auditor!ToSet(page')
                \/ /\ Cardinality(Ahead(Matching(q), id)) >= off + q.Limit
                   /\ Len(page') = q.Limit
  <2> DEFINE result == Auditor!List(q, off)
  <2>1. /\ result \in Seq(Ids)
        /\ \A id \in Matching(q) :
             /\ q.Limit = 0 /\ off = 0 => id \in Auditor!ToSet(result)
             /\ q.Limit > 0 /\ Cardinality(Ahead(Matching(q), id)) >= off =>
                  \/ id \in Auditor!ToSet(result)
                  \/ /\ Cardinality(Ahead(Matching(q), id)) >= off + q.Limit
                     /\ Len(result) = q.Limit
    BY <1>2, <1>3, ListedPage
  <2> HIDE DEF result
  <2>2. page' = result
    BY <1>1 DEF result
  <2> QED
    BY <2>1, <2>2, Zenon
<1>6. Auditor!ToSet(page') \in SUBSET Ids
  BY <1>5 DEF Auditor!ToSet
<1>7. Auditor!TypeOK'
  <2>1. offset' \in 0 .. MaxOffset
    BY <1>1, <1>2
  <2>2. there' \in SUBSET Ids /\ seen' \in SUBSET Ids
    BY <1>3, <1>6, Zenon
  <2> QED
    BY <1>1, <1>5, <2>1, <2>2 DEF PagerInv, Auditor!TypeOK
<1>8. ASSUME NEW id \in there' \ seen'
      PROVE  /\ Cardinality(Ahead(Matching(q), id)) >= off + q.Limit /\ Len(page') = q.Limit
  <2>1. /\ id \in Matching(q) /\ id \notin Auditor!ToSet(page')
        /\ Cardinality(Ahead(Matching(q), id)) >= off
    BY <1>8
  <2>2. q.Limit > 0
    BY <1>2, <1>5, <2>1
  <2> QED
    BY <1>5, <2>1, <2>2
<1>9. (offset > 0 => query.Limit > 0)'
  BY <1>1, <1>2
<1>10. PagerSeesAll'
  BY <1>1, <1>8 DEF PagerSeesAll, Auditor!PagerSeesAll
<1>11. \A id \in (there \ seen)' : Cardinality(Ahead(Matching(query), id))' >= offset'
  <2>1. \A id \in there' \ seen' : Cardinality(Ahead(Matching(query)', id)) >= offset'
    BY <1>1, <1>4, <1>8
  <2> QED
    BY <2>1 DEF Ahead
<1>12. there' \subseteq Matching(query)'
  BY <1>4
<1> HIDE DEF PagerInv
<1> QED
  BY <1>7, <1>9, <1>10, <1>11, <1>12 DEF PagerInv

LEMMA PagerStep ==
  ASSUME PagerInv, [Auditor!Next]_(Auditor!vars)
  PROVE  PagerInv'
<1>1. ASSUME NEW q \in Queries, Auditor!FirstPage(q) PROVE PagerInv'
  <2>1. /\ Auditor!handleList(q, 0) /\ there' = Matching(q)
        /\ seen' = {} \union Auditor!ToSet(page')
    BY <1>1 DEF Auditor!FirstPage, Matching
  <2>2. \A id \in Matching(q) : Cardinality(Ahead(Matching(q), id)) >= 0
    <3>1. \A id : Cardinality(Ahead(Matching(q), id)) \in Nat
      BY MatchingTypes, RankOfId DEF PagerInv
    <3> QED
      BY <3>1
  <2>3. /\ there' \in SUBSET Matching(q) /\ {} \in SUBSET Ids /\ 0 \in Nat
        /\ \A id \in there' \ {} : Cardinality(Ahead(Matching(q), id)) >= 0
    BY <2>1, <2>2
  <2> QED
    BY <2>1, <2>3, PageKeeps
<1>2. ASSUME Auditor!NextPage PROVE PagerInv'
  <2>1. /\ offset > 0 /\ Auditor!handleList(query, offset) /\ there' = there
        /\ seen' = seen \union Auditor!ToSet(page')
    BY <1>2 DEF Auditor!NextPage
  <2>2. query \in Queries /\ offset \in Nat /\ seen \in SUBSET Ids
    BY AuditorAssumption DEF PagerInv, Auditor!TypeOK
  <2>3. /\ query.Limit > 0 /\ there \in SUBSET Matching(query)
        /\ \A id \in there \ seen : Cardinality(Ahead(Matching(query), id)) >= offset
    BY <2>1 DEF PagerInv
  <2>4. query.Limit # 0
    BY <2>3
  <2> QED
    BY <2>1, <2>2, <2>3, <2>4, PageKeeps
<1>3. CASE UNCHANGED Auditor!vars
  BY <1>3 DEF Auditor!vars, PagerInv, Auditor!TypeOK, Matching, Auditor!Selected, Ahead,
              PagerSeesAll, Auditor!PagerSeesAll
<1> QED
  BY <1>1, <1>2, <1>3, HandleKeeps DEF Auditor!Next

\* Ids are random, so an event that comes between two pages may go before what
\* is already read (boltdb.go:57), and an offset past the end gives the list
\* from its start; whatever the filters and the order of the calls, a client
\* that stops at a page that is not full has got all that was there at first.
THEOREM PagerGetsAll == ProgramsSpec => []PagerSeesAll
<1>1. ProgramsInit => PagerInv
  BY PagerInit DEF ProgramsInit
<1>2. PagerInv /\ [ProgramsNext]_all => PagerInv'
  BY PagerStep, OneProgramSteps
<1>3. PagerInv => PagerSeesAll
  BY DEF PagerInv
<1> QED
  BY <1>1, <1>2, <1>3, PTL DEF ProgramsSpec

-----------------------------------------------------------------------------
(* The types of the programs whose invariants above do not have them.       *)

ExporterTypes == Exporter!TypeOK /\ IsFiniteSet(checking)

LEMMA ExporterTyped ==
  /\ Exporter!Init => ExporterTypes
  /\ ExporterTypes /\ [Exporter!Next]_(Exporter!vars) => ExporterTypes'
<1> USE BoundAssumption, ExporterAssumption
<1>1. ASSUME Exporter!Init PROVE ExporterTypes
  <2>1. Cardinality({}) = 0 /\ IsFiniteSet({})
    BY FS_EmptySet
  <2> QED
    BY <1>1, <2>1, SameCardinality DEF Exporter!Init, ExporterTypes, Exporter!TypeOK
<1>2. ASSUME ExporterTypes, Exporter!runRound PROVE ExporterTypes'
  <2>1. /\ rounds < MaxRounds /\ rounds' = rounds + 1 /\ UNCHANGED <<checking, results>>
        /\ queued' = queued \union {[entry |-> e, round |-> rounds + 1] : e \in Listings}
    BY <1>2 DEF Exporter!runRound
  <2>2. rounds' \in 0 .. MaxRounds /\ rounds + 1 \in 1 .. MaxRounds
    BY <1>2, <2>1 DEF ExporterTypes, Exporter!TypeOK
  <2>3. {[entry |-> e, round |-> rounds + 1] : e \in Listings} \subseteq Exporter!Goroutine
    BY <2>2 DEF Exporter!Goroutine
  <2> QED
    BY <1>2, <2>1, <2>2, <2>3, SameCardinality DEF ExporterTypes, Exporter!TypeOK
<1>3. ASSUME ExporterTypes, NEW g \in queued, Exporter!Acquire(g) PROVE ExporterTypes'
  <2>1. /\ Cardinality(checking) < Concurrency /\ queued' = queued \ {g}
        /\ checking' = checking \union {g} /\ UNCHANGED <<rounds, results>>
    BY <1>3, SameCardinality DEF Exporter!Acquire
  <2>2. IsFiniteSet(checking') /\ Cardinality(checking') <= Cardinality(checking) + 1
        /\ Cardinality(checking) \in Nat /\ Cardinality(checking') \in Nat
    <3>1. IsFiniteSet(checking)
      BY <1>3 DEF ExporterTypes
    <3>2. /\ IsFiniteSet(checking \union {g})
          /\ Cardinality(checking \union {g}) = IF g \in checking THEN Cardinality(checking) ELSE Cardinality(checking) + 1
      BY <3>1, FS_AddElement
    <3>3. Cardinality(checking) \in Nat /\ Cardinality(checking \union {g}) \in Nat
      BY <3>1, <3>2, FS_CardinalityType
    <3>4. Cardinality(checking \union {g}) <= Cardinality(checking) + 1
      BY <3>2, <3>3
    <3> QED
      BY <2>1, <3>2, <3>3, <3>4
  <2>3. Cardinality(checking') <= Concurrency
    BY <2>1, <2>2
  <2>4. /\ queued' \in SUBSET Exporter!Goroutine /\ checking' \in SUBSET Exporter!Goroutine
        /\ rounds' \in 0 .. MaxRounds /\ results' \in [Exporter!Urls -> [up: BOOLEAN, of: 0 .. MaxRounds]]
    BY <1>3, <2>1 DEF ExporterTypes, Exporter!TypeOK
  <2>5. Exporter!Cardinality(checking)' = Cardinality(checking')
    BY SameCardinality
  <2> QED
    BY <2>2, <2>3, <2>4, <2>5 DEF ExporterTypes, Exporter!TypeOK
<1>4. ASSUME ExporterTypes, NEW g \in checking, Exporter!checkURL(g) PROVE ExporterTypes'
  <2>1. PICK up \in BOOLEAN :
          /\ checking' = checking \ {g} /\ UNCHANGED <<rounds, queued>>
          /\ results' = [results EXCEPT ![UrlOf[g.entry]] = [up |-> up, of |-> g.round]]
    BY <1>4 DEF Exporter!checkURL
  <2>2. IsFiniteSet(checking') /\ Cardinality(checking') <= Cardinality(checking)
        /\ Cardinality(checking) \in Nat /\ Cardinality(checking') \in Nat
    <3>1. IsFiniteSet(checking) /\ checking \ {g} \in SUBSET checking
      BY <1>4 DEF ExporterTypes
    <3>2. IsFiniteSet(checking \ {g}) /\ Cardinality(checking \ {g}) <= Cardinality(checking)
      BY <3>1, FS_Subset
    <3> QED
      BY <2>1, <3>1, <3>2, FS_CardinalityType
  <2>3. g \in Exporter!Goroutine /\ UrlOf[g.entry] \in Exporter!Urls
    BY <1>4 DEF ExporterTypes, Exporter!TypeOK, Exporter!Goroutine, Exporter!Urls
  <2>4. [up |-> up, of |-> g.round] \in [up: BOOLEAN, of: 0 .. MaxRounds]
    BY <2>3 DEF Exporter!Goroutine
  <2>5. results' \in [Exporter!Urls -> [up: BOOLEAN, of: 0 .. MaxRounds]]
    BY <1>4, <2>1, <2>3, <2>4 DEF ExporterTypes, Exporter!TypeOK
  <2>6. Exporter!Cardinality(checking)' = Cardinality(checking') /\ Cardinality(checking) <= Concurrency
    BY <1>4, SameCardinality DEF ExporterTypes, Exporter!TypeOK
  <2>7. Cardinality(checking') <= Concurrency
    BY <2>2, <2>6
  <2> QED
    BY <1>4, <2>1, <2>2, <2>5, <2>6, <2>7 DEF ExporterTypes, Exporter!TypeOK
<1>5. ASSUME ExporterTypes, UNCHANGED Exporter!vars PROVE ExporterTypes'
  BY <1>5, SameCardinality DEF Exporter!vars, ExporterTypes, Exporter!TypeOK
<1>6. ASSUME NEW g, Exporter!Acquire(g) \/ Exporter!checkURL(g)
      PROVE  \/ g \in queued /\ Exporter!Acquire(g)
             \/ g \in checking /\ Exporter!checkURL(g)
  BY <1>6 DEF Exporter!Acquire, Exporter!checkURL
<1> QED
  BY <1>1, <1>2, <1>3, <1>4, <1>5, <1>6 DEF Exporter!Next

LEMMA DiskTyped ==
  /\ Disk!Init => Disk!TypeOK
  /\ Disk!TypeOK /\ [Disk!Next]_(Disk!vars) => Disk!TypeOK'
<1>1. ASSUME Disk!Init PROVE Disk!TypeOK
  BY <1>1, DiskAssumption DEF Disk!Init, Disk!TypeOK
<1> SUFFICES ASSUME Disk!TypeOK, [Disk!Next]_(Disk!vars) PROVE Disk!TypeOK'
  BY <1>1
<1>2. CASE Disk!getDiskUsage \/ Disk!writePrometheusFile \/ Disk!Compare
  BY <1>2 DEF Disk!getDiskUsage, Disk!writePrometheusFile, Disk!Compare, Disk!TypeOK
<1>3. CASE Disk!askYesNo
  <2>1. /\ stdin # <<>> /\ stdin' = Tail(stdin)
        /\ UNCHANGED <<auto, temp, doomed, cleaned, pct, promFile>>
    BY <1>3 DEF Disk!askYesNo
  <2>2. at' \in {"list", "exit", "ask"}
    BY <1>3, Zenon DEF Disk!askYesNo
  <2>3. stdin' \in Seq({"yes", "no", "other"})
    BY <2>1, HeadTailProperties DEF Disk!TypeOK
  <2> QED
    BY <2>1, <2>2, <2>3 DEF Disk!TypeOK
<1>4. CASE Disk!cleanupTempDirs \/ Disk!OthersWrite
  BY <1>4 DEF Disk!cleanupTempDirs, Disk!ReadDirs, Disk!Remove, Disk!EndOfDirs, Disk!OthersWrite,
              Disk!TypeOK
<1>5. CASE UNCHANGED Disk!vars
  BY <1>5 DEF Disk!vars, Disk!TypeOK
<1> QED
  BY <1>2, <1>3, <1>4, <1>5 DEF Disk!Next, Disk!Run

LEMMA RestarterTyped ==
  /\ Restarter!Init => Restarter!TypeOK
  /\ Restarter!TypeOK /\ [Restarter!Next]_(Restarter!vars) => Restarter!TypeOK'
<1>1. ASSUME Restarter!Init PROVE Restarter!TypeOK
  <2> DEFINE uid == Restarter!Numbering
  <2>1. /\ age = 0 /\ ending = {} /\ todo = {} /\ created = Cardinality(Slots)
        /\ pods = {[slot |-> a, uid |-> uid[a], born |-> 0] : a \in Slots}
    BY <1>1, SameCardinality DEF Restarter!Init
  <2>2. \A a \in Slots : uid[a] \in 1 .. MaxPods
    BY FirstUids, SlotsAssumption
  <2> HIDE DEF uid
  <2>3. pods \subseteq Restarter!Pod /\ age \in 0 .. MaxTime /\ created \in 0 .. MaxPods
    BY <2>1, <2>2, FirstUids, SlotsAssumption DEF Restarter!Pod
  <2> QED
    BY <2>1, <2>3 DEF Restarter!TypeOK
<1> SUFFICES ASSUME Restarter!TypeOK, [Restarter!Next]_(Restarter!vars) PROVE Restarter!TypeOK'
  BY <1>1
<1>2. ASSUME NEW o \in Operations, Restarter!List(o) PROVE Restarter!TypeOK'
  <2>1. PICK options \in Choices :
          todo' = todo \union {[by |-> o, pod |-> p, options |-> options] : p \in pods}
    BY <1>2 DEF Restarter!List
  <2>2. {[by |-> o, pod |-> p, options |-> options] : p \in pods} \subseteq Restarter!Item
    BY DEF Restarter!TypeOK, Restarter!Item
  <2>3. UNCHANGED <<age, pods, ending, created>>
    BY <1>2 DEF Restarter!List
  <2> QED
    BY <2>1, <2>2, <2>3 DEF Restarter!TypeOK
<1>3. ASSUME NEW o \in Operations, Restarter!Visit(o) PROVE Restarter!TypeOK'
  <2>1. /\ todo' \subseteq todo /\ UNCHANGED <<age, pods, created>>
        /\ ending' = ending \/ \E p : ending' = ending \union Restarter!Named(p)
    BY <1>3 DEF Restarter!Visit
  <2>2. \A p : Restarter!Named(p) \subseteq {q.uid : q \in pods}
    BY DEF Restarter!Named
  <2>3. ending' \subseteq {q.uid : q \in pods}
    BY <2>1, <2>2 DEF Restarter!TypeOK
  <2> QED
    BY <2>1, <2>3 DEF Restarter!TypeOK
<1>4. ASSUME NEW slot \in Slots, Restarter!Create(slot) PROVE Restarter!TypeOK'
  <2>1. /\ created < MaxPods /\ created' = created + 1 /\ UNCHANGED <<age, ending, todo>>
        /\ pods' = pods \union {[slot |-> slot, uid |-> created + 1, born |-> age]}
    BY <1>4 DEF Restarter!Create
  <2>2. created + 1 \in 1 .. MaxPods
    BY <2>1, SlotsAssumption DEF Restarter!TypeOK
  <2>3. [slot |-> slot, uid |-> created + 1, born |-> age] \in Restarter!Pod
    BY <2>2 DEF Restarter!TypeOK, Restarter!Pod
  <2> QED
    BY <2>1, <2>2, <2>3 DEF Restarter!TypeOK
<1>5. ASSUME NEW p \in pods, Restarter!Evict(p) \/ Restarter!Gone(p) PROVE Restarter!TypeOK'
  BY <1>5 DEF Restarter!Evict, Restarter!Gone, Restarter!TypeOK
<1>6. CASE Restarter!Tick \/ Restarter!Exit
  BY <1>6, SlotsAssumption DEF Restarter!Tick, Restarter!Exit, Restarter!TypeOK
<1>7. CASE UNCHANGED Restarter!vars
  BY <1>7 DEF Restarter!vars, Restarter!TypeOK
<1> QED
  BY <1>2, <1>3, <1>4, <1>5, <1>6, <1>7
  DEF Restarter!Next, Restarter!RestartPods, Restarter!Cluster

\* A goroutine backs off only before its last attempt, and main exits with one
\* of its codes.
CheckerTyped ==
  /\ retries \in RetryFlags /\ retries \in Int
  /\ attempt \in [Checker!Entries -> Nat]
  /\ \A e \in Checker!Entries : /\ attempt[e] = 0 \/ attempt[e] <= retries
                                /\ worker[e] = "backoff" => attempt[e] < retries
  /\ \E code, tests, failures : exit = [code |-> code, tests |-> tests, failures |-> failures]

LEMMA CheckerTypedStep ==
  /\ Checker!Init => CheckerTyped
  /\ CheckerInv /\ CheckerTyped /\ [Checker!Next]_(Checker!vars) => CheckerTyped'
<1>1. ASSUME Checker!Init PROVE CheckerTyped
  <2>1. \E code, tests, failures : exit = [code |-> code, tests |-> tests, failures |-> failures]
    BY <1>1, Zenon DEF Checker!Init, Checker!NoExit
  <2>2. \A e \in Checker!Entries : worker[e] # "backoff" /\ attempt[e] = 0
    BY <1>1 DEF Checker!Init
  <2>3. attempt \in [Checker!Entries -> Nat] /\ retries \in RetryFlags /\ retries \in Int
    BY <1>1, ReposAssumption DEF Checker!Init
  <2> QED
    BY <2>1, <2>2, <2>3 DEF CheckerTyped
<1> SUFFICES ASSUME CheckerInv, CheckerTyped, [Checker!Next]_(Checker!vars) PROVE CheckerTyped'
  BY <1>1
<1>2. ASSUME NEW e \in Checker!Entries,
             Checker!Acquire(e) \/ Checker!Receive(e) \/ Checker!Release(e) \/ Checker!NotAsked(e)
      PROVE  CheckerTyped'
  BY <1>2 DEF Checker!Acquire, Checker!Receive, Checker!Release, Checker!NotAsked, CheckerInv,
              CheckerTypes, CheckerTyped
<1>3. ASSUME NEW e \in Checker!Entries, Checker!fetchLatest(e) PROVE CheckerTyped'
  <2>1. /\ UNCHANGED <<retries, attempt, exit>> /\ attempt[e] <= retries
        /\ \E a \in Checker!Answers :
             worker' = [worker EXCEPT ![e] = IF a.err = "none" \/ Checker!GivesUp(e, a)
                                             THEN "sending" ELSE "backoff"]
    BY <1>3 DEF Checker!fetchLatest
  <2>2. PICK state \in {"sending", "backoff"} :
          /\ worker' = [worker EXCEPT ![e] = state]
          /\ state = "backoff" => attempt[e] # retries
    BY <2>1 DEF Checker!GivesUp
  <2>3. attempt[e] \in Nat /\ retries \in Int
    BY DEF CheckerTyped
  <2>4. ASSUME NEW x \in Checker!Entries, worker'[x] = "backoff" PROVE attempt'[x] < retries'
    <3>1. CASE x = e
      BY <2>1, <2>2, <2>3, <2>4, <3>1 DEF CheckerInv, CheckerTypes
    <3>2. CASE x # e
      BY <2>1, <2>2, <2>4, <3>2 DEF CheckerInv, CheckerTypes, CheckerTyped
    <3> QED
      BY <3>1, <3>2
  <2> QED
    BY <2>1, <2>4, Zenon DEF CheckerTyped
<1>4. ASSUME NEW e \in Checker!Entries, Checker!Retry(e) PROVE CheckerTyped'
  <2>1. /\ worker[e] = "backoff" /\ worker' = [worker EXCEPT ![e] = "fetching"]
        /\ attempt' = [attempt EXCEPT ![e] = attempt[e] + 1] /\ exit' = exit /\ retries' = retries
    BY <1>4 DEF Checker!Retry
  <2>2. attempt[e] + 1 \in Nat /\ attempt[e] + 1 <= retries
    BY <2>1 DEF CheckerTyped
  <2>3. /\ attempt' \in [Checker!Entries -> Nat]
        /\ \A x \in Checker!Entries : attempt'[x] = 0 \/ attempt'[x] <= retries
    BY <2>1, <2>2 DEF CheckerTyped
  <2>4. \A x \in Checker!Entries : worker'[x] = "backoff" => attempt'[x] < retries
    BY <2>1 DEF CheckerInv, CheckerTypes, CheckerTyped
  <2> QED
    BY <2>1, <2>3, <2>4, Zenon DEF CheckerTyped
<1>5. ASSUME Checker!Exit PROVE CheckerTyped'
  BY <1>5 DEF Checker!Exit, CheckerTyped
<1>6. CASE UNCHANGED Checker!vars
  BY <1>6 DEF Checker!vars, CheckerTyped
<1> QED
  BY <1>2, <1>3, <1>4, <1>5, <1>6 DEF Checker!Next, Checker!fetchWithRetries

LEMMA CheckerTypeOK == CheckerInv /\ CheckerTyped => Checker!TypeOK
<1> SUFFICES ASSUME CheckerInv, CheckerTyped PROVE Checker!TypeOK
  OBVIOUS
<1> DEFINE n == Len(Repos)
<1>1. n \in Nat /\ Cardinality(Checker!Entries) = n
  <2>1. Checker!Entries = 1 .. n /\ n \in Nat
    BY ReposAssumption DEF Checker!Entries
  <2>2. \A k \in Nat : Cardinality(1 .. k) = k
    BY FS_Interval
  <2> QED
    BY <2>1, <2>2, Zenon
<1>2. \A S \in SUBSET Checker!Entries : Cardinality(S) \in 0 .. n
  <2> TAKE S \in SUBSET Checker!Entries
  <2>1. IsFiniteSet(S) /\ Cardinality(S) <= n
    BY <1>1, SentFinite, FS_Subset
  <2>2. Cardinality(S) \in Nat
    BY <2>1, FS_CardinalityType
  <2> QED
    BY <1>1, <2>1, <2>2
<1> HIDE DEF n
<1>3. tally \in [ok: 0 .. n, fail: 0 .. n, outdated: 0 .. n, code: {0, 1}]
  <2>1. /\ SentOk \in SUBSET Checker!Entries /\ SentFailed \in SUBSET Checker!Entries
        /\ SentLate \in SUBSET Checker!Entries
    BY DEF Sent, SentOk, SentFailed, SentLate
  <2>2. tally.ok \in 0 .. n /\ tally.fail \in 0 .. n /\ tally.outdated \in 0 .. n
    BY <1>2, <2>1 DEF CheckerInv, TallyInv
  <2>3. tally \in [ok: Nat, fail: Nat, outdated: Nat, code: {0, 1}]
    BY DEF CheckerInv, CheckerTypes
  <2> QED
    BY <2>2, <2>3
<1>4. exit \in [code: {-1, 0, 1, OutdatedExit}, tests: 0 .. n, failures: 0 .. n]
  <2>1. CASE exit = Checker!NoExit
    BY <1>1, <2>1 DEF Checker!NoExit
  <2>2. CASE exit # Checker!NoExit
    <3>1. /\ exit.tests = n
          /\ exit.code \in {0, 1, OutdatedExit}
          /\ exit.failures = Cardinality({e \in Checker!Entries : ~Checker!Ok(e) \/ Checker!Behind(e)})
      BY <2>2, ReportFollows, SameCardinality DEF ReportIsRight, Checker!ReportIsRight, n
    <3>2. exit.failures \in 0 .. n
      <4> DEFINE bad == {e \in Checker!Entries : ~Checker!Ok(e) \/ Checker!Behind(e)}
      <4>1. bad \in SUBSET Checker!Entries
        OBVIOUS
      <4> HIDE DEF bad
      <4>2. Cardinality(bad) \in 0 .. n
        BY <1>2, <4>1
      <4> QED
        BY <3>1, <4>2 DEF bad
    <3>3. PICK code, tests, failures : exit = [code |-> code, tests |-> tests, failures |-> failures]
      BY DEF CheckerTyped
    <3>4. code \in {-1, 0, 1, OutdatedExit} /\ tests \in 0 .. n /\ failures \in 0 .. n
      BY <1>1, <3>1, <3>2, <3>3
    <3> QED
      BY <3>3, <3>4
  <2> QED
    BY <2>1, <2>2
<1> QED
  BY <1>3, <1>4 DEF CheckerInv, CheckerTypes, CheckerTyped, Checker!TypeOK, n

\* Every variable of every program keeps its type: among them, no goroutine of
\* the exporter holds its semaphore beyond -concurrency (its main.go:88), and no
\* entry of release-checker-api is fetched once more than its retries (its
\* main.go:271), which takes that a goroutine backs off only before its last.
THEOREM TypesCorrect == ProgramsSpec => []TypesOK
<1> DEFINE Types == /\ DashboardInv /\ LoopInv /\ ExporterTypes /\ HistoryInv
                    /\ CheckerInv /\ CheckerTyped /\ Restarter!TypeOK /\ PagerInv /\ Disk!TypeOK
<1>1. ProgramsInit => Types
  BY DashboardInit, LoopInit, ExporterTyped, HistoryInit, CheckerInit, CheckerTypedStep,
     RestarterTyped, PagerInit, DiskTyped DEF ProgramsInit
<1>2. Types /\ [ProgramsNext]_all => Types'
  BY OneProgramSteps, DashboardStep, LoopStep, ExporterTyped, HistoryStep, CheckerStep,
     CheckerTypedStep, RestarterTyped, PagerStep, DiskTyped
<1>3. Types => TypesOK
  BY CheckerTypeOK DEF TypesOK, DashboardInv, LoopInv, ExporterTypes, HistoryInv, PagerInv
<1> QED
  BY <1>1, <1>2, <1>3, PTL DEF ProgramsSpec
=============================================================================
