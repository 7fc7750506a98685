--------------------------- MODULE StatusDashboard ---------------------------
(***************************************************************************)
(* go-sre-monitor/main.go: a scheduler checks every service once a round,  *)
(* at most Concurrency at a time and all under one deadline, stores the    *)
(* result and broadcasts it to the subscribers of /events, each behind a   *)
(* small channel.  /events subscribes first and sends the stored result    *)
(* second.  A service is one entry of the configured list.                 *)
(***************************************************************************)
EXTENDS Integers, Sequences, FiniteSets

CONSTANTS
  Services,     \* the entries of the list
  Flag,         \* -concurrency as given
  TimeoutFlags, \* values of -timeout, in ticks; without one (0) the client has none
  ThreeSeconds, \* what a round takes for it then, in ticks
  Grace,        \* what a round's deadline adds to it (a second), in ticks
  Clients,      \* visitors of /events
  Capacity,     \* of a subscriber's channel (8)
  MaxRounds     \* bound: rounds

ASSUME BoundAssumption == /\ {ThreeSeconds, Grace, Capacity, MaxRounds} \subseteq Nat \ {0}
                          /\ TimeoutFlags \subseteq Int

VARIABLES
  timeout,    \* -timeout as given
  probe,      \* service: "waiting" for the semaphore, "running", "up", "down"
  started,    \* service: ticks into the round when its request was made, or None
  clock,      \* ticks since the round began
  scheduler,  \* "idle", "checking", "storing", "broadcasting", "stopped"
  round,      \* rounds begun
  payload,    \* the store: the last round stored, 0 while there is none
  subs,       \* the hub: subscriber to its channel
  client,     \* "away", "connected", "sending", "streaming"
  shown,      \* client: the last round sent to it, 0 for none
  phase,      \* "running", "stopping" after a signal, "exited"
  announced,  \* history: the last round broadcast
  dropped     \* history: client to the last round its full channel refused

checks == <<timeout, probe, started, clock>>
hub    == <<subs, client, shown, dropped>>
vars   == <<checks, scheduler, round, payload, hub, phase, announced>>

-----------------------------------------------------------------------------
None   == -1
Rounds == 0 .. MaxRounds

\* The channels the hub holds, from subscribe to unsubscribe.
SubscribedLate == {c \in Clients : client[c] = "streaming"}
Subscribed     == {c \in Clients : client[c] # "away"}

\* Of a round, for all its services.
Deadline == (IF timeout = 0 THEN ThreeSeconds ELSE timeout) + Grace

TypeOK ==
  /\ probe \in [Services -> {"waiting", "running", "up", "down"}]
  /\ timeout \in TimeoutFlags
  /\ started \in [Services -> Nat \union {None}]
  /\ clock \in Nat /\ (clock = 0 \/ clock <= Deadline)
  /\ scheduler \in {"idle", "checking", "storing", "broadcasting", "stopped"}
  /\ {round, payload, announced} \subseteq Rounds
  /\ subs \in [Clients -> Seq(Rounds)] /\ \A c \in Clients : Len(subs[c]) <= Capacity
  /\ client \in [Clients -> {"away", "connected", "sending", "streaming"}]
  /\ {shown, dropped} \subseteq [Clients -> Rounds]
  /\ phase \in {"running", "stopping", "exited"}

Init ==
  /\ timeout \in TimeoutFlags
  /\ probe = [s \in Services |-> "waiting"] /\ started = [s \in Services |-> None]
  /\ clock = 0 /\ scheduler = "checking" /\ round = 1
  /\ payload = 0 /\ announced = 0
  /\ subs = [c \in Clients |-> <<>>] /\ client = [c \in Clients |-> "away"]
  /\ shown = [c \in Clients |-> 0] /\ dropped = [c \in Clients |-> 0]
  /\ phase = "running"

-----------------------------------------------------------------------------
(* One round.                                                              *)

concurrency == IF Flag <= 0 THEN 1 ELSE Flag

\* The round's context: over at its deadline, and once a signal came.
Cancelled == clock >= Deadline \/ phase # "running"

Running == {s \in Services : probe[s] = "running"}

\* A goroutine gets the semaphore and makes its request.
Acquire(s) ==
  /\ scheduler = "checking" /\ probe[s] = "waiting"
  /\ Cardinality(Running) < concurrency
  /\ probe' = [probe EXCEPT ![s] = "running"]
  /\ started' = [started EXCEPT ![s] = clock]
  /\ UNCHANGED <<timeout, clock, scheduler, round, payload, hub, phase, announced>>

\* checkOne returns: an answer, good or bad, or an error; only an error
\* when the context is over or the client's timeout, if it has one, has passed.
MustFail(s) == Cancelled \/ (timeout > 0 /\ clock - started[s] >= timeout)
checkOne(s) ==
  /\ probe[s] = "running"
  /\ \E up \in IF MustFail(s) THEN {"down"} ELSE {"up", "down"} :
       probe' = [probe EXCEPT ![s] = up]
  /\ UNCHANGED <<timeout, started, clock, scheduler, round, payload, hub, phase, announced>>

\* Time passes while requests wait for answers.
Tick ==
  /\ scheduler = "checking" /\ clock < Deadline
  /\ \A s \in Services : probe[s] = "waiting" => Cardinality(Running) >= concurrency
  /\ Running # {} /\ \A s \in Running : ~MustFail(s)
  /\ clock' = clock + 1
  /\ UNCHANGED <<timeout, probe, started, scheduler, round, payload, hub, phase, announced>>

\* wg.Wait is over when every goroutine is done.
CheckedIfUp ==
  /\ scheduler = "checking"
  /\ \A s \in Services : probe[s] = "up"
  /\ scheduler' = "storing"
  /\ UNCHANGED <<checks, round, payload, hub, phase, announced>>
Checked ==
  /\ scheduler = "checking"
  /\ \A s \in Services : probe[s] \in {"up", "down"}
  /\ scheduler' = "storing"
  /\ UNCHANGED <<checks, round, payload, hub, phase, announced>>

Store ==
  /\ scheduler = "storing"
  /\ payload' = round
  /\ scheduler' = "broadcasting"
  /\ UNCHANGED <<checks, round, hub, phase, announced>>

\* Every subscriber whose channel has room gets the payload, the others not.
broadcast ==
  /\ scheduler = "broadcasting"
  /\ LET full == {c \in Subscribed : Len(subs[c]) >= Capacity} IN
       /\ subs' = [c \in Clients |-> IF c \in Subscribed \ full THEN Append(subs[c], round) ELSE subs[c]]
       /\ dropped' = [c \in Clients |-> IF c \in full THEN round ELSE dropped[c]]
  /\ announced' = round
  /\ scheduler' = "idle"
  /\ UNCHANGED <<checks, round, payload, client, shown, phase>>

\* The ticker; with the context done the select may still choose it.
doRound ==
  /\ scheduler = "idle" /\ round < MaxRounds
  /\ round' = round + 1
  /\ probe' = [s \in Services |-> "waiting"] /\ started' = [s \in Services |-> None]
  /\ clock' = 0 /\ scheduler' = "checking"
  /\ UNCHANGED <<timeout, payload, hub, phase, announced>>

Stop ==
  /\ scheduler = "idle" /\ phase = "stopping"
  /\ scheduler' = "stopped"
  /\ UNCHANGED <<checks, round, payload, hub, phase, announced>>

runScheduler ==
  \/ \E s \in Services : Acquire(s) \/ checkOne(s)
  \/ Tick \/ Checked \/ Store \/ broadcast \/ doRound \/ Stop

-----------------------------------------------------------------------------
(* /events and the end of the program.                                     *)

subscribe(c) ==
  /\ client[c] = "away"
  /\ client' = [client EXCEPT ![c] = "connected"]
  /\ shown' = [shown EXCEPT ![c] = 0] /\ dropped' = [dropped EXCEPT ![c] = 0]
  /\ UNCHANGED subs

\* The stored payload, if there is one, is read and then written out.
ReadStored(c) ==
  /\ client[c] = "connected"
  /\ client' = [client EXCEPT ![c] = "sending"]
  /\ shown' = [shown EXCEPT ![c] = payload]
  /\ UNCHANGED <<subs, dropped>>
SendStored(c) ==
  /\ client[c] = "sending"
  /\ client' = [client EXCEPT ![c] = "streaming"]
  /\ UNCHANGED <<subs, shown, dropped>>

Stream(c) ==
  /\ client[c] = "streaming" /\ subs[c] # <<>>
  /\ shown' = [shown EXCEPT ![c] = Head(subs[c])]
  /\ subs' = [subs EXCEPT ![c] = Tail(@)]
  /\ UNCHANGED <<client, dropped>>

unsubscribe(c) ==
  /\ client[c] = "streaming"
  /\ client' = [client EXCEPT ![c] = "away"]
  /\ subs' = [subs EXCEPT ![c] = <<>>]
  /\ UNCHANGED <<shown, dropped>>

events(c) ==
  /\ subscribe(c) \/ ReadStored(c) \/ SendStored(c) \/ Stream(c) \/ unsubscribe(c)
  /\ UNCHANGED <<checks, scheduler, round, payload, phase, announced>>

\* The signal; Shutdown returns when every visitor is gone or after five
\* seconds, whatever the scheduler is doing.
Signal   == phase = "running" /\ phase' = "stopping"
Exit     == phase = "stopping" /\ phase' = "exited"
shutdown == /\ Signal \/ Exit
            /\ UNCHANGED <<checks, scheduler, round, payload, hub, announced>>

Next == /\ phase # "exited"
        /\ runScheduler \/ (\E c \in Clients : events(c)) \/ shutdown

\* The scheduler and the handlers run on; visitors and signals may not come,
\* and a visitor may stay for ever.
Scheduler  == phase # "exited" /\ runScheduler
Handler(c) == /\ phase # "exited" /\ (ReadStored(c) \/ SendStored(c) \/ Stream(c))
              /\ UNCHANGED <<checks, scheduler, round, payload, phase, announced>>
Fairness == WF_vars(Scheduler) /\ \A c \in Clients : WF_vars(Handler(c))

Spec == Init /\ [][Next]_vars /\ Fairness

-----------------------------------------------------------------------------
\* What a visitor's page ends with once its channel is drained.
Pending(c) == IF subs[c] = <<>> THEN shown[c] ELSE subs[c][Len(subs[c])]

\* No announced result is missed between the stored one and the stream: what
\* a visitor is shown in the end is at least as new as the last broadcast,
\* unless that was refused by a channel that was full.
NothingMissed ==
  \A c \in Clients : client[c] \in {"sending", "streaming"} =>
    Pending(c) >= announced \/ dropped[c] = announced

\* A visitor that stays ends on the newest round, unless that round found its
\* channel full: every round ends, is stored, broadcast and streamed.
UpToDate ==
  \A c \in Clients :
    <>[](client[c] = "streaming" /\ phase # "exited")
      => <>[](shown[c] = round \/ dropped[c] = round)
=============================================================================
