--------------------------- MODULE LogAggregator ---------------------------
(***************************************************************************)
(* go-log-aggregator's pipeline: sources send events to one bounded        *)
(* channel, the fan-in loop pushes them into the ring (RingBuffer), and    *)
(* cancelling the context stops the sources, closes the channel and ends   *)
(* the process, in no fixed order.  The events of a source are numbered.   *)
(***************************************************************************)
EXTENDS RingBuffer

CONSTANTS
  Files, Stdins,  \* file tails (an HTTP pull is one whose Seek never fails), which heed
                  \* the context, and stdin, which does not
  Capacity,       \* capacity of the channel (1024 in the code)
  MaxEvents       \* bound: events of each source

ASSUME BoundsAssumption == Capacity \in Nat /\ MaxEvents \in Nat

Sources == Files \union Stdins

\* The events of the ring.
ASSUME EventsAssumption == Events = [source: Sources, n: 1 .. MaxEvents]

VARIABLES
  source,         \* where each source is: "waiting", "sending", "returned", or a tail
                  \* "broken": its file is open and its reader nil
  out, closed,    \* the channel
  cancelled,      \* ctx is done
  process,        \* "up", "exited", "crashed" by a panic
  sent,           \* history: events each source has sent
  log             \* history: events pushed into the ring

vars == <<source, out, closed, ring, cancelled, process, sent, log>>

-----------------------------------------------------------------------------
TypeOK ==
  /\ source \in [Sources -> {"waiting", "sending", "returned", "broken"}]
  /\ out \in Seq(Events) /\ Len(out) <= Capacity
  /\ closed \in BOOLEAN /\ cancelled \in BOOLEAN
  /\ RingTypeOK
  /\ process \in {"up", "exited", "crashed"}
  /\ sent \in [Sources -> 0 .. MaxEvents]
  /\ log \in Seq(Events)

Init ==
  /\ source = [s \in Sources |-> "waiting"]
  /\ out = <<>> /\ closed = FALSE
  /\ NewRing
  /\ cancelled = FALSE /\ process = "up"
  /\ sent = [s \in Sources |-> 0] /\ log = <<>>

-----------------------------------------------------------------------------
(* The sources.  A select with ctx.Done and a tick both ready takes either, *)
(* and a file's inner loop goes from line to line without looking at ctx.   *)

Produce(s) ==
  /\ source[s] = "waiting" /\ sent[s] < MaxEvents
  /\ source' = [source EXCEPT ![s] = "sending"]
  /\ UNCHANGED <<out, closed, ring, cancelled, process, sent, log>>

Upcoming(s) == [source |-> s, n |-> sent[s] + 1]

HasRoom == Len(out) < Capacity

SendOrDrop(s) ==
  /\ source[s] = "sending" /\ ~closed
  /\ out' = IF HasRoom THEN Append(out, Upcoming(s)) ELSE out
  /\ sent' = [sent EXCEPT ![s] = @ + 1]
  /\ source' = [source EXCEPT ![s] = "waiting"]
  /\ UNCHANGED <<closed, ring, cancelled, process, log>>
Send(s) ==
  /\ source[s] = "sending" /\ ~closed /\ HasRoom
  /\ out' = Append(out, Upcoming(s))
  /\ sent' = [sent EXCEPT ![s] = @ + 1]
  /\ source' = [source EXCEPT ![s] = "waiting"]
  /\ UNCHANGED <<closed, ring, cancelled, process, log>>

\* A tail opens its file and the Seek fails (filetail.go:38-39).
Break(s) ==
  /\ s \in Files /\ source[s] = "waiting" /\ sent[s] = 0
  /\ source' = [source EXCEPT ![s] = "broken"]
  /\ UNCHANGED <<out, closed, ring, cancelled, process, sent, log>>

\* A send on a closed channel panics, also one that was waiting for room; and so
\* does a broken tail at its next tick.
Panic(s) ==
  /\ (source[s] = "sending" /\ closed) \/ source[s] = "broken"
  /\ process' = "crashed"
  /\ UNCHANGED <<source, out, closed, ring, cancelled, sent, log>>

Return(s) ==
  /\ source[s] \in {"waiting", "broken"} /\ (s \in Files => cancelled)
  /\ source' = [source EXCEPT ![s] = "returned"]
  /\ UNCHANGED <<out, closed, ring, cancelled, process, sent, log>>

-----------------------------------------------------------------------------
\* The fan-in loop.
FanInLeavingLast ==
  /\ Len(out) > 1
  /\ Push(Head(out))
  /\ out' = Tail(out) /\ log' = Append(log, Head(out))
  /\ UNCHANGED <<source, closed, cancelled, process, sent>>
FanIn ==
  /\ out # <<>>
  /\ Push(Head(out))
  /\ out' = Tail(out) /\ log' = Append(log, Head(out))
  /\ UNCHANGED <<source, closed, cancelled, process, sent>>

\* A signal; the manager's goroutine; main, when the API server has stopped.
Cancel == /\ ~cancelled /\ cancelled' = TRUE
          /\ UNCHANGED <<source, out, closed, ring, process, sent, log>>
Close  == /\ cancelled /\ ~closed /\ closed' = TRUE
          /\ UNCHANGED <<source, out, ring, cancelled, process, sent, log>>
Exit   == /\ cancelled /\ process' = "exited"
          /\ UNCHANGED <<source, out, closed, ring, cancelled, sent, log>>

Next ==
  /\ process = "up"
  /\ \/ \E s \in Sources : Produce(s) \/ Send(s) \/ Break(s) \/ Panic(s) \/ Return(s)
     \/ FanIn
     \/ Cancel \/ Close \/ Exit

\* The loop runs, and senders that wait for room are served in turn.
Spec == /\ Init /\ [][Next]_vars
        /\ WF_vars(process = "up" /\ FanIn)
        /\ \A s \in Sources : SF_vars(process = "up" /\ Send(s))

-----------------------------------------------------------------------------
\* What has been pushed into the ring or is in the channel.
Onwards == log \o out

\* What a source has sent, and no more, is in the ring's history or in the
\* channel, once each and in the order of sending.
OnceInOrder ==
  /\ \A i \in DOMAIN Onwards : Onwards[i].n <= sent[Onwards[i].source]
  /\ \A s \in Sources : \A k \in 1 .. sent[s] :
       \E i \in DOMAIN Onwards : Onwards[i] = [source |-> s, n |-> k]
  /\ \A i, j \in DOMAIN Onwards :
       i < j /\ Onwards[i].source = Onwards[j].source => Onwards[i].n < Onwards[j].n

\* The program is told to stop, or has panicked.
Ending == cancelled \/ process = "crashed"

\* A source never waits forever for room in the channel, and what it has sent
\* gets into the ring, while the program runs.
GetsThrough ==
  \A s \in Sources, k \in 1 .. MaxEvents :
    /\ (source[s] = "sending" /\ sent[s] = k - 1) ~> (sent[s] >= k \/ Ending)
    /\ (sent[s] >= k) ~> ((\E i \in DOMAIN log : log[i] = [source |-> s, n |-> k]) \/ Ending)
=============================================================================
