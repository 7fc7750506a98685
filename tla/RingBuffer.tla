----------------------------- MODULE RingBuffer -----------------------------
(***************************************************************************)
(* go-log-aggregator's buffer.Ring: an array of Size slots, the position   *)
(* of the next write, and whether the array has been filled once.  Push    *)
(* and Snapshot each hold the mutex from start to end.                     *)
(***************************************************************************)
EXTENDS Integers, Sequences, FiniteSets, SequencesExt

CONSTANTS
  Events,  \* events
  Empty,   \* the zero Event
  Size     \* slots (at least 128 in the code)

ASSUME EmptyAssumption == Empty \notin Events
ASSUME SizeAssumption  == Size \in Nat \ {0}

VARIABLES data, pos, full

ring == <<data, pos, full>>

-----------------------------------------------------------------------------
Slots == 0 .. Size - 1

RingTypeOK ==
  /\ data \in [Slots -> Events \union {Empty}]
  /\ pos \in Slots
  /\ full \in BOOLEAN

NewRing ==
  /\ data = [i \in Slots |-> Empty]
  /\ pos = 0
  /\ full = FALSE

PushFullEarly(e) ==
  /\ data' = [data EXCEPT ![pos] = e]
  /\ pos' = (pos + 1) % Size
  /\ full' = (full \/ pos + 2 >= Size)
Push(e) ==
  /\ data' = [data EXCEPT ![pos] = e]
  /\ pos' = (pos + 1) % Size
  /\ full' = (full \/ pos' = 0)

RingNext == \E e \in Events : Push(e)
RingSpec == NewRing /\ [][RingNext]_ring

-----------------------------------------------------------------------------
(* Snapshot.  What a query filters by (time, source, regular expressions)  *)
(* is the set of events it accepts.                                        *)

Count == IF full THEN Size ELSE pos

\* The slot of the event i pushes before the last one.
Slot(i) == (pos - 1 - i + Size) % Size

FirstOf(seq, n) == SubSeq(seq, 1, IF n < Len(seq) THEN n ELSE Len(seq))

\* The loop goes back from the newest event: out[i] is out after i of them.  It
\* breaks after an append that makes it limit + offset events.
CollectedToLimit(q) ==
  LET out[i \in 0 .. Count] ==
        IF i = 0 THEN <<>>
        ELSE IF /\ data[Slot(i - 1)] \in q.accepts
                /\ q.limit > 0 => Len(out[i - 1]) < q.limit
        THEN Append(out[i - 1], data[Slot(i - 1)])
        ELSE out[i - 1]
  IN  out[Count]
Collected(q) ==
  LET out[i \in 0 .. Count] ==
        IF i = 0 THEN <<>>
        ELSE IF /\ data[Slot(i - 1)] \in q.accepts
                /\ q.limit > 0 => out[i - 1] = <<>> \/ Len(out[i - 1]) < q.limit + q.offset
        THEN Append(out[i - 1], data[Slot(i - 1)])
        ELSE out[i - 1]
  IN  out[Count]

Snapshot(q) ==
  LET out  == Collected(q)
      page == IF 0 < q.offset /\ q.offset < Len(out) THEN SubSeq(out, q.offset + 1, Len(out)) ELSE out
  IN  Reverse(IF q.limit > 0 THEN FirstOf(page, q.limit) ELSE page)

-----------------------------------------------------------------------------
\* The ring's events, oldest first.
Recent == [i \in 1 .. Count |-> data[Slot(Count - i)]]

\* The ring holds the last Size events pushed, in the order of the pushes.
Log == INSTANCE BoundedLog WITH recent <- Recent
LogSpec == Log!Spec

\* What a query asks for: of the recent events it accepts, those that have at
\* least offset and fewer than offset + limit accepted events after them.
Asked(q) ==
  LET Accepted == {i \in DOMAIN Recent : Recent[i] \in q.accepts}
      After(i) == Cardinality({j \in Accepted : j > i})
  IN  {i \in Accepted : After(i) >= q.offset /\ (q.limit > 0 => After(i) < q.offset + q.limit)}

Answers(q) ==
  LET asked == Asked(q) IN
    Snapshot(q) = [k \in 1 .. Cardinality(asked) |->
                     Recent[CHOOSE i \in asked : Cardinality({j \in asked : j < i}) = k - 1]]

Queries == [accepts: SUBSET Events, limit: 0 .. Size + 1, offset: 0 .. Size + 1]

\* A query whose offset leaves something to return gets the page it asks for,
\* oldest first, in spite of the wrap-around and of the loop that stops early.
SnapshotIsThePage == \A q \in Queries : Asked(q) # {} \/ q.offset = 0 => Answers(q)

\* The same for every query: past the last page there is nothing.
EveryPage == \A q \in Queries : Answers(q)
=============================================================================
