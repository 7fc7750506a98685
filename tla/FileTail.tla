------------------------------ MODULE FileTail ------------------------------
(***************************************************************************)
(* go-log-aggregator's FileTail source on one path (LogFile): at every     *)
(* tick it reads lines up to the end of the file, then compares the size   *)
(* of the file it has open with the offset it has counted.  A Seek or a    *)
(* read may fail; a failed Seek leaves the file open without a new reader. *)
(***************************************************************************)
EXTENDS LogFile

CONSTANT MaxErrors  \* bound: Seeks and reads that fail

ASSUME ErrorsAssumption == MaxErrors \in Nat

VARIABLES
  file,     \* f: the file open, or Missing for nil
  reader,   \* r: "nil", "live" on the file open, "stale" on one that is closed
  at,       \* where reading the file has come to
  offset,   \* offset: the length of the lines returned, from the opening on
  ahead,    \* r: pieces read ahead of the lines returned
  pc,       \* "select", "read" within a tick, "stat" at the end of the file, "panicked"
  errors,   \* Seeks and reads that failed
  sent,     \* history: the lines sent on, [n, intact]
  first     \* history: the first line the tail owes

tail == <<file, reader, at, offset, ahead, pc, errors, sent, first>>
vars == <<disk, tail>>

TypeOK ==
  /\ DiskTypeOK
  /\ file \in Files \union {Missing}
  /\ at \in Sizes /\ offset \in Sizes /\ offset <= at
  /\ ahead \in Seq(Piece)
  /\ reader \in {"nil", "live", "stale"}
  /\ pc \in {"select", "read", "stat", "panicked"} /\ errors \in 0 .. MaxErrors
  /\ sent \in Seq([n: Lines, intact: BOOLEAN])
  /\ first \in 1 .. MaxLines + 1

\* The first open, at the end of the file; its Seek may fail.
Init ==
  /\ \E older \in {0, 1} :
       /\ DiskInit(older)
       /\ first = older + 1
       /\ \/ at = older /\ offset = older /\ reader = "live" /\ errors = 0
          \/ at = 0 /\ offset = 0 /\ reader = "nil" /\ errors = 1 /\ MaxErrors > 0
  /\ file = 1 /\ ahead = <<>>
  /\ pc = "select" /\ sent = <<>>

Rotate == CreateNew /\ UNCHANGED tail
Environment ==
  \/ Rotate
  \/ (Write \/ MoveAway \/ Follow \/ Truncate) /\ UNCHANGED tail

-----------------------------------------------------------------------------
Fails == errors < MaxErrors /\ errors' = errors + 1

\* Without a file at the path f is nil.
NoFile == file' = Missing /\ UNCHANGED <<reader, at, offset, ahead, errors>>

\* Variant: the file is reopened at its start.
OpenAtStart ==
  IF path = Missing THEN NoFile
    ELSE /\ file' = path /\ reader' = "live"
         /\ at' = 0 /\ offset' = 0 /\ ahead' = <<>> /\ UNCHANGED errors

\* open: seeks the end of the path's file.
open ==
  IF path = Missing THEN NoFile
    ELSE /\ file' = path /\ reader' = "live"
         /\ at' = Len(content[path]) /\ offset' = Len(content[path]) /\ ahead' = <<>>
         /\ UNCHANGED errors

\* open, when Seek fails: f is the new file already and r still the old reader.
openUnsought ==
  /\ path # Missing /\ Fails
  /\ file' = path /\ offset' = 0
  /\ reader' = IF reader = "nil" THEN "nil" ELSE "stale"
  /\ UNCHANGED <<at, ahead>>

\* A tick; after a failed open the loop goes on to the next one.
Tick ==
  /\ pc = "select"
  /\ \/ file # Missing /\ UNCHANGED <<file, reader, at, offset, ahead, errors>> /\ pc' = "read"
     \/ file = Missing /\ open /\ pc' = IF file' = Missing THEN "select" ELSE "read"
     \/ file = Missing /\ openUnsought /\ UNCHANGED pc
  /\ UNCHANGED <<disk, sent, first>>

\* ReadString reads the file when the buffer holds no whole line.
Filled == IF HasLine(ahead) THEN ahead ELSE ahead \o After(content[file], at)
Fill   == at' = IF HasLine(ahead) THEN at ELSE at + Len(After(content[file], at))

ReadLine ==
  /\ pc = "read" /\ reader = "live" /\ HasLine(Filled)
  /\ Fill
  /\ ahead' = After(Filled, LineEnd(Filled))
  /\ offset' = offset + LineEnd(Filled)
  /\ sent' = Append(sent, LineOf(Filled))
  /\ UNCHANGED <<disk, file, reader, pc, errors, first>>

\* At the end of the file the part of a line is thrown away, and not counted.
ReadEnd ==
  /\ pc = "read" /\ reader = "live" /\ ~HasLine(Filled)
  /\ Fill /\ ahead' = <<>> /\ pc' = "stat"
  /\ UNCHANGED <<disk, file, reader, offset, errors, sent, first>>

\* A read fails after k more pieces: the part of a line they are is thrown away
\* and counted, and the tick is over.
ReadError(k) ==
  /\ pc = "read" /\ reader = "live" /\ Fails
  /\ k <= Len(After(content[file], at))
  /\ ~HasLine(ahead \o SubSeq(After(content[file], at), 1, k))
  /\ at' = at + k /\ offset' = offset + Len(ahead) + k /\ ahead' = <<>> /\ pc' = "select"
  /\ UNCHANGED <<disk, file, reader, sent, first>>

\* Reading a closed file fails, at every tick; the nil reader panics.
ReadClosed ==
  /\ pc = "read" /\ reader = "stale" /\ pc' = "select"
  /\ UNCHANGED <<disk, file, reader, at, offset, ahead, errors, sent, first>>
ReadNil ==
  /\ pc = "read" /\ reader = "nil" /\ pc' = "panicked"
  /\ UNCHANGED <<disk, file, reader, at, offset, ahead, errors, sent, first>>

\* Variant: any difference in size counts as a rotation.
StatAnyChange ==
  /\ pc = "stat"
  /\ IF Len(content[file]) # offset THEN OpenAtStart
     ELSE UNCHANGED <<file, reader, at, offset, ahead, errors>>
  /\ pc' = "select"
  /\ UNCHANGED <<disk, sent, first>>
Stat ==
  /\ pc = "stat"
  /\ IF Len(content[file]) < offset THEN open \/ openUnsought
     ELSE UNCHANGED <<file, reader, at, offset, ahead, errors>>
  /\ pc' = "select"
  /\ UNCHANGED <<disk, sent, first>>

run ==
  \/ Tick \/ ReadLine \/ ReadEnd \/ ReadClosed \/ ReadNil \/ Stat
  \/ \E k \in Sizes : ReadError(k)
Next == Environment \/ run

\* The ticker keeps ticking.
Spec == Init /\ [][Next]_vars /\ WF_vars(run) /\ WF_vars(Rotate)

-----------------------------------------------------------------------------
Sent(n) == \E i \in DOMAIN sent : sent[i].n = n

\* Whatever happens to the file, no line is sent twice and none after a later
\* one: a file is reopened at its end, never at its start.
InOrderOnce == \A i, j \in DOMAIN sent : i < j => sent[i].n < sent[j].n

=============================================================================
