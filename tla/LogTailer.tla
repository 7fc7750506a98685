------------------------------ MODULE LogTailer ------------------------------
(***************************************************************************)
(* logwatcher: one tailer following one path (LogFile), and the directory  *)
(* events the path causes.  Two goroutines share f, reader and lastSize:   *)
(* the read loop and the handler of events.  Both reopen the path from the *)
(* start with t.mu held, write by write; the read loop uses the fields     *)
(* without the lock, and meets them between any two of these writes.       *)
(***************************************************************************)
EXTENDS LogFile

VARIABLES
  watching,    \* the directory watcher has been added
  events,      \* directory events about the path, not yet handled
  reopening,   \* how far each of the two is in reopenFromStart
  file,        \* t.f: the file t has open
  open,        \* t.f is open (a failed reopening leaves a closed file)
  source,      \* t.reader: the file it reads
  live,        \* t.reader: its file is open (a new t.f has its reader later)
  offset,      \* t.reader: how far it has read its file
  ahead,       \* t.reader: pieces read ahead of the lines returned
  lastSize,    \* t.lastSize
  pc, size,    \* the read loop, and the size it holds between two steps
  printed,     \* history: the lines the loop returned, [n, intact]
  first        \* history: the first line the tailer owes

tail == <<file, open, source, live, offset, ahead, lastSize>>
loop == <<pc, size>>
vars == <<disk, watching, events, reopening, tail, loop, printed, first>>

Goroutines == {"handler", "loop"}
Held       == {"closed", "opened", "read"}  \* the stages that hold t.mu

-----------------------------------------------------------------------------
TypeOK ==
  /\ DiskTypeOK
  /\ watching \in BOOLEAN /\ events \in Seq({"gone", "create", "write"})
  /\ reopening \in [Goroutines -> {"no", "called"} \union Held]
  /\ file \in Files /\ open \in BOOLEAN
  /\ source \in Files /\ live \in BOOLEAN
  /\ offset \in Sizes /\ lastSize \in Sizes /\ size \in Sizes
  /\ truncations = 0 => offset <= Len(content[source])
  /\ ahead \in Seq(Piece)
  /\ pc \in {"read", "stat line", "set", "stat end", "compare"}
  /\ printed \in Seq([n: Lines, intact: BOOLEAN])
  /\ first \in 1 .. MaxLines + 1

\* openInitial: the path exists, with or without an older line; reading starts
\* at the end of the file unless -from-start is given.
Init ==
  /\ \E older \in {0, 1} :
       /\ DiskInit(older)
       /\ offset \in {0, older}
       /\ lastSize = older
       /\ first = offset + 1
  /\ watching = FALSE /\ events = <<>>
  /\ reopening = [who \in Goroutines |-> "no"]
  /\ file = 1 /\ open = TRUE /\ source = 1 /\ live = TRUE /\ ahead = <<>>
  /\ pc = "read" /\ size = 0
  /\ printed = <<>>

-----------------------------------------------------------------------------
(* The writer and the rotation.  The kernel merges equal events in a row.  *)

Notify(event) ==
  events' = IF ~watching \/ (events # <<>> /\ Last(events) = event) THEN events
            ELSE Append(events, event)

Rotate ==
  CreateNew /\ Notify("create") /\ UNCHANGED <<watching, reopening, tail, loop, printed, first>>
Environment ==
  \/ Rotate
  \/ /\ \/ Write /\ (IF target = path THEN Notify("write") ELSE UNCHANGED events)
        \/ MoveAway /\ (watching \/ "early" \in Disturbances) /\ Notify("gone")
        \/ Follow /\ UNCHANGED events
        \/ Truncate /\ Notify("write")
     /\ UNCHANGED <<watching, reopening, tail, loop, printed, first>>

-----------------------------------------------------------------------------
(* Reopening.  Between two of its writes the read loop may take any step:  *)
(* the file is closed, then there is a new one with the old reader, then a *)
(* new reader with the old lastSize.                                       *)

Goes(who, from, to) ==
  reopening[who] = from /\ reopening' = [reopening EXCEPT ![who] = to]
Locked == \E who \in Goroutines : reopening[who] \in Held

CloseFile(who) ==
  /\ ~Locked /\ Goes(who, "called", "closed")
  /\ open' = FALSE /\ live' = FALSE
  /\ UNCHANGED <<file, source, offset, ahead, lastSize>>

OpenPath(who) ==
  /\ IF path = Missing THEN Goes(who, "closed", "no") /\ UNCHANGED <<file, open>>
     ELSE Goes(who, "closed", "opened") /\ file' = path /\ open' = TRUE
  /\ UNCHANGED <<source, live, offset, ahead, lastSize>>

NewReaderAtOffset(who) ==
  /\ Goes(who, "opened", "read")
  /\ source' = file /\ live' = TRUE /\ ahead' = <<>>
  /\ UNCHANGED <<file, open, offset, lastSize>>
NewReader(who) ==
  /\ Goes(who, "opened", "read")
  /\ source' = file /\ live' = TRUE /\ offset' = 0 /\ ahead' = <<>>
  /\ UNCHANGED <<file, open, lastSize>>

ResetSize(who) ==
  /\ Goes(who, "read", "no")
  /\ lastSize' = 0
  /\ UNCHANGED <<file, open, source, live, offset, ahead>>

reopenFromStart(who) ==
  /\ CloseFile(who) \/ OpenPath(who) \/ NewReader(who) \/ ResetSize(who)
  /\ UNCHANGED <<disk, watching, events, loop, printed, first>>

-----------------------------------------------------------------------------
(* The event handler.                                                      *)

Handle(event) ==
  /\ reopening["handler"] = "no"
  /\ events # <<>> /\ Head(events) = event /\ events' = Tail(events)
  /\ UNCHANGED <<disk, watching, tail, loop, printed, first>>

Reopens == Goes("handler", "no", "called")

\* Rename and Remove: wait for the new file, up to 5 s.  It may come in time or
\* not, and may go away again before it is opened.
HandleGone ==
  /\ Handle("gone")
  /\ IF path = Missing THEN UNCHANGED reopening ELSE Reopens

HandleCreate == Handle("create") /\ Reopens

\* It compares nothing when t.f is closed or the path is gone.
sameInode == ~open \/ path = Missing \/ file = path

\* sameInode takes t.mu too.
HandleWrite ==
  /\ ~Locked /\ Handle("write")
  /\ IF sameInode THEN UNCHANGED reopening ELSE Reopens

handleFsEvent ==
  watching /\ (HandleGone \/ HandleCreate \/ HandleWrite \/ reopenFromStart("handler"))

-----------------------------------------------------------------------------
(* The read loop.  A read, a Stat and an assignment of lastSize are steps  *)
(* of their own: the handler may take any of its own between two of them.  *)

Unread == IF live THEN After(content[source], offset) ELSE <<>>

\* ReadString: the file is read only when no line is left in the buffer.
Filled == IF HasLine(ahead) THEN ahead ELSE ahead \o Unread
Fill   == offset' = IF HasLine(ahead) THEN offset ELSE offset + Len(Unread)

ReadLine ==
  /\ pc = "read" /\ HasLine(Filled)
  /\ ahead' = After(Filled, LineEnd(Filled))
  /\ printed' = Append(printed, LineOf(Filled))
  /\ Fill
  /\ pc' = "stat line"
  /\ UNCHANGED <<disk, watching, events, reopening, file, open, source, live, lastSize, size, first>>

\* At the end of the file the part of a line already read is thrown away.
ReadEnd ==
  /\ pc = "read" /\ ~HasLine(Filled)
  /\ ahead' = <<>> /\ Fill
  /\ pc' = "stat end"
  /\ UNCHANGED <<disk, watching, events, reopening, file, open, source, live, lastSize, size, printed, first>>

\* Stat fails on a closed file, and lastSize is left alone.
Stat(from, to) ==
  /\ pc = from
  /\ IF open THEN size' = Len(content[file]) /\ pc' = to
             ELSE pc' = "read" /\ UNCHANGED size
  /\ UNCHANGED <<disk, watching, events, reopening, tail, printed, first>>

SetLastSize ==
  /\ pc = "set" \/ (pc = "compare" /\ size >= lastSize)
  /\ lastSize' = size
  /\ pc' = "read"
  /\ UNCHANGED <<disk, watching, events, reopening, file, open, source, live, offset, ahead, size, printed, first>>

Shrunk ==
  /\ pc = "compare" /\ size < lastSize
  /\ Goes("loop", "no", "called")
  /\ pc' = "read"
  /\ UNCHANGED <<disk, watching, events, tail, size, printed, first>>

\* follow adds the watcher before it starts the handler and the loop.
Watch == /\ ~watching /\ watching' = TRUE
         /\ UNCHANGED <<disk, events, reopening, tail, loop, printed, first>>

readLoop ==
  /\ reopening["loop"] = "no"
  /\ \/ ReadLine \/ ReadEnd
     \/ Stat("stat line", "set") \/ Stat("stat end", "compare")
     \/ SetLastSize \/ Shrunk

follow == Watch \/ (watching /\ (readLoop \/ reopenFromStart("loop")))

Next == Environment \/ handleFsEvent \/ follow

\* Both goroutines run; the rotation tool finishes what it started; nobody has
\* to write.
Fairness == WF_vars(follow) /\ WF_vars(handleFsEvent) /\ WF_vars(Rotate)

Spec == Init /\ [][Next]_vars /\ Fairness

-----------------------------------------------------------------------------
Printed(n) == \E i \in DOMAIN printed : printed[i].n = n

\* Until a file is truncated the loop returns its lines one after the other:
\* it goes from a line to the next one of the same file, or to the top of some
\* file, and skips nothing in between.
NothingSkippedInAFile ==
  \A i \in DOMAIN printed :
    LET n == printed[i].n IN
      \/ truncations > 0
      \/ n = first \/ TopOf(n)
      \/ i > 1 /\ printed[i - 1].n = n - 1

\* A complete line in the file at the path is returned in the end, as long as
\* it stays there.
CatchesUp ==
  \A n \in Lines : (n >= first /\ AtPath(n)) ~> (Printed(n) \/ ~AtPath(n))

\* The same for the lines the reader has still before it: in the part of the
\* file it has not read, or in a file it has not opened yet.
Before(n) == (source = path /\ live) => \E j \in Sizes : j > offset /\ Stands(n, path, j)
ReadsOn ==
  \A n \in Lines : (n >= first /\ AtPath(n) /\ Before(n)) ~> (Printed(n) \/ ~AtPath(n))

\* No line is returned twice.
NoLineTwice ==
  \A i, j \in DOMAIN printed : printed[i].n = printed[j].n => i = j

\* What ReadString returns as a line is a whole line.
LinesIntact == \A i \in DOMAIN printed : printed[i].intact
=============================================================================
