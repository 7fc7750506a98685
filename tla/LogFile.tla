------------------------------ MODULE LogFile ------------------------------
(***************************************************************************)
(* The world the tailers of logwatcher and go-log-aggregator look at: a    *)
(* path, the files that have been there, a writer that appends lines, and  *)
(* a rotation that renames the file away or truncates it.                  *)
(*                                                                         *)
(* A file is a sequence of equally long pieces: a whole line, or the start *)
(* and the end of a line that took two writes.  Lines are numbered in the  *)
(* order they are written.  Disturbances says what the writer and the      *)
(* rotation may do: "rename" the file and create a new one, "truncate" it, *)
(* write a line "split" in two, and rotate "early", before a tailer has    *)
(* finished opening.                                                       *)
(***************************************************************************)
EXTENDS Integers, Sequences, FiniteSets, SequencesExt

CONSTANTS
  Disturbances,  \* subset of {"rename", "early", "truncate", "split"}
  MaxLines,      \* bound: lines written
  MaxFiles,      \* bound: files ever at the path
  MaxTruncations \* bound

ASSUME DisturbancesAssumption == Disturbances \subseteq {"rename", "early", "truncate", "split"}
ASSUME BoundsAssumption == {MaxLines, MaxFiles} \subseteq Nat \ {0} /\ MaxTruncations \in Nat

VARIABLES
  content,     \* the pieces in each file (inode)
  path,        \* the file at the path, or Missing
  target,      \* the file the writer has open
  writing,     \* the line being written in two parts, or 0
  written,     \* lines written so far, the one being written included
  truncations, \* truncations so far
  fileOf       \* history: the file each line was written to

disk == <<content, path, target, writing, written, truncations, fileOf>>

-----------------------------------------------------------------------------
Missing == 0
Files   == 1 .. MaxFiles
Lines   == 1 .. MaxLines
Piece   == [n: Lines, part: {"whole", "start", "end"}]
Sizes   == 0 .. 2 * MaxLines

DiskTypeOK ==
  /\ content \in [Files -> Seq(Piece)] /\ fileOf \in [Lines -> Files \union {Missing}]
  /\ path \in Files \union {Missing} /\ target \in Files
  /\ writing \in 0 .. MaxLines /\ written \in 0 .. MaxLines
  /\ truncations \in 0 .. MaxTruncations

\* The file is there, with older whole lines in it.
DiskInit(older) ==
  /\ written = older
  /\ content = [i \in Files |-> IF i = 1 THEN [j \in 1 .. older |-> [n |-> j, part |-> "whole"]] ELSE <<>>]
  /\ fileOf = [n \in Lines |-> IF n <= older THEN 1 ELSE Missing]
  /\ path = 1 /\ target = 1 /\ writing = 0 /\ truncations = 0

-----------------------------------------------------------------------------
Put(piece) ==
  /\ content' = [content EXCEPT ![target] = Append(@, piece)]
  /\ fileOf' = [fileOf EXCEPT ![piece.n] = target]
  /\ UNCHANGED <<path, target, truncations>>

WriteLine ==
  /\ writing = 0 /\ written < MaxLines
  /\ Put([n |-> written + 1, part |-> "whole"])
  /\ written' = written + 1 /\ UNCHANGED writing

WriteStart ==
  /\ "split" \in Disturbances /\ writing = 0 /\ written < MaxLines
  /\ Put([n |-> written + 1, part |-> "start"])
  /\ written' = written + 1 /\ writing' = written + 1

WriteEnd ==
  /\ writing # 0
  /\ Put([n |-> writing, part |-> "end"])
  /\ writing' = 0 /\ UNCHANGED written

Write == WriteLine \/ WriteStart \/ WriteEnd

MoveAway ==
  /\ "rename" \in Disturbances
  /\ path # Missing /\ path < MaxFiles /\ target = path
  /\ path' = Missing
  /\ UNCHANGED <<content, target, writing, written, truncations, fileOf>>

CreateNew ==
  /\ path = Missing
  /\ path' = target + 1
  /\ UNCHANGED <<content, target, writing, written, truncations, fileOf>>

\* The writer is told to reopen its log.
Follow ==
  /\ path # Missing /\ target # path /\ writing = 0
  /\ target' = path
  /\ UNCHANGED <<content, path, writing, written, truncations, fileOf>>

Truncate ==
  /\ "truncate" \in Disturbances /\ truncations < MaxTruncations
  /\ path = target /\ writing = 0 /\ content[path] # <<>>
  /\ content' = [content EXCEPT ![path] = <<>>]
  /\ truncations' = truncations + 1
  /\ UNCHANGED <<path, target, writing, written, fileOf>>

-----------------------------------------------------------------------------
(* What a buffered reader makes of pieces.                                 *)

LineEnd(pieces) == SelectInSeq(pieces, LAMBDA piece : piece.part # "start")
HasLine(pieces) == LineEnd(pieces) # 0
LineOf(pieces)  == LET end == LineEnd(pieces) IN
  [n |-> pieces[end].n,
   intact |-> \/ end = 1 /\ pieces[1].part = "whole"
              \/ end = 2 /\ pieces[1].n = pieces[2].n]
After(pieces, k) == SubSeq(pieces, k + 1, Len(pieces))

\* The line n is complete at place j of the file i, or in the file at the path.
Stands(n, i, j) ==
  j \in DOMAIN content[i] /\ content[i][j].n = n /\ content[i][j].part # "start"
AtPath(n) == path # Missing /\ \E j \in DOMAIN content[path] : Stands(n, path, j)
TopOf(n)  == \A m \in Lines : m < n => fileOf[m] # fileOf[n]
=============================================================================
