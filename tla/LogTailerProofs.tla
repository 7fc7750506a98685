--------------------------- MODULE LogTailerProofs ---------------------------
(***************************************************************************)
(* Proof that a tailer of logwatcher skips no line in a file until one is  *)
(* truncated, however the rotation, the handler of the directory's events  *)
(* and the read loop interleave.                                           *)
(***************************************************************************)
EXTENDS LogTailer, SequenceTheorems, WellFoundedInduction, TLAPS

-----------------------------------------------------------------------------
(* What the buffered reader takes for a line.                              *)

LEMMA LeastExists ==
  ASSUME NEW S \in SUBSET Nat, S # {}
  PROVE  Min(S) \in S /\ \A j \in S : ~(j < Min(S))
<1>1. PICK m \in S : \A k \in S : ~(<<k, m>> \in OpToRel(<, Nat))
  BY NatLessThanWellFounded, WFMin
<1>2. \A k \in S : m <= k
  <2> SUFFICES ASSUME NEW k \in S PROVE m <= k
    OBVIOUS
  <2>1. k \in Nat /\ m \in Nat /\ ~(k < m)
    BY <1>1 DEF OpToRel
  <2> QED
    BY <2>1
<1>3. Min(S) \in S /\ \A k \in S : Min(S) <= k
  BY <1>2 DEF Min
<1> QED
  <2> SUFFICES ASSUME NEW j \in S PROVE ~(j < Min(S))
    BY <1>3
  <2>1. j \in Nat /\ Min(S) \in Nat /\ Min(S) <= j
    BY <1>3
  <2> QED
    BY <2>1

\* The pieces that end a line.
Ends(piece) == piece.part # "start"

LEMMA LineEndIsFirst ==
  ASSUME NEW pieces \in Seq(Piece), HasLine(pieces)
  PROVE  /\ LineEnd(pieces) \in 1 .. Len(pieces) /\ Ends(pieces[LineEnd(pieces)])
         /\ \A j \in 1 .. Len(pieces) : j < LineEnd(pieces) => ~Ends(pieces[j])
<1> DEFINE I == {i \in 1 .. Len(pieces) : pieces[i].part # "start"}
<1>1. LineEnd(pieces) = IF I # {} THEN Min(I) ELSE 0
  BY DEF LineEnd, SelectInSeq
<1>2. I # {} /\ LineEnd(pieces) = Min(I)
  BY <1>1 DEF HasLine
<1>3. Len(pieces) \in Nat /\ I \in SUBSET Nat
  OBVIOUS
<1> HIDE DEF I
<1>4. Min(I) \in I /\ \A j \in I : ~(j < Min(I))
  BY <1>2, <1>3, LeastExists
<1> QED
  BY <1>2, <1>4 DEF I, Ends

LEMMA NoLine ==
  ASSUME NEW pieces \in Seq(Piece), ~HasLine(pieces)
  PROVE  \A j \in 1 .. Len(pieces) : ~Ends(pieces[j])
<1> DEFINE I == {i \in 1 .. Len(pieces) : pieces[i].part # "start"}
<1>1. LineEnd(pieces) = IF I # {} THEN Min(I) ELSE 0
  BY DEF LineEnd, SelectInSeq
<1>2. I \in SUBSET Nat /\ 0 \notin I
  OBVIOUS
<1>3. I = {}
  <2> HIDE DEF I
  <2>1. I # {} => Min(I) \in I
    BY <1>2, LeastExists
  <2> QED
    BY <1>1, <1>2, <2>1 DEF HasLine
<1> QED
  BY <1>3 DEF Ends

LEMMA AfterIs ==
  ASSUME NEW pieces \in Seq(Piece), NEW k \in Nat
  PROVE  /\ After(pieces, k) \in Seq(Piece)
         /\ Len(After(pieces, k)) = IF k < Len(pieces) THEN Len(pieces) - k ELSE 0
         /\ \A i \in 1 .. Len(After(pieces, k)) :
              After(pieces, k)[i] = pieces[k + i] /\ k + i \in 1 .. Len(pieces)
<1>1. Len(pieces) \in Nat /\ After(pieces, k) = SubSeq(pieces, k + 1, Len(pieces))
  BY DEF After
<1>2. After(pieces, k) \in Seq(Piece)
  BY <1>1, SubSeqProperties
<1>3. Len(After(pieces, k)) = IF k < Len(pieces) THEN Len(pieces) - k ELSE 0
  BY <1>1
<1>4. \A i \in 1 .. Len(After(pieces, k)) : After(pieces, k)[i] = pieces[k + i]
  BY <1>1, <1>3
<1> DEFINE n == Len(After(pieces, k))
<1>5. n = (IF k < Len(pieces) THEN Len(pieces) - k ELSE 0) /\ Len(pieces) \in Nat
  BY <1>1, <1>3
<1> HIDE DEF n
<1>6. \A i \in 1 .. n : k + i \in 1 .. Len(pieces)
  BY <1>5
<1> QED
  BY <1>2, <1>3, <1>4, <1>6, Zenon DEF n

LEMMA AppendIs ==
  ASSUME NEW R, NEW s \in Seq(R), NEW e \in R
  PROVE  /\ Append(s, e) \in Seq(R) /\ Len(Append(s, e)) = Len(s) + 1
         /\ Append(s, e)[Len(s) + 1] = e
         /\ \A i \in 1 .. Len(s) : Append(s, e)[i] = s[i]
  OBVIOUS

LEMMA JoinedIs ==
  ASSUME NEW a \in Seq(Piece), NEW b \in Seq(Piece)
  PROVE  /\ a \o b \in Seq(Piece) /\ Len(a \o b) = Len(a) + Len(b)
         /\ \A i \in 1 .. Len(a) + Len(b) : (a \o b)[i] = IF i <= Len(a) THEN a[i] ELSE b[i - Len(a)]
  BY ConcatProperties

-----------------------------------------------------------------------------
(* The invariant.  The files: lines are complete in the order of their     *)
(* numbers, each in the file it was written to.  The reader: what it has   *)
(* read ahead is the file's, and the lines up to its place in the file are *)
(* the ones it has returned, down to the file's first.                     *)

\* The last line that is complete somewhere, and the pieces written so far at
\* the most.
Completed == IF writing = 0 THEN written ELSE written - 1
Pieces    == IF writing = 0 THEN 2 * written ELSE 2 * written - 1

WriterInv ==
  /\ DiskTypeOK
  /\ writing \in {0, written}
  /\ path = Missing => target < MaxFiles
  /\ path # Missing => path \in {target, target + 1}
  /\ \A n \in 1 .. written : fileOf[n] \in 1 .. target
  /\ \A m, n \in 1 .. written : m < n => fileOf[m] <= fileOf[n]
  /\ writing # 0 => fileOf[written] = target

Rises(pieces) == \A i, j \in DOMAIN pieces :
                   i < j /\ Ends(pieces[i]) /\ Ends(pieces[j]) => pieces[i].n < pieces[j].n

InItsFile(f) ==
  /\ Rises(content[f]) /\ Len(content[f]) <= Pieces
  /\ \A i \in DOMAIN content[f] :
       /\ content[f][i].n <= written /\ fileOf[content[f][i].n] = f
       /\ Ends(content[f][i]) => content[f][i].n <= Completed

KeptInv ==
  truncations = 0 =>
    \A n \in 1 .. Completed : \E j \in DOMAIN content[fileOf[n]] : Stands(n, fileOf[n], j)

FilesInv == WriterInv /\ (\A f \in Files : InItsFile(f)) /\ KeptInv

TailerTypes == TypeOK /\ offset <= Pieces /\ size <= Pieces /\ lastSize <= Pieces

\* How far the lines returned, and parts of lines thrown away, reach.
place     == offset - Len(ahead)
LastLine  == IF printed = <<>> THEN first - 1 ELSE printed[Len(printed)].n

AheadInv ==
  /\ Len(ahead) <= offset /\ offset <= Len(content[source])
  /\ \A i \in DOMAIN ahead : ahead[i] = content[source][place + i]

PlaceInv ==
  \A k \in 1 .. place : Ends(content[source][k]) =>
    /\ content[source][k].n <= LastLine
    /\ \E j \in 1 .. place : Ends(content[source][j]) /\ content[source][j].n = LastLine

PrintedInv == \A i \in DOMAIN printed : printed[i].n <= Completed

ReaderInv == truncations = 0 => AheadInv /\ PlaceInv /\ PrintedInv

TailerInv == FilesInv /\ TailerTypes /\ ReaderInv /\ NothingSkippedInAFile

-----------------------------------------------------------------------------
LEMMA TailerInit == Init => TailerInv
<1> SUFFICES ASSUME Init PROVE TailerInv
  OBVIOUS
<1> USE BoundsAssumption
<1>1. PICK older \in {0, 1} : DiskInit(older) /\ offset \in {0, older} /\ lastSize = older /\ first = offset + 1
  BY DEF Init
<1>2. /\ watching = FALSE /\ events = <<>> /\ file = 1 /\ open = TRUE /\ source = 1 /\ live = TRUE /\ ahead = <<>>
      /\ reopening = [who \in Goroutines |-> "no"]
      /\ pc = "read" /\ size = 0 /\ printed = <<>>
  BY DEF Init
<1> DEFINE lines == [j \in 1 .. older |-> [n |-> j, part |-> "whole"]]
<1>3. /\ content = [i \in Files |-> IF i = 1 THEN lines ELSE <<>>]
      /\ written = older /\ path = 1 /\ target = 1 /\ writing = 0 /\ truncations = 0
      /\ fileOf = [n \in Lines |-> IF n <= older THEN 1 ELSE Missing]
  BY <1>1 DEF DiskInit
<1>4. lines \in Seq(Piece) /\ Len(lines) = older /\ <<>> \in Seq(Piece) /\ Len(<<>>) = 0
  BY DEF Piece, Lines
<1>5. \A i \in 1 .. older : lines[i].n = i /\ lines[i].part = "whole"
  OBVIOUS
<1>6. DOMAIN lines = 1 .. older
  OBVIOUS
<1> HIDE DEF lines
<1>7. 1 \in Files /\ MaxLines \in Nat /\ MaxLines >= 1 /\ Completed = older /\ Pieces = 2 * older
  BY <1>3 DEF Files, Completed, Pieces
<1>8. content[1] = lines /\ \A f \in Files : f # 1 => content[f] = <<>>
  BY <1>3, <1>7
<1>9. \A n \in 1 .. older : n \in Lines /\ fileOf[n] = 1
  BY <1>3, <1>7 DEF Lines
<1>10. WriterInv
  <2>1. DiskTypeOK
    BY <1>3, <1>4, <1>7 DEF DiskTypeOK, Lines, Missing
  <2> QED
    BY <1>3, <1>7, <1>9, <2>1 DEF WriterInv, Missing
<1>11. \A f \in Files : InItsFile(f)
  <2> SUFFICES ASSUME NEW f \in Files PROVE InItsFile(f)
    OBVIOUS
  <2>1. CASE f = 1
    BY <1>3, <1>4, <1>5, <1>6, <1>7, <1>8, <1>9, <2>1 DEF InItsFile, Rises
  <2>2. CASE f # 1
    BY <1>3, <1>4, <1>7, <1>8, <2>2 DEF InItsFile, Rises
  <2> QED
    BY <2>1, <2>2
<1>12. KeptInv
  BY <1>5, <1>6, <1>7, <1>8, <1>9 DEF KeptInv, Stands
<1>13. TailerTypes
  <2>1. DiskTypeOK
    BY <1>10 DEF WriterInv
  <2>2. /\ offset \in Sizes /\ lastSize \in Sizes /\ size \in Sizes
        /\ first \in 1 .. MaxLines + 1 /\ offset <= older
    BY <1>1, <1>2, <1>7 DEF Sizes
  <2>4. <<>> \in Seq([n: Lines, intact: BOOLEAN]) /\ <<>> \in Seq({"gone", "create", "write"})
    OBVIOUS
  <2>5. offset <= Len(content[source])
    BY <1>2, <1>4, <1>8, <2>2
  <2>3. TypeOK
    BY <1>2, <1>4, <1>7, <2>1, <2>2, <2>4, <2>5 DEF TypeOK
  <2> QED
    BY <1>1, <1>2, <1>7, <2>3 DEF TailerTypes
<1>14. ReaderInv
  <2>1. place = offset /\ LastLine = offset
    BY <1>1, <1>2, <1>4 DEF place, LastLine
  <2>2. AheadInv
    BY <1>1, <1>2, <1>4, <1>8 DEF AheadInv
  <2>3. PlaceInv
    BY <1>1, <1>2, <1>5, <1>8, <2>1 DEF PlaceInv, Ends
  <2>4. PrintedInv
    BY <1>2 DEF PrintedInv
  <2> QED
    BY <2>2, <2>3, <2>4 DEF ReaderInv
<1> QED
  BY <1>2, <1>10, <1>11, <1>12, <1>13, <1>14 DEF TailerInv, FilesInv, NothingSkippedInAFile

-----------------------------------------------------------------------------
(* The writer and the rotation.                                            *)

LEMMA Numbered ==
  ASSUME NEW pieces \in Seq(Piece)
  PROVE  \A i \in DOMAIN pieces : pieces[i] \in Piece /\ pieces[i].n \in 1 .. MaxLines
<1>1. \A i \in DOMAIN pieces : pieces[i] \in Piece
  OBVIOUS
<1>2. \A piece \in Piece : piece.n \in 1 .. MaxLines
  BY DEF Piece, Lines
<1> QED
  BY <1>1, <1>2

LEMMA PrintedNumbered ==
  ASSUME TailerTypes
  PROVE  \A i \in DOMAIN printed : printed[i].n \in Lines /\ printed[i].n \in Int
<1> DEFINE S == [n: Lines, intact: BOOLEAN]
<1>1. printed \in Seq(S)
  BY DEF TailerTypes, TypeOK
<1>2. \A r \in S : r.n \in Lines /\ r.n \in Int
  BY DEF Lines
<1> HIDE DEF S
<1>3. \A i \in DOMAIN printed : printed[i] \in S
  BY <1>1
<1> QED
  BY <1>2, <1>3

LEMMA TailerNumbers ==
  ASSUME TailerTypes
  PROVE  /\ offset \in Nat /\ size \in Nat /\ lastSize \in Nat
         /\ ahead \in Seq(Piece) /\ Len(ahead) \in Nat /\ DOMAIN ahead = 1 .. Len(ahead)
<1>1. offset \in Sizes /\ size \in Sizes /\ lastSize \in Sizes /\ ahead \in Seq(Piece)
  BY DEF TailerTypes, TypeOK
<1>2. Sizes \subseteq Nat
  BY BoundsAssumption DEF Sizes
<1> QED
  BY <1>1, <1>2

\* The directory watcher gets at most one event more.
Notified == events' = events \/ \E e \in {"gone", "create", "write"} : events' = Append(events, e)

\* What the steps of the world leave the tailer.
LEMMA WorldKeepsTypes ==
  ASSUME TailerTypes, DiskTypeOK', Pieces <= Pieces', Pieces \in Int, Pieces' \in Int,
         truncations' = 0 => offset <= Len(content'[source]),
         Notified,
         UNCHANGED <<watching, reopening, tail, loop, printed, first>>
  PROVE  TailerTypes'
<1>1. offset \in Int /\ size \in Int /\ lastSize \in Int
  BY TailerNumbers
<1>2. events' \in Seq({"gone", "create", "write"})
  <2> DEFINE E == {"gone", "create", "write"}
  <2>1. events \in Seq(E)
    BY DEF TailerTypes, TypeOK
  <2> HIDE DEF E
  <2>2. \A e \in E : Append(events, e) \in Seq(E)
    BY <2>1
  <2> QED
    BY <2>1, <2>2 DEF E, Notified
<1>3. offset <= Pieces' /\ size <= Pieces' /\ lastSize <= Pieces'
  BY <1>1 DEF TailerTypes
<1>4. UNCHANGED <<watching, reopening, file, open, source, live, offset, ahead, lastSize, pc, size, printed, first>>
  BY DEF tail, loop
<1> QED
  BY <1>2, <1>3, <1>4 DEF TailerTypes, TypeOK

LEMMA NotifyAppends ==
  ASSUME NEW e \in {"gone", "create", "write"}, Notify(e)
  PROVE  Notified
  BY DEF Notify, Notified

\* A piece more in the file the writer has open: it ends a line only if that
\* one is new.
LEMMA PutKeeps ==
  ASSUME TailerInv, NEW piece \in Piece, Put(piece),
         written' \in 0 .. MaxLines, writing' \in {0, written'}, piece.n = written',
         written' = written + 1 \/ (written' = written /\ writing # 0), Pieces' >= Pieces + 1,
         Completed' = IF Ends(piece) THEN Completed + 1 ELSE Completed,
         Ends(piece) => piece.n = Completed + 1,
         Notified,
         UNCHANGED <<watching, reopening, tail, loop, printed, first>>
  PROVE  TailerInv'
<1> USE BoundsAssumption
<1>1. /\ content' = [content EXCEPT ![target] = Append(@, piece)]
      /\ fileOf' = [fileOf EXCEPT ![piece.n] = target]
      /\ UNCHANGED <<path, target, truncations>>
  BY DEF Put
<1>2. /\ target \in Files /\ content[target] \in Seq(Piece) /\ Len(content[target]) \in Nat
      /\ content \in [Files -> Seq(Piece)] /\ fileOf \in [Lines -> Files \union {Missing}]
      /\ written \in 0 .. MaxLines /\ writing \in {0, written}
  BY DEF TailerInv, FilesInv, WriterInv, DiskTypeOK
<1>3. /\ piece.n \in Lines /\ Completed \in Int /\ Pieces \in Int /\ Completed' \in Int /\ Pieces' \in Int
      /\ Completed <= written /\ Completed' <= written'
  <2>1. piece.n \in Lines
    BY DEF Piece
  <2>2. Completed \in Int /\ Pieces \in Int /\ Completed <= written
    BY <1>2 DEF Completed, Pieces
  <2>3. Completed' \in Int /\ Pieces' \in Int /\ Completed' <= written'
    <3>1. written' \in Int /\ written' >= 0
      OBVIOUS
    <3>2. Completed' = (IF writing' = 0 THEN written' ELSE written' - 1)
          /\ Pieces' = (IF writing' = 0 THEN 2 * written' ELSE 2 * written' - 1)
      BY DEF Completed, Pieces
    <3>3. CASE writing' = 0
      BY <3>1, <3>2, <3>3
    <3>4. CASE writing' # 0
      BY <3>1, <3>2, <3>4
    <3> QED
      BY <3>3, <3>4
  <2> QED
    BY <2>1, <2>2, <2>3
<1>4. /\ content'[target] = Append(content[target], piece)
      /\ \A f \in Files \ {target} : content'[f] = content[f]
  BY <1>1, <1>2
<1> DEFINE n == Len(content[target]) + 1
<1>5. /\ DOMAIN content[target] = 1 .. Len(content[target]) /\ DOMAIN content'[target] = 1 .. n
      /\ n = Len(content[target]) + 1 /\ content'[target][n] = piece /\ Len(content'[target]) = n
      /\ \A i \in DOMAIN content[target] : content'[target][i] = content[target][i]
  BY <1>2, <1>4
<1>6. /\ \A i \in 1 .. n : i # n => i \in DOMAIN content[target]
      /\ \A i, j \in 1 .. n : i < j => i \in DOMAIN content[target]
  BY <1>2, <1>5
<1> HIDE DEF n
<1>7. Completed <= Completed'
  BY <1>3
<1>8. \A f \in Files : \A i \in DOMAIN content[f] : i \in DOMAIN content'[f] /\ content'[f][i] = content[f][i]
  <2>1. \A i \in DOMAIN content[target] : i \in 1 .. n
    BY <1>2, <1>5
  <2>2. \A i \in DOMAIN content[target] : i \in DOMAIN content'[target] /\ content'[target][i] = content[target][i]
    BY <1>5, <2>1
  <2> QED
    BY <1>4, <2>2
<1>9. /\ \A m \in 1 .. written : fileOf'[m] = fileOf[m]
      /\ fileOf'[written'] = target /\ \A m \in 1 .. written' : m \in 1 .. written \/ m = written'
      /\ written <= written'
  <2>1. \A m \in 1 .. written : m \in Lines
    BY <1>2 DEF Lines
  <2>2. written' \in Lines
    BY <1>3
  <2>3. CASE written' = written + 1
    BY <1>1, <1>2, <2>1, <2>2, <2>3
  <2>4. CASE written' = written /\ writing # 0
    BY <1>1, <1>2, <2>1, <2>2, <2>4 DEF TailerInv, FilesInv, WriterInv
  <2> QED
    BY <2>3, <2>4
<1>10. WriterInv'
  <2>1. content' \in [Files -> Seq(Piece)]
    BY <1>1, <1>2
  <2>2. fileOf' \in [Lines -> Files \union {Missing}]
    BY <1>1, <1>2, <1>3
  <2>3. DiskTypeOK'
    BY <1>1, <2>1, <2>2 DEF TailerInv, FilesInv, WriterInv, DiskTypeOK
  <2>4. \A m \in 1 .. written : fileOf[m] \in 1 .. target
    BY DEF TailerInv, FilesInv, WriterInv
  <2>5. \A m \in 1 .. written' : fileOf'[m] \in 1 .. target'
    BY <1>1, <1>2, <1>9, <2>4 DEF Files
  <2>6. \A l, m \in 1 .. written' : l < m => fileOf'[l] <= fileOf'[m]
    <3> SUFFICES ASSUME NEW l \in 1 .. written', NEW m \in 1 .. written', l < m
                 PROVE  fileOf'[l] <= fileOf'[m]
      OBVIOUS
    <3>1. CASE m = written'
      BY <1>1, <1>9, <2>5, <3>1
    <3>2. CASE m # written'
      <4>1. m \in 1 .. written /\ l \in 1 .. written
        BY <1>2, <1>9, <3>2
      <4> QED
        BY <1>9, <4>1 DEF TailerInv, FilesInv, WriterInv
    <3> QED
      BY <3>1, <3>2
  <2>7. UNCHANGED <<path, target>> /\ writing' # 0 => fileOf'[written'] = target'
    BY <1>1, <1>9
  <2>8. (path = Missing => target < MaxFiles) /\ (path # Missing => path \in {target, target + 1})
    BY DEF TailerInv, FilesInv, WriterInv
  <2> QED
    BY <1>1, <1>9, <2>3, <2>5, <2>6, <2>8 DEF WriterInv
<1>11. \A f \in Files : InItsFile(f)'
  <2> SUFFICES ASSUME NEW f \in Files PROVE InItsFile(f)'
    OBVIOUS
  <2>1. /\ Rises(content[f]) /\ Len(content[f]) <= Pieces
        /\ content[f] \in Seq(Piece) /\ Len(content[f]) \in Nat
    BY <1>2 DEF TailerInv, FilesInv, InItsFile
  <2>2. \A i \in DOMAIN content[f] :
          /\ content[f][i].n \in 1 .. written /\ fileOf'[content[f][i].n] = f /\ content[f][i].n <= written'
          /\ Ends(content[f][i]) => content[f][i].n <= Completed /\ content[f][i].n <= Completed'
    <3> SUFFICES ASSUME NEW i \in DOMAIN content[f]
                 PROVE  /\ content[f][i].n \in 1 .. written /\ fileOf'[content[f][i].n] = f /\ content[f][i].n <= written'
                        /\ Ends(content[f][i]) => content[f][i].n <= Completed /\ content[f][i].n <= Completed'
      OBVIOUS
    <3>1. /\ content[f][i].n <= written /\ fileOf[content[f][i].n] = f
          /\ Ends(content[f][i]) => content[f][i].n <= Completed
      BY DEF TailerInv, FilesInv, InItsFile
    <3>2. content[f][i].n \in 1 .. MaxLines
      BY <2>1, Numbered
    <3> DEFINE l == content[f][i].n
    <3> HIDE DEF l
    <3>3. l \in 1 .. MaxLines /\ l <= written /\ fileOf[l] = f /\ (Ends(content[f][i]) => l <= Completed)
      BY <3>1, <3>2 DEF l
    <3>4. l \in 1 .. written /\ fileOf'[l] = f /\ l <= written' /\ (Ends(content[f][i]) => l <= Completed')
      BY <1>2, <1>3, <1>7, <1>9, <3>3
    <3> QED
      BY <3>3, <3>4 DEF l
  <2>3. CASE f # target
    <3>1. content'[f] = content[f]
      BY <1>4, <2>3
    <3>2. Len(content'[f]) <= Pieces'
      BY <1>3, <2>1, <3>1
    <3> QED
      BY <2>1, <2>2, <3>1, <3>2 DEF InItsFile
  <2>4. CASE f = target
    <3>1. Len(content'[f]) <= Pieces'
      BY <1>3, <1>5, <2>1, <2>4
    <3>2. ASSUME NEW i \in DOMAIN content'[f]
          PROVE  /\ content'[f][i].n <= written' /\ fileOf'[content'[f][i].n] = f
                 /\ Ends(content'[f][i]) => content'[f][i].n <= Completed'
      <4>1. CASE i = n
        <5>1. content'[f][i] = piece /\ written' \in Int
          BY <1>5, <2>4, <4>1
        <5>2. written' <= written' /\ (Ends(piece) => piece.n = Completed')
          BY <1>3, <5>1
        <5>3. fileOf'[piece.n] = f
          BY <1>9, <2>4
        <5>4. piece.n <= written' /\ (Ends(piece) => piece.n <= Completed')
          BY <1>3, <5>1, <5>2
        <5> QED
          BY <5>1, <5>3, <5>4
      <4>2. CASE i # n
        BY <1>5, <1>6, <2>2, <2>4, <4>2
      <4> QED
        BY <4>1, <4>2
    <3>3. Rises(content'[f])
      <4> SUFFICES ASSUME NEW i \in 1 .. n, NEW j \in 1 .. n, i < j, Ends(content'[f][i]), Ends(content'[f][j])
                   PROVE  content'[f][i].n < content'[f][j].n
        BY <1>5, <2>4 DEF Rises
      <4>1. i \in DOMAIN content[f] /\ content'[f][i] = content[f][i]
        BY <1>5, <1>6, <2>4
      <4>2. CASE j = n
        <5>1. content'[f][j].n = Completed + 1
          BY <1>5, <2>4, <4>2
        <5>2. content[f][i].n \in Int /\ content[f][i].n <= Completed
          BY <2>2, <4>1
        <5> QED
          BY <1>3, <4>1, <5>1, <5>2
      <4>3. CASE j # n
        <5>1. j \in DOMAIN content[f] /\ content'[f][j] = content[f][j]
          BY <1>5, <1>6, <2>4, <4>3
        <5> QED
          BY <2>1, <4>1, <5>1 DEF Rises
      <4> QED
        BY <4>2, <4>3
    <3> QED
      BY <3>1, <3>2, <3>3 DEF InItsFile
  <2> QED
    BY <2>3, <2>4
<1>12. KeptInv'
  <2> SUFFICES ASSUME truncations' = 0, NEW m \in 1 .. Completed'
               PROVE  \E j \in DOMAIN content'[fileOf'[m]] :
                        content'[fileOf'[m]][j].n = m /\ Ends(content'[fileOf'[m]][j])
    BY DEF KeptInv, Stands, Ends
  <2>1. CASE m <= Completed
    <3>1. m \in 1 .. Completed /\ m \in 1 .. written
      BY <1>2, <1>3, <2>1
    <3>2. PICK j \in DOMAIN content[fileOf[m]] : Stands(m, fileOf[m], j)
      BY <1>1, <3>1 DEF TailerInv, FilesInv, KeptInv
    <3>3. fileOf'[m] = fileOf[m] /\ fileOf[m] \in Files
      <4>1. fileOf[m] \in 1 .. target
        BY <3>1 DEF TailerInv, FilesInv, WriterInv
      <4> QED
        BY <1>2, <1>9, <3>1, <4>1 DEF Files
    <3>4. j \in DOMAIN content'[fileOf[m]] /\ content'[fileOf[m]][j] = content[fileOf[m]][j]
      BY <1>8, <3>2, <3>3
    <3> QED
      BY <3>2, <3>3, <3>4 DEF Stands, Ends
  <2>2. CASE ~(m <= Completed)
    <3>1. Ends(piece) /\ m = written'
      BY <1>3, <2>2
    <3>2. n \in DOMAIN content'[target] /\ content'[target][n] = piece
      BY <1>2, <1>5
    <3> QED
      BY <1>9, <3>1, <3>2
  <2> QED
    BY <2>1, <2>2
<1>13. source \in Files /\ content[source] \in Seq(Piece) /\ content'[source] \in Seq(Piece)
       /\ Len(content[source]) \in Nat /\ Len(content[source]) <= Len(content'[source])
       /\ \A i \in 1 .. Len(content[source]) : content'[source][i] = content[source][i]
  <2>1. source \in Files
    BY DEF TailerInv, TailerTypes, TypeOK
  <2>2. content'[source] \in Seq(Piece)
    BY <1>10, <2>1 DEF WriterInv, DiskTypeOK
  <2>3. Len(content[source]) <= Len(content'[source])
    <3>1. CASE source = target
      BY <1>2, <1>5, <3>1
    <3>2. CASE source # target
      <4>1. content'[source] = content[source] /\ Len(content[source]) \in Nat
        BY <1>2, <1>4, <2>1, <3>2
      <4> QED
        BY <4>1
    <3> QED
      BY <3>1, <3>2
  <2> QED
    BY <1>2, <1>8, <2>1, <2>2, <2>3
<1>14. TailerTypes'
  <2>1. truncations' = 0 => offset <= Len(content'[source])
    <3> SUFFICES ASSUME truncations' = 0 PROVE offset <= Len(content'[source])
      OBVIOUS
    <3>1. offset <= Len(content[source]) /\ offset \in Int
      <4>1. truncations = 0 /\ TailerTypes /\ ReaderInv
        BY <1>1 DEF TailerInv
      <4> QED
        BY <4>1, TailerNumbers DEF ReaderInv, AheadInv
    <3> QED
      BY <1>13, <3>1
  <2>2. Pieces <= Pieces' /\ DiskTypeOK' /\ TailerTypes
    BY <1>3, <1>10 DEF WriterInv, TailerInv
  <2> QED
    BY <1>3, <2>1, <2>2, WorldKeepsTypes
<1>15. UNCHANGED <<source, offset, ahead, printed, first>> /\ place' = place /\ LastLine' = LastLine
  BY DEF tail, place, LastLine
<1>16. ReaderInv'
  <2> SUFFICES ASSUME truncations' = 0 PROVE AheadInv' /\ PlaceInv' /\ PrintedInv'
    BY DEF ReaderInv
  <2>1. AheadInv /\ PlaceInv /\ PrintedInv
    BY <1>1 DEF TailerInv, ReaderInv
  <2>2. ahead \in Seq(Piece) /\ Len(ahead) \in Nat /\ offset \in Int /\ DOMAIN ahead = 1 .. Len(ahead)
    BY TailerNumbers DEF TailerInv
  <2>3. AheadInv'
    <3>1. Len(ahead) <= offset /\ offset <= Len(content'[source])
      BY <1>13, <2>1, <2>2 DEF AheadInv
    <3>2. \A i \in 1 .. Len(ahead) : place + i \in 1 .. Len(content[source])
      BY <1>13, <2>1, <2>2 DEF AheadInv, place
    <3>3. \A i \in 1 .. Len(ahead) : ahead[i] = content'[source][place + i]
      BY <1>13, <2>1, <2>2, <3>2 DEF AheadInv
    <3> QED
      BY <1>15, <2>2, <3>1, <3>3 DEF AheadInv
  <2>4. PlaceInv'
    <3>1. \A k \in 1 .. place : k \in 1 .. Len(content[source])
      BY <1>13, <2>1, <2>2 DEF AheadInv, place
    <3>2. \A k \in 1 .. place : content'[source][k] = content[source][k]
      BY <1>13, <3>1
    <3> QED
      BY <1>15, <2>1, <3>2 DEF PlaceInv
  <2>5. PrintedInv'
    <3> SUFFICES ASSUME NEW i \in DOMAIN printed PROVE printed[i].n <= Completed'
      BY <1>15 DEF PrintedInv
    <3>1. printed[i].n <= Completed /\ printed[i].n \in Int
      BY <2>1, PrintedNumbered DEF PrintedInv, TailerInv
    <3> QED
      BY <1>3, <1>7, <3>1
  <2> QED
    BY <2>3, <2>4, <2>5
<1>17. NothingSkippedInAFile'
  <2> SUFFICES ASSUME NEW i \in DOMAIN printed, truncations' = 0
               PROVE  \/ printed[i].n = first \/ TopOf(printed[i].n)'
                      \/ i > 1 /\ printed[i - 1].n = printed[i].n - 1
    <3>1. truncations' \in Nat
      BY <1>10 DEF WriterInv, DiskTypeOK
    <3> QED
      BY <1>15, <3>1 DEF NothingSkippedInAFile
  <2>1. printed[i].n \in Lines /\ printed[i].n <= written
    <3>1. printed[i].n <= Completed /\ printed[i].n \in Lines
      BY <1>1, PrintedNumbered DEF TailerInv, ReaderInv, PrintedInv
    <3> QED
      BY <1>2, <1>3, <3>1 DEF Lines
  <2>2. ASSUME TopOf(printed[i].n) PROVE TopOf(printed[i].n)'
    <3> DEFINE l == printed[i].n
    <3> HIDE DEF l
    <3>1. l \in 1 .. written /\ TopOf(l)
      BY <2>1, <2>2 DEF l, Lines
    <3>2. \A m \in Lines : m < l => fileOf[m] # fileOf[l]
      BY <3>1 DEF TopOf
    <3>3. \A m \in Lines : m < l => m \in 1 .. written
      BY <1>2, <3>1 DEF Lines
    <3>4. \A m \in Lines : m < l => fileOf'[m] # fileOf'[l]
      BY <1>9, <3>1, <3>2, <3>3
    <3> QED
      BY <1>15, <3>4 DEF TopOf, l
  <2> QED
    BY <1>1, <2>2 DEF TailerInv, NothingSkippedInAFile
<1> QED
  BY <1>10, <1>11, <1>12, <1>14, <1>16, <1>17 DEF TailerInv, FilesInv

LEMMA WriteKeeps ==
  ASSUME TailerInv, Write, Notified, UNCHANGED <<watching, reopening, tail, loop, printed, first>>
  PROVE  TailerInv'
<1> USE BoundsAssumption
<1>1. written \in 0 .. MaxLines /\ writing \in {0, written}
  BY DEF TailerInv, FilesInv, WriterInv, DiskTypeOK
<1>2. CASE WriteLine
  <2> DEFINE piece == [n |-> written + 1, part |-> "whole"]
  <2>1. /\ writing = 0 /\ written < MaxLines /\ Put(piece)
        /\ written' = written + 1 /\ writing' = 0
    BY <1>2 DEF WriteLine
  <2>2. piece \in Piece /\ piece.n = written + 1 /\ Ends(piece)
    BY <1>1, <2>1 DEF Piece, Lines, Ends
  <2>3. Completed = written /\ Completed' = written + 1 /\ Pieces' >= Pieces + 1
    BY <1>1, <2>1 DEF Completed, Pieces
  <2> HIDE DEF piece
  <2> QED
    BY <1>1, <2>1, <2>2, <2>3, PutKeeps
<1>3. CASE WriteStart
  <2> DEFINE piece == [n |-> written + 1, part |-> "start"]
  <2>1. /\ writing = 0 /\ written < MaxLines /\ Put(piece)
        /\ written' = written + 1 /\ writing' = written + 1
    BY <1>3 DEF WriteStart
  <2>2. piece \in Piece /\ piece.n = written + 1 /\ ~Ends(piece)
    BY <1>1, <2>1 DEF Piece, Lines, Ends
  <2>3. Completed' = Completed /\ Pieces' >= Pieces + 1
    BY <1>1, <2>1 DEF Completed, Pieces
  <2> HIDE DEF piece
  <2> QED
    BY <1>1, <2>1, <2>2, <2>3, PutKeeps
<1>4. CASE WriteEnd
  <2> DEFINE piece == [n |-> writing, part |-> "end"]
  <2>1. /\ writing # 0 /\ Put(piece) /\ writing' = 0 /\ written' = written
    BY <1>4 DEF WriteEnd
  <2>2. piece \in Piece /\ piece.n = written /\ Ends(piece)
    BY <1>1, <2>1 DEF Piece, Lines, Ends
  <2>3. Completed = written - 1 /\ Completed' = written /\ Pieces' >= Pieces + 1
    BY <1>1, <2>1 DEF Completed, Pieces
  <2> HIDE DEF piece
  <2> QED
    BY <1>1, <2>1, <2>2, <2>3, PutKeeps
<1> QED
  BY <1>2, <1>3, <1>4 DEF Write

\* The rotation moves the file away and creates the next one, which the writer
\* then opens: no line moves.
LEMMA RotationKeeps ==
  ASSUME TailerInv, MoveAway \/ CreateNew \/ Follow, Notified,
         UNCHANGED <<watching, reopening, tail, loop, printed, first>>
  PROVE  TailerInv'
<1> USE BoundsAssumption
<1>1. UNCHANGED <<content, writing, written, truncations, fileOf>>
  BY DEF MoveAway, CreateNew, Follow
<1>2. Completed' = Completed /\ Pieces' = Pieces /\ Pieces \in Int
  BY <1>1 DEF Completed, Pieces, TailerInv, FilesInv, WriterInv, DiskTypeOK
<1>3. UNCHANGED <<reopening, file, open, source, live, offset, ahead, lastSize, pc, size, printed, first>> /\ place' = place /\ LastLine' = LastLine
  BY DEF tail, loop, place, LastLine
<1>4. WriterInv'
  <2>1. /\ path' \in Files \union {Missing} /\ target' \in Files /\ target <= target'
        /\ path' = Missing => target' < MaxFiles
        /\ path' # Missing => path' \in {target', target' + 1}
        /\ writing # 0 => target' = target
    BY DEF MoveAway, CreateNew, Follow, TailerInv, FilesInv, WriterInv, DiskTypeOK, Files, Missing
  <2>2. \A n \in 1 .. written : fileOf[n] \in 1 .. target'
    <3> SUFFICES ASSUME NEW n \in 1 .. written PROVE fileOf[n] \in 1 .. target'
      OBVIOUS
    <3>1. fileOf[n] \in 1 .. target /\ target \in Nat
      BY DEF TailerInv, FilesInv, WriterInv, DiskTypeOK, Files
    <3>2. target' \in Nat
      BY <2>1 DEF Files
    <3> QED
      BY <2>1, <3>1, <3>2
  <2>3. DiskTypeOK'
    BY <1>1, <2>1 DEF TailerInv, FilesInv, WriterInv, DiskTypeOK
  <2> QED
    BY <1>1, <2>1, <2>2, <2>3 DEF TailerInv, FilesInv, WriterInv
<1>5. FilesInv'
  BY <1>1, <1>2, <1>4 DEF TailerInv, FilesInv, InItsFile, KeptInv, Stands
<1>6. TailerTypes'
  <2>1. DiskTypeOK' /\ TailerTypes /\ Pieces <= Pieces' /\ Pieces' \in Int
    BY <1>2, <1>4 DEF WriterInv, TailerInv
  <2>2. truncations' = 0 => offset <= Len(content'[source])
    BY <1>1 DEF TailerInv, TailerTypes, TypeOK
  <2> QED
    BY <1>2, <2>1, <2>2, WorldKeepsTypes
<1>7. ReaderInv'
  BY <1>1, <1>2, <1>3 DEF TailerInv, ReaderInv, AheadInv, PlaceInv, PrintedInv
<1>8. NothingSkippedInAFile'
  BY <1>1, <1>3 DEF TailerInv, NothingSkippedInAFile, TopOf
<1> QED
  BY <1>5, <1>6, <1>7, <1>8 DEF TailerInv

\* After a truncation nothing is promised but the types.
LEMMA TruncateKeeps ==
  ASSUME TailerInv, Truncate, Notified, UNCHANGED <<watching, reopening, tail, loop, printed, first>>
  PROVE  TailerInv'
<1> USE BoundsAssumption
<1>1. /\ UNCHANGED <<path, target, writing, written, fileOf>>
      /\ content' = [content EXCEPT ![path] = <<>>] /\ truncations' = truncations + 1
      /\ path = target /\ truncations < MaxTruncations
  BY DEF Truncate
<1>2. /\ content \in [Files -> Seq(Piece)] /\ truncations \in 0 .. MaxTruncations
  BY DEF TailerInv, FilesInv, WriterInv, DiskTypeOK
<1>3. Completed' = Completed /\ Pieces' = Pieces /\ Pieces \in Int /\ Pieces >= 0
  BY <1>1 DEF Completed, Pieces, TailerInv, FilesInv, WriterInv, DiskTypeOK
<1>4. truncations' \in 0 .. MaxTruncations /\ truncations' # 0 /\ truncations' > 0
  BY <1>1, <1>2
<1>5. \A f \in Files : content'[f] = content[f] \/ content'[f] = <<>>
  BY <1>1, <1>2
<1>6. content' \in [Files -> Seq(Piece)]
  <2>1. <<>> \in Seq(Piece)
    OBVIOUS
  <2> QED
    BY <1>1, <1>2, <2>1
<1>7. WriterInv'
  BY <1>1, <1>4, <1>6 DEF TailerInv, FilesInv, WriterInv, DiskTypeOK
<1>8. \A f \in Files : InItsFile(f)'
  <2> SUFFICES ASSUME NEW f \in Files PROVE InItsFile(f)'
    OBVIOUS
  <2>1. Len(<<>>) = 0 /\ DOMAIN <<>> = {}
    OBVIOUS
  <2>2. CASE content'[f] = content[f]
    BY <1>1, <1>3, <2>2 DEF TailerInv, FilesInv, InItsFile
  <2>3. CASE content'[f] = <<>>
    BY <1>3, <2>1, <2>3 DEF InItsFile, Rises
  <2> QED
    BY <1>5, <2>2, <2>3
<1>9. TailerTypes'
  <2>1. DiskTypeOK' /\ TailerTypes /\ Pieces <= Pieces' /\ Pieces' \in Int
    BY <1>3, <1>7 DEF WriterInv, TailerInv
  <2> QED
    BY <1>3, <1>4, <2>1, WorldKeepsTypes
<1> QED
  BY <1>4, <1>7, <1>8, <1>9 DEF TailerInv, FilesInv, KeptInv, ReaderInv, NothingSkippedInAFile

LEMMA EnvironmentKeeps ==
  ASSUME TailerInv, Environment
  PROVE  TailerInv'
<1>1. CASE Rotate
  <2>1. CreateNew /\ Notify("create") /\ UNCHANGED <<watching, reopening, tail, loop, printed, first>>
    BY <1>1 DEF Rotate
  <2>2. Notified
    BY <2>1, NotifyAppends
  <2> QED
    BY <2>1, <2>2, RotationKeeps
<1>2. CASE UNCHANGED <<watching, reopening, tail, loop, printed, first>> /\ ~Rotate
  <2>1. CASE Write /\ (IF target = path THEN Notify("write") ELSE UNCHANGED events)
    <3>1. Notified
      BY <2>1, NotifyAppends DEF Notified
    <3> QED
      BY <1>2, <2>1, <3>1, WriteKeeps
  <2>2. CASE MoveAway /\ Notify("gone")
    BY <1>2, <2>2, NotifyAppends, RotationKeeps
  <2>3. CASE Follow /\ UNCHANGED events
    BY <1>2, <2>3, RotationKeeps DEF Notified
  <2>4. CASE Truncate /\ Notify("write")
    BY <1>2, <2>4, NotifyAppends, TruncateKeeps
  <2> QED
    BY <1>2, <2>1, <2>2, <2>3, <2>4 DEF Environment
<1> QED
  BY <1>1, <1>2 DEF Environment

-----------------------------------------------------------------------------
(* The handler of the directory's events, and the read loop.               *)

Stays    == UNCHANGED <<source, offset, ahead>>
Reopened == source' = file /\ offset' = 0 /\ ahead' = <<>>

\* The parts of the types that nothing depends on.
OthersTyped ==
  /\ open' \in BOOLEAN /\ live' \in BOOLEAN /\ file' \in Files /\ watching' \in BOOLEAN
  /\ events' \in Seq({"gone", "create", "write"})
  /\ reopening' \in [Goroutines -> {"no", "called"} \union Held]
  /\ lastSize' \in {lastSize, size, 0} /\ size' \in {size, Len(content[file])}
  /\ pc' \in {"read", "stat line", "set", "stat end", "compare"}

\* Nothing is read: the reader stays in its place, or goes to the top of t.f.
LEMMA ReopeningKeeps ==
  ASSUME TailerInv, UNCHANGED <<disk, printed, first>>, Stays \/ Reopened, OthersTyped
  PROVE  TailerInv'
<1> USE BoundsAssumption
<1>1. /\ UNCHANGED <<content, path, target, writing, written, truncations, fileOf>>
      /\ Completed' = Completed /\ Pieces' = Pieces /\ LastLine' = LastLine
  BY DEF disk, Completed, Pieces, LastLine
<1>2. FilesInv'
  BY <1>1 DEF TailerInv, FilesInv, WriterInv, DiskTypeOK, InItsFile, KeptInv, Stands
<1>3. /\ file \in Files /\ content[file] \in Seq(Piece) /\ Len(content[file]) \in Nat
      /\ Len(content[file]) <= Pieces /\ Pieces \in Int /\ 0 <= Pieces /\ Pieces <= 2 * MaxLines
  <2>1. file \in Files
    BY DEF TailerInv, TailerTypes, TypeOK
  <2>2. content[file] \in Seq(Piece)
    BY <2>1 DEF TailerInv, FilesInv, WriterInv, DiskTypeOK
  <2>3. Pieces \in Int /\ 0 <= Pieces /\ Pieces <= 2 * MaxLines
    <3>1. written \in 0 .. MaxLines /\ writing \in {0, written} /\ MaxLines \in Nat
      BY DEF TailerInv, FilesInv, WriterInv, DiskTypeOK
    <3> QED
      BY <3>1 DEF Pieces
  <2>4. Len(content[file]) <= Pieces
    BY <2>1 DEF TailerInv, FilesInv, InItsFile
  <2> QED
    BY <2>1, <2>2, <2>3, <2>4
<1>4. /\ source' \in Files /\ ahead' \in Seq(Piece)
      /\ truncations = 0 => offset' <= Len(content[source'])
  <2>1. CASE Stays
    BY <2>1 DEF Stays, TailerInv, TailerTypes, TypeOK
  <2>2. CASE Reopened
    <3>1. <<>> \in Seq(Piece)
      OBVIOUS
    <3>2. 0 <= Len(content[file])
      BY <1>3
    <3> QED
      BY <1>3, <2>2, <3>1, <3>2 DEF Reopened
  <2> QED
    BY <2>1, <2>2
<1>5. /\ offset' \in Sizes /\ size' \in Sizes /\ lastSize' \in Sizes
      /\ offset' <= Pieces /\ size' <= Pieces /\ lastSize' <= Pieces
  <2>1. /\ offset \in Nat /\ size \in Nat /\ lastSize \in Nat
        /\ offset <= Pieces /\ size <= Pieces /\ lastSize <= Pieces
    BY TailerNumbers DEF TailerInv, TailerTypes
  <2>2. offset' \in {offset, 0} /\ lastSize' \in {lastSize, size, 0} /\ size' \in {size, Len(content[file])}
    BY DEF OthersTyped, Stays, Reopened
  <2>3. /\ offset' \in Nat /\ size' \in Nat /\ lastSize' \in Nat
        /\ offset' <= Pieces /\ size' <= Pieces /\ lastSize' <= Pieces
    BY <1>3, <2>1, <2>2
  <2> QED
    BY <1>3, <2>3 DEF Sizes
<1>6. TailerTypes'
  <2>1. DiskTypeOK'
    BY <1>2 DEF FilesInv, WriterInv
  <2>2. printed' \in Seq([n: Lines, intact: BOOLEAN]) /\ first' \in 1 .. MaxLines + 1
    BY DEF TailerInv, TailerTypes, TypeOK
  <2>3. TypeOK'
    BY <1>1, <1>4, <1>5, <2>1, <2>2 DEF TypeOK, OthersTyped
  <2> QED
    BY <1>1, <1>5, <2>3 DEF TailerTypes
<1>7. ReaderInv'
  <2> SUFFICES ASSUME truncations = 0 PROVE AheadInv' /\ PlaceInv' /\ PrintedInv'
    BY <1>1 DEF ReaderInv
  <2>1. AheadInv /\ PlaceInv /\ PrintedInv
    BY DEF TailerInv, ReaderInv
  <2>2. PrintedInv'
    BY <1>1, <2>1 DEF PrintedInv
  <2>3. CASE Stays
    BY <1>1, <2>1, <2>2, <2>3 DEF AheadInv, PlaceInv, place, Stays
  <2>4. CASE Reopened
    <3>1. Len(<<>>) = 0 /\ DOMAIN <<>> = {}
      OBVIOUS
    <3>2. place' = 0 /\ 1 .. 0 = {}
      <4>1. offset' = 0 /\ Len(ahead') = 0
        BY <2>4, <3>1 DEF Reopened
      <4> QED
        BY <4>1 DEF place
    <3>3. AheadInv'
      BY <1>1, <1>4, <2>4, <3>1 DEF AheadInv, Reopened
    <3>4. PlaceInv'
      BY <3>2 DEF PlaceInv
    <3> QED
      BY <2>2, <3>3, <3>4
  <2> QED
    BY <2>3, <2>4
<1>8. NothingSkippedInAFile'
  BY <1>1 DEF TailerInv, NothingSkippedInAFile, TopOf
<1> QED
  BY <1>2, <1>6, <1>7, <1>8 DEF TailerInv

\* What the reader has before it after it filled its buffer: the file from its
\* place on.
LEMMA FilledIs ==
  ASSUME TailerInv, Fill
  PROVE  /\ Filled \in Seq(Piece) /\ Len(Filled) \in Nat
         /\ offset' \in Nat /\ offset' <= Pieces /\ offset' \in Sizes
         /\ truncations = 0 =>
              /\ place \in Nat /\ place + Len(Filled) = offset' /\ offset' <= Len(content[source])
              /\ \A i \in 1 .. Len(Filled) : /\ place + i \in 1 .. Len(content[source])
                                             /\ Filled[i] = content[source][place + i]
<1> USE BoundsAssumption
<1> DEFINE c == content[source]
<1>1. source \in Files /\ c \in Seq(Piece) /\ Len(c) \in Nat /\ Len(c) <= Pieces /\ Pieces \in Int /\ Pieces <= 2 * MaxLines
  <2>1. source \in Files
    BY DEF TailerInv, TailerTypes, TypeOK
  <2>2. Pieces \in Int /\ Pieces <= 2 * MaxLines
    BY DEF Pieces, TailerInv, FilesInv, WriterInv, DiskTypeOK
  <2> QED
    BY <2>1, <2>2 DEF TailerInv, FilesInv, WriterInv, DiskTypeOK, InItsFile
<1>2. /\ offset \in Nat /\ offset <= Pieces /\ ahead \in Seq(Piece) /\ Len(ahead) \in Nat
      /\ DOMAIN ahead = 1 .. Len(ahead)
  BY TailerNumbers DEF TailerInv, TailerTypes
<1>3. truncations = 0 => /\ place \in Nat /\ Len(ahead) <= offset /\ offset <= Len(c)
                         /\ \A i \in 1 .. Len(ahead) : ahead[i] = c[place + i]
  BY <1>2 DEF TailerInv, ReaderInv, AheadInv, place
<1>4. place = offset - Len(ahead)
  BY DEF place
<1> DEFINE more == IF HasLine(ahead) THEN <<>> ELSE Unread
<1>5. /\ more \in Seq(Piece) /\ Len(more) \in Nat
      /\ Len(more) > 0 => offset + Len(more) = Len(c)
      /\ \A i \in 1 .. Len(more) : more[i] = c[offset + i]
  <2>1. CASE HasLine(ahead) \/ ~live
    <3>1. more = <<>>
      BY <2>1 DEF Unread
    <3>2. <<>> \in Seq(Piece) /\ Len(<<>>) = 0
      OBVIOUS
    <3>3. more \in Seq(Piece) /\ Len(more) = 0
      BY <3>1, <3>2, Zenon
    <3> HIDE DEF more
    <3> QED
      BY <3>3
  <2>2. CASE ~HasLine(ahead) /\ live
    <3> DEFINE a == After(c, offset)
    <3>1. more = a
      BY <2>2 DEF Unread
    <3>2. /\ a \in Seq(Piece) /\ Len(a) = IF offset < Len(c) THEN Len(c) - offset ELSE 0
          /\ \A i \in 1 .. Len(a) : a[i] = c[offset + i]
      BY <1>1, <1>2, AfterIs
    <3> HIDE DEF a, more, c
    <3>3. Len(a) \in Nat /\ (Len(a) > 0 => offset + Len(a) = Len(c))
      BY <1>1, <1>2, <3>2
    <3> QED
      BY <3>1, <3>2, <3>3, Zenon
  <2> QED
    BY <2>1, <2>2
<1>6. Filled = ahead \o more /\ offset' = offset + Len(more)
  <2>1. CASE HasLine(ahead)
    <3>1. ahead \o <<>> = ahead /\ Len(<<>>) = 0 /\ offset + 0 = offset
      BY <1>2
    <3> QED
      BY <2>1, <3>1 DEF Filled, Fill
  <2>2. CASE ~HasLine(ahead)
    BY <2>2 DEF Filled, Fill
  <2> QED
    BY <2>1, <2>2
<1> HIDE DEF more, c
<1> DEFINE all == ahead \o more
<1>7. /\ all \in Seq(Piece) /\ Len(all) = Len(ahead) + Len(more)
      /\ \A i \in 1 .. Len(ahead) + Len(more) : all[i] = IF i <= Len(ahead) THEN ahead[i] ELSE more[i - Len(ahead)]
  BY <1>2, <1>5, JoinedIs
<1> HIDE DEF all
<1>8. offset' \in Nat /\ offset' <= Pieces
  BY <1>1, <1>2, <1>5, <1>6
<1>9. ASSUME truncations = 0
      PROVE  /\ place + Len(all) = offset' /\ offset' <= Len(c)
             /\ \A i \in 1 .. Len(all) : place + i \in 1 .. Len(c) /\ all[i] = c[place + i]
  <2>1. place + Len(all) = offset' /\ offset' <= Len(c)
    BY <1>1, <1>2, <1>3, <1>4, <1>5, <1>6, <1>7, <1>9
  <2>2. ASSUME NEW i \in 1 .. Len(all) PROVE place + i \in 1 .. Len(c) /\ all[i] = c[place + i]
    <3>1. place + i \in 1 .. Len(c)
      <4>1. place \in Nat /\ Len(c) \in Nat
        BY <1>1, <1>3, <1>9
      <4>2. Len(all) \in Nat /\ place + Len(all) <= Len(c)
        <5>1. Len(all) \in Nat
          BY <1>2, <1>5, <1>7
        <5> QED
          BY <2>1, <5>1, Zenon
      <4> QED
        BY <4>1, <4>2
    <3>2. CASE i <= Len(ahead)
      <4>1. i \in 1 .. Len(ahead) /\ all[i] = ahead[i]
        BY <1>2, <1>5, <1>7, <3>2
      <4> QED
        BY <1>3, <1>9, <3>1, <4>1
    <3>3. CASE ~(i <= Len(ahead))
      <4>1. i - Len(ahead) \in 1 .. Len(more) /\ offset + (i - Len(ahead)) = place + i
        BY <1>2, <1>4, <1>5, <1>7, <3>3
      <4>2. all[i] = more[i - Len(ahead)]
        BY <1>2, <1>5, <1>7, <3>3
      <4> DEFINE k == i - Len(ahead)
      <4>3. k \in 1 .. Len(more) /\ offset + k = place + i /\ all[i] = more[k]
        BY <4>1, <4>2
      <4> HIDE DEF k
      <4> QED
        BY <1>5, <3>1, <4>3
    <3> QED
      BY <3>1, <3>2, <3>3
  <2> QED
    BY <2>1, <2>2
<1>10. Len(all) \in Nat
  BY <1>2, <1>5, <1>7
<1>11. Filled = all
  BY <1>6 DEF all
<1>12. offset' \in Sizes
  BY <1>1, <1>8 DEF Sizes
<1> QED
  BY <1>3, <1>7, <1>8, <1>9, <1>10, <1>11, <1>12 DEF c

\* What a read does to the invariant, whether it returns a line or not: lines
\* are only returned, so only the reader and the lines printed change.
LEMMA ReadKeepsFiles ==
  ASSUME TailerInv, UNCHANGED <<disk, watching, events, reopening, file, open, source, live, lastSize, size, first>>, Fill,
         ahead' \in Seq(Piece), pc' \in {"stat line", "stat end"},
         printed' \in Seq([n: Lines, intact: BOOLEAN])
  PROVE  FilesInv' /\ TailerTypes' /\ Completed' = Completed /\ content' = content /\ truncations' = truncations
<1>1. /\ UNCHANGED <<content, path, target, writing, written, truncations, fileOf>>
      /\ Completed' = Completed /\ Pieces' = Pieces
  BY DEF disk, Completed, Pieces
<1>2. FilesInv'
  BY <1>1 DEF TailerInv, FilesInv, WriterInv, DiskTypeOK, InItsFile, KeptInv, Stands
<1>3. offset' \in Sizes /\ offset' <= Pieces /\ (truncations = 0 => offset' <= Len(content[source]))
  BY FilledIs
<1>4. TypeOK'
  <2>1. DiskTypeOK'
    BY <1>2 DEF FilesInv, WriterInv
  <2> QED
    BY <1>1, <1>3, <2>1 DEF TailerInv, TailerTypes, TypeOK
<1> QED
  BY <1>1, <1>2, <1>3, <1>4 DEF TailerInv, TailerTypes

\* The end of the file throws the part of a line away: no line ends in it.
LEMMA ReadEndKeeps ==
  ASSUME TailerInv, ReadEnd
  PROVE  TailerInv'
<1>1. /\ Fill /\ ~HasLine(Filled) /\ ahead' = <<>> /\ pc' = "stat end" /\ printed' = printed
      /\ UNCHANGED <<disk, watching, events, reopening, file, open, source, live, lastSize, size, first>>
  BY DEF ReadEnd
<1>2. ahead' \in Seq(Piece) /\ Len(ahead') = 0 /\ DOMAIN ahead' = {}
  <2>1. <<>> \in Seq(Piece) /\ Len(<<>>) = 0 /\ DOMAIN <<>> = {}
    OBVIOUS
  <2> QED
    BY <1>1, <2>1, Zenon
<1>3. FilesInv' /\ TailerTypes' /\ Completed' = Completed /\ content' = content /\ truncations' = truncations
  <2>1. printed' \in Seq([n: Lines, intact: BOOLEAN])
    BY <1>1 DEF TailerInv, TailerTypes, TypeOK
  <2> QED
    BY <1>1, <1>2, <2>1, ReadKeepsFiles
<1>4. ReaderInv'
  <2> SUFFICES ASSUME truncations = 0 PROVE AheadInv' /\ PlaceInv' /\ PrintedInv'
    BY <1>3 DEF ReaderInv
  <2>1. AheadInv /\ PlaceInv /\ PrintedInv
    BY DEF TailerInv, ReaderInv
  <2>2. /\ Filled \in Seq(Piece) /\ Len(Filled) \in Nat /\ offset' \in Nat
        /\ place \in Nat /\ place + Len(Filled) = offset' /\ offset' <= Len(content[source])
        /\ \A i \in 1 .. Len(Filled) : Filled[i] = content[source][place + i]
    BY <1>1, FilledIs
  <2>3. place' = offset' /\ LastLine' = LastLine
    <3>1. place' = offset' - Len(ahead')
      BY DEF place
    <3>2. place' = offset'
      <4>1. Len(ahead') = 0 /\ offset' \in Int
        BY <1>2, <2>2
      <4>2. \A x \in Int : x - 0 = x
        OBVIOUS
      <4>3. offset' - 0 = offset'
        BY <4>1, <4>2, Zenon
      <4> QED
        BY <3>1, <4>1, <4>3, Zenon
    <3> QED
      BY <1>1, <3>2 DEF LastLine
  <2>4. AheadInv'
    <3>1. source' = source /\ content' = content /\ Len(ahead') <= offset' /\ \A i \in DOMAIN ahead' : FALSE
      <4>1. offset' \in Nat /\ Len(ahead') = 0 /\ DOMAIN ahead' = {}
        BY <1>2, <2>2
      <4>2. Len(ahead') <= offset'
        BY <4>1
      <4> QED
        BY <1>1, <1>3, <4>1, <4>2
    <3> QED
      BY <2>2, <3>1 DEF AheadInv
  <2>5. ASSUME NEW k \in 1 .. place', Ends(content[source][k])
        PROVE  k \in 1 .. place
    <3> SUFFICES ASSUME ~(k <= place) PROVE FALSE
      BY <2>2, <2>3
    <3> DEFINE i == k - place
    <3>1. i \in 1 .. Len(Filled) /\ k = place + i
      BY <2>2, <2>3
    <3> HIDE DEF i
    <3>2. Filled[i] = content[source][k] /\ ~Ends(Filled[i])
      BY <1>1, <2>2, <3>1, NoLine
    <3> QED
      BY <2>5, <3>2
  <2>6. \A k \in 1 .. place : k \in 1 .. place'
    BY <2>2, <2>3
  <2>7. PlaceInv'
    <3> SUFFICES ASSUME NEW k \in 1 .. place', Ends(content[source][k])
                 PROVE  /\ content[source][k].n <= LastLine
                        /\ \E j \in 1 .. place' : Ends(content[source][j]) /\ content[source][j].n = LastLine
      BY <1>1, <1>3, <2>3 DEF PlaceInv
    <3>1. k \in 1 .. place
      BY <2>5
    <3> QED
      BY <2>1, <2>6, <3>1 DEF PlaceInv
  <2>8. PrintedInv'
    BY <1>1, <1>3, <2>1 DEF PrintedInv
  <2> QED
    BY <2>4, <2>7, <2>8
<1>5. NothingSkippedInAFile'
  BY <1>1, <1>3 DEF TailerInv, NothingSkippedInAFile, TopOf, disk
<1> QED
  BY <1>3, <1>4, <1>5 DEF TailerInv

\* The line after the reader's place is the first of its file, or the one after
\* the last line returned.
LEMMA NextLine ==
  ASSUME TailerInv, truncations = 0, place \in Nat,
         NEW k \in DOMAIN content[source], place < k, Ends(content[source][k]),
         \A j \in DOMAIN content[source] : place < j /\ j < k => ~Ends(content[source][j])
  PROVE  TopOf(content[source][k].n) \/ content[source][k].n = LastLine + 1
<1> USE BoundsAssumption
<1> DEFINE c == content[source]
           n == c[k].n
<1>1. source \in Files /\ c \in Seq(Piece) /\ DOMAIN c = 1 .. Len(c) /\ Len(c) \in Nat
  <2>1. source \in Files
    BY DEF TailerInv, TailerTypes, TypeOK
  <2>2. c \in Seq(Piece)
    BY <2>1 DEF TailerInv, FilesInv, WriterInv, DiskTypeOK
  <2> QED
    BY <2>1, <2>2
<1>2. Rises(c) /\ n <= Completed /\ n <= written /\ fileOf[n] = source
  BY <1>1 DEF TailerInv, FilesInv, InItsFile
<1>3. \A j \in DOMAIN c : c[j].n \in 1 .. MaxLines /\ c[j].n \in Int
  BY <1>1, Numbered
<1>4. written \in Nat /\ written <= MaxLines /\ Completed \in Int /\ Completed <= written
  BY DEF TailerInv, FilesInv, WriterInv, DiskTypeOK, Completed
<1>5. ASSUME NEW j \in DOMAIN c, Ends(c[j]), c[j].n < n
      PROVE  j \in 1 .. place
  <2>1. j \in Int /\ k \in Int /\ j >= 1
    BY <1>1
  <2>2. ~(k < j)
    <3> SUFFICES ASSUME k < j PROVE FALSE
      OBVIOUS
    <3>1. n < c[j].n
      BY <1>2, <1>5 DEF Rises
    <3> QED
      BY <1>3, <1>5, <3>1
  <2>3. j # k
    BY <1>3, <1>5
  <2>4. ~(place < j /\ j < k)
    BY <1>5
  <2> QED
    BY <2>1, <2>2, <2>3, <2>4
<1> HIDE DEF n, c
<1>6. n \in 1 .. MaxLines
  BY <1>3 DEF n, c
<1>7. CASE TopOf(n)
  BY <1>7 DEF n, c
<1>8. CASE ~TopOf(n)
  <2>1. PICK m \in Lines : m < n /\ fileOf[m] = fileOf[n]
    BY <1>8 DEF TopOf
  <2>2. fileOf[n - 1] = source /\ n - 1 \in 1 .. Completed
    <3>1. m \in 1 .. written /\ n - 1 \in 1 .. written /\ n \in 1 .. written /\ m <= n - 1 /\ n - 1 <= Completed
      BY <1>2, <1>4, <1>6, <2>1 DEF Lines
    <3>2. \A l, o \in 1 .. written : l < o => fileOf[l] <= fileOf[o]
      BY DEF TailerInv, FilesInv, WriterInv
    <3>3. fileOf[m] <= fileOf[n - 1] /\ fileOf[n - 1] <= fileOf[n]
      <4>1. CASE m = n - 1
        BY <1>2, <2>1, <3>1, <3>2, <4>1
      <4>2. CASE m < n - 1
        BY <3>1, <3>2, <4>2
      <4> QED
        BY <3>1, <4>1, <4>2
    <3>4. fileOf[n - 1] \in Int /\ source \in Int
      <4>1. \A l \in 1 .. written : fileOf[l] \in 1 .. target
        BY DEF TailerInv, FilesInv, WriterInv
      <4> QED
        BY <1>1, <3>1, <4>1 DEF Files
    <3> QED
      BY <1>2, <2>1, <3>1, <3>3, <3>4
  <2>3. PICK j \in DOMAIN c : c[j].n = n - 1 /\ Ends(c[j])
    BY <2>2 DEF TailerInv, FilesInv, KeptInv, Stands, Ends, c
  <2>4. j \in 1 .. place
    BY <1>5, <1>6, <2>3
  <2>5. n - 1 <= LastLine /\ \E i \in 1 .. place : Ends(c[i]) /\ c[i].n = LastLine
    BY <2>3, <2>4 DEF TailerInv, ReaderInv, PlaceInv, c
  <2>6. PICK i \in 1 .. place : Ends(c[i]) /\ c[i].n = LastLine
    BY <2>5
  <2>7. i \in DOMAIN c /\ i < k
    <3>1. k \in 1 .. Len(c)
      BY <1>1 DEF c
    <3> QED
      BY <1>1, <3>1
  <2>8. LastLine < n /\ LastLine \in Int
    BY <1>2, <1>3, <2>6, <2>7 DEF Rises, n, c
  <2>9. n = LastLine + 1
    BY <1>6, <2>5, <2>8
  <2> QED
    BY <2>9 DEF n, c
<1> QED
  BY <1>7, <1>8

\* A line is returned: it is the one after the reader's place.
LEMMA ReadLineKeeps ==
  ASSUME TailerInv, ReadLine
  PROVE  TailerInv'
<1> DEFINE end  == LineEnd(Filled)
           line == LineOf(Filled)
           rest == After(Filled, end)
           last == Len(printed) + 1
           c    == content[source]
<1>1. /\ HasLine(Filled) /\ Fill /\ ahead' = rest /\ pc' = "stat line" /\ printed' = Append(printed, line)
      /\ UNCHANGED <<disk, watching, events, reopening, file, open, source, live, lastSize, size, first>>
  BY DEF ReadLine
<1>2. Filled \in Seq(Piece) /\ Len(Filled) \in Nat /\ offset' \in Nat
  BY <1>1, FilledIs
<1>3. /\ end \in 1 .. Len(Filled) /\ Ends(Filled[end])
      /\ \A j \in 1 .. Len(Filled) : j < end => ~Ends(Filled[j])
  BY <1>1, <1>2, LineEndIsFirst
<1>4. line \in [n: Lines, intact: BOOLEAN] /\ line.n = Filled[end].n
  <2>1. Filled[end] \in Piece
    BY <1>2, <1>3
  <2>2. Filled[end].n \in Lines
    BY <2>1 DEF Piece
  <2> QED
    BY <2>2 DEF LineOf
<1>5. printed \in Seq([n: Lines, intact: BOOLEAN]) /\ Len(printed) \in Nat
  <2>1. printed \in Seq([n: Lines, intact: BOOLEAN])
    BY DEF TailerInv, TailerTypes, TypeOK
  <2> QED
    BY <2>1
<1> HIDE DEF line
<1>6. /\ printed' \in Seq([n: Lines, intact: BOOLEAN]) /\ Len(printed') = last /\ printed'[last] = line
      /\ DOMAIN printed' = 1 .. last /\ DOMAIN printed = 1 .. Len(printed)
      /\ \A i \in 1 .. Len(printed) : printed'[i] = printed[i]
  <2> DEFINE R == [n: Lines, intact: BOOLEAN]
  <2>1. printed \in Seq(R) /\ line \in R
    BY <1>4, <1>5
  <2> HIDE DEF R
  <2>2. /\ Append(printed, line) \in Seq(R) /\ Len(Append(printed, line)) = last
        /\ Append(printed, line)[last] = line
        /\ \A i \in 1 .. Len(printed) : Append(printed, line)[i] = printed[i]
    BY <2>1, AppendIs
  <2>3. /\ printed' \in Seq(R) /\ Len(printed') = last /\ printed'[last] = line
        /\ \A i \in 1 .. Len(printed) : printed'[i] = printed[i]
    BY <1>1, <2>2, Zenon
  <2>4. DOMAIN printed' = 1 .. last /\ DOMAIN printed = 1 .. Len(printed)
    BY <2>1, <2>3
  <2> QED
    BY <2>3, <2>4 DEF R
<1>7. /\ rest \in Seq(Piece) /\ Len(rest) = Len(Filled) - end /\ DOMAIN rest = 1 .. Len(rest)
      /\ \A i \in 1 .. Len(rest) : rest[i] = Filled[end + i] /\ end + i \in 1 .. Len(Filled)
  <2>1. end \in Nat /\ end <= Len(Filled)
    BY <1>2, <1>3
  <2> HIDE DEF end
  <2>2. /\ rest \in Seq(Piece) /\ Len(rest) = IF end < Len(Filled) THEN Len(Filled) - end ELSE 0
        /\ \A i \in 1 .. Len(rest) : rest[i] = Filled[end + i] /\ end + i \in 1 .. Len(Filled)
    BY <1>2, <2>1, AfterIs
  <2> HIDE DEF rest
  <2> QED
    BY <1>2, <2>1, <2>2
<1> HIDE DEF rest, end, last
<1>8. FilesInv' /\ TailerTypes' /\ Completed' = Completed /\ content' = content /\ truncations' = truncations
  <2>1. ahead' \in Seq(Piece)
    BY <1>1, <1>7
  <2> QED
    BY <1>1, <1>6, <2>1, ReadKeepsFiles
<1>9. ASSUME truncations = 0
      PROVE  /\ AheadInv' /\ PlaceInv' /\ PrintedInv'
             /\ TopOf(line.n) \/ line.n = LastLine + 1
  <2>1. AheadInv /\ PlaceInv /\ PrintedInv
    BY <1>9 DEF TailerInv, ReaderInv
  <2>2. /\ place \in Nat /\ place + Len(Filled) = offset' /\ offset' <= Len(c)
        /\ \A i \in 1 .. Len(Filled) : place + i \in 1 .. Len(c) /\ Filled[i] = c[place + i]
    BY <1>1, <1>9, FilledIs
  <2>3. source \in Files /\ c \in Seq(Piece) /\ DOMAIN c = 1 .. Len(c) /\ Len(c) \in Nat
    <3>1. source \in Files
      BY DEF TailerInv, TailerTypes, TypeOK
    <3>2. c \in Seq(Piece)
      BY <3>1 DEF TailerInv, FilesInv, WriterInv, DiskTypeOK
    <3> QED
      BY <3>1, <3>2
  <2> DEFINE k == place + end
  <2>4. k \in DOMAIN c /\ place < k /\ k = place + end /\ Ends(c[k]) /\ c[k].n = line.n
    <3>1. place + end \in 1 .. Len(c) /\ Filled[end] = c[place + end]
      BY <1>3, <2>2
    <3>2. place < place + end
      BY <1>2, <1>3, <2>2
    <3> QED
      BY <1>3, <1>4, <2>3, <3>1, <3>2
  <2>5. place' = k /\ k \in Nat
    <3>1. place' = offset' - Len(ahead')
      BY DEF place
    <3>2. place' = offset' - (Len(Filled) - end)
      BY <1>1, <1>7, <3>1
    <3> QED
      BY <1>2, <1>3, <2>2, <3>2
  <2> HIDE DEF k, c
  <2>6. \A j \in DOMAIN c : place < j /\ j < k => ~Ends(c[j])
    <3> SUFFICES ASSUME NEW j \in DOMAIN c, place < j, j < k PROVE ~Ends(c[j])
      OBVIOUS
    <3> DEFINE i == j - place
    <3>1. i \in 1 .. Len(Filled) /\ i < end /\ j = place + i
      BY <1>2, <1>3, <2>2, <2>3, <2>4
    <3> HIDE DEF i
    <3> QED
      BY <1>3, <2>2, <3>1
  <2>7. TopOf(line.n) \/ line.n = LastLine + 1
    BY <1>9, <2>2, <2>4, <2>6, NextLine DEF c
  <2>8. LastLine' = line.n
    <3>1. printed' # <<>>
      BY <1>5, <1>6 DEF last
    <3> QED
      BY <1>6, <3>1 DEF LastLine
  <2>9. AheadInv'
    <3>1. Len(ahead') = Len(Filled) - end /\ Len(ahead') <= offset'
      <4>1. Len(ahead') = Len(Filled) - end
        BY <1>1, <1>7
      <4>2. Len(Filled) - end <= offset'
        BY <1>2, <1>3, <2>2
      <4> QED
        BY <4>1, <4>2
    <3>2. \A i \in DOMAIN ahead' : ahead'[i] = c[place' + i]
      <4> SUFFICES ASSUME NEW i \in 1 .. Len(rest) PROVE rest[i] = c[k + i]
        BY <1>1, <1>7, <2>5
      <4>1. rest[i] = Filled[end + i] /\ end + i \in 1 .. Len(Filled)
        BY <1>7
      <4>2. place + (end + i) = k + i
        BY <1>3, <2>2, <2>4
      <4> DEFINE e == end + i
      <4>3. e \in 1 .. Len(Filled) /\ rest[i] = Filled[e] /\ place + e = k + i
        BY <4>1, <4>2
      <4> HIDE DEF e
      <4> QED
        BY <2>2, <4>3
    <3> QED
      BY <1>1, <1>8, <2>2, <3>1, <3>2 DEF AheadInv, c
  <2>10. PlaceInv'
    <3> SUFFICES ASSUME NEW j \in 1 .. k, Ends(c[j])
                 PROVE  c[j].n <= line.n /\ \E i \in 1 .. k : Ends(c[i]) /\ c[i].n = line.n
      BY <1>1, <1>8, <2>5, <2>8 DEF PlaceInv, c
    <3>1. k \in 1 .. k
      BY <2>2, <2>4, <2>5
    <3>2. j \in DOMAIN c /\ c[j].n \in Int
      <4>1. j \in DOMAIN c
        BY <2>3, <2>4
      <4>2. \A i \in DOMAIN c : c[i].n \in 1 .. MaxLines
        BY <2>3, Numbered
      <4> QED
        BY <4>1, <4>2
    <3>3. CASE j = k
      BY <2>4, <3>2, <3>3
    <3>4. CASE j # k
      <4>1. j < k
        BY <2>5, <3>4
      <4>2. Rises(c)
        BY <2>3 DEF TailerInv, FilesInv, InItsFile, c
      <4>3. c[j].n < c[k].n
        BY <2>4, <3>2, <4>1, <4>2 DEF Rises
      <4>4. line.n \in Int
        BY <1>4 DEF Lines
      <4> QED
        <5>1. c[j].n <= line.n
          BY <2>4, <3>2, <4>3, <4>4
        <5> QED
          BY <2>4, <3>1, <5>1
    <3> QED
      BY <2>4, <3>1, <3>3, <3>4
  <2>11. PrintedInv'
    <3> SUFFICES ASSUME NEW i \in DOMAIN printed' PROVE printed'[i].n <= Completed
      BY <1>8 DEF PrintedInv
    <3>1. CASE i = last
      BY <1>6, <2>3, <2>4, <3>1 DEF TailerInv, FilesInv, InItsFile, c
    <3>2. CASE i # last
      <4>1. i \in 1 .. Len(printed)
        BY <1>5, <1>6, <3>2 DEF last
      <4> QED
        BY <1>6, <2>1, <4>1 DEF PrintedInv
    <3> QED
      BY <3>1, <3>2
  <2> QED
    BY <2>7, <2>9, <2>10, <2>11
<1>10. NothingSkippedInAFile'
  <2>1. fileOf' = fileOf /\ first' = first
    BY <1>1 DEF disk
  <2>2. truncations \in Nat
    BY DEF TailerInv, FilesInv, WriterInv, DiskTypeOK
  <2> SUFFICES ASSUME truncations = 0, NEW i \in DOMAIN printed'
               PROVE  \/ printed'[i].n = first \/ TopOf(printed'[i].n)
                      \/ i > 1 /\ printed'[i - 1].n = printed'[i].n - 1
    BY <1>8, <2>1, <2>2 DEF NothingSkippedInAFile, TopOf
  <2>3. CASE i = last
    <3>1. TopOf(line.n) \/ line.n = LastLine + 1
      BY <1>9
    <3>2. CASE printed = <<>>
      <4>1. LastLine + 1 = first
        <5>1. first \in 1 .. MaxLines + 1
          BY DEF TailerInv, TailerTypes, TypeOK
        <5> QED
          BY <3>2, <5>1 DEF LastLine
      <4> QED
        BY <1>6, <2>3, <3>1, <4>1
    <3>3. CASE printed # <<>>
      <4>1. Len(printed) \in 1 .. Len(printed)
        BY <1>5, <3>3
      <4>2. LastLine = printed[Len(printed)].n /\ LastLine \in Int
        <5>1. TailerTypes
          BY DEF TailerInv
        <5> QED
          BY <1>6, <3>3, <4>1, <5>1, PrintedNumbered DEF LastLine
      <4>3. last > 1 /\ last - 1 = Len(printed)
        BY <1>5, <4>1 DEF last
      <4>4. printed'[last - 1].n = LastLine
        BY <1>6, <4>1, <4>2, <4>3
      <4> QED
        BY <1>6, <2>3, <3>1, <4>2, <4>3, <4>4
    <3> QED
      BY <3>2, <3>3
  <2>4. CASE i # last
    <3>1. i \in 1 .. Len(printed)
      BY <1>5, <1>6, <2>4 DEF last
    <3>2. i > 1 => i - 1 \in 1 .. Len(printed)
      BY <1>5, <3>1
    <3>3. \/ printed[i].n = first \/ TopOf(printed[i].n)
          \/ i > 1 /\ printed[i - 1].n = printed[i].n - 1
      BY <1>6, <3>1 DEF TailerInv, NothingSkippedInAFile
    <3> QED
      BY <1>6, <3>1, <3>2, <3>3
  <2> QED
    BY <2>3, <2>4
<1> QED
  BY <1>8, <1>9, <1>10 DEF TailerInv, ReaderInv

LEMMA ReopenStep ==
  ASSUME TailerInv, NEW who \in Goroutines, reopenFromStart(who), watching' \in BOOLEAN
  PROVE  TailerInv'
<1> DEFINE Stages == [Goroutines -> {"no", "called"} \union Held]
<1>1. /\ open \in BOOLEAN /\ live \in BOOLEAN /\ file \in Files /\ reopening \in Stages
      /\ events \in Seq({"gone", "create", "write"})
      /\ pc \in {"read", "stat line", "set", "stat end", "compare"}
  BY DEF TailerInv, TailerTypes, TypeOK
<1>2. UNCHANGED <<disk, watching, events, loop, printed, first>>
  BY DEF reopenFromStart
<1>3. reopening' \in Stages
  <2>1. ASSUME NEW from, NEW to \in {"no", "called"} \union Held, Goes(who, from, to)
        PROVE  reopening' \in Stages
    BY <1>1, <2>1 DEF Goes
  <2> QED
    BY <2>1 DEF reopenFromStart, CloseFile, OpenPath, NewReader, ResetSize, Held
<1>4. path # Missing => path \in Files
  BY DEF TailerInv, FilesInv, WriterInv, DiskTypeOK
<1>5. /\ Stays \/ Reopened
      /\ open' \in BOOLEAN /\ live' \in BOOLEAN /\ file' \in Files /\ lastSize' \in {lastSize, size, 0}
  <2>1. CASE CloseFile(who)
    BY <1>1, <2>1 DEF CloseFile, Stays
  <2>2. CASE OpenPath(who)
    BY <1>1, <1>4, <2>2 DEF OpenPath, Stays
  <2>3. CASE NewReader(who)
    BY <1>1, <2>3 DEF NewReader, Reopened
  <2>4. CASE ResetSize(who)
    BY <1>1, <2>4 DEF ResetSize, Stays
  <2> QED
    BY <2>1, <2>2, <2>3, <2>4 DEF reopenFromStart
<1>6. OthersTyped
  BY <1>1, <1>2, <1>3, <1>5 DEF OthersTyped, loop
<1> QED
  BY <1>2, <1>5, <1>6, ReopeningKeeps

\* The tailer's own fields are left alone.
LEMMA FieldsStay ==
  ASSUME TailerInv, UNCHANGED <<disk, tail, printed, first>>,
         watching' \in BOOLEAN, events' \in Seq({"gone", "create", "write"}),
         reopening' \in [Goroutines -> {"no", "called"} \union Held],
         size' \in {size, Len(content[file])},
         pc' \in {"read", "stat line", "set", "stat end", "compare"}
  PROVE  TailerInv'
<1>1. open \in BOOLEAN /\ live \in BOOLEAN /\ file \in Files
  BY DEF TailerInv, TailerTypes, TypeOK
<1>2. UNCHANGED <<file, open, source, live, offset, ahead, lastSize>>
  BY DEF tail
<1>3. Stays /\ OthersTyped
  BY <1>1, <1>2 DEF Stays, OthersTyped
<1> QED
  BY <1>3, ReopeningKeeps

LEMMA TailerStep ==
  ASSUME TailerInv, [Next]_vars
  PROVE  TailerInv'
<1> DEFINE Stages == [Goroutines -> {"no", "called"} \union Held]
<1>1. /\ watching \in BOOLEAN /\ events \in Seq({"gone", "create", "write"}) /\ reopening \in Stages
      /\ pc \in {"read", "stat line", "set", "stat end", "compare"}
  BY DEF TailerInv, TailerTypes, TypeOK
<1>2. ASSUME NEW who \in Goroutines, Goes(who, "no", "called") PROVE reopening' \in Stages
  BY <1>1, <1>2 DEF Goes
<1>3. CASE HandleGone \/ HandleCreate \/ HandleWrite
  <2>1. /\ events # <<>> /\ events' = Tail(events)
        /\ UNCHANGED <<disk, watching, tail, loop, printed, first>>
        /\ UNCHANGED reopening \/ Goes("handler", "no", "called")
    BY <1>3 DEF HandleGone, HandleCreate, HandleWrite, Handle, Reopens
  <2>2. events' \in Seq({"gone", "create", "write"})
    <3> DEFINE E == {"gone", "create", "write"}
    <3>1. events \in Seq(E)
      BY <1>1
    <3> HIDE DEF E
    <3>2. Tail(events) \in Seq(E)
      BY <2>1, <3>1
    <3> QED
      BY <2>1, <3>2 DEF E
  <2>3. reopening' \in Stages
    BY <1>1, <1>2, <2>1 DEF Goroutines
  <2> QED
    BY <1>1, <2>1, <2>2, <2>3, FieldsStay DEF loop
<1>4. CASE handleFsEvent
  <2>1. CASE reopenFromStart("handler")
    <3>1. watching' \in BOOLEAN
      BY <1>1, <2>1 DEF reopenFromStart
    <3> QED
      BY <2>1, <3>1, ReopenStep DEF Goroutines
  <2> QED
    BY <1>3, <1>4, <2>1 DEF handleFsEvent
<1>5. CASE readLoop
  <2>1. CASE ReadLine
    BY <2>1, ReadLineKeeps
  <2>2. CASE ReadEnd
    BY <2>2, ReadEndKeeps
  <2>3. CASE Stat("stat line", "set") \/ Stat("stat end", "compare")
    <3>1. /\ UNCHANGED <<disk, watching, events, reopening, tail, printed, first>>
          /\ size' \in {size, Len(content[file])} /\ pc' \in {"read", "set", "compare"}
      BY <2>3 DEF Stat
    <3> QED
      BY <1>1, <3>1, FieldsStay
  <2>4. CASE SetLastSize
    <3>1. /\ UNCHANGED <<disk, watching, events, reopening, file, open, live, size, printed, first>> /\ Stays
          /\ lastSize' = size /\ pc' = "read"
      BY <2>4 DEF SetLastSize, Stays
    <3>2. OthersTyped
      BY <1>1, <3>1 DEF OthersTyped, TailerInv, TailerTypes, TypeOK
    <3> QED
      BY <3>1, <3>2, ReopeningKeeps
  <2>5. CASE Shrunk
    <3>1. /\ UNCHANGED <<disk, watching, events, tail, size, printed, first>> /\ pc' = "read"
          /\ reopening' \in Stages
      BY <1>2, <2>5 DEF Shrunk, Goroutines
    <3> QED
      BY <1>1, <3>1, FieldsStay
  <2> QED
    BY <1>5, <2>1, <2>2, <2>3, <2>4, <2>5 DEF readLoop
<1>6. CASE follow
  <2>1. CASE Watch
    <3>1. /\ UNCHANGED <<disk, events, reopening, tail, loop, printed, first>> /\ watching' = TRUE
      BY <2>1 DEF Watch
    <3> QED
      BY <1>1, <3>1, FieldsStay DEF loop
  <2>2. CASE reopenFromStart("loop")
    <3>1. watching' \in BOOLEAN
      BY <1>1, <2>2 DEF reopenFromStart
    <3> QED
      BY <2>2, <3>1, ReopenStep DEF Goroutines
  <2> QED
    BY <1>5, <1>6, <2>1, <2>2 DEF follow
<1>7. CASE UNCHANGED vars
  <2>1. UNCHANGED <<disk, watching, events, reopening, tail, loop, printed, first>>
    BY <1>7 DEF vars
  <2> QED
    BY <1>1, <2>1, FieldsStay DEF loop
<1> QED
  BY <1>4, <1>6, <1>7, EnvironmentKeeps DEF Next

LEMMA Invariant == Spec => []TailerInv
  BY TailerInit, TailerStep, PTL DEF Spec

-----------------------------------------------------------------------------
\* Until a file is truncated no line is skipped in a file (main.go:226), for any
\* number of lines and files, and wherever the writes of a reopening
\* (main.go:172) fall between two steps of the read loop.
THEOREM NoneSkipped == Spec => []NothingSkippedInAFile
<1>1. TailerInv => NothingSkippedInAFile
  BY DEF TailerInv
<1> QED
  BY <1>1, Invariant, PTL

\* The reader's offset stays within its file until a truncation, and within what
\* was ever written after one.
THEOREM TypeCorrect == Spec => []TypeOK
<1>1. TailerInv => TypeOK
  BY DEF TailerInv, TailerTypes
<1> QED
  BY <1>1, Invariant, PTL
=============================================================================
