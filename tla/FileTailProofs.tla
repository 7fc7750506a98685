--------------------------- MODULE FileTailProofs ---------------------------
(***************************************************************************)
(* Proof that the file tail sends no line twice and none after a later     *)
(* one, whatever the writer and the rotation do.                           *)
(***************************************************************************)
EXTENDS FileTail, FiniteSetTheorems, SequenceTheorems, WellFoundedInduction, TLAPS

-----------------------------------------------------------------------------
(* The end of the first line.                                               *)

\* A non-empty set of numbers up to n has a least one.
LEMMA LeastExists ==
  ASSUME NEW n \in Nat, NEW S \in SUBSET (1 .. n), S # {}
  PROVE  Min(S) \in S
<1> DEFINE Below(x) == {y \in S : y < x}
           Belows == {Below(x) : x \in S}
<1>1. IsFiniteSet(S)
  <2>1. IsFiniteSet(1 .. n)
    BY FS_Interval
  <2> QED
    BY <2>1, FS_Subset
<1>2. Belows \subseteq FiniteSubsetsOf(S)
  BY <1>1, FS_Subset DEF FiniteSubsetsOf
<1>3. Belows # {}
  OBVIOUS
<1>4. IsWellFoundedOn(StrictSubsetOrdering(S), FiniteSubsetsOf(S))
  BY <1>1, FS_StrictSubsetOrderingWellFounded
<1> HIDE DEF Belows
<1>5. PICK U \in Belows : \A V \in Belows : ~(<<V, U>> \in StrictSubsetOrdering(S))
  BY <1>2, <1>3, <1>4, WFMin
<1>6. PICK x \in S : U = Below(x)
  BY DEF Belows
<1>7. \A y \in S : x <= y
  <2> SUFFICES ASSUME NEW y \in S, y < x PROVE FALSE
    OBVIOUS
  <2>1. Below(y) \subseteq Below(x)
    <3>1. \A z \in S : z < y => z < x
      <4> SUFFICES ASSUME NEW z \in S, z < y PROVE z < x
        OBVIOUS
      <4>1. x \in Int /\ y \in Int /\ z \in Int
        OBVIOUS
      <4> QED
        BY <4>1
    <3> QED
      BY <3>1, Zenon
  <2>2. y \in Below(x) /\ y \notin Below(y)
    <3>1. y \in Int /\ ~(y < y)
      OBVIOUS
    <3> QED
      BY <3>1, Zenon
  <2>3. Below(y) # Below(x)
    BY <2>2, Zenon
  <2>4. Below(y) \in Belows
    BY DEF Belows
  <2> HIDE DEF Below
  <2>5. Below(x) \in SUBSET S /\ Below(y) \in SUBSET S
    BY DEF Below
  <2>6. <<Below(y), Below(x)>> \in StrictSubsetOrdering(S)
    BY <2>1, <2>3, <2>5 DEF StrictSubsetOrdering
  <2> QED
    BY <1>5, <1>6, <2>4, <2>6
<1> QED
  BY <1>7 DEF Min

\* The pieces that end a line.
Ends(piece) == piece.part # "start"

LEMMA LineEndEnds ==
  ASSUME NEW pieces \in Seq(Piece), HasLine(pieces)
  PROVE  LineEnd(pieces) \in 1 .. Len(pieces) /\ Ends(pieces[LineEnd(pieces)])
<1> DEFINE I == {i \in 1 .. Len(pieces) : pieces[i].part # "start"}
<1>1. LineEnd(pieces) = IF I # {} THEN Min(I) ELSE 0
  BY DEF LineEnd, SelectInSeq
<1>2. I # {} /\ LineEnd(pieces) = Min(I)
  BY <1>1 DEF HasLine
<1>3. Len(pieces) \in Nat /\ I \in SUBSET (1 .. Len(pieces))
  OBVIOUS
<1> HIDE DEF I
<1>4. Min(I) \in I
  BY <1>2, <1>3, LeastExists
<1> QED
  BY <1>2, <1>4 DEF I, Ends

LEMMA AfterIs ==
  ASSUME NEW pieces \in Seq(Piece), NEW k \in Nat
  PROVE  /\ After(pieces, k) \in Seq(Piece)
         /\ Len(After(pieces, k)) = IF k < Len(pieces) THEN Len(pieces) - k ELSE 0
         /\ \A i \in 1 .. Len(After(pieces, k)) : After(pieces, k)[i] = pieces[k + i]
         /\ \A i \in 1 .. Len(After(pieces, k)) : k + i \in 1 .. Len(pieces)
<1>1. Len(pieces) \in Nat /\ After(pieces, k) = SubSeq(pieces, k + 1, Len(pieces))
  BY DEF After
<1>2. After(pieces, k) \in Seq(Piece)
  BY <1>1, SubSeqProperties
<1>3. Len(After(pieces, k)) = IF k < Len(pieces) THEN Len(pieces) - k ELSE 0
  BY <1>1
<1>4. \A i \in 1 .. Len(After(pieces, k)) : After(pieces, k)[i] = pieces[k + i]
  BY <1>1, <1>3
<1> QED
  BY <1>1, <1>2, <1>3, <1>4

-----------------------------------------------------------------------------
(* The invariant: the complete lines are numbered in the order sent, read   *)
(* ahead, not yet read, not yet written.                                    *)

\* The last line that is complete somewhere, and the pieces written so far at
\* the most.
Completed == IF writing = 0 THEN written ELSE written - 1
Pieces    == IF writing = 0 THEN 2 * written ELSE 2 * written - 1

Rises(pieces)    == \A i, j \in DOMAIN pieces :
                      i < j /\ Ends(pieces[i]) /\ Ends(pieces[j]) => pieces[i].n < pieces[j].n
Complete(pieces) == \A i \in DOMAIN pieces : Ends(pieces[i]) => pieces[i].n <= Completed

FileInv ==
  /\ DiskTypeOK
  /\ writing \in {0, written}
  /\ path = Missing => target < MaxFiles
  /\ \A f \in Files : Rises(content[f]) /\ Complete(content[f]) /\ Len(content[f]) <= Pieces

TailTypes ==
  /\ file \in Files \union {Missing}
  /\ at \in Nat /\ offset \in Nat /\ at <= Pieces /\ offset + Len(ahead) <= at
  /\ ahead \in Seq(Piece)
  /\ reader \in {"nil", "live", "stale"} /\ errors \in 0 .. MaxErrors
  /\ pc \in {"select", "read", "stat", "panicked"} /\ (pc # "select" => file # Missing)
  /\ sent \in Seq([n: Lines, intact: BOOLEAN])
  /\ first \in 1 .. MaxLines + 1

SentInv ==
  /\ \A k \in DOMAIN sent : sent[k].n <= Completed
  /\ \A k \in DOMAIN sent, i \in DOMAIN ahead : Ends(ahead[i]) => sent[k].n < ahead[i].n

AheadInv == Rises(ahead) /\ Complete(ahead)

Live == file # Missing /\ reader = "live"

UnreadInv ==
  Live =>
    \A i \in DOMAIN content[file] :
      i > at /\ Ends(content[file][i]) =>
        /\ \A k \in DOMAIN sent : sent[k].n < content[file][i].n
        /\ \A j \in DOMAIN ahead : Ends(ahead[j]) => ahead[j].n < content[file][i].n

TailInv == FileInv /\ TailTypes /\ SentInv /\ AheadInv /\ UnreadInv /\ InOrderOnce

LEMMA TailInit == Init => TailInv
<1> SUFFICES ASSUME Init PROVE TailInv
  OBVIOUS
<1> USE BoundsAssumption
<1>1. PICK older \in {0, 1} :
        /\ DiskInit(older) /\ first = older + 1
        /\ \/ at = older /\ offset = older /\ reader = "live" /\ errors = 0
           \/ at = 0 /\ offset = 0 /\ reader = "nil" /\ errors = 1 /\ MaxErrors > 0
  BY DEF Init
<1>2. file = 1 /\ ahead = <<>> /\ pc = "select" /\ sent = <<>>
  BY DEF Init
<1> DEFINE lines == [j \in 1 .. older |-> [n |-> j, part |-> "whole"]]
<1>3. /\ content = [i \in Files |-> IF i = 1 THEN lines ELSE <<>>]
      /\ written = older /\ path = 1 /\ target = 1 /\ writing = 0 /\ truncations = 0
      /\ fileOf = [n \in Lines |-> IF n <= older THEN 1 ELSE Missing]
  BY <1>1 DEF DiskInit
<1>4. lines \in Seq(Piece) /\ Len(lines) = older /\ <<>> \in Seq(Piece)
  BY DEF Piece, Lines
<1>5. \A i \in DOMAIN lines : lines[i].n = i
  OBVIOUS
<1> HIDE DEF lines
<1>6. 1 \in Files /\ MaxLines \in Nat /\ MaxLines >= 1
  BY DEF Files
<1>7. DiskTypeOK
  BY <1>3, <1>4, <1>6 DEF DiskTypeOK, Lines, Missing
<1>8. Completed = older /\ Pieces = 2 * older
  BY <1>3 DEF Completed, Pieces
<1>9. \A f \in Files : content[f] \in {lines, <<>>}
  BY <1>3
<1>10. DOMAIN lines = 1 .. older
  BY <1>4
<1>11. FileInv
  BY <1>3, <1>4, <1>5, <1>7, <1>8, <1>9, <1>10 DEF FileInv, Rises, Complete, Missing
<1>12. TailTypes
  <2>1. errors \in 0 .. MaxErrors
    BY <1>1, ErrorsAssumption
  <2> QED
    BY <1>1, <1>2, <1>6, <1>8, <1>4, <2>1 DEF TailTypes, Files, Missing
<1>13. UnreadInv
  BY <1>1, <1>2, <1>3, <1>6, <1>10 DEF UnreadInv, Live
<1> QED
  BY <1>2, <1>11, <1>12, <1>13 DEF TailInv, SentInv, AheadInv, Rises, Complete, InOrderOnce

LEMMA Numbered ==
  ASSUME NEW pieces \in Seq(Piece)
  PROVE  \A i \in DOMAIN pieces : pieces[i].n \in Int
<1>1. \A i \in DOMAIN pieces : pieces[i] \in Piece
  OBVIOUS
<1>2. \A piece \in Piece : piece.n \in Int
  BY DEF Piece, Lines
<1> QED
  BY <1>1, <1>2

LEMMA SentNumbered ==
  ASSUME TailTypes
  PROVE  \A k \in DOMAIN sent : sent[k].n \in Int
<1> DEFINE S == [n: Lines, intact: BOOLEAN]
<1>1. sent \in Seq(S)
  BY DEF TailTypes
<1>2. \A r \in S : r.n \in Int
  BY DEF Lines
<1> HIDE DEF S
<1>3. \A k \in DOMAIN sent : sent[k] \in S
  BY <1>1
<1> QED
  BY <1>2, <1>3

\* A piece more in the file the writer has open: it ends a line only if that
\* one is new.
LEMMA PutKeeps ==
  ASSUME TailInv, NEW piece \in Piece, Put(piece),
         written' \in 0 .. MaxLines, writing' \in {0, written'}, Pieces' >= Pieces + 1,
         Completed' = IF Ends(piece) THEN Completed + 1 ELSE Completed,
         Ends(piece) => piece.n = Completed + 1,
         UNCHANGED tail
  PROVE  TailInv'
<1> USE BoundsAssumption
<1>1. /\ content' = [content EXCEPT ![target] = Append(@, piece)]
      /\ fileOf' = [fileOf EXCEPT ![piece.n] = target]
      /\ UNCHANGED <<path, target, truncations>>
  BY DEF Put
<1>2. target \in Files /\ content[target] \in Seq(Piece) /\ Len(content[target]) \in Nat
  BY DEF TailInv, FileInv, DiskTypeOK
<1>3. piece.n \in Lines /\ Completed \in Int /\ Pieces \in Int /\ Completed' \in Int /\ Pieces' \in Int
  BY DEF TailInv, FileInv, DiskTypeOK, Completed, Pieces, Piece
<1>4. /\ content'[target] = Append(content[target], piece)
      /\ \A f \in Files \ {target} : content'[f] = content[f]
  BY <1>1, <1>2 DEF TailInv, FileInv, DiskTypeOK
<1> DEFINE n == Len(content[target]) + 1
<1>5. /\ DOMAIN content[target] = 1 .. Len(content[target]) /\ DOMAIN content'[target] = 1 .. n
      /\ n = Len(content[target]) + 1 /\ content'[target][n] = piece /\ Len(content'[target]) = n
      /\ \A i \in DOMAIN content[target] : content'[target][i] = content[target][i]
  BY <1>2, <1>4
<1>20. /\ \A i \in 1 .. n : i # n => i \in DOMAIN content[target]
       /\ \A i, j \in 1 .. n : i < j => i \in DOMAIN content[target]
  BY <1>2, <1>5
<1> HIDE DEF n
<1>6. Completed <= Completed'
  BY <1>3
<1>7. DiskTypeOK'
  <2>1. content' \in [Files -> Seq(Piece)]
    BY <1>1, <1>2 DEF TailInv, FileInv, DiskTypeOK
  <2>2. fileOf' \in [Lines -> Files \union {Missing}]
    BY <1>1, <1>2, <1>3 DEF TailInv, FileInv, DiskTypeOK
  <2> QED
    BY <1>1, <2>1, <2>2 DEF TailInv, FileInv, DiskTypeOK
<1>8. \A f \in Files : Rises(content'[f]) /\ Complete(content[f])' /\ Len(content'[f]) <= Pieces'
  <2> SUFFICES ASSUME NEW f \in Files
               PROVE  Rises(content'[f]) /\ Complete(content[f])' /\ Len(content'[f]) <= Pieces'
    OBVIOUS
  <2>1. /\ Rises(content[f]) /\ Complete(content[f]) /\ Len(content[f]) <= Pieces
        /\ content[f] \in Seq(Piece) /\ Len(content[f]) \in Nat
    BY DEF TailInv, FileInv, DiskTypeOK
  <2>2. \A i \in DOMAIN content[f] : content[f][i].n \in Int
    BY <2>1, Numbered
  <2>3. CASE f # target
    <3>1. content'[f] = content[f]
      BY <1>4, <2>3
    <3>2. Complete(content[f])'
      <4> SUFFICES ASSUME NEW i \in DOMAIN content[f], Ends(content[f][i])
                   PROVE  content[f][i].n <= Completed'
        BY <3>1 DEF Complete
      <4>1. content[f][i].n \in Int /\ content[f][i].n <= Completed
        BY <2>1, <2>2 DEF Complete
      <4> QED
        BY <1>3, <1>6, <4>1
    <3>3. Len(content'[f]) <= Pieces'
      BY <1>3, <2>1, <3>1
    <3> QED
      BY <2>1, <3>1, <3>2, <3>3
  <2>4. CASE f = target
    <3>1. Len(content'[f]) <= Pieces'
      BY <1>3, <1>5, <2>1, <2>4
    <3>2. \A i \in DOMAIN content[f] : Ends(content[f][i]) => content[f][i].n <= Completed
      BY <2>1 DEF Complete
    <3>3. Complete(content[f])'
      <4> SUFFICES ASSUME NEW i \in 1 .. n, Ends(content'[f][i]) PROVE content'[f][i].n <= Completed'
        BY <1>5, <2>4 DEF Complete
      <4>1. CASE i = n
        BY <1>3, <1>5, <2>4, <4>1
      <4>2. CASE i # n
        <5>1. i \in DOMAIN content[f] /\ content'[f][i] = content[f][i]
          BY <1>5, <1>20, <2>4, <4>2
        <5>2. content[f][i].n \in Int /\ content[f][i].n <= Completed
          BY <2>2, <3>2, <5>1
        <5> QED
          BY <1>3, <1>6, <5>1, <5>2
      <4> QED
        BY <4>1, <4>2
    <3>4. Rises(content'[f])
      <4> SUFFICES ASSUME NEW i \in 1 .. n, NEW j \in 1 .. n, i < j, Ends(content'[f][i]), Ends(content'[f][j])
                   PROVE  content'[f][i].n < content'[f][j].n
        BY <1>5, <2>4 DEF Rises
      <4>1. i \in DOMAIN content[f] /\ content'[f][i] = content[f][i]
        BY <1>5, <1>20, <2>4
      <4>2. CASE j = n
        <5>1. content'[f][j].n = Completed + 1
          BY <1>5, <2>4, <4>2
        <5>2. content[f][i].n \in Int /\ content[f][i].n <= Completed
          BY <2>2, <3>2, <4>1
        <5> QED
          BY <1>3, <4>1, <5>1, <5>2
      <4>3. CASE j # n
        <5>1. j \in DOMAIN content[f] /\ content'[f][j] = content[f][j]
          BY <1>5, <1>20, <2>4, <4>3
        <5> QED
          BY <2>1, <4>1, <5>1 DEF Rises
      <4> QED
        BY <4>2, <4>3
    <3> QED
      BY <3>1, <3>3, <3>4
  <2> QED
    BY <2>3, <2>4
<1>9. FileInv'
  BY <1>1, <1>7, <1>8 DEF TailInv, FileInv
<1>10. TailTypes'
  BY <1>3 DEF TailInv, TailTypes, tail
<1>11. \A k \in DOMAIN sent : sent[k].n \in Int /\ sent[k].n <= Completed
  BY SentNumbered DEF TailInv, SentInv
<1>12. \A i \in DOMAIN ahead : ahead[i].n \in Int /\ (Ends(ahead[i]) => ahead[i].n <= Completed)
  BY Numbered DEF TailInv, TailTypes, AheadInv, Complete
<1>13. SentInv' /\ AheadInv' /\ InOrderOnce'
  BY <1>3, <1>6, <1>11, <1>12 DEF TailInv, SentInv, AheadInv, Rises, Complete, InOrderOnce, tail
<1>14. UnreadInv'
  <2> SUFFICES ASSUME Live, NEW i \in DOMAIN content'[file], i > at, Ends(content'[file][i])
               PROVE  /\ \A k \in DOMAIN sent : sent[k].n < content'[file][i].n
                      /\ \A j \in DOMAIN ahead : Ends(ahead[j]) => ahead[j].n < content'[file][i].n
    BY DEF UnreadInv, Live, tail
  <2>1. file \in Files
    BY DEF TailInv, TailTypes, Live
  <2>2. CASE file # target \/ i # n
    <3>1. i \in DOMAIN content[file] /\ content'[file][i] = content[file][i]
      BY <1>4, <1>5, <1>20, <2>1, <2>2
    <3> QED
      BY <3>1 DEF TailInv, UnreadInv
  <2>3. CASE file = target /\ i = n
    <3>1. content'[file][i].n = Completed + 1
      BY <1>5, <2>3
    <3> QED
      BY <1>3, <1>11, <1>12, <3>1
  <2> QED
    BY <2>2, <2>3
<1> QED
  BY <1>9, <1>10, <1>13, <1>14 DEF TailInv

LEMMA WriteKeeps ==
  ASSUME TailInv, Write, UNCHANGED tail
  PROVE  TailInv'
<1> USE BoundsAssumption
<1>1. written \in 0 .. MaxLines /\ writing \in {0, written}
  BY DEF TailInv, FileInv, DiskTypeOK
<1>2. CASE WriteLine
  <2> DEFINE piece == [n |-> written + 1, part |-> "whole"]
  <2>1. /\ writing = 0 /\ written < MaxLines /\ Put(piece)
        /\ written' = written + 1 /\ writing' = 0
    BY <1>2 DEF WriteLine
  <2>2. piece \in Piece /\ piece.n = written + 1 /\ Ends(piece)
    BY <1>1, <2>1 DEF Piece, Lines, Ends
  <2>3. Completed = written /\ Completed' = written + 1 /\ Pieces' >= Pieces + 1
    BY <1>1, <2>1 DEF Completed, Pieces
  <2> HIDE DEF piece
  <2> QED
    BY <1>1, <2>1, <2>2, <2>3, PutKeeps
<1>3. CASE WriteStart
  <2> DEFINE piece == [n |-> written + 1, part |-> "start"]
  <2>1. /\ writing = 0 /\ written < MaxLines /\ Put(piece)
        /\ written' = written + 1 /\ writing' = written + 1
    BY <1>3 DEF WriteStart
  <2>2. piece \in Piece /\ ~Ends(piece)
    BY <1>1, <2>1 DEF Piece, Lines, Ends
  <2>3. Completed' = Completed /\ Pieces' >= Pieces + 1
    BY <1>1, <2>1 DEF Completed, Pieces
  <2> HIDE DEF piece
  <2> QED
    BY <1>1, <2>1, <2>2, <2>3, PutKeeps
<1>4. CASE WriteEnd
  <2> DEFINE piece == [n |-> writing, part |-> "end"]
  <2>1. /\ writing # 0 /\ Put(piece) /\ writing' = 0 /\ written' = written
    BY <1>4 DEF WriteEnd
  <2>2. piece \in Piece /\ piece.n = written /\ Ends(piece)
    BY <1>1, <2>1 DEF Piece, Lines, Ends
  <2>3. Completed = written - 1 /\ Completed' = written /\ Pieces' >= Pieces + 1
    BY <1>1, <2>1 DEF Completed, Pieces
  <2> HIDE DEF piece
  <2> QED
    BY <1>1, <2>1, <2>2, <2>3, PutKeeps
<1> QED
  BY <1>2, <1>3, <1>4 DEF Write

\* The rotation moves files, or empties one: what is unread is less.
LEMMA RotationKeeps ==
  ASSUME TailInv, MoveAway \/ CreateNew \/ Follow \/ Truncate,
         UNCHANGED tail
  PROVE  TailInv'
<1> USE BoundsAssumption
<1>1. UNCHANGED <<writing, written, fileOf>>
  BY DEF MoveAway, CreateNew, Follow, Truncate
<1>2. Completed' = Completed /\ Pieces' = Pieces
  BY <1>1 DEF Completed, Pieces
<1>3. \A f \in Files : content'[f] = content[f] \/ content'[f] = <<>>
  BY DEF MoveAway, CreateNew, Follow, Truncate, TailInv, FileInv, DiskTypeOK
<1>4. content' \in [Files -> Seq(Piece)]
  <2>1. <<>> \in Seq(Piece)
    OBVIOUS
  <2> QED
    BY <2>1 DEF MoveAway, CreateNew, Follow, Truncate, TailInv, FileInv, DiskTypeOK
<1>5. /\ path' \in Files \union {Missing} /\ target' \in Files
      /\ path' = Missing => target' < MaxFiles
      /\ truncations' \in 0 .. MaxTruncations
  <2>1. /\ path \in Files \union {Missing} /\ target \in Files
        /\ (path = Missing => target < MaxFiles) /\ truncations \in 0 .. MaxTruncations
    BY DEF TailInv, FileInv, DiskTypeOK
  <2>2. CASE MoveAway
    BY <2>1, <2>2 DEF MoveAway
  <2>3. CASE CreateNew
    BY <2>1, <2>3 DEF CreateNew, Files, Missing
  <2>4. CASE Follow
    BY <2>1, <2>4 DEF Follow
  <2>5. CASE Truncate
    BY <2>1, <2>5 DEF Truncate
  <2> QED
    BY <2>2, <2>3, <2>4, <2>5
<1>6. FileInv'
  <2>1. Pieces \in Nat /\ Len(<<>>) = 0 /\ DOMAIN <<>> = {}
    BY DEF TailInv, FileInv, DiskTypeOK, Pieces
  <2>2. \A f \in Files : Rises(content'[f]) /\ Complete(content[f])' /\ Len(content'[f]) <= Pieces
    <3> SUFFICES ASSUME NEW f \in Files
                 PROVE  Rises(content'[f]) /\ Complete(content[f])' /\ Len(content'[f]) <= Pieces
      OBVIOUS
    <3>1. Rises(content[f]) /\ Complete(content[f]) /\ Len(content[f]) <= Pieces
      BY DEF TailInv, FileInv
    <3>2. CASE content'[f] = content[f]
      BY <1>2, <3>1, <3>2 DEF Complete
    <3>3. CASE content'[f] = <<>>
      BY <2>1, <3>3 DEF Complete, Rises
    <3> QED
      BY <1>3, <3>2, <3>3
  <2> QED
    BY <1>1, <1>2, <1>4, <1>5, <2>2 DEF TailInv, FileInv, DiskTypeOK
<1>7. TailTypes' /\ SentInv' /\ AheadInv' /\ InOrderOnce'
  BY <1>2 DEF TailInv, TailTypes, SentInv, AheadInv, Rises, Complete, InOrderOnce, tail
<1>8. UnreadInv'
  <2> SUFFICES ASSUME Live
               PROVE  \A i \in DOMAIN content'[file] :
                        i > at /\ Ends(content'[file][i]) =>
                          /\ \A k \in DOMAIN sent : sent[k].n < content'[file][i].n
                          /\ \A j \in DOMAIN ahead : Ends(ahead[j]) => ahead[j].n < content'[file][i].n
    BY DEF UnreadInv, Live, tail
  <2>1. file \in Files /\ DOMAIN <<>> = {}
    BY DEF TailInv, TailTypes, Live
  <2>2. CASE content'[file] = content[file]
    BY <2>2 DEF TailInv, UnreadInv
  <2>3. CASE content'[file] = <<>>
    BY <2>1, <2>3
  <2> QED
    BY <1>3, <2>1, <2>2, <2>3
<1> QED
  BY <1>6, <1>7, <1>8 DEF TailInv

-----------------------------------------------------------------------------
(* The tail itself.                                                         *)

\* A file is opened at its end, with nothing unread.
LEMMA OpenKeeps ==
  ASSUME TailInv, open, UNCHANGED <<disk, sent, first>>,
         pc' \in {"select", "read", "stat", "panicked"}, pc' # "select" => file' # Missing
  PROVE  TailInv'
<1>1. Completed' = Completed /\ Pieces' = Pieces /\ content' = content
  BY DEF Completed, Pieces, disk
<1>2. FileInv'
  BY <1>1 DEF TailInv, FileInv, DiskTypeOK, disk, Complete
<1>3. CASE path = Missing
  <2>1. file' = Missing /\ UNCHANGED <<reader, at, offset, ahead, errors>>
    BY <1>3 DEF open, NoFile
  <2> QED
    BY <1>1, <1>2, <2>1 DEF TailInv, TailTypes, SentInv, AheadInv, UnreadInv, Live, Complete, InOrderOnce
<1>4. CASE path # Missing
  <2>1. /\ file' = path /\ path \in Files /\ ahead' = <<>>
        /\ at' = Len(content[path]) /\ offset' = Len(content[path])
        /\ reader' = "live" /\ errors' = errors
    BY <1>4 DEF open, TailInv, FileInv, DiskTypeOK
  <2>2. /\ content[path] \in Seq(Piece) /\ Len(content[path]) <= Pieces
        /\ <<>> \in Seq(Piece) /\ Len(<<>>) = 0 /\ DOMAIN <<>> = {}
    BY <2>1 DEF TailInv, FileInv, DiskTypeOK
  <2>3. TailTypes'
    BY <1>1, <2>1, <2>2 DEF TailInv, TailTypes
  <2>4. SentInv' /\ AheadInv' /\ InOrderOnce'
    BY <1>1, <2>1, <2>2 DEF TailInv, SentInv, AheadInv, Rises, Complete, InOrderOnce
  <2>5. UnreadInv'
    BY <1>1, <2>1, <2>2 DEF UnreadInv
  <2> QED
    BY <1>2, <2>3, <2>4, <2>5 DEF TailInv
<1> QED
  BY <1>3, <1>4

\* A failed Seek leaves a file open that the reader does not read.
LEMMA UnsoughtKeeps ==
  ASSUME TailInv, openUnsought, UNCHANGED <<disk, sent, first>>, pc' \in {"select", pc}
  PROVE  TailInv'
<1>1. Completed' = Completed /\ Pieces' = Pieces /\ content' = content
  BY DEF Completed, Pieces, disk
<1>2. FileInv'
  BY <1>1 DEF TailInv, FileInv, DiskTypeOK, disk, Complete
<1>3. /\ file' = path /\ path \in Files /\ path # Missing /\ offset' = 0 /\ UNCHANGED <<at, ahead>>
      /\ reader' \in {"nil", "stale"} /\ errors' = errors + 1 /\ errors < MaxErrors
  BY DEF openUnsought, Fails, TailInv, FileInv, DiskTypeOK
<1>4. TailTypes'
  <2>1. at \in Nat /\ offset \in Nat /\ offset + Len(ahead) <= at /\ Len(ahead) \in Nat
        /\ errors \in 0 .. MaxErrors
    BY DEF TailInv, TailTypes
  <2>2. 0 + Len(ahead) <= at /\ errors + 1 \in 0 .. MaxErrors
    BY <1>3, <2>1, ErrorsAssumption
  <2> QED
    BY <1>1, <1>3, <2>2 DEF TailInv, TailTypes
<1>5. UnreadInv'
  BY <1>3 DEF UnreadInv, Live
<1> QED
  BY <1>1, <1>2, <1>3, <1>4, <1>5 DEF TailInv, SentInv, AheadInv, Complete, InOrderOnce

LEMMA StateKeeps ==
  ASSUME TailInv, UNCHANGED <<disk, file, reader, at, offset, ahead, errors, sent, first>>,
         pc' \in {"select", "read", "stat", "panicked"}, pc' # "select" => file' # Missing
  PROVE  TailInv'
<1>1. Completed' = Completed /\ Pieces' = Pieces /\ content' = content
  BY DEF Completed, Pieces, disk
<1>2. FileInv'
  BY <1>1 DEF TailInv, FileInv, DiskTypeOK, disk, Complete
<1>3. TailTypes'
  BY <1>1 DEF TailInv, TailTypes
<1>4. UnreadInv'
  BY <1>1 DEF TailInv, UnreadInv, Live
<1> QED
  BY <1>1, <1>2, <1>3, <1>4 DEF TailInv, SentInv, AheadInv, Complete, InOrderOnce

\* What the reader has before it after it filled its buffer.
LEMMA FilledIs ==
  ASSUME TailInv, Live, Fill
  PROVE  /\ Filled \in Seq(Piece) /\ Rises(Filled) /\ Complete(Filled)
         /\ \A k \in DOMAIN sent, i \in DOMAIN Filled : Ends(Filled[i]) => sent[k].n < Filled[i].n
         /\ at' \in Nat /\ at' >= at /\ at' <= Pieces /\ offset + Len(Filled) <= at'
         /\ \A i \in DOMAIN content[file] : i > at' /\ Ends(content[file][i]) =>
              \A j \in DOMAIN Filled : Ends(Filled[j]) => Filled[j].n < content[file][i].n
<1>1. file \in Files /\ content[file] \in Seq(Piece) /\ Len(content[file]) \in Nat
  BY DEF TailInv, TailTypes, FileInv, DiskTypeOK, Live
<1>2. /\ ahead \in Seq(Piece) /\ Len(ahead) \in Nat /\ at \in Nat /\ offset \in Nat
      /\ at <= Pieces /\ offset + Len(ahead) <= at
  BY DEF TailInv, TailTypes
<1>3. CASE HasLine(ahead)
  <2>1. Filled = ahead /\ at' = at
    BY <1>3 DEF Filled, Fill
  <2> QED
    BY <1>2, <2>1 DEF TailInv, SentInv, AheadInv, UnreadInv
<1>4. CASE ~HasLine(ahead)
  <2> DEFINE more == After(content[file], at)
  <2>1. Filled = ahead \o more /\ at' = at + Len(more)
    BY <1>4 DEF Filled, Fill
  <2>2. /\ more \in Seq(Piece)
        /\ Len(more) = IF at < Len(content[file]) THEN Len(content[file]) - at ELSE 0
        /\ \A i \in 1 .. Len(more) : more[i] = content[file][at + i]
        /\ \A i \in 1 .. Len(more) : at + i \in 1 .. Len(content[file])
    BY <1>1, <1>2, AfterIs
  <2> HIDE DEF more
  <2>3. /\ Filled \in Seq(Piece) /\ Len(Filled) = Len(ahead) + Len(more) /\ Len(more) \in Nat
        /\ \A i \in 1 .. Len(ahead) : Filled[i] = ahead[i]
        /\ \A i \in Len(ahead) + 1 .. Len(Filled) : i - Len(ahead) \in 1 .. Len(more) /\ Filled[i] = more[i - Len(ahead)]
    <3>1. Filled \in Seq(Piece) /\ Len(Filled) = Len(ahead) + Len(more) /\ Len(more) \in Nat
      <4>1. ahead \o more \in Seq(Piece) /\ Len(ahead \o more) = Len(ahead) + Len(more)
        BY <1>2, <2>2, ConcatProperties
      <4>2. Len(more) \in Nat
        BY <2>2
      <4> QED
        BY <2>1, <4>1, <4>2, Zenon
    <3>2. \A i \in 1 .. Len(ahead) + Len(more) :
            Filled[i] = IF i <= Len(ahead) THEN ahead[i] ELSE more[i - Len(ahead)]
      BY <1>2, <2>1, <2>2, ConcatProperties
    <3> QED
      BY <1>2, <3>1, <3>2
  <2>4. DOMAIN Filled = 1 .. Len(Filled) /\ DOMAIN ahead = 1 .. Len(ahead) /\ DOMAIN content[file] = 1 .. Len(content[file])
    BY <1>1, <1>2, <2>3
  <2>5. \A i \in DOMAIN Filled : i \in DOMAIN ahead \/ i \in Len(ahead) + 1 .. Len(Filled)
    BY <1>2, <2>3, <2>4
  <2>6. ASSUME NEW i \in Len(ahead) + 1 .. Len(Filled)
        PROVE  /\ at + (i - Len(ahead)) \in DOMAIN content[file] /\ at + (i - Len(ahead)) > at
               /\ Filled[i] = content[file][at + (i - Len(ahead))]
    <3> DEFINE l == i - Len(ahead)
    <3>1. l \in 1 .. Len(more) /\ Filled[i] = more[l]
      BY <2>3
    <3> HIDE DEF l
    <3>2. at + l \in DOMAIN content[file] /\ Filled[i] = content[file][at + l]
      BY <2>2, <2>4, <3>1
    <3>3. at + l > at
      BY <1>2, <2>3, <3>1
    <3> QED
      BY <3>2, <3>3 DEF l
  <2>7. Len(content[file]) <= Pieces /\ Pieces \in Int
    BY <1>1 DEF TailInv, FileInv, DiskTypeOK, Pieces
  <2>8. at' \in Nat /\ at' >= at /\ at' <= Pieces /\ offset + Len(Filled) <= at' /\ at' >= Len(content[file])
    BY <1>1, <1>2, <2>1, <2>2, <2>3, <2>7
  <2>9. \A i \in DOMAIN content[file] : ~(i > at')
    BY <1>1, <2>4, <2>8
  <2>10. Rises(content[file]) /\ Complete(content[file]) /\ Rises(ahead) /\ Complete(ahead)
    BY <1>1 DEF TailInv, FileInv, AheadInv
  <2>11. Complete(Filled)
    <3> SUFFICES ASSUME NEW i \in DOMAIN Filled, Ends(Filled[i]) PROVE Filled[i].n <= Completed
      BY DEF Complete
    <3>1. CASE i \in DOMAIN ahead
      BY <2>3, <2>4, <2>10, <3>1 DEF Complete
    <3>2. CASE i \in Len(ahead) + 1 .. Len(Filled)
      BY <2>6, <2>10, <3>2 DEF Complete
    <3> QED
      BY <2>5, <3>1, <3>2
  <2>12. Rises(Filled)
    <3> SUFFICES ASSUME NEW i \in DOMAIN Filled, NEW j \in DOMAIN Filled, i < j, Ends(Filled[i]), Ends(Filled[j])
                 PROVE  Filled[i].n < Filled[j].n
      BY DEF Rises
    <3>1. CASE i \in DOMAIN ahead /\ j \in DOMAIN ahead
      BY <2>3, <2>4, <2>10, <3>1 DEF Rises
    <3>2. CASE i \in DOMAIN ahead /\ j \in Len(ahead) + 1 .. Len(Filled)
      <4>1. Filled[i] = ahead[i]
        BY <2>3, <2>4, <3>2
      <4> DEFINE k == at + (j - Len(ahead))
      <4>2. k \in DOMAIN content[file] /\ k > at /\ Filled[j] = content[file][k]
        BY <2>6, <3>2
      <4> HIDE DEF k
      <4> QED
        BY <3>2, <4>1, <4>2 DEF TailInv, UnreadInv
    <3>3. CASE i \in Len(ahead) + 1 .. Len(Filled) /\ j \in Len(ahead) + 1 .. Len(Filled)
      <4> DEFINE k == at + (i - Len(ahead))
                 l == at + (j - Len(ahead))
      <4>1. /\ k \in DOMAIN content[file] /\ Filled[i] = content[file][k]
            /\ l \in DOMAIN content[file] /\ Filled[j] = content[file][l]
        BY <2>6, <3>3
      <4>2. k < l
        BY <1>2, <2>3, <3>3
      <4> HIDE DEF k, l
      <4> QED
        BY <2>10, <4>1, <4>2 DEF Rises
    <3>4. ~(i \in Len(ahead) + 1 .. Len(Filled) /\ j \in DOMAIN ahead)
      BY <1>2, <2>3, <2>4
    <3> QED
      BY <2>5, <3>1, <3>2, <3>3, <3>4
  <2>13. ASSUME NEW k \in DOMAIN sent, NEW i \in DOMAIN Filled, Ends(Filled[i])
         PROVE  sent[k].n < Filled[i].n
    <3>1. CASE i \in DOMAIN ahead
      BY <2>3, <2>4, <2>13, <3>1 DEF TailInv, SentInv
    <3>2. CASE i \in Len(ahead) + 1 .. Len(Filled)
      <4> DEFINE l == at + (i - Len(ahead))
      <4>1. l \in DOMAIN content[file] /\ l > at /\ Filled[i] = content[file][l]
        BY <2>6, <3>2
      <4> HIDE DEF l
      <4> QED
        BY <2>13, <4>1 DEF TailInv, UnreadInv
    <3> QED
      BY <2>5, <3>1, <3>2
  <2> QED
    BY <2>3, <2>8, <2>9, <2>11, <2>12, <2>13
<1> QED
  BY <1>3, <1>4

\* The end of the file throws the part of a line away.
LEMMA ReadEndKeeps ==
  ASSUME TailInv, ReadEnd
  PROVE  TailInv'
<1>1. /\ Fill /\ ahead' = <<>> /\ pc' = "stat"
      /\ UNCHANGED <<disk, file, reader, offset, errors, sent, first>>
      /\ file # Missing /\ Live
  BY DEF ReadEnd, TailInv, TailTypes, Live
<1>2. Completed' = Completed /\ Pieces' = Pieces /\ content' = content
  BY <1>1 DEF Completed, Pieces, disk
<1>3. <<>> \in Seq(Piece) /\ Len(<<>>) = 0 /\ DOMAIN <<>> = {}
  OBVIOUS
<1>4. /\ at' \in Nat /\ at' >= at /\ at' <= Pieces /\ offset + Len(Filled) <= at'
      /\ Filled \in Seq(Piece) /\ at \in Nat /\ offset \in Nat
  BY <1>1, FilledIs DEF TailInv, TailTypes
<1>5. FileInv'
  BY <1>1, <1>2 DEF TailInv, FileInv, DiskTypeOK, disk, Complete
<1>6. TailTypes'
  <2>1. Len(Filled) \in Nat /\ Pieces \in Int
    BY <1>4 DEF TailInv, FileInv, DiskTypeOK, Pieces
  <2>2. offset + 0 <= at'
    BY <1>4, <2>1
  <2> QED
    BY <1>1, <1>2, <1>3, <1>4, <2>2 DEF TailInv, TailTypes
<1>7. SentInv' /\ AheadInv' /\ InOrderOnce'
  BY <1>1, <1>2, <1>3 DEF TailInv, SentInv, AheadInv, Rises, Complete, InOrderOnce
<1>8. UnreadInv'
  <2>1. file \in Files /\ content[file] \in Seq(Piece)
    BY <1>1 DEF TailInv, TailTypes, FileInv, DiskTypeOK
  <2>2. \A i \in DOMAIN content[file] : i > at' => i > at
    BY <1>4, <2>1
  <2> QED
    BY <1>1, <1>2, <1>3, <2>2 DEF TailInv, UnreadInv, Live
<1> QED
  BY <1>5, <1>6, <1>7, <1>8 DEF TailInv

\* A failed read throws the part of a line away, too, and what is unread is less.
LEMMA ReadErrorKeeps ==
  ASSUME TailInv, NEW k \in Nat, ReadError(k)
  PROVE  TailInv'
<1> DEFINE more == After(content[file], at)
<1>1. /\ k <= Len(more) /\ at' = at + k /\ offset' = offset + Len(ahead) + k
      /\ ahead' = <<>> /\ pc' = "select" /\ errors' = errors + 1 /\ errors < MaxErrors
      /\ UNCHANGED <<disk, file, reader, sent, first>> /\ file # Missing
  BY DEF ReadError, Fails, TailInv, TailTypes
<1>2. Completed' = Completed /\ Pieces' = Pieces /\ content' = content
  BY <1>1 DEF Completed, Pieces, disk
<1>3. <<>> \in Seq(Piece) /\ Len(<<>>) = 0 /\ DOMAIN <<>> = {}
  OBVIOUS
<1>4. FileInv'
  BY <1>1, <1>2 DEF TailInv, FileInv, DiskTypeOK, disk, Complete
<1>5. /\ file \in Files /\ content[file] \in Seq(Piece) /\ Len(content[file]) \in Nat
      /\ Len(content[file]) <= Pieces /\ Pieces \in Int
      /\ at \in Nat /\ offset \in Nat /\ at <= Pieces /\ offset + Len(ahead) <= at /\ Len(ahead) \in Nat
      /\ errors \in 0 .. MaxErrors
  <2>1. file \in Files /\ ahead \in Seq(Piece)
    BY <1>1 DEF TailInv, TailTypes
  <2>2. content[file] \in Seq(Piece) /\ Len(content[file]) <= Pieces
    BY <2>1 DEF TailInv, FileInv, DiskTypeOK
  <2>3. Pieces \in Int
    BY DEF TailInv, FileInv, DiskTypeOK, Pieces
  <2>4. at \in Nat /\ offset \in Nat /\ at <= Pieces /\ offset + Len(ahead) <= at
        /\ errors \in 0 .. MaxErrors
    BY DEF TailInv, TailTypes
  <2> QED
    BY <2>1, <2>2, <2>3, <2>4
<1>6. Len(more) = IF at < Len(content[file]) THEN Len(content[file]) - at ELSE 0
  BY <1>5, AfterIs
<1> HIDE DEF more
<1>7. /\ at' \in Nat /\ at' >= at /\ at' <= Pieces /\ offset' \in Nat /\ offset' + 0 <= at'
      /\ errors' \in 0 .. MaxErrors
  BY <1>1, <1>5, <1>6, ErrorsAssumption
<1>8. TailTypes'
  BY <1>1, <1>2, <1>3, <1>7 DEF TailInv, TailTypes
<1>9. SentInv' /\ AheadInv' /\ InOrderOnce'
  BY <1>1, <1>2, <1>3 DEF TailInv, SentInv, AheadInv, Rises, Complete, InOrderOnce
<1>10. UnreadInv'
  <2>1. DOMAIN content[file] \subseteq Nat
    BY <1>5
  <2>2. \A i \in Nat : i > at' => i > at
    BY <1>5, <1>7
  <2> QED
    BY <1>1, <1>2, <1>3, <2>1, <2>2 DEF TailInv, UnreadInv, Live
<1> QED
  BY <1>4, <1>8, <1>9, <1>10 DEF TailInv

\* A line is sent: it comes after the lines sent and before all others.
LEMMA ReadLineKeeps ==
  ASSUME TailInv, ReadLine
  PROVE  TailInv'
<1> DEFINE end  == LineEnd(Filled)
           line == LineOf(Filled)
           rest == After(Filled, end)
           last == Len(sent) + 1
<1>1. /\ HasLine(Filled) /\ Fill /\ ahead' = rest /\ offset' = offset + end
      /\ sent' = Append(sent, line) /\ UNCHANGED <<disk, file, reader, pc, errors, first>>
      /\ file # Missing /\ Live
  BY DEF ReadLine, TailInv, TailTypes, Live
<1>2. Completed' = Completed /\ Pieces' = Pieces /\ content' = content
  BY <1>1 DEF Completed, Pieces, disk
<1>3. /\ Filled \in Seq(Piece) /\ Rises(Filled) /\ Complete(Filled)
      /\ \A k \in DOMAIN sent, i \in DOMAIN Filled : Ends(Filled[i]) => sent[k].n < Filled[i].n
      /\ at' \in Nat /\ at' >= at /\ at' <= Pieces /\ offset + Len(Filled) <= at'
      /\ \A i \in DOMAIN content[file] : i > at' /\ Ends(content[file][i]) =>
           \A j \in DOMAIN Filled : Ends(Filled[j]) => Filled[j].n < content[file][i].n
  BY <1>1, FilledIs
<1>4. end \in DOMAIN Filled /\ end \in 1 .. Len(Filled) /\ Ends(Filled[end]) /\ Len(Filled) \in Nat
  BY <1>1, <1>3, LineEndEnds
<1>5. line \in [n: Lines, intact: BOOLEAN] /\ line.n = Filled[end].n
  <2>1. Filled[end] \in Piece
    BY <1>3, <1>4
  <2>2. Filled[end].n \in Lines
    BY <2>1 DEF Piece
  <2> QED
    BY <2>2 DEF LineOf
<1>6. /\ rest \in Seq(Piece) /\ Len(rest) = IF end < Len(Filled) THEN Len(Filled) - end ELSE 0
      /\ \A i \in 1 .. Len(rest) : rest[i] = Filled[end + i] /\ end + i \in 1 .. Len(Filled)
  <2>1. end \in Nat
    BY <1>4
  <2> HIDE DEF end
  <2>2. /\ rest \in Seq(Piece) /\ Len(rest) = IF end < Len(Filled) THEN Len(Filled) - end ELSE 0
        /\ \A i \in 1 .. Len(rest) : rest[i] = Filled[end + i]
        /\ \A i \in 1 .. Len(rest) : end + i \in 1 .. Len(Filled)
    BY <1>3, <2>1, AfterIs
  <2> QED
    BY <2>2
<1>7. sent \in Seq([n: Lines, intact: BOOLEAN]) /\ Len(sent) \in Nat
  BY DEF TailInv, TailTypes
<1> HIDE DEF line, rest
<1>8. /\ sent' \in Seq([n: Lines, intact: BOOLEAN]) /\ sent'[last] = line
      /\ \A k \in DOMAIN sent' : k = last \/ (k \in DOMAIN sent /\ k < last /\ sent'[k] = sent[k])
  <2> DEFINE R == [n: Lines, intact: BOOLEAN]
  <2>1. sent \in Seq(R) /\ line \in R
    BY <1>5, <1>7
  <2> HIDE DEF R
  <2>2. sent' \in Seq(R) /\ sent'[last] = line /\ DOMAIN sent' = 1 .. last /\ DOMAIN sent = 1 .. Len(sent)
    BY <1>1, <1>7, <2>1
  <2>3. \A k \in 1 .. Len(sent) : sent'[k] = sent[k]
    BY <1>1, <1>7, <2>1
  <2>4. \A k \in 1 .. last : k = last \/ (k \in 1 .. Len(sent) /\ k < last)
    BY <1>7
  <2> QED
    BY <2>2, <2>3, <2>4 DEF R
<1>9. /\ last \notin DOMAIN sent
      /\ \A k \in DOMAIN sent : k \in 1 .. Len(sent)
  BY <1>7
<1> HIDE DEF last, end
<1>10. \A i \in DOMAIN rest : end + i \in DOMAIN Filled /\ rest[i] = Filled[end + i] /\ end < end + i
  <2>1. DOMAIN rest = 1 .. Len(rest) /\ DOMAIN Filled = 1 .. Len(Filled) /\ Len(rest) \in Nat
    BY <1>3, <1>6
  <2> QED
    BY <1>4, <1>6, <2>1
<1>11. FileInv'
  BY <1>1, <1>2 DEF TailInv, FileInv, DiskTypeOK, disk, Complete
<1>12. TailTypes'
  <2>1. offset \in Nat /\ Pieces \in Int
    BY DEF TailInv, TailTypes, FileInv, DiskTypeOK, Pieces
  <2>2. offset' \in Nat /\ offset' + Len(ahead') <= at'
    <3>1. end \in Nat /\ offset' = offset + end /\ Len(ahead') = Len(rest)
      BY <1>1, <1>4
    <3>2. Len(Filled) \in Nat /\ end <= Len(Filled)
      BY <1>4, <3>1
    <3> HIDE DEF end
    <3>3. end + Len(rest) = Len(Filled)
      <4>1. Len(rest) = IF end < Len(Filled) THEN Len(Filled) - end ELSE 0
        BY <1>6
      <4> QED
        BY <3>1, <3>2, <4>1
    <3> QED
      BY <1>3, <2>1, <3>1, <3>2, <3>3
  <2> QED
    BY <1>1, <1>2, <1>3, <1>6, <1>8, <2>2 DEF TailInv, TailTypes
<1>13. InOrderOnce'
  <2> SUFFICES ASSUME NEW i \in DOMAIN sent', NEW j \in DOMAIN sent', i < j
               PROVE  sent'[i].n < sent'[j].n
    BY DEF InOrderOnce
  <2>1. i \in DOMAIN sent /\ sent'[i] = sent[i]
    <3>1. last \in Nat /\ (j = last \/ j < last) /\ i \in Int /\ j \in Int
      BY <1>7, <1>8 DEF last
    <3> QED
      BY <1>8, <3>1
  <2>2. CASE j = last
    BY <1>3, <1>4, <1>5, <1>8, <2>1, <2>2
  <2>3. CASE j # last
    BY <1>8, <2>1, <2>3 DEF TailInv, InOrderOnce
  <2> QED
    BY <2>2, <2>3
<1>14. SentInv'
  <2>1. ASSUME NEW k \in DOMAIN sent' PROVE sent'[k].n <= Completed
    <3>1. CASE k = last
      BY <1>3, <1>4, <1>5, <1>8, <3>1 DEF Complete
    <3>2. CASE k # last
      BY <1>8, <3>2 DEF TailInv, SentInv
    <3> QED
      BY <3>1, <3>2
  <2>2. ASSUME NEW k \in DOMAIN sent', NEW i \in DOMAIN rest, Ends(rest[i])
        PROVE  sent'[k].n < rest[i].n
    <3>1. CASE k = last
      BY <1>3, <1>4, <1>5, <1>8, <1>10, <2>2, <3>1 DEF Rises
    <3>2. CASE k # last
      BY <1>3, <1>8, <1>10, <2>2, <3>2
    <3> QED
      BY <3>1, <3>2
  <2> QED
    BY <1>1, <1>2, <2>1, <2>2 DEF SentInv
<1>15. AheadInv'
  <2>1. Complete(rest)
    BY <1>3, <1>10 DEF Complete
  <2>2. Rises(rest)
    <3> SUFFICES ASSUME NEW i \in DOMAIN rest, NEW j \in DOMAIN rest, i < j, Ends(rest[i]), Ends(rest[j])
                 PROVE  rest[i].n < rest[j].n
      BY DEF Rises
    <3>1. end + i < end + j
      <4>1. i \in Int /\ j \in Int /\ end \in Int
        BY <1>4, <1>6
      <4> QED
        BY <4>1
    <3> QED
      BY <1>3, <1>10, <3>1 DEF Rises
  <2> QED
    BY <1>1, <1>2, <2>1, <2>2 DEF AheadInv, Complete
<1>16. UnreadInv'
  <2> SUFFICES ASSUME NEW i \in DOMAIN content[file], i > at', Ends(content[file][i])
               PROVE  /\ \A k \in DOMAIN sent' : sent'[k].n < content[file][i].n
                      /\ \A j \in DOMAIN rest : Ends(rest[j]) => rest[j].n < content[file][i].n
    BY <1>1, <1>2 DEF UnreadInv, Live
  <2>1. i > at
    <3>1. file \in Files /\ content[file] \in Seq(Piece) /\ at \in Nat
      BY <1>1 DEF TailInv, TailTypes, FileInv, DiskTypeOK
    <3>2. i \in Nat
      BY <3>1
    <3> QED
      BY <1>3, <3>1, <3>2
  <2>2. ASSUME NEW k \in DOMAIN sent' PROVE sent'[k].n < content[file][i].n
    <3>1. CASE k = last
      BY <1>3, <1>4, <1>5, <1>8, <3>1
    <3>2. CASE k # last
      BY <1>1, <1>8, <2>1, <3>2 DEF TailInv, UnreadInv
    <3> QED
      BY <3>1, <3>2
  <2>3. \A j \in DOMAIN rest : Ends(rest[j]) => rest[j].n < content[file][i].n
    BY <1>3, <1>10
  <2> QED
    BY <2>2, <2>3
<1> QED
  BY <1>11, <1>12, <1>13, <1>14, <1>15, <1>16 DEF TailInv

LEMMA TailStep ==
  ASSUME TailInv, [Next]_vars
  PROVE  TailInv'
<1>1. CASE Environment
  <2>1. CASE Rotate
    BY <2>1, RotationKeeps DEF Rotate
  <2>2. CASE (Write \/ MoveAway \/ Follow \/ Truncate) /\ UNCHANGED tail
    BY <2>2, WriteKeeps, RotationKeeps
  <2> QED
    BY <1>1, <2>1, <2>2 DEF Environment
<1>2. CASE Tick
  <2>1. CASE /\ file # Missing /\ pc' = "read"
             /\ UNCHANGED <<file, reader, at, offset, ahead, errors>>
    BY <1>2, <2>1, StateKeeps DEF Tick
  <2>2. CASE open /\ pc' = IF file' = Missing THEN "select" ELSE "read"
    BY <1>2, <2>2, OpenKeeps DEF Tick
  <2>3. CASE openUnsought /\ UNCHANGED pc
    BY <1>2, <2>3, UnsoughtKeeps DEF Tick
  <2> QED
    BY <1>2, <2>1, <2>2, <2>3 DEF Tick
<1>3. CASE Stat
  <2>1. pc' = "select" /\ UNCHANGED <<disk, sent, first>>
    BY <1>3 DEF Stat
  <2>2. CASE open
    BY <2>1, <2>2, OpenKeeps
  <2>3. CASE openUnsought
    BY <2>1, <2>3, UnsoughtKeeps
  <2>4. CASE UNCHANGED <<file, reader, at, offset, ahead, errors>>
    BY <2>1, <2>4, StateKeeps
  <2> QED
    BY <1>3, <2>2, <2>3, <2>4 DEF Stat
<1>5. CASE ReadClosed \/ ReadNil
  BY <1>5, StateKeeps DEF ReadClosed, ReadNil, TailInv, TailTypes
<1>6. CASE \E k \in Sizes : ReadError(k)
  <2> PICK k \in Sizes : ReadError(k)
    BY <1>6
  <2>1. k \in Nat
    BY BoundsAssumption DEF Sizes
  <2> QED
    BY <2>1, ReadErrorKeeps
<1>4. CASE UNCHANGED vars
  BY <1>4, StateKeeps DEF vars, tail, TailInv, TailTypes
<1> QED
  BY <1>1, <1>2, <1>3, <1>4, <1>5, <1>6, ReadLineKeeps, ReadEndKeeps DEF Next, run

LEMMA Invariant == Spec => []TailInv
  BY TailInit, TailStep, PTL DEF Spec

-----------------------------------------------------------------------------
\* No line is sent twice and none after a later one (filetail.go:75): a file
\* that was rotated or truncated is opened at its end, so nothing that was
\* read comes again, whatever was written meanwhile.
THEOREM SentInOrder == Spec => []InOrderOnce
<1>1. TailInv => InOrderOnce
  BY DEF TailInv
<1> QED
  BY <1>1, Invariant, PTL

\* The offset counts whole lines only (filetail.go:70): it never passes the
\* place read up to, and that never passes what was ever written.
THEOREM TypeCorrect == Spec => []TypeOK
<1>1. TailInv => TypeOK
  <2> SUFFICES ASSUME TailInv PROVE TypeOK
    OBVIOUS
  <2>1. Len(ahead) \in Nat /\ at \in Nat /\ offset \in Nat /\ at <= Pieces /\ offset + Len(ahead) <= at
    BY DEF TailInv, TailTypes
  <2>2. Pieces <= 2 * MaxLines /\ Pieces \in Int
    BY BoundsAssumption DEF TailInv, FileInv, DiskTypeOK, Pieces
  <2>3. at \in Sizes /\ offset \in Sizes /\ offset <= at
    BY <2>1, <2>2, BoundsAssumption DEF Sizes
  <2> QED
    BY <2>3 DEF TailInv, TailTypes, FileInv, TypeOK
<1> QED
  BY <1>1, Invariant, PTL
=============================================================================
