------------------------ MODULE LogAggregatorProofs ------------------------
(***************************************************************************)
(* The ring, for any number of slots: it implements the bounded log, and   *)
(* its answer to a query is the page asked for.  The pipeline, for any     *)
(* number of sources and events and any capacities: what it hands on.      *)
(***************************************************************************)
EXTENDS LogAggregator, FiniteSetTheorems, WellFoundedInduction, TLAPS

-----------------------------------------------------------------------------
(* The remainder by n of a number below 2 * n.                             *)

LEMMA ModSmall == ASSUME NEW n \in Nat \ {0}, NEW x \in 0 .. n - 1
                  PROVE  x % n = x
  OBVIOUS

LEMMA ModOnce == ASSUME NEW n \in Nat \ {0}, NEW x \in 0 .. n - 1
                 PROVE  (x + n) % n = x
  OBVIOUS

\* The slot of the event i pushes ago, without the remainder.
Wrapped(p, i) == IF i < p THEN p - 1 - i ELSE p - 1 - i + Size

LEMMA SlotValue ==
  ASSUME NEW p \in Slots, NEW i \in Slots
  PROVE  (p - 1 - i + Size) % Size = Wrapped(p, i) /\ Wrapped(p, i) \in Slots
<1> USE SizeAssumption DEF Slots, Wrapped
<1>1. CASE i < p
  <2>1. p - 1 - i \in 0 .. Size - 1  BY <1>1
  <2>2. QED  BY <2>1, <1>1, ModOnce
<1>2. CASE ~(i < p)
  <2>1. p - 1 - i + Size \in 0 .. Size - 1  BY <1>2
  <2>2. QED  BY <2>1, <1>2, ModSmall
<1>3. QED  BY <1>1, <1>2

LEMMA NextValue ==
  ASSUME NEW p \in Slots
  PROVE  (p + 1) % Size = IF p + 1 = Size THEN 0 ELSE p + 1
<1> USE SizeAssumption DEF Slots
<1>1. CASE p + 1 = Size
  <2>1. (0 + Size) % Size = 0  BY ModOnce
  <2>2. QED  BY <2>1, <1>1
<1>2. CASE p + 1 # Size
  <2>1. p + 1 \in 0 .. Size - 1  BY <1>2
  <2>2. QED  BY <2>1, <1>2, ModSmall
<1>3. QED  BY <1>1, <1>2

-----------------------------------------------------------------------------
\* The ring keeps its shape: the position stays in the array, whatever is
\* pushed.
THEOREM RingTypeCorrect == RingSpec => []RingTypeOK
<1>1. NewRing => RingTypeOK
  <2> SUFFICES ASSUME NewRing PROVE RingTypeOK
    OBVIOUS
  <2>1. data \in [Slots -> Events \union {Empty}]  BY DEF NewRing
  <2>2. pos \in Slots  BY SizeAssumption DEF NewRing, Slots
  <2>3. full \in BOOLEAN  BY DEF NewRing
  <2>4. QED  BY <2>1, <2>2, <2>3 DEF RingTypeOK
<1>2. RingTypeOK /\ [RingNext]_ring => RingTypeOK'
  <2> SUFFICES ASSUME RingTypeOK, [RingNext]_ring PROVE RingTypeOK'
    OBVIOUS
  <2>1. CASE RingNext
    <3>1. PICK e \in Events : Push(e)  BY <2>1 DEF RingNext
    <3>2. pos' \in Slots
      BY <3>1, NextValue, SizeAssumption DEF Push, RingTypeOK, Slots
    <3>3. data' \in [Slots -> Events \union {Empty}]  BY <3>1 DEF Push, RingTypeOK
    <3>4. full' \in BOOLEAN  BY <3>1 DEF Push, RingTypeOK
    <3>5. QED  BY <3>2, <3>3, <3>4 DEF RingTypeOK
  <2>2. CASE UNCHANGED ring  BY <2>2 DEF ring, RingTypeOK
  <2>3. QED  BY <2>1, <2>2
<1>3. QED  BY <1>1, <1>2, PTL DEF RingSpec

-----------------------------------------------------------------------------
(* The mapping to the bounded log, as a function of the three variables.   *)

CountOf(p, f)    == IF f THEN Size ELSE p
RecentOf(d, p, f) == [i \in 1 .. CountOf(p, f) |-> d[(p - 1 - (CountOf(p, f) - i) + Size) % Size]]

\* A ring's events are in its slots.
LEMMA RecentShape ==
  ASSUME NEW d \in [Slots -> Events \union {Empty}], NEW p \in Slots, NEW f \in BOOLEAN
  PROVE  /\ CountOf(p, f) \in 0 .. Size
         /\ RecentOf(d, p, f) \in Seq(Events \union {Empty})
         /\ Len(RecentOf(d, p, f)) = CountOf(p, f)
<1>1. CountOf(p, f) \in 0 .. Size  BY SizeAssumption DEF CountOf, Slots
<1>2. ASSUME NEW i \in 1 .. CountOf(p, f)
      PROVE  (p - 1 - (CountOf(p, f) - i) + Size) % Size \in Slots
  <2>1. CountOf(p, f) - i \in Slots  BY <1>1, SizeAssumption DEF Slots
  <2> HIDE DEF Slots
  <2>2. QED  BY <2>1, SlotValue, SizeAssumption DEF Slots
<1>3. RecentOf(d, p, f) \in [1 .. CountOf(p, f) -> Events \union {Empty}]
  BY <1>2 DEF RecentOf
<1>4. QED  BY <1>1, <1>3

\* A push appends to the ring's events and drops the oldest of a full ring.
LEMMA PushAppends ==
  ASSUME NEW d \in [Slots -> Events \union {Empty}], NEW p \in Slots, NEW f \in BOOLEAN,
         NEW e \in Events,
         NEW d1 \in [Slots -> Events \union {Empty}], d1[p] = e, \A j \in Slots \ {p} : d1[j] = d[j],
         NEW p1 \in Slots, p1 = (p + 1) % Size,
         NEW f1 \in BOOLEAN, f1 <=> (f \/ p1 = 0)
  PROVE  /\ CountOf(p1, f1) = IF CountOf(p, f) < Size THEN CountOf(p, f) + 1 ELSE Size
         /\ \A i \in 1 .. CountOf(p1, f1) :
              RecentOf(d1, p1, f1)[i] =
                IF i = CountOf(p1, f1) THEN e
                ELSE RecentOf(d, p, f)[i + CountOf(p, f) + 1 - CountOf(p1, f1)]
<1> DEFINE n == CountOf(p, f)
           m == CountOf(p1, f1)
<1>1. p1 = IF p + 1 = Size THEN 0 ELSE p + 1
  BY NextValue
<1>2. Size \in Nat \ {0} /\ p \in 0 .. Size - 1 /\ p1 \in 0 .. Size - 1
  BY <1>1, SizeAssumption DEF Slots
<1>3. m = IF n < Size THEN n + 1 ELSE Size
  <2>1. CASE f
    <3>1. f1  BY <2>1
    <3>2. QED  BY <1>2, <2>1, <3>1 DEF CountOf
  <2>2. CASE ~f /\ p1 = 0
    <3>1. f1  BY <2>2
    <3>2. QED  BY <1>1, <1>2, <2>2, <3>1 DEF CountOf
  <2>3. CASE ~f /\ p1 # 0
    <3>1. ~f1  BY <2>3
    <3>2. QED  BY <1>1, <1>2, <2>3, <3>1 DEF CountOf
  <2>4. QED  BY <2>1, <2>2, <2>3
<1>4. n \in 0 .. Size /\ m \in 1 .. Size /\ p1 \in Slots
  BY <1>1, <1>2, <1>3 DEF CountOf, Slots
<1>5. ASSUME NEW i \in 1 .. m
      PROVE  RecentOf(d1, p1, f1)[i] = IF i = m THEN e ELSE RecentOf(d, p, f)[i + n + 1 - m]
  <2> DEFINE back == m - i
  <2>1. back \in 0 .. Size - 1 /\ back \in Slots  BY <1>2, <1>4 DEF Slots
  <2>2. RecentOf(d1, p1, f1)[i] = d1[(p1 - 1 - back + Size) % Size]
    BY DEF RecentOf
  <2>3. (p1 - 1 - back + Size) % Size = Wrapped(p1, back)
    <3> HIDE DEF back
    <3>1. QED  BY <1>4, <2>1, SlotValue
  <2>4. CASE i = m
    <3>1. Wrapped(p1, back) = p  BY <1>1, <1>2, <1>4, <2>4 DEF Wrapped
    <3>2. d1[p] = e  OBVIOUS
    <3>3. QED  BY <2>2, <2>3, <2>4, <3>1, <3>2
  <2>5. CASE i # m
    <3> DEFINE k == back - 1
               s == Wrapped(p, k)
    <3>1. k \in Slots  BY <1>2, <1>4, <2>5 DEF Slots
    <3>2. (p - 1 - k + Size) % Size = s /\ s \in Slots
      <4> HIDE DEF k
      <4>1. QED  BY <3>1, SlotValue
    <3>3. s = Wrapped(p1, back) /\ s # p
      BY <1>1, <1>2, <1>4, <2>1, <2>5 DEF Wrapped
    <3>4. d1[s] = d[s]  BY <3>2, <3>3
    <3>5. i + n + 1 - m \in 1 .. n  BY <1>3, <1>4, <2>5
    <3>6. n - (i + n + 1 - m) = k  BY <1>4
    <3>7. RecentOf(d, p, f)[i + n + 1 - m] = d[s]
      <4>1. RecentOf(d, p, f)[i + n + 1 - m] = d[(p - 1 - (n - (i + n + 1 - m)) + Size) % Size]
        BY <3>5 DEF RecentOf
      <4>2. QED  BY <4>1, <3>2, <3>6
    <3>8. QED  BY <2>2, <2>3, <2>5, <3>3, <3>4, <3>7
  <2>6. QED  BY <2>4, <2>5
<1>6. QED  BY <1>3, <1>5

\* What the bounded log does with one more event, by position.
LEMMA LastOfAppended ==
  ASSUME NEW S, NEW old \in Seq(S), NEW e \in S, Len(old) <= Size,
         NEW new \in Seq(S),
         Len(new) = IF Len(old) < Size THEN Len(old) + 1 ELSE Size,
         \A i \in 1 .. Len(new) :
           new[i] = IF i = Len(new) THEN e ELSE old[i + Len(old) + 1 - Len(new)]
  PROVE  new = Log!LastOf(Append(old, e), Size)
<1> DEFINE added == Append(old, e)
<1>1. /\ added \in Seq(S) /\ Len(added) = Len(old) + 1 /\ added[Len(old) + 1] = e
      /\ \A i \in 1 .. Len(old) : added[i] = old[i]
  OBVIOUS
<1> HIDE DEF added
<1>2. ASSUME NEW i \in 1 .. Len(new) PROVE new[i] = added[i + Len(old) + 1 - Len(new)]
  <2>1. Len(old) \in Nat /\ Len(new) \in Nat  OBVIOUS
  <2>2. CASE i = Len(new)  BY <1>1, <2>1, <2>2
  <2>3. CASE i # Len(new)
    <3>1. i + Len(old) + 1 - Len(new) \in 1 .. Len(old)  BY <2>1, <2>3, SizeAssumption
    <3>2. QED  BY <1>1, <2>3, <3>1
  <2>4. QED  BY <2>2, <2>3
<1>3. CASE Len(old) < Size
  <2>1. Log!LastOf(added, Size) = added  BY <1>1, <1>3, SizeAssumption DEF Log!LastOf
  <2>2. new = added  BY <1>1, <1>2, <1>3, SizeAssumption
  <2>3. QED  BY <2>1, <2>2 DEF added
<1>4. CASE Len(old) = Size
  <2> DEFINE last == SubSeq(added, 2, Size + 1)
  <2>1. Log!LastOf(added, Size) = last  BY <1>1, <1>4, SizeAssumption DEF Log!LastOf
  <2>2. last \in Seq(S) /\ Len(last) = Size /\ \A i \in 1 .. Size : last[i] = added[i + 1]
    BY <1>1, <1>4, SizeAssumption
  <2> HIDE DEF last
  <2>3. new = last  BY <1>1, <1>2, <1>4, <2>2, SizeAssumption
  <2>4. QED  BY <2>1, <2>3 DEF added
<1>5. QED  BY <1>3, <1>4, SizeAssumption

\* Every step of the ring is a step of the bounded log.
LEMMA PushIsAdd ==
  ASSUME RingTypeOK, RingTypeOK', NEW e \in Events, Push(e)
  PROVE  Log!Add(e)
<1>1. /\ data \in [Slots -> Events \union {Empty}] /\ pos \in Slots /\ full \in BOOLEAN
      /\ data' \in [Slots -> Events \union {Empty}] /\ pos' \in Slots /\ full' \in BOOLEAN
  BY DEF RingTypeOK
<1>2. Recent = RecentOf(data, pos, full) /\ Recent' = RecentOf(data', pos', full')
  BY DEF Recent, RecentOf, Count, CountOf, Slot
<1> DEFINE old == RecentOf(data, pos, full)
           new == RecentOf(data', pos', full')
<1>3. /\ old \in Seq(Events \union {Empty}) /\ Len(old) = CountOf(pos, full)
      /\ CountOf(pos, full) \in 0 .. Size
  BY <1>1, RecentShape
<1>4. new \in Seq(Events \union {Empty}) /\ Len(new) = CountOf(pos', full')
  BY <1>1, RecentShape
<1>5. /\ data'[pos] = e /\ \A j \in Slots \ {pos} : data'[j] = data[j]
      /\ pos' = (pos + 1) % Size /\ (full' <=> full \/ pos' = 0)
  BY <1>1 DEF Push
<1>6. /\ CountOf(pos', full') = IF CountOf(pos, full) < Size THEN CountOf(pos, full) + 1 ELSE Size
      /\ \A i \in 1 .. CountOf(pos', full') :
           new[i] = IF i = CountOf(pos', full') THEN e
                    ELSE old[i + CountOf(pos, full) + 1 - CountOf(pos', full')]
  <2>1. /\ CountOf(pos', full') = IF CountOf(pos, full) < Size THEN CountOf(pos, full) + 1 ELSE Size
        /\ \A i \in 1 .. CountOf(pos', full') :
             RecentOf(data', pos', full')[i] =
               IF i = CountOf(pos', full') THEN e
               ELSE RecentOf(data, pos, full)[i + CountOf(pos, full) + 1 - CountOf(pos', full')]
    <3> HIDE DEF old, new
    <3>1. QED  BY <1>1, <1>5, PushAppends
  <2>2. QED  BY <2>1
<1> HIDE DEF old, new
<1>7. /\ Len(old) <= Size
      /\ Len(new) = IF Len(old) < Size THEN Len(old) + 1 ELSE Size
      /\ \A i \in 1 .. Len(new) :
           new[i] = IF i = Len(new) THEN e ELSE old[i + Len(old) + 1 - Len(new)]
  BY <1>3, <1>4, <1>6, SizeAssumption
<1>8. new = Log!LastOf(Append(old, e), Size)
  BY <1>3, <1>4, <1>7, LastOfAppended, Zenon
<1>9. QED  BY <1>2, <1>8 DEF Log!Add, old, new

\* The ring buffer implements the bounded log: after any number of pushes it
\* holds the last Size events in the order they were pushed.
THEOREM RingIsALog == RingSpec => LogSpec
<1>1. NewRing => Log!Init
  BY DEF NewRing, Log!Init, Recent, Count
<1>2. RingTypeOK /\ RingTypeOK' /\ [RingNext]_ring => [Log!Next]_(Recent)
  <2>1. ASSUME RingTypeOK, RingTypeOK', RingNext PROVE Log!Next
    <3>1. PICK e \in Events : Push(e)  BY <2>1 DEF RingNext
    <3>2. QED  BY <2>1, <3>1, PushIsAdd DEF Log!Next
  <2>2. ASSUME UNCHANGED ring PROVE UNCHANGED Recent
    BY <2>2 DEF ring, Recent, Count, Slot
  <2>3. QED  BY <2>1, <2>2
<1>3. QED  BY <1>1, <1>2, RingTypeCorrect, PTL DEF RingSpec, LogSpec, Log!Spec

-----------------------------------------------------------------------------
(* Induction and counting.  The library's induction rule has an operator   *)
(* as a parameter; for a set of numbers it follows from their order.       *)

LEMMA Induction ==
  ASSUME NEW S, 0 \in S, \A n \in Nat : n \in S => n + 1 \in S
  PROVE  \A n \in Nat : n \in S
<1> SUFFICES ASSUME Nat \ S # {} PROVE FALSE
  OBVIOUS
<1>1. PICK m \in Nat \ S : \A k \in Nat \ S : ~(<<k, m>> \in OpToRel(<, Nat))
  BY NatLessThanWellFounded, WFMin
<1>2. m # 0 /\ m - 1 \in Nat /\ m - 1 < m
  OBVIOUS
<1>3. m - 1 \in S
  BY <1>1, <1>2 DEF OpToRel
<1> QED
  BY <1>2, <1>3

Before(S, i) == {j \in S : j < i}

\* A numbering of a set of numbers that rises with them counts those below one.
LEMMA Counting ==
  ASSUME NEW S \in SUBSET Int, NEW m \in Nat, NEW g \in [S -> 1 .. m],
         \A i, j \in S : i < j => g[i] < g[j],
         \A k \in 1 .. m : \E i \in S : g[i] = k
  PROVE  /\ IsFiniteSet(S) /\ Cardinality(S) = m
         /\ \A i \in S : Cardinality(Before(S, i)) = g[i] - 1
<1>1. \A i, j \in S : g[i] = g[j] => i = j
  <2> SUFFICES ASSUME NEW i \in S, NEW j \in S, g[i] = g[j], i # j PROVE FALSE
    OBVIOUS
  <2>1. i \in Int /\ j \in Int /\ g[i] \in Int /\ g[j] \in Int
    OBVIOUS
  <2>2. i < j \/ j < i
    BY <2>1
  <2> QED
    BY <2>1, <2>2
<1>2. \A n \in 0 .. m : LET T == {i \in S : g[i] <= n} IN IsFiniteSet(T) /\ Cardinality(T) = n
  <2> SUFFICES ASSUME NEW n \in 0 .. m
               PROVE  LET T == {i \in S : g[i] <= n} IN IsFiniteSet(T) /\ Cardinality(T) = n
    OBVIOUS
  <2> DEFINE T == {i \in S : g[i] <= n}
             f == [k \in 1 .. n |-> CHOOSE i \in S : g[i] = k]
  <2>1. \A k \in 1 .. n : f[k] \in S /\ g[f[k]] = k
    <3> SUFFICES ASSUME NEW k \in 1 .. n PROVE f[k] \in S /\ g[f[k]] = k
      OBVIOUS
    <3>1. \E i \in S : g[i] = k
      OBVIOUS
    <3>2. f[k] = CHOOSE i \in S : g[i] = k
      OBVIOUS
    <3> QED
      BY <3>1, <3>2
  <2>2. \A k \in 1 .. n : f[k] \in T
    BY <2>1
  <2>3. \A i \in T : g[i] \in 1 .. n /\ f[g[i]] = i
    <3> SUFFICES ASSUME NEW i \in T PROVE g[i] \in 1 .. n /\ f[g[i]] = i
      OBVIOUS
    <3>1. i \in S /\ g[i] \in 1 .. m /\ g[i] <= n
      OBVIOUS
    <3>2. g[i] \in 1 .. n
      BY <3>1
    <3> HIDE DEF f, T
    <3> QED
      BY <1>1, <2>1, <3>1, <3>2
  <2>4. DOMAIN f = 1 .. n /\ f = [k \in 1 .. n |-> f[k]]
    OBVIOUS
  <2> HIDE DEF f, T
  <2>5. f \in Bijection(1 .. n, T)
    <3>1. f \in [1 .. n -> T]
      BY <2>2, <2>4
    <3>2. \A k, l \in 1 .. n : f[k] = f[l] => k = l
      BY <2>1
    <3>3. \A i \in T : \E k \in 1 .. n : f[k] = i
      BY <2>3
    <3> QED
      BY <2>4, <3>1, <3>2, <3>3 DEF Bijection, Injection, Surjection, IsInjective
  <2>6. IsFiniteSet(1 .. n) /\ Cardinality(1 .. n) = n
    BY FS_Interval
  <2>7. IsFiniteSet(T) /\ Cardinality(T) = n
    BY <2>5, <2>6, FS_Bijection DEF ExistsBijection
  <2> QED
    BY <2>7 DEF T
<1>3. IsFiniteSet(S) /\ Cardinality(S) = m
  <2>1. S = {i \in S : g[i] <= m}
    <3>1. \A i \in S : g[i] \in 1 .. m
      OBVIOUS
    <3>2. \A i \in S : g[i] <= m
      BY <3>1
    <3> QED
      BY <3>2
  <2>2. m \in 0 .. m
    OBVIOUS
  <2> QED
    BY <1>2, <2>1, <2>2
<1>4. ASSUME NEW i \in S PROVE Cardinality(Before(S, i)) = g[i] - 1
  <2>1. g[i] - 1 \in 0 .. m /\ g[i] \in Int
    OBVIOUS
  <2>2. Before(S, i) = {j \in S : g[j] <= g[i] - 1}
    <3>1. ASSUME NEW j \in S PROVE j < i <=> g[j] <= g[i] - 1
      <4>1. i \in Int /\ j \in Int /\ g[j] \in Int
        OBVIOUS
      <4>2. CASE j < i
        BY <2>1, <4>1, <4>2
      <4>3. CASE i < j
        BY <2>1, <4>1, <4>3
      <4>4. CASE i = j
        BY <2>1, <4>1, <4>4
      <4> QED
        BY <4>1, <4>2, <4>3, <4>4
    <3> QED
      BY <3>1 DEF Before
  <2> QED
    BY <1>2, <2>1, <2>2
<1> QED
  BY <1>3, <1>4

-----------------------------------------------------------------------------
(* Pages.  The event i of a query's loop, the newest first; those of the   *)
(* first i that it accepts, and how many they are.                         *)

PageQuery    == [accepts: SUBSET Events, limit: Nat, offset: Nat]
Newest(i)  == data[Slot(i - 1)]
Hits(q, i) == {j \in 1 .. i : Newest(j) \in q.accepts}
Rank(q, i) == Cardinality(Hits(q, i))

LEMMA RankCounts ==
  ASSUME NEW q
  PROVE  /\ \A i \in Nat : IsFiniteSet(Hits(q, i)) /\ Rank(q, i) \in Nat
         /\ Rank(q, 0) = 0
         /\ \A i \in Nat : Rank(q, i + 1) = IF Newest(i + 1) \in q.accepts THEN Rank(q, i) + 1 ELSE Rank(q, i)
         /\ \A i, j \in Nat : i <= j => Rank(q, i) <= Rank(q, j)
<1>1. \A i \in Nat : IsFiniteSet(Hits(q, i)) /\ Rank(q, i) \in Nat
  <2> SUFFICES ASSUME NEW i \in Nat PROVE IsFiniteSet(Hits(q, i)) /\ Rank(q, i) \in Nat
    OBVIOUS
  <2>1. IsFiniteSet(1 .. i)
    BY FS_Interval
  <2>2. IsFiniteSet(Hits(q, i))
    BY <2>1, FS_Subset DEF Hits
  <2> QED
    BY <2>2, FS_CardinalityType DEF Rank
<1>2. Hits(q, 0) = {}
  BY DEF Hits
<1>3. ASSUME NEW i \in Nat
      PROVE  Rank(q, i + 1) = IF Newest(i + 1) \in q.accepts THEN Rank(q, i) + 1 ELSE Rank(q, i)
  <2>1. IsFiniteSet(Hits(q, i)) /\ i + 1 \notin Hits(q, i)
    BY <1>1 DEF Hits
  <2>2. CASE Newest(i + 1) \in q.accepts
    <3>1. Hits(q, i + 1) = Hits(q, i) \union {i + 1}
      BY <2>2 DEF Hits
    <3> QED
      BY <2>1, <2>2, <3>1, FS_AddElement DEF Rank
  <2>3. CASE Newest(i + 1) \notin q.accepts
    <3>1. Hits(q, i + 1) = Hits(q, i)
      BY <2>3 DEF Hits
    <3> QED
      BY <2>3, <3>1 DEF Rank
  <2> QED
    BY <2>2, <2>3
<1>4. ASSUME NEW i \in Nat, NEW j \in Nat, i <= j PROVE Rank(q, i) <= Rank(q, j)
  <2>1. Hits(q, i) \subseteq Hits(q, j)
    BY <1>4 DEF Hits
  <2> QED
    BY <1>1, <2>1, FS_Subset DEF Rank
<1> QED
  BY <1>1, <1>2, <1>3, <1>4, FS_EmptySet DEF Rank

\* An accepted event has a rank of its own.
LEMMA RanksDiffer ==
  ASSUME NEW q, NEW i \in Nat \ {0}, NEW j \in Nat \ {0}, i < j, Newest(j) \in q.accepts
  PROVE  Rank(q, i) < Rank(q, j)
<1>1. j - 1 \in Nat /\ i <= j - 1 /\ (j - 1) + 1 = j
  OBVIOUS
<1>2. Rank(q, j) = Rank(q, j - 1) + 1
  BY <1>1, RankCounts
<1>3. Rank(q, i) <= Rank(q, j - 1) /\ Rank(q, i) \in Nat /\ Rank(q, j - 1) \in Nat
  BY <1>1, RankCounts
<1> QED
  BY <1>2, <1>3

\* A round of the loop.
Round(q, before, ev) ==
  IF ev \in q.accepts /\ (q.limit > 0 => before = <<>> \/ Len(before) < q.limit + q.offset)
    THEN Append(before, ev) ELSE before

\* The recursive function of the loop exists.
LEMMA LoopExists ==
  ASSUME NEW q, NEW n \in Nat
  PROVE  \E f : f = [i \in 0 .. n |-> IF i = 0 THEN <<>> ELSE Round(q, f[i - 1], Newest(i))]
<1> DEFINE Loops(m, f) == f = [i \in 0 .. m |-> IF i = 0 THEN <<>> ELSE Round(q, f[i - 1], Newest(i))]
           S == {m \in Nat : \E f : Loops(m, f)}
<1>1. 0 \in S
  <2>1. Loops(0, [i \in 0 .. 0 |-> <<>>])
    OBVIOUS
  <2> QED
    BY <2>1
<1>2. ASSUME NEW m \in Nat, m \in S PROVE m + 1 \in S
  <2>1. PICK f : Loops(m, f)
    BY <1>2
  <2> DEFINE g == [i \in 0 .. m + 1 |-> IF i <= m THEN f[i] ELSE Round(q, f[m], Newest(m + 1))]
             h == [i \in 0 .. m + 1 |-> IF i = 0 THEN <<>> ELSE Round(q, g[i - 1], Newest(i))]
  <2>2. \A i \in 0 .. m : f[i] = IF i = 0 THEN <<>> ELSE Round(q, f[i - 1], Newest(i))
    BY <2>1
  <2>3. \A i \in 0 .. m : g[i] = f[i]
    OBVIOUS
  <2>4. g[m + 1] = Round(q, f[m], Newest(m + 1))
    OBVIOUS
  <2>5. \A i \in 0 .. m + 1 : h[i] = IF i = 0 THEN <<>> ELSE Round(q, g[i - 1], Newest(i))
    OBVIOUS
  <2>6. DOMAIN g = 0 .. m + 1 /\ g = [i \in 0 .. m + 1 |-> g[i]]
        /\ h = [i \in 0 .. m + 1 |-> h[i]]
    OBVIOUS
  <2> HIDE DEF g, h
  <2>7. ASSUME NEW i \in 0 .. m + 1 PROVE g[i] = h[i]
    <3>1. CASE i \in 0 .. m
      <4>1. i # 0 => i - 1 \in 0 .. m
        BY <3>1
      <4> QED
        BY <2>2, <2>3, <2>5, <3>1, <4>1
    <3>2. CASE i = m + 1
      <4>1. m \in 0 .. m /\ i - 1 = m /\ i # 0
        BY <3>2
      <4> QED
        BY <2>3, <2>4, <2>5, <3>2, <4>1
    <3> QED
      BY <3>1, <3>2
  <2>8. g = h
    BY <2>6, <2>7
  <2>9. Loops(m + 1, g)
    BY <2>8 DEF h
  <2> QED
    BY <2>9
<1> HIDE DEF S
<1>3. n \in S
  BY <1>1, <1>2, Induction
<1> QED
  BY <1>3 DEF S

LEMMA CollectedIsTheLoop ==
  ASSUME NEW q, Count \in Nat
  PROVE  \E f : /\ f = [i \in 0 .. Count |-> IF i = 0 THEN <<>> ELSE Round(q, f[i - 1], Newest(i))]
                /\ Collected(q) = f[Count]
<1> DEFINE loop == CHOOSE f : f = [i \in 0 .. Count |-> IF i = 0 THEN <<>> ELSE Round(q, f[i - 1], Newest(i))]
<1>1. loop = [i \in 0 .. Count |-> IF i = 0 THEN <<>> ELSE Round(q, loop[i - 1], Newest(i))]
  BY LoopExists, Zenon
<1>2. Collected(q) = loop[Count]
  BY Zenon DEF Collected, Round, Newest
<1> QED
  BY <1>1, <1>2

LEMMA AppendAdds ==
  ASSUME NEW D, NEW s \in Seq(D), NEW e \in D
  PROVE  /\ Append(s, e) \in Seq(D) /\ Len(Append(s, e)) = Len(s) + 1
         /\ Append(s, e)[Len(s) + 1] = e
         /\ \A k \in 1 .. Len(s) : Append(s, e)[k] = s[k]
  OBVIOUS

\* What the loop has after i events: the newest of those accepted, at most as
\* many as make it break.
Enough(q, n) == IF q.limit > 0 /\ q.limit + q.offset < n THEN q.limit + q.offset ELSE n

\* f goes round the loop for the newest n events of the ring.
GoesRound(q, n, f) ==
  \A i \in 0 .. n : f[i] = IF i = 0 THEN <<>> ELSE Round(q, f[i - 1], Newest(i))

\* The sequence s that they collect: its k-th is the k-th newest accepted.
IsCollected(q, n, D, s) ==
  /\ s \in Seq(D) /\ Len(s) = Enough(q, Rank(q, n))
  /\ \A k \in 1 .. Len(s) : \E j \in Hits(q, n) : Rank(q, j) = k /\ s[k] = Newest(j)

LEMMA LoopCollects ==
  ASSUME NEW q \in PageQuery, NEW n \in Nat, NEW D, \A i \in 1 .. n : Newest(i) \in D,
         NEW f, GoesRound(q, n, f)
  PROVE  IsCollected(q, n, D, f[n])
<1> DEFINE Right(i) == IsCollected(q, i, D, f[i])
           S == {i \in Nat : i \in 0 .. n => Right(i)}
<1>1. q.limit \in Nat /\ q.offset \in Nat
  BY DEF PageQuery
<1>2. 0 \in S
  <2>1. f[0] = <<>>
    BY DEF GoesRound
  <2>2. Rank(q, 0) = 0
    BY RankCounts
  <2>3. Enough(q, 0) = 0
    BY <1>1 DEF Enough
  <2>4. Right(0)
    <3> HIDE DEF S
    <3>1. <<>> \in Seq(D) /\ Len(<<>>) = 0 /\ 1 .. 0 = {}
      OBVIOUS
    <3> QED
      BY <2>1, <2>2, <2>3, <3>1 DEF IsCollected
  <2> QED
    BY <2>4
<1>3. ASSUME NEW i \in Nat, i \in S PROVE i + 1 \in S
  <2> HIDE DEF Right, IsCollected
  <2> SUFFICES ASSUME i + 1 \in 0 .. n PROVE Right(i + 1)
    OBVIOUS
  <2> DEFINE e == Newest(i + 1)
             r == Rank(q, i)
  <2>1. i \in 0 .. n /\ i + 1 \in 1 .. n /\ (i + 1) - 1 = i /\ i + 1 # 0
    OBVIOUS
  <2>2. Right(i)
    BY <1>3, <2>1
  <2>3. f[i + 1] = Round(q, f[i], e)
    BY <2>1 DEF GoesRound
  <2>4. r \in Nat /\ Rank(q, i + 1) = IF e \in q.accepts THEN r + 1 ELSE r
    BY RankCounts
  <2>5. e \in D
    BY <2>1
  <2>6. Hits(q, i) \subseteq Hits(q, i + 1) /\ (e \in q.accepts => i + 1 \in Hits(q, i + 1))
    BY DEF Hits
  <2>7. f[i] \in Seq(D) /\ Len(f[i]) = Enough(q, r)
        /\ \A k \in 1 .. Len(f[i]) : \E j \in Hits(q, i) : Rank(q, j) = k /\ f[i][k] = Newest(j)
    BY <2>2 DEF Right, IsCollected
  <2> HIDE DEF e, r, S
  <2>8. CASE f[i + 1] = f[i] /\ Enough(q, Rank(q, i + 1)) = Enough(q, r)
    BY <2>6, <2>7, <2>8 DEF Right, IsCollected
  <2>9. CASE e \in q.accepts /\ f[i + 1] = Append(f[i], e) /\ Enough(q, r) = r /\ Enough(q, r + 1) = r + 1
    <3>1. Rank(q, i + 1) = r + 1 /\ Len(f[i]) = r
      BY <2>4, <2>7, <2>9
    <3>2. f[i + 1] \in Seq(D) /\ Len(f[i + 1]) = r + 1 /\ f[i + 1][r + 1] = e
          /\ \A k \in 1 .. r : f[i + 1][k] = f[i][k]
      <4> DEFINE s == f[i]
      <4>1. s \in Seq(D) /\ Len(s) = r
        BY <2>7, <3>1
      <4> HIDE DEF s
      <4>2. /\ Append(s, e) \in Seq(D) /\ Len(Append(s, e)) = r + 1 /\ Append(s, e)[r + 1] = e
            /\ \A k \in 1 .. r : Append(s, e)[k] = s[k]
        BY <2>5, <4>1, AppendAdds
      <4> QED
        BY <2>9, <4>2, Zenon DEF s
    <3>3. ASSUME NEW k \in 1 .. Len(f[i + 1])
          PROVE  \E j \in Hits(q, i + 1) : Rank(q, j) = k /\ f[i + 1][k] = Newest(j)
      <4>1. CASE k = r + 1
        <5>1. i + 1 \in Hits(q, i + 1) /\ Rank(q, i + 1) = k /\ f[i + 1][k] = Newest(i + 1)
          BY <2>6, <2>9, <3>1, <3>2, <4>1 DEF e
        <5> QED
          BY <5>1
      <4>2. CASE k # r + 1
        <5>1. k \in 1 .. r
          BY <2>4, <3>2, <4>2
        <5>2. PICK j \in Hits(q, i) : Rank(q, j) = k /\ f[i][k] = Newest(j)
          BY <2>7, <3>1, <5>1
        <5> QED
          BY <2>6, <3>2, <5>1, <5>2
      <4> QED
        BY <4>1, <4>2
    <3> QED
      BY <2>9, <3>1, <3>2, <3>3 DEF Right, IsCollected
  <2>10. CASE e \notin q.accepts
    BY <2>3, <2>4, <2>8, <2>10 DEF Round
  <2>11. CASE e \in q.accepts
    <3>1. Rank(q, i + 1) = r + 1
      BY <2>4, <2>11
    <3>2. (f[i] = <<>>) <=> Len(f[i]) = 0
      BY <2>7
    <3>3. CASE q.limit = 0 \/ r < q.limit + q.offset
      <4>1. Enough(q, r) = r /\ Enough(q, r + 1) = r + 1
        BY <1>1, <2>4, <3>3 DEF Enough
      <4>2. f[i + 1] = Append(f[i], e)
        <5>1. q.limit > 0 => Len(f[i]) < q.limit + q.offset
          BY <1>1, <2>7, <3>3, <4>1
        <5> QED
          BY <2>3, <2>11, <5>1 DEF Round
      <4> QED
        BY <2>9, <2>11, <4>1, <4>2
    <3>4. CASE q.limit > 0 /\ q.limit + q.offset <= r
      <4>1. Enough(q, r) = q.limit + q.offset /\ Enough(q, r + 1) = q.limit + q.offset
        BY <1>1, <2>4, <3>4 DEF Enough
      <4>2. Len(f[i]) # 0 /\ ~(Len(f[i]) < q.limit + q.offset)
        BY <1>1, <2>7, <3>4, <4>1
      <4>3. f[i + 1] = f[i]
        BY <2>3, <3>2, <3>4, <4>2 DEF Round
      <4> QED
        BY <2>8, <3>1, <4>1, <4>3
    <3> QED
      BY <1>1, <2>4, <3>3, <3>4
  <2> QED
    BY <2>10, <2>11
<1> HIDE DEF S, Right
<1>4. n \in S
  BY <1>2, <1>3, Induction
<1> QED
  BY <1>4 DEF S, Right, IsCollected

LEMMA WholeSequence ==
  ASSUME NEW D, NEW s \in Seq(D)
  PROVE  SubSeq(s, 1, Len(s)) = s
<1> DEFINE l == SubSeq(s, 1, Len(s))
<1>1. l \in Seq(D) /\ Len(l) = Len(s) /\ \A k \in 1 .. Len(s) : l[k] = s[k]
  OBVIOUS
<1> HIDE DEF l
<1>2. l = s
  BY <1>1
<1> QED
  BY <1>2 DEF l

\* Cutting the page out of what was collected, and turning it round.
LEMMA PageIsCutOut ==
  ASSUME NEW D, NEW s \in Seq(D), NEW q \in PageQuery, Collected(q) = s,
         q.offset < Len(s) \/ q.offset = 0, q.limit > 0 => Len(s) <= q.limit + q.offset
  PROVE  /\ DOMAIN Snapshot(q) = 1 .. Len(s) - q.offset
         /\ Snapshot(q) = [k \in 1 .. Len(s) - q.offset |-> s[Len(s) - k + 1]]
<1> DEFINE page == IF 0 < q.offset /\ q.offset < Len(s) THEN SubSeq(s, q.offset + 1, Len(s)) ELSE s
           cut  == IF q.limit > 0 THEN FirstOf(page, q.limit) ELSE page
           m    == Len(s) - q.offset
<1>1. q.limit \in Nat /\ q.offset \in Nat /\ Len(s) \in Nat
  BY DEF PageQuery
<1>2. m \in Nat
  BY <1>1
<1>3. page \in Seq(D) /\ Len(page) = m /\ \A k \in 1 .. m : page[k] = s[q.offset + k]
  <2>1. CASE q.offset = 0
    BY <1>1, <2>1
  <2>2. CASE 0 < q.offset /\ q.offset < Len(s)
    <3>1. page = SubSeq(s, q.offset + 1, Len(s))
      BY <2>2
    <3>2. /\ SubSeq(s, q.offset + 1, Len(s)) \in Seq(D)
          /\ Len(SubSeq(s, q.offset + 1, Len(s))) = Len(s) - q.offset
          /\ \A k \in 1 .. Len(s) - q.offset : SubSeq(s, q.offset + 1, Len(s))[k] = s[q.offset + k]
      <4> DEFINE o == q.offset
      <4>1. o \in Nat /\ o < Len(s)
        BY <1>1, <2>2
      <4> HIDE DEF o
      <4>2. /\ SubSeq(s, o + 1, Len(s)) \in Seq(D) /\ Len(SubSeq(s, o + 1, Len(s))) = Len(s) - o
            /\ \A k \in 1 .. Len(s) - o : SubSeq(s, o + 1, Len(s))[k] = s[o + k]
        BY <1>1, <4>1
      <4> QED
        BY <4>2 DEF o
    <3> QED
      BY <3>1, <3>2, Zenon
  <2> QED
    BY <1>1, <2>1, <2>2
<1> HIDE DEF page
<1>4. cut = page
  <2>1. CASE q.limit > 0
    <3>1. m <= q.limit
      BY <1>1, <2>1
    <3>2. (IF q.limit < Len(page) THEN q.limit ELSE Len(page)) = Len(page)
      BY <1>1, <1>2, <1>3, <3>1
    <3>3. cut = SubSeq(page, 1, Len(page))
      BY <2>1, <3>2 DEF FirstOf
    <3> QED
      BY <1>3, <3>3, WholeSequence
  <2>2. CASE ~(q.limit > 0)
    BY <2>2
  <2> QED
    BY <2>1, <2>2
<1>5. Snapshot(q) = Reverse(cut)
  BY DEF Snapshot, page
<1>6. Snapshot(q) = [k \in 1 .. m |-> page[m - k + 1]]
  BY <1>3, <1>4, <1>5 DEF Reverse
<1>7. \A k \in 1 .. m : page[m - k + 1] = s[Len(s) - k + 1]
  <2> SUFFICES ASSUME NEW k \in 1 .. m PROVE page[m - k + 1] = s[Len(s) - k + 1]
    OBVIOUS
  <2>1. m - k + 1 \in 1 .. m /\ q.offset + (m - k + 1) = Len(s) - k + 1
    <3> DEFINE o == q.offset
               l == Len(s)
    <3>1. o \in Nat /\ l \in Nat /\ m = l - o /\ k \in 1 .. m
      BY <1>1
    <3> HIDE DEF o, l, m
    <3>2. m - k + 1 \in 1 .. m /\ o + (m - k + 1) = l - k + 1
      BY <3>1
    <3> QED
      BY <3>2 DEF o, l
  <2> HIDE DEF m
  <2> QED
    BY <1>3, <2>1
<1> HIDE DEF m, cut
<1>8. Snapshot(q) = [k \in 1 .. m |-> s[Len(s) - k + 1]]
  BY <1>6, <1>7
<1> QED
  BY <1>8 DEF m

\* The oldest event is the last of the loop.
Oldest(i) == Count + 1 - i

LEMMA RecentIsNewest ==
  ASSUME Count \in Nat
  PROVE  DOMAIN Recent = 1 .. Count /\ \A i \in 1 .. Count : Recent[i] = Newest(Oldest(i))
<1>1. ASSUME NEW i \in 1 .. Count PROVE Recent[i] = Newest(Oldest(i))
  <2>1. Recent[i] = data[Slot(Count - i)]
    BY DEF Recent
  <2>2. Oldest(i) - 1 = Count - i
    BY DEF Oldest
  <2> QED
    BY <2>1, <2>2, Zenon DEF Newest
<1> QED
  BY <1>1 DEF Recent

\* What is asked for, by rank.
LEMMA AskedByRank ==
  ASSUME NEW q \in PageQuery, Count \in Nat
  PROVE  Asked(q) = {i \in 1 .. Count : /\ Newest(Oldest(i)) \in q.accepts
                                        /\ q.offset < Rank(q, Oldest(i))
                                        /\ Rank(q, Oldest(i)) <= Enough(q, Rank(q, Count))}
<1> DEFINE Accepted == {i \in DOMAIN Recent : Recent[i] \in q.accepts}
           Later(i) == Cardinality({j \in Accepted : j > i})
<1>1. Asked(q) = {i \in Accepted : Later(i) >= q.offset /\ (q.limit > 0 => Later(i) < q.offset + q.limit)}
  BY Zenon DEF Asked
<1>2. Accepted = {i \in 1 .. Count : Newest(Oldest(i)) \in q.accepts}
  BY RecentIsNewest
<1>3. ASSUME NEW i \in 1 .. Count, Newest(Oldest(i)) \in q.accepts
      PROVE  Later(i) = Rank(q, Oldest(i)) - 1
  <2> DEFINE T == {j \in Accepted : j > i}
             n == Count - i
             f == [k \in Hits(q, n) |-> Oldest(k)]
  <2>1. n \in Nat /\ Oldest(i) = n + 1
    BY DEF Oldest
  <2>2. ASSUME NEW k \in Int PROVE k \in Hits(q, n) <=> Oldest(k) \in T
    <3>1. k \in 1 .. n <=> (Oldest(k) \in 1 .. Count /\ Oldest(k) > i)
      BY <2>1 DEF Oldest
    <3>2. Oldest(Oldest(k)) = k
      BY DEF Oldest
    <3> QED
      BY <1>2, <3>1, <3>2 DEF Hits
  <2>3. \A k \in Int : Oldest(k) \in Int /\ Oldest(Oldest(k)) = k
    BY DEF Oldest
  <2>4. Hits(q, n) \subseteq Int /\ T \subseteq Int
    BY <1>2 DEF Hits
  <2>5. f = [k \in Hits(q, n) |-> f[k]] /\ DOMAIN f = Hits(q, n)
        /\ \A k \in Hits(q, n) : f[k] = Oldest(k)
    OBVIOUS
  <2> HIDE DEF T, f
  <2>6. f \in Bijection(Hits(q, n), T)
    <3>1. f \in [Hits(q, n) -> T]
      BY <2>2, <2>4, <2>5
    <3>2. \A k, l \in Hits(q, n) : f[k] = f[l] => k = l
      <4> SUFFICES ASSUME NEW k \in Hits(q, n), NEW l \in Hits(q, n), f[k] = f[l] PROVE k = l
        OBVIOUS
      <4>1. Oldest(k) = Oldest(l) /\ k \in Int /\ l \in Int
        BY <2>4, <2>5
      <4> QED
        BY <2>3, <4>1
    <3>3. \A j \in T : \E k \in Hits(q, n) : f[k] = j
      <4> SUFFICES ASSUME NEW j \in T PROVE \E k \in Hits(q, n) : f[k] = j
        OBVIOUS
      <4>1. j \in Int /\ Oldest(j) \in Int /\ Oldest(Oldest(j)) = j
        BY <2>3, <2>4
      <4>2. Oldest(j) \in Hits(q, n)
        BY <2>2, <4>1
      <4> QED
        BY <2>5, <4>1, <4>2
    <3> QED
      BY <2>5, <3>1, <3>2, <3>3 DEF Bijection, Injection, Surjection, IsInjective
  <2>7. Cardinality(T) = Rank(q, n)
    BY <2>1, <2>6, RankCounts, FS_Bijection DEF ExistsBijection, Rank
  <2>8. Rank(q, n + 1) = Rank(q, n) + 1 /\ Rank(q, n) \in Nat
    BY <1>3, <2>1, RankCounts
  <2> QED
    BY <2>1, <2>7, <2>8 DEF T
<1>4. ASSUME NEW i \in 1 .. Count, Newest(Oldest(i)) \in q.accepts
      PROVE  (Later(i) >= q.offset /\ (q.limit > 0 => Later(i) < q.offset + q.limit))
             <=> (q.offset < Rank(q, Oldest(i)) /\ Rank(q, Oldest(i)) <= Enough(q, Rank(q, Count)))
  <2>1. Oldest(i) \in Nat /\ Oldest(i) <= Count
    BY DEF Oldest
  <2>2. Rank(q, Oldest(i)) \in Nat /\ Rank(q, Count) \in Nat /\ Rank(q, Oldest(i)) <= Rank(q, Count)
    BY <2>1, RankCounts
  <2>3. Later(i) = Rank(q, Oldest(i)) - 1
    BY <1>3, <1>4
  <2>4. q.limit \in Nat /\ q.offset \in Nat
    BY DEF PageQuery
  <2> HIDE DEF Later
  <2> QED
    BY <2>2, <2>3, <2>4 DEF Enough
<1> HIDE DEF Later, Accepted
<1> QED
  BY <1>1, <1>2, <1>4

\* An answer is the page asked for: its rank numbers an event from the newest,
\* its place in the page from the oldest.
LEMMA AnswersPages ==
  ASSUME RingTypeOK, NEW q \in PageQuery, Asked(q) # {} \/ q.offset = 0
  PROVE  Answers(q)
<1>1. Count \in Nat
  BY SizeAssumption DEF Count, RingTypeOK, Slots
<1> DEFINE D == Events \union {Empty}
           R == Rank(q, Count)
           hi == Enough(q, R)
           m == hi - q.offset
           asked == Asked(q)
           rank(i) == Rank(q, Oldest(i))
<1>2. \A i \in 1 .. Count : Newest(i) \in D
  <2> SUFFICES ASSUME NEW i \in 1 .. Count PROVE Newest(i) \in D
    OBVIOUS
  <2>1. Slot(i - 1) \in Slots
    <3>1. i - 1 \in Slots /\ pos \in Slots
      BY SizeAssumption DEF Count, RingTypeOK, Slots
    <3> QED
      BY <3>1, SlotValue DEF Slot
  <2> QED
    BY <2>1 DEF Newest, RingTypeOK
<1>3. PICK f : /\ f = [i \in 0 .. Count |-> IF i = 0 THEN <<>> ELSE Round(q, f[i - 1], Newest(i))]
               /\ Collected(q) = f[Count]
  BY <1>1, CollectedIsTheLoop
<1> DEFINE s == f[Count]
<1> HIDE DEF D
<1>4. /\ s \in Seq(D) /\ Len(s) = hi
      /\ \A k \in 1 .. hi : \E j \in Hits(q, Count) : Rank(q, j) = k /\ s[k] = Newest(j)
  <2>1. GoesRound(q, Count, f)
    BY <1>3 DEF GoesRound
  <2>2. \A i \in 1 .. Count : Newest(i) \in D
    BY <1>2
  <2>3. IsCollected(q, Count, D, f[Count])
    <3> HIDE DEF s, hi, R, m, asked, rank
    <3> QED
      BY <1>1, <2>1, <2>2, LoopCollects
  <2> QED
    BY <2>3 DEF IsCollected
<1>5. q.limit \in Nat /\ q.offset \in Nat /\ R \in Nat /\ hi \in Nat /\ hi <= R
      /\ (q.limit > 0 => hi <= q.limit + q.offset)
  <2>1. q.limit \in Nat /\ q.offset \in Nat /\ R \in Nat
    BY <1>1, RankCounts DEF PageQuery
  <2> HIDE DEF R
  <2> QED
    BY <2>1 DEF Enough
<1>6. asked = {i \in 1 .. Count : Newest(Oldest(i)) \in q.accepts /\ q.offset < rank(i) /\ rank(i) <= hi}
  BY <1>1, AskedByRank
<1>7. \A i \in 1 .. Count : rank(i) \in Nat
  <2>1. \A i \in 1 .. Count : Oldest(i) \in Nat
    BY <1>1 DEF Oldest
  <2> QED
    BY <2>1, RankCounts
<1> HIDE DEF R, hi, s, rank, asked
<1>8. q.offset < hi \/ q.offset = 0
  BY <1>5, <1>6, <1>7 DEF asked
<1>9. m \in Nat
  BY <1>5, <1>8
<1>10. Snapshot(q) = [k \in 1 .. m |-> s[hi - k + 1]]
  <2>1. Collected(q) = s
    BY <1>3 DEF s
  <2>2. s \in Seq(D) /\ Len(s) = hi
    BY <1>4
  <2>3. q.offset \in Nat /\ q.limit \in Nat
    BY <1>5
  <2> QED
    BY <1>5, <1>8, <2>1, <2>2, <2>3, PageIsCutOut DEF m
<1> DEFINE g == [i \in asked |-> hi - rank(i) + 1]
<1>11. asked \in SUBSET Int /\ g = [i \in asked |-> g[i]] /\ DOMAIN g = asked
       /\ \A i \in asked : g[i] = hi - rank(i) + 1
  BY <1>1, <1>6
<1> HIDE DEF g, m
<1>12. g \in [asked -> 1 .. m]
  <2>1. \A i \in asked : g[i] \in 1 .. m
    BY <1>5, <1>6, <1>7, <1>11 DEF m
  <2> QED
    BY <1>11, <2>1
<1>13. \A i, j \in 1 .. Count : i < j /\ Newest(Oldest(i)) \in q.accepts => rank(j) < rank(i)
  <2> SUFFICES ASSUME NEW i \in 1 .. Count, NEW j \in 1 .. Count, i < j, Newest(Oldest(i)) \in q.accepts
               PROVE  rank(j) < rank(i)
    OBVIOUS
  <2>1. Oldest(i) \in Nat \ {0} /\ Oldest(j) \in Nat \ {0} /\ Oldest(j) < Oldest(i)
    BY <1>1 DEF Oldest
  <2> QED
    BY <2>1, RanksDiffer DEF rank
<1>14. \A i, j \in asked : i < j => g[i] < g[j]
  <2> SUFFICES ASSUME NEW i \in asked, NEW j \in asked, i < j PROVE g[i] < g[j]
    OBVIOUS
  <2>1. rank(j) < rank(i) /\ rank(i) \in Nat /\ rank(j) \in Nat
    BY <1>6, <1>7, <1>13
  <2> QED
    BY <1>5, <1>11, <2>1
<1>15. ASSUME NEW k \in 1 .. m
       PROVE  \E i \in asked : g[i] = k /\ Recent[i] = s[hi - k + 1]
  <2>1. hi - k + 1 \in 1 .. hi /\ q.offset < hi - k + 1
    BY <1>5, <1>9 DEF m
  <2>2. PICK j \in Hits(q, Count) : Rank(q, j) = hi - k + 1 /\ s[hi - k + 1] = Newest(j)
    BY <1>4, <2>1
  <2>3. j \in 1 .. Count /\ Newest(j) \in q.accepts
    BY DEF Hits
  <2>4. Oldest(j) \in 1 .. Count /\ Oldest(Oldest(j)) = j
    BY <1>1, <2>3 DEF Oldest
  <2>5. rank(Oldest(j)) = hi - k + 1
    BY <2>2, <2>4 DEF rank
  <2>6. Oldest(j) \in asked
    BY <1>5, <1>6, <2>1, <2>3, <2>4, <2>5
  <2>7. g[Oldest(j)] = k
    BY <1>5, <1>11, <2>1, <2>5, <2>6
  <2>8. Recent[Oldest(j)] = s[hi - k + 1]
    BY <1>1, <2>2, <2>4, RecentIsNewest
  <2> QED
    BY <2>6, <2>7, <2>8
<1>16. /\ Cardinality(asked) = m
       /\ \A i \in asked : Cardinality(Before(asked, i)) = g[i] - 1
  <2>1. \A k \in 1 .. m : \E i \in asked : g[i] = k
    BY <1>15
  <2>2. asked \in SUBSET Int
    BY <1>11
  <2> QED
    BY <1>9, <1>12, <1>14, <2>1, <2>2, Counting
<1>17. ASSUME NEW k \in 1 .. m
       PROVE  s[hi - k + 1] = Recent[CHOOSE i \in asked : Cardinality(Before(asked, i)) = k - 1]
  <2> DEFINE c == CHOOSE i \in asked : Cardinality(Before(asked, i)) = k - 1
  <2>1. PICK i \in asked : g[i] = k /\ Recent[i] = s[hi - k + 1]
    BY <1>15
  <2>2. Cardinality(Before(asked, i)) = k - 1
    BY <1>16, <2>1
  <2>3. c \in asked /\ Cardinality(Before(asked, c)) = k - 1
    BY <2>2, Zenon
  <2> HIDE DEF c
  <2>4. g[c] \in Int /\ g[c] - 1 = k - 1
    BY <1>12, <1>16, <2>3
  <2>5. g[c] = k
    BY <2>4
  <2>6. c = i
    <3>1. c \in Int /\ i \in Int
      BY <1>11, <2>3
    <3>2. ~(c < i) /\ ~(i < c)
      BY <1>14, <2>1, <2>3, <2>5
    <3> QED
      BY <3>1, <3>2
  <2> QED
    BY <2>1, <2>6 DEF c
<1>18. Snapshot(q) = [k \in 1 .. Cardinality(asked) |->
                        Recent[CHOOSE i \in asked : Cardinality(Before(asked, i)) = k - 1]]
  BY <1>10, <1>16, <1>17
<1> QED
  BY <1>18 DEF Answers, Before, asked

\* The ring's answer to a query is the page it asks for, wherever the ring has
\* wrapped around and however early the loop stops.
THEOREM PagesAreRight == RingSpec => []SnapshotIsThePage
<1>1. RingTypeOK => SnapshotIsThePage
  <2> SUFFICES ASSUME RingTypeOK, NEW q \in Queries, Asked(q) # {} \/ q.offset = 0 PROVE Answers(q)
    BY DEF SnapshotIsThePage
  <2>1. q \in PageQuery
    BY SizeAssumption DEF Queries, PageQuery
  <2> QED
    BY <2>1, AnswersPages
<1> QED
  BY <1>1, RingTypeCorrect, PTL

-----------------------------------------------------------------------------
(* Sequences.                                                              *)

\* Moving the head of one sequence to the end of another changes nothing in
\* their concatenation.
LEMMA HandOver ==
  ASSUME NEW S, NEW a \in Seq(S), NEW b \in Seq(S), b # <<>>
  PROVE  Append(a, Head(b)) \o Tail(b) = a \o b
<1> DEFINE l == Append(a, Head(b)) \o Tail(b)
           r == a \o b
<1>1. /\ Head(b) = b[1] /\ Head(b) \in S /\ Tail(b) \in Seq(S) /\ Len(Tail(b)) = Len(b) - 1
      /\ Len(b) \in Nat \ {0} /\ Len(a) \in Nat
      /\ \A i \in 1 .. Len(b) - 1 : Tail(b)[i] = b[i + 1]
  OBVIOUS
<1>2. /\ Append(a, Head(b)) \in Seq(S) /\ Len(Append(a, Head(b))) = Len(a) + 1
      /\ Append(a, Head(b))[Len(a) + 1] = b[1]
      /\ \A i \in 1 .. Len(a) : Append(a, Head(b))[i] = a[i]
  BY <1>1
<1>3. l \in Seq(S) /\ r \in Seq(S) /\ Len(l) = Len(a) + Len(b) /\ Len(r) = Len(a) + Len(b)
  BY <1>1, <1>2
<1>4. ASSUME NEW i \in 1 .. Len(r) PROVE l[i] = r[i]
  <2>1. CASE i <= Len(a)  BY <1>1, <1>2, <2>1
  <2>2. CASE i = Len(a) + 1  BY <1>1, <1>2, <2>2
  <2>3. CASE i > Len(a) + 1  BY <1>1, <1>2, <1>3, <2>3
  <2>4. QED  BY <1>1, <1>3, <2>1, <2>2, <2>3
<1> HIDE DEF l, r
<1>5. l = r  BY <1>3, <1>4
<1>6. QED  BY <1>5 DEF l, r

-----------------------------------------------------------------------------
(* Types.                                                                  *)

\* A source's next event, while it has one to send.
SendersInv == \A s \in Sources : source[s] = "sending" => sent[s] < MaxEvents

TypeInv == TypeOK /\ SendersInv

LEMMA UpcomingIsEvent ==
  ASSUME TypeInv, NEW s \in Sources, source[s] = "sending"
  PROVE  Upcoming(s) \in Events
BY BoundsAssumption, EventsAssumption DEF TypeInv, TypeOK, SendersInv, Upcoming

\* The ring keeps its shape with every event pushed.
LEMMA PushKeepsShape ==
  ASSUME RingTypeOK, NEW e \in Events, Push(e)
  PROVE  RingTypeOK'
<1>1. pos' \in Slots
  BY SizeAssumption DEF Push, RingTypeOK, Slots
<1>2. data' \in [Slots -> Events \union {Empty}]
  BY DEF Push, RingTypeOK
<1>3. full' \in BOOLEAN
  BY DEF Push, RingTypeOK
<1>4. QED  BY <1>1, <1>2, <1>3 DEF RingTypeOK

LEMMA TypeInit == Init => TypeInv
<1> SUFFICES ASSUME Init PROVE TypeInv
  OBVIOUS
<1>1. RingTypeOK
  <2>1. pos \in Slots  BY SizeAssumption DEF Init, NewRing, Slots
  <2>2. QED  BY <2>1 DEF Init, NewRing, RingTypeOK
<1>2. SendersInv  BY DEF Init, SendersInv
<1>3. sent \in [Sources -> 0 .. MaxEvents]  BY BoundsAssumption DEF Init
<1>4. out \in Seq(Events) /\ Len(out) <= Capacity /\ log \in Seq(Events)
  BY BoundsAssumption DEF Init
<1>5. QED  BY <1>1, <1>2, <1>3, <1>4 DEF Init, TypeInv, TypeOK

LEMMA TypeStep == TypeInv /\ [Next]_vars => TypeInv'
<1> SUFFICES ASSUME TypeInv, [Next]_vars PROVE TypeInv'
  OBVIOUS
<1> USE DEF TypeInv, TypeOK, SendersInv
<1>1. ASSUME NEW s \in Sources, Produce(s) PROVE TypeInv'
  BY <1>1, BoundsAssumption DEF Produce, ring, RingTypeOK
<1>2. ASSUME NEW s \in Sources, Send(s) PROVE TypeInv'
  <2>1. Upcoming(s) \in Events  BY <1>2, UpcomingIsEvent DEF Send
  <2>2. out' \in Seq(Events) /\ Len(out') <= Capacity
    BY <1>2, <2>1, BoundsAssumption DEF Send, HasRoom
  <2>3. sent' \in [Sources -> 0 .. MaxEvents]
    BY <1>2, BoundsAssumption DEF Send
  <2>4. source' \in [Sources -> {"waiting", "sending", "returned", "broken"}] /\ SendersInv'
    BY <1>2 DEF Send
  <2>5. QED  BY <1>2, <2>2, <2>3, <2>4 DEF Send, ring, RingTypeOK
<1>3. ASSUME NEW s \in Sources, Panic(s) PROVE TypeInv'
  BY <1>3 DEF Panic, ring, RingTypeOK
<1>4. ASSUME NEW s \in Sources, Return(s) \/ Break(s) PROVE TypeInv'
  BY <1>4 DEF Return, Break, ring, RingTypeOK
<1>5. ASSUME FanIn PROVE TypeInv'
  <2>1. Head(out) \in Events /\ Tail(out) \in Seq(Events) /\ Len(Tail(out)) = Len(out) - 1
    BY <1>5 DEF FanIn
  <2>2. RingTypeOK'  BY <1>5, <2>1, PushKeepsShape DEF FanIn
  <2>3. log' \in Seq(Events)  BY <1>5, <2>1 DEF FanIn
  <2>4. out' \in Seq(Events) /\ Len(out') <= Capacity
    BY <1>5, <2>1, BoundsAssumption DEF FanIn
  <2>5. QED  BY <1>5, <2>2, <2>3, <2>4 DEF FanIn
<1>6. ASSUME Cancel \/ Close \/ Exit PROVE TypeInv'
  BY <1>6 DEF Cancel, Close, Exit, ring, RingTypeOK
<1>7. ASSUME UNCHANGED vars PROVE TypeInv'
  BY <1>7 DEF vars, ring, RingTypeOK
<1>8. QED  BY <1>1, <1>2, <1>3, <1>4, <1>5, <1>6, <1>7 DEF Next

\* The channel never holds more than its capacity, whoever sends, and the
\* ring keeps its shape.
THEOREM TypeCorrect == Spec => []TypeOK
<1>1. TypeInv => TypeOK  BY DEF TypeInv
<1>2. QED  BY <1>1, TypeInit, TypeStep, PTL DEF Spec

-----------------------------------------------------------------------------
(* Once and in order.                                                      *)

\* OnceInOrder of a sequence and of the counts of what was sent.
Numbered(seq, count) ==
  /\ \A i \in DOMAIN seq : seq[i].n <= count[seq[i].source]
  /\ \A s \in Sources : \A k \in 1 .. count[s] :
       \E i \in DOMAIN seq : seq[i] = [source |-> s, n |-> k]
  /\ \A i, j \in DOMAIN seq : i < j /\ seq[i].source = seq[j].source => seq[i].n < seq[j].n

LEMMA NumberedGrows ==
  ASSUME NEW seq \in Seq(Events), NEW count \in [Sources -> 0 .. MaxEvents],
         NEW s \in Sources, count[s] < MaxEvents, Numbered(seq, count)
  PROVE  Numbered(Append(seq, [source |-> s, n |-> count[s] + 1]), [count EXCEPT ![s] = @ + 1])
<1> DEFINE e    == [source |-> s, n |-> count[s] + 1]
           new  == Append(seq, e)
           more == [count EXCEPT ![s] = @ + 1]
<1> USE BoundsAssumption
<1>0. e \in Events  BY EventsAssumption
<1>1. /\ Len(seq) \in Nat /\ DOMAIN new = 1 .. Len(seq) + 1 /\ DOMAIN seq = 1 .. Len(seq)
      /\ new[Len(seq) + 1] = e /\ \A i \in 1 .. Len(seq) : new[i] = seq[i] /\ seq[i] \in Events
  <2> HIDE DEF e
  <2>1. QED  BY <1>0
<1>2. /\ more \in [Sources -> Nat] /\ more[s] = count[s] + 1
      /\ \A t \in Sources : t # s => more[t] = count[t]
      /\ \A t \in Sources : count[t] \in Nat /\ more[t] >= count[t]
  OBVIOUS
<1>3. \A i \in 1 .. Len(seq) : seq[i].source \in Sources /\ seq[i].n \in Nat \ {0}
  BY <1>1, EventsAssumption
<1>4. e.source = s /\ e.n = count[s] + 1  OBVIOUS
<1> HIDE DEF new, more, e
<1>5. ASSUME NEW i \in DOMAIN new PROVE new[i].n <= more[new[i].source]
  <2>1. CASE i = Len(seq) + 1  BY <1>1, <1>2, <1>4, <2>1
  <2>2. CASE i # Len(seq) + 1
    <3>1. i \in 1 .. Len(seq) /\ new[i] = seq[i]  BY <1>1, <2>2
    <3>2. seq[i].n <= count[seq[i].source]  BY <1>1, <3>1 DEF Numbered
    <3>3. QED  BY <1>2, <1>3, <3>1, <3>2
  <2>3. QED  BY <2>1, <2>2
<1>6. ASSUME NEW t \in Sources, NEW k \in 1 .. more[t]
      PROVE  \E i \in DOMAIN new : new[i] = [source |-> t, n |-> k]
  <2>1. CASE t = s /\ k = count[s] + 1
    BY <1>1, <2>1 DEF e
  <2>2. CASE ~(t = s /\ k = count[s] + 1)
    <3>1. k \in 1 .. count[t]  BY <1>2, <2>2
    <3>2. PICK i \in DOMAIN seq : seq[i] = [source |-> t, n |-> k]  BY <3>1 DEF Numbered
    <3>3. i \in DOMAIN new /\ new[i] = seq[i]  BY <1>1, <3>2
    <3>4. QED  BY <3>2, <3>3
  <2>3. QED  BY <2>1, <2>2
<1>7. ASSUME NEW i \in DOMAIN new, NEW j \in DOMAIN new, i < j, new[i].source = new[j].source
      PROVE  new[i].n < new[j].n
  <2>1. i \in 1 .. Len(seq) /\ new[i] = seq[i]  BY <1>1, <1>7
  <2>2. CASE j = Len(seq) + 1
    <3>1. seq[i].source = s  BY <1>1, <1>4, <1>7, <2>1, <2>2
    <3>2. seq[i].n <= count[s]  BY <1>1, <2>1, <3>1 DEF Numbered
    <3>3. QED  BY <1>1, <1>2, <1>3, <1>4, <2>1, <2>2, <3>2
  <2>3. CASE j # Len(seq) + 1
    <3>1. j \in 1 .. Len(seq) /\ new[j] = seq[j]  BY <1>1, <2>3
    <3>2. QED  BY <1>1, <1>7, <2>1, <3>1 DEF Numbered
  <2>4. QED  BY <2>2, <2>3
<1>8. Numbered(new, more)  BY <1>5, <1>6, <1>7 DEF Numbered
<1>9. QED  BY <1>8 DEF new, more, e

\* What a source has sent is handed on once each and in its order, however
\* many sources share the channel, and nothing else is.
THEOREM HandedOnInOrder == Spec => []OnceInOrder
<1>1. Init => OnceInOrder
  BY DEF Init, OnceInOrder, Onwards
<1>2. TypeInv /\ OnceInOrder /\ [Next]_vars => OnceInOrder'
  <2> SUFFICES ASSUME TypeInv, OnceInOrder, [Next]_vars PROVE OnceInOrder'
    OBVIOUS
  <2>1. log \in Seq(Events) /\ out \in Seq(Events) /\ sent \in [Sources -> 0 .. MaxEvents]
    BY DEF TypeInv, TypeOK
  <2>2. Numbered(log \o out, sent)
    BY DEF OnceInOrder, Onwards, Numbered
  <2>3. SUFFICES Numbered((log \o out)', sent')
    BY DEF OnceInOrder, Onwards, Numbered
  <2>4. ASSUME NEW s \in Sources, Send(s) PROVE Numbered((log \o out)', sent')
    <3>1. Upcoming(s) \in Events /\ sent[s] < MaxEvents
      BY <2>4, UpcomingIsEvent DEF Send, TypeInv, SendersInv
    <3>2. (log \o out)' = Append(log \o out, Upcoming(s))
      BY <2>1, <2>4, <3>1 DEF Send
    <3>3. log \o out \in Seq(Events)  BY <2>1
    <3>4. Numbered(Append(log \o out, Upcoming(s)), [sent EXCEPT ![s] = @ + 1])
      BY <2>1, <2>2, <3>1, <3>3, NumberedGrows DEF Upcoming
    <3>5. QED  BY <2>4, <3>2, <3>4 DEF Send
  <2>5. ASSUME FanIn PROVE Numbered((log \o out)', sent')
    <3>1. (log \o out)' = log \o out  BY <2>1, <2>5, HandOver DEF FanIn
    <3>2. QED  BY <2>2, <2>5, <3>1 DEF FanIn
  <2>6. ASSUME UNCHANGED <<log, out, sent>> PROVE Numbered((log \o out)', sent')
    BY <2>2, <2>6
  <2>7. QED
    BY <2>4, <2>5, <2>6 DEF Next, Produce, Break, Panic, Return, Cancel, Close, Exit, vars
<1>3. QED  BY <1>1, <1>2, TypeInit, TypeStep, PTL DEF Spec
=============================================================================
