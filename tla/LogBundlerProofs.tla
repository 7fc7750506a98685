-------------------------- MODULE LogBundlerProofs --------------------------
(***************************************************************************)
(* The bundler of logwatcher, for any keys, durations, bundle sizes and    *)
(* capacity of the channel: its types, what becomes of the lines it is     *)
(* given, and what the cooldown is worth.                                  *)
(***************************************************************************)
EXTENDS LogBundler, FiniteSetTheorems, TLAPS

\* The constants, one by one.
LEMMA Bounds == {Cooldown, BundleWindow, BundleMax, Capacity, MaxLines} \subseteq Nat
  BY DurationAssumption, SizeAssumption

Ordered(lines) == \A i, j \in DOMAIN lines : i < j => lines[i] < lines[j]

\* The channel holds the lines of a key in the order they were read, all of
\* them after the last one pushed; a line read since then is in the channel or
\* was refused.
ChannelInv ==
  /\ \A i, j \in DOMAIN eventsCh :
       i < j /\ eventsCh[i].key = eventsCh[j].key => eventsCh[i].n < eventsCh[j].n
  /\ \A i \in DOMAIN eventsCh :
       pushed[eventsCh[i].key] < eventsCh[i].n /\ eventsCh[i].n <= read[eventsCh[i].key]
  /\ \A k \in Keys : pushed[k] <= read[k]
  /\ \A k \in Keys : \A n \in pushed[k] + 1 .. read[k] :
       \/ [key |-> k, n |-> n] \in refused
       \/ \E i \in DOMAIN eventsCh : eventsCh[i] = [key |-> k, n |-> n]

\* A buffer is in order and after everything flush has taken.
GroupInv(k) ==
  /\ Ordered(buffer[k])
  /\ \A n \in NumbersOf(buffer[k]) : n <= pushed[k]
  /\ \A b \in Taken(k) : \A n \in NumbersOf(b.lines) :
       n <= pushed[k] /\ \A m \in NumbersOf(buffer[k]) : n < m

\* A timer that is running, and a bundle about to be stamped, were started by a
\* line that no later alert has seen, unless the key is out of its cooldown.
Since(k, line) == line <= pushed[k] /\ (line <= atAlert[k] \/ lastHit[k] = Cooldown)
TimerInv ==
  /\ quiet = lastHit
  /\ \A k \in Keys : Scheduled(k) => opener[k] > 0 /\ Since(k, opener[k])
  /\ \A b \in unstamped : Since(b.key, b.opener)

\* The bundles of k handed to outFn, and those still before it.
Posts(k) == {b \in sending \union delivered \union failed : b.key = k}
CountInv ==
  \A k \in Keys : /\ unstamped \intersect Posts(k) = {}
                  /\ IsFiniteSet(Posts(k)) /\ alertsSent[k] = Cardinality(Posts(k))

IInv == TypeOK /\ ChannelInv /\ (\A k \in Keys : GroupInv(k)) /\ LostOnlyToTheClip /\ TimerInv /\ CountInv

-----------------------------------------------------------------------------
(* The operators.                                                          *)

\* The numbers of a group are natural numbers, its first line one of them.
LEMMA GroupNumbers ==
  ASSUME NEW lines \in Seq(Numbers)
  PROVE  /\ \A n \in NumbersOf(lines) : n \in Numbers /\ n \in Nat
         /\ lines # <<>> => lines[1] \in NumbersOf(lines)
<1>1. \A i \in DOMAIN lines : lines[i] \in Numbers
  OBVIOUS
<1>2. Numbers \subseteq Nat
  BY Bounds DEF Numbers
<1>3. lines # <<>> => 1 \in DOMAIN lines
  OBVIOUS
<1> QED
  BY <1>1, <1>2, <1>3 DEF NumbersOf

\* A line has a key and a number.
LEMMA LineParts ==
  ASSUME NEW line \in Line
  PROVE  /\ line.key \in Keys /\ line.n \in Numbers /\ line.n \in Nat
         /\ line = [key |-> line.key, n |-> line.n]
  BY Bounds DEF Line, Numbers

LEMMA BundleParts ==
  ASSUME NEW b \in Bundle
  PROVE  /\ b.key \in Keys /\ b.opener \in Nat
         /\ b.lines \in Seq(Numbers) /\ b.lines # <<>>
  BY Bounds DEF Bundle, Numbers

\* A line is grouped when it is in the buffer or in a bundle that was taken.
LEMMA GroupedIs ==
  ASSUME NEW k \in Keys, NEW n
  PROVE  n \in Grouped(k) <=> \/ n \in NumbersOf(buffer[k])
                              \/ \E b \in Taken(k) : n \in NumbersOf(b.lines)
  BY DEF Grouped, Groups

\* appendClip adds the line at the end and drops the first one of a full group.
LEMMA ClipDrops ==
  ASSUME NEW lines \in Seq(Numbers), NEW n \in Numbers, Ordered(lines),
         \A m \in NumbersOf(lines) : m < n, BundleMax > 0 => Len(lines) <= BundleMax
  PROVE  LET new == appendClip(lines, n) IN
         /\ new \in Seq(Numbers) /\ Ordered(new)
         /\ BundleMax > 0 => Len(new) <= BundleMax
         /\ n \in NumbersOf(new)
         /\ \/ /\ BundleMax > 0 => Len(lines) < BundleMax
               /\ NumbersOf(new) = NumbersOf(lines) \union {n}
            \/ /\ BundleMax > 0 /\ Len(lines) = BundleMax /\ Len(new) = BundleMax
               /\ NumbersOf(lines) \subseteq NumbersOf(new) \union {lines[1]}
               /\ NumbersOf(new) \subseteq NumbersOf(lines) \union {n}
               /\ lines[1] < new[1] /\ \A m \in NumbersOf(new) : new[1] <= m
               /\ \A m \in NumbersOf(lines) : lines[1] <= m
<1> USE Bounds
<1> DEFINE more == Append(lines, n)
<1>1. /\ more \in Seq(Numbers) /\ Len(more) = Len(lines) + 1
      /\ \A i \in 1 .. Len(lines) : more[i] = lines[i]
      /\ more[Len(lines) + 1] = n
  OBVIOUS
<1>2. Ordered(more)
  BY SMTT(25), <1>1 DEF Ordered, NumbersOf, Numbers
<1>3. NumbersOf(more) = NumbersOf(lines) \union {n}
  BY <1>1 DEF NumbersOf
<1>4. CASE ~(BundleMax > 0 /\ Len(lines) >= BundleMax)
  BY <1>1, <1>2, <1>3, <1>4 DEF appendClip
<1>5. CASE BundleMax > 0 /\ Len(lines) >= BundleMax
  <2> DEFINE new == SubSeq(more, 2, Len(lines) + 1)
  <2>1. Len(lines) = BundleMax /\ appendClip(lines, n) = new
    BY SMTT(25), <1>1, <1>5 DEF appendClip, LastLines
  <2>2. /\ new \in Seq(Numbers) /\ Len(new) = BundleMax
        /\ \A i \in 1 .. Len(new) : i + 1 \in 1 .. Len(more) /\ new[i] = more[i + 1]
    BY SMTT(25), <1>1, <1>5, <2>1
  <2>0. /\ DOMAIN lines = 1 .. Len(lines) /\ DOMAIN more = 1 .. Len(more)
        /\ DOMAIN new = 1 .. Len(new) /\ Len(lines) \in Nat /\ BundleMax \in Nat
    BY <1>1, <2>2
  <2> HIDE DEF more, new
  <2>3. Ordered(new)
    <3> SUFFICES ASSUME NEW i \in 1 .. Len(new), NEW j \in 1 .. Len(new), i < j
                 PROVE  new[i] < new[j]
      BY <2>0 DEF Ordered
    <3>1. i + 1 \in 1 .. Len(more) /\ j + 1 \in 1 .. Len(more) /\ i + 1 < j + 1
      BY <2>2
    <3>2. more[i + 1] < more[j + 1]
      BY <1>2, <2>0, <3>1 DEF Ordered
    <3> QED
      BY <2>2, <3>2
  <2>4. /\ \A i \in 1 .. Len(new) : new[i] \in NumbersOf(new)
        /\ \A m \in NumbersOf(new) : \E i \in 1 .. Len(new) : m = new[i]
        /\ \A m \in NumbersOf(lines) : \E i \in 1 .. Len(lines) : m = lines[i]
        /\ \A i \in 1 .. Len(lines) : lines[i] \in NumbersOf(lines)
    BY <2>0 DEF NumbersOf
  <2>5. n \in NumbersOf(new)
    <3>1. BundleMax \in 1 .. Len(new) /\ new[BundleMax] = more[BundleMax + 1]
      BY <1>5, <2>0, <2>2
    <3> QED
      BY <1>1, <2>1, <2>4, <3>1
  <2>6. NumbersOf(lines) \subseteq NumbersOf(new) \union {lines[1]}
    <3> SUFFICES ASSUME NEW i \in 1 .. Len(lines), i # 1 PROVE lines[i] \in NumbersOf(new)
      BY <2>4
    <3>1. i - 1 \in 1 .. Len(new) /\ (i - 1) + 1 = i
      BY <2>0, <2>1, <2>2
    <3>2. new[i - 1] = more[(i - 1) + 1]
      BY <2>2, <3>1
    <3> QED
      BY <1>1, <2>4, <3>1, <3>2
  <2>7. NumbersOf(new) \subseteq NumbersOf(lines) \union {n}
    <3> SUFFICES ASSUME NEW i \in 1 .. Len(new) PROVE new[i] \in NumbersOf(lines) \union {n}
      BY <2>4
    <3>1. new[i] = more[i + 1] /\ (i + 1 \in 1 .. Len(lines) \/ i + 1 = Len(lines) + 1)
      BY <2>0, <2>1, <2>2
    <3> QED
      BY <1>1, <2>4, <3>1
  <2>8. lines[1] < new[1] /\ \A m \in NumbersOf(new) : new[1] <= m
    <3>1. 1 \in 1 .. Len(more) /\ 2 \in 1 .. Len(more) /\ 1 \in 1 .. Len(new) /\ 1 \in 1 .. Len(lines)
      BY <1>1, <1>5, <2>0, <2>1, <2>2
    <3>2. new[1] = more[2] /\ more[1] = lines[1] /\ more[1] < more[2]
      BY SMTT(25), <1>1, <1>2, <2>0, <2>2, <3>1 DEF Ordered
    <3>3. \A i \in 1 .. Len(new) : new[i] \in Nat
      BY <2>2 DEF Numbers
    <3>4. ASSUME NEW i \in 1 .. Len(new) PROVE new[1] <= new[i]
      <4>1. CASE i = 1
        BY <3>1, <3>3, <4>1
      <4>2. CASE 1 < i
        <5>1. new[1] < new[i]
          BY <2>0, <2>3, <3>1, <4>2 DEF Ordered
        <5> QED
          BY <3>1, <3>3, <5>1
      <4> QED
        BY <2>0, <4>1, <4>2
    <3> QED
      BY <2>4, <3>2, <3>4
  <2>9. \A m \in NumbersOf(lines) : lines[1] <= m
    BY <1>5 DEF NumbersOf, Ordered, Numbers
  <2> QED
    BY <1>5, <2>1, <2>2, <2>3, <2>5, <2>6, <2>7, <2>8, <2>9
<1> QED
  BY <1>4, <1>5

\* Bundles of one key are at most as many as its lines: no two share a line.
LEMMA FewBundles ==
  ASSUME NEW S \in SUBSET Bundle,
         \A b1, b2 \in S : b1 # b2 => NumbersOf(b1.lines) \intersect NumbersOf(b2.lines) = {}
  PROVE  IsFiniteSet(S) /\ Cardinality(S) \in 0 .. MaxLines
<1>1. IsFiniteSet(Numbers) /\ Cardinality(Numbers) = MaxLines /\ MaxLines \in Nat
  BY Bounds, FS_Interval DEF Numbers
<1> DEFINE top == [b \in S |-> b.lines[1]]
<1>2. \A b \in S : b.lines[1] \in NumbersOf(b.lines) /\ b.lines[1] \in Numbers
  BY DEF Bundle, NumbersOf
<1>3. top \in Injection(S, Numbers)
  BY SMTT(25), <1>2 DEF Injection, IsInjective
<1> QED
  BY <1>1, <1>3, FS_Injection, FS_CardinalityType

-----------------------------------------------------------------------------
(* The steps, one at a time.                                               *)

\* Nothing of a key's groups changes where its buffer, its bundles and what was
\* pushed stay as they are.
LEMMA SameGroups ==
  ASSUME NEW k \in Keys, GroupInv(k), buffer'[k] = buffer[k], Taken(k)' = Taken(k), pushed'[k] = pushed[k]
  PROVE  GroupInv(k)' /\ Groups(k)' = Groups(k) /\ Grouped(k)' = Grouped(k)
  BY DEF GroupInv, Groups, Grouped

\* What LostOnlyToTheClip says of one key.
DisjointBundles(k) ==
  /\ \A b1, b2 \in Taken(k) :
       b1 # b2 => NumbersOf(b1.lines) \intersect NumbersOf(b2.lines) = {}
  /\ \A b \in Taken(k) : NumbersOf(b.lines) \intersect NumbersOf(buffer[k]) = {}
Clipped(k, n) ==
  \E g \in Groups(k) :
    /\ BundleMax > 0 /\ Len(g) = BundleMax /\ n < g[1]
    /\ \A between \in n + 1 .. g[1] - 1 : between \notin Grouped(k)
LostInv(k) ==
  \A n \in 1 .. pushed[k] :
    n \notin Grouped(k) /\ [key |-> k, n |-> n] \notin refused => Clipped(k, n)

LEMMA LostByKey ==
  /\ LostOnlyToTheClip <=> \A k \in Keys : DisjointBundles(k) /\ LostInv(k)
  /\ LostOnlyToTheClip' <=> \A k \in Keys : DisjointBundles(k)' /\ LostInv(k)'
  BY DEF LostOnlyToTheClip, DisjointBundles, LostInv, Clipped

LEMMA SameLost ==
  ASSUME NEW k \in Keys, GroupInv(k), DisjointBundles(k), LostInv(k), buffer'[k] = buffer[k],
         Taken(k)' = Taken(k), pushed'[k] = pushed[k], refused \subseteq refused'
  PROVE  GroupInv(k)' /\ DisjointBundles(k)' /\ LostInv(k)'
<1>1. GroupInv(k)' /\ Groups(k)' = Groups(k) /\ Grouped(k)' = Grouped(k)
  BY SameGroups
<1> QED
  BY <1>1 DEF DisjointBundles, LostInv, Clipped

\* push keeps what it says of the key of the line: the line is after all others
\* of its key, and the lines between were refused.
LEMMA PushKeepsGroups ==
  ASSUME TypeOK, NEW k \in Keys, NEW n \in Numbers, GroupInv(k), DisjointBundles(k), LostInv(k),
         pushed[k] < n,
         \A m \in pushed[k] + 1 .. n - 1 : [key |-> k, n |-> m] \in refused,
         buffer'[k] = appendClip(buffer[k], n), pushed'[k] = n, Taken(k)' = Taken(k),
         UNCHANGED refused
  PROVE  GroupInv(k)' /\ DisjointBundles(k)' /\ LostInv(k)'
<1> DEFINE old == buffer[k]
           new == buffer'[k]
<1>1. /\ old \in Seq(Numbers) /\ pushed[k] \in Nat /\ BundleMax \in Nat /\ n \in Nat
      /\ BundleMax > 0 => Len(old) <= BundleMax
  BY Bounds DEF TypeOK, Numbers
<1>2. /\ \A m \in NumbersOf(old) : m \in Nat /\ m <= pushed[k] /\ m < n
      /\ \A b \in Taken(k) : \A m \in NumbersOf(b.lines) : m \in Nat /\ m <= pushed[k] /\ m < n
  <2>1. \A m \in NumbersOf(old) : m \in Nat
    BY <1>1, GroupNumbers
  <2>2. \A b \in Taken(k) : \A m \in NumbersOf(b.lines) : m \in Nat
    <3>1. \A b \in Taken(k) : b.lines \in Seq(Numbers)
      BY DEF Taken, TypeOK, Bundle
    <3> QED
      BY <3>1, GroupNumbers
  <2>3. \A m \in Nat : m <= pushed[k] => m < n
    BY <1>1
  <2> QED
    BY <2>1, <2>2, <2>3 DEF GroupInv
<1>3. /\ new \in Seq(Numbers) /\ Ordered(new) /\ n \in NumbersOf(new)
      /\ \/ /\ BundleMax > 0 => Len(old) < BundleMax
            /\ NumbersOf(new) = NumbersOf(old) \union {n}
         \/ /\ BundleMax > 0 /\ Len(old) = BundleMax /\ Len(new) = BundleMax
            /\ NumbersOf(old) \subseteq NumbersOf(new) \union {old[1]}
            /\ NumbersOf(new) \subseteq NumbersOf(old) \union {n}
            /\ old[1] < new[1] /\ \A m \in NumbersOf(new) : new[1] <= m
            /\ \A m \in NumbersOf(old) : old[1] <= m
  BY <1>1, <1>2, ClipDrops DEF GroupInv
<1> DEFINE all == UNION {NumbersOf(b.lines) : b \in Taken(k)}
           kept == NumbersOf(new)
           had  == NumbersOf(old)
<1> HIDE DEF old, new
<1>4. NumbersOf(new) \subseteq NumbersOf(old) \union {n}
  BY <1>3
<1>5. \A b \in Taken(k) : \A m \in NumbersOf(b.lines) : \A l \in NumbersOf(old) : m < l
  BY DEF GroupInv, old
<1>6. GroupInv(k)'
  <2>1. \A m \in NumbersOf(new) : m <= n
    BY <1>1, <1>2, <1>4
  <2>2. ASSUME NEW b \in Taken(k), NEW m \in NumbersOf(b.lines)
        PROVE  m <= n /\ \A l \in NumbersOf(new) : m < l
    <3>1. m \in Nat /\ m < n
      BY <1>2
    <3>2. \A l \in NumbersOf(old) : m < l
      BY <1>5
    <3> QED
      BY <1>1, <1>4, <3>1, <3>2
  <2> QED
    BY <1>3, <2>1, <2>2 DEF GroupInv, new
<1>7. DisjointBundles(k)'
  <2>1. \A b \in Taken(k) : NumbersOf(b.lines) \intersect NumbersOf(new) = {}
    BY <1>1, <1>2, <1>4 DEF DisjointBundles, old
  <2> QED
    BY <2>1 DEF DisjointBundles, new
<1>8. Grouped(k) = had \union all /\ Grouped(k)' = kept \union all
  BY DEF Grouped, Groups, old, new
<1>9. /\ \A g \in Groups(k) : g = old \/ \E b \in Taken(k) : g = b.lines
      /\ new \in Groups(k)' /\ \A b \in Taken(k) : b.lines \in Groups(k)'
  BY DEF Groups, old, new
<1>10. \A b \in Taken(k) : b.lines[1] \in NumbersOf(b.lines)
  BY DEF Taken, TypeOK, Bundle, NumbersOf
<1>11. ASSUME NEW m \in 1 .. n, m \notin Grouped(k)', [key |-> k, n |-> m] \notin refused
       PROVE  Clipped(k, m)'
  <2>1. m \in 1 .. pushed[k] /\ m # n /\ m \in Nat
    <3>1. m # n
      BY <1>3, <1>8, <1>11
    <3>2. m \notin pushed[k] + 1 .. n - 1
      BY <1>11
    <3> QED
      BY <1>1, <3>1, <3>2
  <2>2. m \notin NumbersOf(new) /\ \A b \in Taken(k) : m \notin NumbersOf(b.lines)
    BY <1>8, <1>11
  <2>3. ASSUME NEW b \in Taken(k), BundleMax > 0, Len(b.lines) = BundleMax, m < b.lines[1],
               \A between \in m + 1 .. b.lines[1] - 1 : between \notin Grouped(k)
        PROVE  Clipped(k, m)'
    <3>1. b.lines[1] \in Nat /\ b.lines[1] < n
      BY <1>2, <1>10
    <3>2. \A between \in m + 1 .. b.lines[1] - 1 : between \notin Grouped(k)'
      <4> SUFFICES ASSUME NEW between \in m + 1 .. b.lines[1] - 1 PROVE between \notin Grouped(k)'
        OBVIOUS
      <4>1. between \notin Grouped(k) /\ between # n
        BY <1>1, <2>1, <2>3, <3>1
      <4> QED
        BY <1>4, <1>8, <4>1
    <3> QED
      BY <1>9, <2>3, <3>2 DEF Clipped
  <2>4. CASE m \in Grouped(k)
    <3>1. m \in NumbersOf(old) /\ m \notin NumbersOf(new)
      BY <1>8, <2>2, <2>4
    <3>2. /\ m = old[1] /\ BundleMax > 0 /\ Len(new) = BundleMax
          /\ old[1] < new[1] /\ \A l \in NumbersOf(new) : new[1] <= l
      BY <1>3, <3>1
    <3>3. new[1] \in Nat
      <4>1. new # <<>>
        BY <3>2
      <4> QED
        BY <1>3, <4>1, GroupNumbers
    <3>4. \A between \in m + 1 .. new[1] - 1 : between \notin Grouped(k)'
      <4> SUFFICES ASSUME NEW between \in m + 1 .. new[1] - 1 PROVE between \notin Grouped(k)'
        OBVIOUS
      <4>1. between \in Nat /\ m < between /\ between < new[1]
        BY <2>1, <3>3
      <4>2. between \notin NumbersOf(new)
        BY <3>2, <3>3, <4>1
      <4>3. \A b \in Taken(k) : between \notin NumbersOf(b.lines)
        BY <1>2, <1>5, <2>1, <3>1, <4>1
      <4> QED
        BY <1>8, <4>2, <4>3
    <3> QED
      BY <1>9, <3>2, <3>4 DEF Clipped
  <2>5. CASE m \notin Grouped(k)
    <3>1. PICK g \in Groups(k) :
            /\ BundleMax > 0 /\ Len(g) = BundleMax /\ m < g[1]
            /\ \A between \in m + 1 .. g[1] - 1 : between \notin Grouped(k)
      BY <1>11, <2>1, <2>5 DEF LostInv, Clipped
    <3>2. CASE g = old
      <4>1. /\ Len(new) = BundleMax /\ NumbersOf(old) \subseteq NumbersOf(new) \union {old[1]}
            /\ old[1] < new[1] /\ \A l \in NumbersOf(new) : new[1] <= l
        BY <1>1, <1>3, <3>1, <3>2
      <4>2. new[1] \in Nat /\ old[1] \in NumbersOf(old) /\ old[1] \in Nat
        <5>1. old # <<>> /\ new # <<>>
          BY <1>1, <3>1, <3>2, <4>1
        <5> QED
          BY <1>1, <1>3, <5>1, GroupNumbers
      <4>3. \A between \in m + 1 .. new[1] - 1 : between \notin Grouped(k)'
        <5> SUFFICES ASSUME NEW between \in m + 1 .. new[1] - 1 PROVE between \notin Grouped(k)'
          OBVIOUS
        <5>1. between \in Nat /\ m < between /\ between < new[1]
          BY <2>1, <4>2
        <5>2. between \notin NumbersOf(new)
          BY <4>1, <4>2, <5>1
        <5>3. CASE between < old[1]
          <6>1. between \notin Grouped(k)
            BY <3>1, <3>2, <4>2, <5>1, <5>3, <2>1
          <6> QED
            BY <1>8, <5>2, <6>1
        <5>4. CASE old[1] <= between
          <6>1. \A b \in Taken(k) : between \notin NumbersOf(b.lines)
            <7>1. \A b \in Taken(k) : \A l \in NumbersOf(b.lines) : l \in Nat /\ l < old[1]
              BY <1>2, <1>5, <4>2
            <7> QED
              BY <4>2, <5>1, <5>4, <7>1
          <6> QED
            BY <1>8, <5>2, <6>1
        <5> QED
          BY <4>2, <5>1, <5>3, <5>4
      <4>4. m < new[1]
        BY <2>1, <3>1, <3>2, <4>1, <4>2
      <4> QED
        BY <1>9, <3>1, <4>1, <4>3, <4>4 DEF Clipped
    <3>3. CASE \E b \in Taken(k) : g = b.lines
      BY <2>3, <3>1, <3>3
    <3> QED
      BY <1>9, <3>2, <3>3
  <2> QED
    BY <2>4, <2>5
<1>12. LostInv(k)'
  BY <1>11 DEF LostInv
<1> QED
  BY <1>6, <1>7, <1>12

LEMMA InitInv == Init => IInv
<1> SUFFICES ASSUME Init PROVE IInv
  OBVIOUS
<1> USE Bounds DEF Init
<1>1. TypeOK
  BY DEF TypeOK, Numbers, Line, None
<1>2. ChannelInv
  BY DEF ChannelInv
<1>3. \A k \in Keys : Taken(k) = {} /\ NumbersOf(buffer[k]) = {}
  BY DEF Taken, NumbersOf
<1>4. \A k \in Keys : GroupInv(k) /\ DisjointBundles(k) /\ LostInv(k)
  BY <1>3 DEF GroupInv, DisjointBundles, LostInv, Ordered
<1>5. TimerInv
  BY DEF TimerInv, Scheduled
<1>6. CountInv
  <2>1. \A k \in Keys : Posts(k) = {}
    BY DEF Posts
  <2> QED
    BY <2>1, FS_EmptySet DEF CountInv
<1> QED
  BY <1>1, <1>2, <1>4, <1>5, <1>6, LostByKey DEF IInv

\* A tailer's offer: the line is in the channel, after the older ones of its
\* file, or it is refused.
LEMMA MatchKeeps ==
  ASSUME IInv, NEW k \in Keys, Match(k)
  PROVE  IInv'
<1> USE Bounds DEF IInv, bundles, program, ghosts
<1> DEFINE line == [key |-> k, n |-> read[k] + 1]
<1>1. /\ read[k] \in Nat /\ read[k] < MaxLines /\ read' = [read EXCEPT ![k] = read[k] + 1]
      /\ \/ HasRoom /\ eventsCh' = Append(eventsCh, line) /\ refused' = refused
         \/ eventsCh' = eventsCh /\ refused' = refused \union {line}
      /\ UNCHANGED <<buffer, timer, lastHit, unstamped, sending, alertsSent, phase, consuming,
                     delivered, failed, quiet, pushed, opener, atAlert>>
  BY DEF Match, TypeOK
<1>2. line \in Line /\ eventsCh \in Seq(Line)
  BY SMTT(25), <1>1 DEF Line, Numbers, TypeOK
<1>3. \A j \in Keys : read[j] \in Nat /\ pushed[j] \in Nat /\ read'[j] = IF j = k THEN read[k] + 1 ELSE read[j]
  BY <1>1 DEF TypeOK
<1>4. TypeOK'
  <2>1. read' \in [Keys -> 0 .. MaxLines]
    <3>1. read \in [Keys -> 0 .. MaxLines]
      BY DEF TypeOK
    <3>2. read[k] + 1 \in 0 .. MaxLines
      BY <1>1
    <3> QED
      BY <1>1, <3>1, <3>2
  <2>2. eventsCh' \in Seq(Line) /\ Len(eventsCh') <= Capacity /\ refused' \subseteq Line
    <3>1. Len(Append(eventsCh, line)) = Len(eventsCh) + 1 /\ Append(eventsCh, line) \in Seq(Line)
      BY <1>2
    <3> HIDE DEF line
    <3> QED
      <4>1. CASE HasRoom /\ eventsCh' = Append(eventsCh, line) /\ refused' = refused
        BY <3>1, <4>1, Bounds DEF TypeOK, HasRoom
      <4>2. CASE eventsCh' = eventsCh /\ refused' = refused \union {line}
        BY <1>2, <4>2 DEF TypeOK
      <4> QED
        BY <1>1, <4>1, <4>2
  <2> QED
    BY <1>1, <2>1, <2>2 DEF TypeOK
<1>5. ChannelInv'
  <2>1. CASE eventsCh' = Append(eventsCh, line) /\ refused' = refused
    <3>1. /\ DOMAIN eventsCh' = 1 .. Len(eventsCh) + 1 /\ DOMAIN eventsCh = 1 .. Len(eventsCh)
          /\ \A i \in 1 .. Len(eventsCh) : eventsCh'[i] = eventsCh[i] /\ eventsCh[i].key \in Keys
                                          /\ eventsCh[i].n \in Nat
          /\ eventsCh'[Len(eventsCh) + 1] = line /\ Len(eventsCh) \in Nat
      <4>1. \A i \in 1 .. Len(eventsCh) : eventsCh[i] \in Line
        BY <1>2
      <4> HIDE DEF line
      <4> QED
        BY <1>2, <2>1, <4>1, LineParts
    <3>2. line.key = k /\ line.n = read[k] + 1
      OBVIOUS
    <3> HIDE DEF line
    <3>3. \A i \in DOMAIN eventsCh' :
            pushed[eventsCh'[i].key] < eventsCh'[i].n /\ eventsCh'[i].n <= read'[eventsCh'[i].key]
      <4>1. \A i \in 1 .. Len(eventsCh) :
              pushed[eventsCh[i].key] < eventsCh[i].n /\ eventsCh[i].n <= read'[eventsCh[i].key]
        <5> SUFFICES ASSUME NEW i \in 1 .. Len(eventsCh)
                     PROVE  /\ pushed[eventsCh[i].key] < eventsCh[i].n
                            /\ eventsCh[i].n <= read'[eventsCh[i].key]
          OBVIOUS
        <5>1. pushed[eventsCh[i].key] < eventsCh[i].n /\ eventsCh[i].n <= read[eventsCh[i].key]
          BY <3>1 DEF ChannelInv
        <5>2. /\ read[eventsCh[i].key] \in Nat /\ read'[eventsCh[i].key] \in Nat /\ eventsCh[i].n \in Nat
              /\ read[eventsCh[i].key] <= read'[eventsCh[i].key]
          <6>1. eventsCh[i].key \in Keys /\ eventsCh[i].n \in Nat
            BY <3>1
          <6> QED
            BY SMTT(25), <1>3, <6>1
        <5> QED
          BY <5>1, <5>2
      <4>2. pushed[line.key] < line.n /\ line.n <= read'[line.key]
        BY <1>3, <3>2 DEF ChannelInv
      <4> QED
        BY <3>1, <4>1, <4>2
    <3>4. ASSUME NEW i \in DOMAIN eventsCh', NEW j \in DOMAIN eventsCh',
                 i < j, eventsCh'[i].key = eventsCh'[j].key
          PROVE  eventsCh'[i].n < eventsCh'[j].n
      <4>1. CASE j = Len(eventsCh) + 1
        <5>1. i \in 1 .. Len(eventsCh) /\ eventsCh'[j] = line /\ eventsCh[i].key = k
          BY <3>1, <3>2, <3>4, <4>1
        <5>2. eventsCh[i].n <= read[k]
          BY <3>1, <5>1 DEF ChannelInv
        <5> QED
          BY <1>3, <3>1, <3>2, <5>1, <5>2
      <4>2. CASE j \in 1 .. Len(eventsCh)
        BY SMTT(25), <3>1, <3>4, <4>2 DEF ChannelInv
      <4> QED
        BY <3>1, <4>1, <4>2
    <3>5. ASSUME NEW j \in Keys, NEW n \in pushed[j] + 1 .. read'[j], [key |-> j, n |-> n] \notin refused
          PROVE  \E i \in DOMAIN eventsCh' : eventsCh'[i] = [key |-> j, n |-> n]
      <4>1. CASE n \in pushed[j] + 1 .. read[j]
        BY <3>1, <3>5, <4>1 DEF ChannelInv
      <4>2. CASE j = k /\ n = read[k] + 1
        BY <3>1, <4>2 DEF line
      <4> QED
        BY <1>3, <3>5, <4>1, <4>2
    <3>6. \A j \in Keys : pushed[j] <= read'[j]
      BY <1>3 DEF ChannelInv
    <3> QED
      BY <1>1, <2>1, <3>3, <3>4, <3>5, <3>6 DEF ChannelInv
  <2>2. CASE eventsCh' = eventsCh /\ refused' = refused \union {line}
    <3>1. \A i \in DOMAIN eventsCh : eventsCh[i].key \in Keys /\ eventsCh[i].n \in Nat
      BY <1>2, LineParts
    <3>2. \A i \in DOMAIN eventsCh : eventsCh[i].n <= read'[eventsCh[i].key]
      BY <1>3, <3>1 DEF ChannelInv
    <3>3. ASSUME NEW j \in Keys, NEW n \in pushed[j] + 1 .. read'[j], [key |-> j, n |-> n] \notin refused'
          PROVE  \E i \in DOMAIN eventsCh : eventsCh[i] = [key |-> j, n |-> n]
      <4>1. n \in pushed[j] + 1 .. read[j]
        BY <1>3, <2>2, <3>3
      <4> QED
        BY <2>2, <3>3, <4>1 DEF ChannelInv
    <3>4. \A j \in Keys : pushed[j] <= read'[j]
      BY <1>3 DEF ChannelInv
    <3> QED
      BY <1>1, <2>2, <3>2, <3>3, <3>4 DEF ChannelInv
  <2> QED
    BY <1>1, <2>1, <2>2
<1>6. \A j \in Keys : GroupInv(j)' /\ DisjointBundles(j)' /\ LostInv(j)'
  <2>1. refused \subseteq refused'
    BY <1>1
  <2> QED
    BY <1>1, <2>1, LostByKey, SameLost DEF Taken
<1>7. TimerInv' /\ CountInv'
  BY <1>1 DEF TimerInv, CountInv, Since, Scheduled, Posts
<1> QED
  BY <1>4, <1>5, <1>6, <1>7, LostByKey

\* The consumer's push of the line n of the key k.
LEMMA PushLineKeeps ==
  ASSUME IInv, push, NEW k \in Keys, NEW n \in Numbers, Head(eventsCh) = [key |-> k, n |-> n]
  PROVE  IInv'
<1> USE Bounds DEF IInv, bundles, program, outcome
<1> DEFINE starts == ~InCooldown(k) /\ ~Scheduled(k)
<1>1. /\ eventsCh # <<>> /\ eventsCh' = Tail(eventsCh)
      /\ buffer' = [buffer EXCEPT ![k] = appendClip(buffer[k], n)]
      /\ timer' = IF starts THEN [timer EXCEPT ![k] = BundleWindow] ELSE timer
      /\ opener' = IF starts THEN [opener EXCEPT ![k] = n] ELSE opener
      /\ pushed' = [pushed EXCEPT ![k] = n]
      /\ UNCHANGED <<lastHit, unstamped, sending, alertsSent, phase, consuming, read, refused,
                     delivered, failed, quiet, atAlert>>
  <2>1. Head(eventsCh).key = k /\ Head(eventsCh).n = n
    OBVIOUS
  <2> QED
    BY <2>1 DEF push
<1>2. eventsCh \in Seq(Line) /\ Head(eventsCh) = eventsCh[1] /\ 1 \in DOMAIN eventsCh
  BY <1>1 DEF TypeOK
<1>3. k \in Keys /\ n \in Numbers /\ n \in Nat /\ eventsCh[1] = [key |-> k, n |-> n]
  BY <1>2 DEF Numbers
<1>4. pushed[k] < n /\ n <= read[k]
  BY <1>2, <1>3 DEF ChannelInv
<1>5. \A j \in Keys : pushed[j] \in Nat /\ read[j] \in Nat
  BY DEF TypeOK
<1>6. /\ DOMAIN eventsCh = 1 .. Len(eventsCh) /\ Len(eventsCh) \in Nat \ {0}
      /\ DOMAIN eventsCh' = 1 .. Len(eventsCh) - 1
      /\ eventsCh' \in Seq(Line) /\ Len(eventsCh') = Len(eventsCh) - 1
      /\ \A i \in 1 .. Len(eventsCh) - 1 : i + 1 \in DOMAIN eventsCh /\ eventsCh'[i] = eventsCh[i + 1]
  BY <1>1, <1>2
<1>7. \A i \in DOMAIN eventsCh : eventsCh[i].key \in Keys /\ eventsCh[i].n \in Nat
  BY <1>2, LineParts
<1> HIDE DEF starts
<1>8. \A i \in DOMAIN eventsCh : i # 1 /\ eventsCh[i].key = k => n < eventsCh[i].n
  <2>1. eventsCh[1].key = k /\ eventsCh[1].n = n
    BY <1>3
  <2>2. \A i \in DOMAIN eventsCh : i # 1 => 1 < i
    BY <1>6
  <2> QED
    BY <1>2, <2>1, <2>2 DEF ChannelInv
<1>9. \A m \in pushed[k] + 1 .. n - 1 : [key |-> k, n |-> m] \in refused
  <2> SUFFICES ASSUME NEW m \in pushed[k] + 1 .. n - 1, [key |-> k, n |-> m] \notin refused PROVE FALSE
    OBVIOUS
  <2>1. m \in pushed[k] + 1 .. read[k] /\ m < n
    BY <1>3, <1>4, <1>5
  <2>2. PICK i \in DOMAIN eventsCh : eventsCh[i] = [key |-> k, n |-> m]
    BY <1>3, <2>1 DEF ChannelInv
  <2>3. eventsCh[i].key = k /\ eventsCh[i].n = m /\ i # 1
    BY <1>3, <2>1, <2>2
  <2> QED
    BY <1>3, <1>8, <2>1, <2>3
<1>10. GroupInv(k)' /\ DisjointBundles(k)' /\ LostInv(k)'
  <2>1. /\ buffer'[k] = appendClip(buffer[k], n) /\ pushed'[k] = n
        /\ Taken(k)' = Taken(k) /\ refused' = refused
    <3>1. k \in DOMAIN buffer /\ k \in DOMAIN pushed
      BY <1>3 DEF TypeOK
    <3>2. Taken(k)' = Taken(k)
      BY <1>1 DEF Taken
    <3> QED
      BY <1>1, <3>1, <3>2
  <2> QED
    BY <1>3, <1>4, <1>9, <2>1, LostByKey, PushKeepsGroups
<1>11. \A j \in Keys : j # k => GroupInv(j)' /\ DisjointBundles(j)' /\ LostInv(j)'
  <2>1. \A j \in Keys : j # k => /\ buffer'[j] = buffer[j] /\ pushed'[j] = pushed[j]
                                 /\ Taken(j)' = Taken(j)
    BY <1>1, <1>3 DEF TypeOK, Taken
  <2> QED
    BY <1>1, <2>1, LostByKey, SameLost
<1>12. \A j \in Keys : pushed'[j] = IF j = k THEN n ELSE pushed[j]
  BY <1>1 DEF TypeOK
<1>13. ChannelInv'
  <2>1. \A i \in DOMAIN eventsCh' :
          pushed'[eventsCh'[i].key] < eventsCh'[i].n /\ eventsCh'[i].n <= read[eventsCh'[i].key]
    <3> SUFFICES ASSUME NEW i \in DOMAIN eventsCh'
                 PROVE  pushed'[eventsCh'[i].key] < eventsCh'[i].n /\ eventsCh'[i].n <= read[eventsCh'[i].key]
      OBVIOUS
    <3>1. i + 1 \in DOMAIN eventsCh /\ eventsCh'[i] = eventsCh[i + 1] /\ i + 1 # 1
      BY <1>6
    <3> QED
      BY <1>7, <1>8, <1>12, <3>1 DEF ChannelInv
  <2>2. ASSUME NEW i \in DOMAIN eventsCh', NEW j \in DOMAIN eventsCh', i < j,
               eventsCh'[i].key = eventsCh'[j].key
        PROVE  eventsCh'[i].n < eventsCh'[j].n
    <3>1. /\ i + 1 \in DOMAIN eventsCh /\ j + 1 \in DOMAIN eventsCh /\ i + 1 < j + 1
          /\ eventsCh'[i] = eventsCh[i + 1] /\ eventsCh'[j] = eventsCh[j + 1]
      BY <1>6, <2>2
    <3> QED
      BY <2>2, <3>1 DEF ChannelInv
  <2>3. ASSUME NEW j \in Keys, NEW m \in pushed'[j] + 1 .. read[j], [key |-> j, n |-> m] \notin refused
        PROVE  \E i \in DOMAIN eventsCh' : eventsCh'[i] = [key |-> j, n |-> m]
    <3>1. m \in pushed[j] + 1 .. read[j] /\ (j = k => n < m)
      BY <1>3, <1>4, <1>5, <1>12, <2>3
    <3>2. PICK i \in DOMAIN eventsCh : eventsCh[i] = [key |-> j, n |-> m]
      BY <2>3, <3>1 DEF ChannelInv
    <3>3. i # 1
      BY <1>3, <3>1, <3>2
    <3>4. i - 1 \in 1 .. Len(eventsCh) - 1 /\ (i - 1) + 1 = i
      BY <1>6, <3>3
    <3> QED
      BY <1>6, <3>2, <3>4
  <2>4. \A j \in Keys : pushed'[j] <= read[j]
    BY <1>3, <1>4, <1>12 DEF ChannelInv
  <2> QED
    BY <1>1, <2>1, <2>2, <2>3, <2>4 DEF ChannelInv
<1>14. TypeOK'
  <2>1. Ordered(buffer[k]) /\ \A m \in NumbersOf(buffer[k]) : m < n
    <3>1. \A m \in NumbersOf(buffer[k]) : m \in Nat /\ m <= pushed[k]
      BY <1>3, GroupNumbers DEF GroupInv, TypeOK
    <3> QED
      BY <1>3, <1>4, <1>5, <3>1 DEF GroupInv
  <2>2. /\ appendClip(buffer[k], n) \in Seq(Numbers)
        /\ BundleMax > 0 => Len(appendClip(buffer[k], n)) <= BundleMax
    BY <1>3, <2>1, ClipDrops DEF TypeOK
  <2>3. /\ buffer' \in [Keys -> Seq(Numbers)]
        /\ BundleMax > 0 => \A j \in Keys : Len(buffer'[j]) <= BundleMax
    BY <1>1, <1>3, <2>2 DEF TypeOK
  <2>4. timer' \in [Keys -> 0 .. BundleWindow \union {None}]
    BY SMTT(25), <1>1, <1>3 DEF TypeOK
  <2>5. {pushed', opener'} \subseteq [Keys -> 0 .. MaxLines]
    BY SMTT(25), <1>1, <1>3 DEF TypeOK, Numbers
  <2>6. eventsCh' \in Seq(Line) /\ Len(eventsCh') <= Capacity
    BY <1>6 DEF TypeOK
  <2> QED
    BY SMTT(25), <1>1, <2>3, <2>4, <2>5, <2>6 DEF TypeOK
<1>15. TimerInv'
  <2>1. \A j \in Keys : pushed[j] <= pushed'[j]
    BY <1>3, <1>4, <1>5, <1>12
  <2>2. \A j \in Keys : \A m \in Nat : Since(j, m) => Since(j, m)'
    BY <1>1, <1>3, <1>5, <1>12, <2>1 DEF Since
  <2>3. \A b \in unstamped : b.key \in Keys /\ b.opener \in Nat
    BY BundleParts DEF TypeOK
  <2>4. ASSUME NEW j \in Keys, Scheduled(j)' PROVE opener'[j] > 0 /\ Since(j, opener[j])'
    <3>1. CASE starts /\ j = k
      <4>1. opener'[k] = n /\ pushed'[k] = n
        BY <1>1, <1>3, <3>1 DEF TypeOK
      <4>2. lastHit'[k] = Cooldown
        BY <1>1, <1>3, <3>1 DEF starts, InCooldown, TypeOK
      <4> QED
        BY <1>3, <3>1, <4>1, <4>2 DEF Since, Numbers
    <3>2. CASE ~(starts /\ j = k)
      <4>1. opener'[j] = opener[j] /\ timer'[j] = timer[j]
        BY <1>1, <1>3, <3>2 DEF TypeOK
      <4>2. opener[j] > 0 /\ Since(j, opener[j])
        BY <2>4, <4>1 DEF TimerInv, Scheduled
      <4>3. opener[j] \in Nat
        BY DEF TypeOK
      <4> QED
        BY <2>2, <4>1, <4>2, <4>3 DEF Since
    <3> QED
      BY <3>1, <3>2
  <2> QED
    BY <1>1, <2>2, <2>3, <2>4 DEF TimerInv
<1>16. CountInv'
  BY <1>1 DEF CountInv, Posts
<1> QED
  BY <1>10, <1>11, <1>13, <1>14, <1>15, <1>16, LostByKey

LEMMA PushKeeps ==
  ASSUME IInv, push
  PROVE  IInv'
<1>1. Head(eventsCh) \in Line
  BY DEF push, IInv, TypeOK
<1>2. PICK k \in Keys, n \in Numbers : Head(eventsCh) = [key |-> k, n |-> n]
  BY <1>1, LineParts
<1> QED
  BY <1>2, PushLineKeeps

-----------------------------------------------------------------------------
\* A bundle that flush has just taken is none of the earlier ones.
LEMMA FreshBundle ==
  ASSUME TypeOK, NEW k \in Keys, GroupInv(k), NEW b, b.lines = buffer[k], buffer[k] # <<>>
  PROVE  b \notin Taken(k)
<1> SUFFICES ASSUME b \in Taken(k) PROVE FALSE
  OBVIOUS
<1>1. buffer[k] \in Seq(Numbers)
  BY DEF TypeOK
<1>2. buffer[k][1] \in NumbersOf(buffer[k]) /\ buffer[k][1] \in Nat
  BY <1>1, GroupNumbers
<1>3. buffer[k][1] < buffer[k][1]
  BY <1>2 DEF GroupInv
<1> QED
  BY <1>2, <1>3

\* flush's first critical section moves the whole buffer into a bundle.
LEMMA TakeKeeps ==
  ASSUME IInv, NEW k \in Keys, Take(k)
  PROVE  IInv'
<1> USE Bounds DEF IInv, bundles, program, outcome, ghosts
<1> DEFINE b == [key |-> k, lines |-> buffer[k], opener |-> opener[k]]
<1>1. /\ timer[k] = 0 /\ timer' = [timer EXCEPT ![k] = None] /\ buffer' = [buffer EXCEPT ![k] = <<>>]
      /\ unstamped' = IF buffer[k] = <<>> THEN unstamped ELSE unstamped \union {b}
      /\ UNCHANGED <<eventsCh, lastHit, sending, alertsSent, phase, consuming, read, refused,
                     delivered, failed, quiet, pushed, opener, atAlert>>
  BY DEF Take
<1>2. buffer[k] \in Seq(Numbers) /\ buffer'[k] = <<>> /\ opener[k] \in 1 .. MaxLines
      /\ Since(k, opener[k])
  <2>1. Scheduled(k)
    BY <1>1 DEF Scheduled, None
  <2>2. opener[k] > 0 /\ Since(k, opener[k]) /\ opener[k] \in 0 .. MaxLines
    BY <2>1 DEF TimerInv, TypeOK
  <2> QED
    BY <1>1, <2>2 DEF TypeOK
<1>3. b.key = k /\ b.lines = buffer[k] /\ b.opener = opener[k]
      /\ (buffer[k] # <<>> => b \in Bundle)
  BY <1>2 DEF Bundle, Numbers
<1> HIDE DEF b
<1>4. TypeOK'
  <2>1. timer' \in [Keys -> 0 .. BundleWindow \union {None}]
    BY <1>1 DEF TypeOK
  <2>2. buffer' \in [Keys -> Seq(Numbers)] /\ (BundleMax > 0 => \A j \in Keys : Len(buffer'[j]) <= BundleMax)
    <3>1. <<>> \in Seq(Numbers) /\ Len(<<>>) = 0
      OBVIOUS
    <3>2. \A j \in Keys : buffer'[j] = IF j = k THEN <<>> ELSE buffer[j]
      BY <1>1 DEF TypeOK
    <3> QED
      BY <1>1, <3>1, <3>2 DEF TypeOK
  <2>3. unstamped' \subseteq Bundle
    BY <1>1, <1>3 DEF TypeOK
  <2> QED
    BY <1>1, <2>1, <2>2, <2>3 DEF TypeOK
<1>5. ChannelInv'
  BY <1>1 DEF ChannelInv
<1>6. NumbersOf(<<>>) = {}
  BY DEF NumbersOf
<1>7. Taken(k)' = IF buffer[k] = <<>> THEN Taken(k) ELSE Taken(k) \union {b}
  BY <1>1, <1>3 DEF Taken
<1>8. GroupInv(k)'
  <2>1. Ordered(<<>>)
    BY DEF Ordered
  <2>2. \A n \in NumbersOf(buffer[k]) : n <= pushed[k]
    BY DEF GroupInv
  <2>3. \A c \in Taken(k) : \A n \in NumbersOf(c.lines) : n <= pushed[k]
    BY DEF GroupInv
  <2> QED
    BY <1>1, <1>2, <1>3, <1>6, <1>7, <2>1, <2>2, <2>3 DEF GroupInv
<1>9. DisjointBundles(k)'
  <2>1. \A c \in Taken(k) : NumbersOf(c.lines) \intersect NumbersOf(buffer[k]) = {}
    BY LostByKey DEF DisjointBundles
  <2>2. \A c, d \in Taken(k)' : c # d => NumbersOf(c.lines) \intersect NumbersOf(d.lines) = {}
    BY <1>3, <1>7, <2>1, LostByKey DEF DisjointBundles
  <2>3. \A c \in Taken(k)' : NumbersOf(c.lines) \intersect NumbersOf(buffer'[k]) = {}
    BY <1>2, <1>6
  <2> QED
    BY <2>2, <2>3 DEF DisjointBundles
<1>10. Groups(k) \subseteq Groups(k)' /\ Grouped(k)' = Grouped(k)
  <2>1. CASE buffer[k] = <<>>
    BY <1>2, <1>7, <2>1 DEF Groups, Grouped
  <2>2. CASE buffer[k] # <<>>
    <3>1. Groups(k)' = Groups(k) \union {<<>>}
      BY <1>2, <1>3, <1>7, <2>2 DEF Groups
    <3> QED
      BY <1>6, <3>1 DEF Grouped
  <2> QED
    BY <2>1, <2>2
<1>11. LostInv(k)'
  BY <1>1, <1>10, LostByKey DEF LostInv, Clipped
<1>12. \A j \in Keys : j # k => GroupInv(j)' /\ DisjointBundles(j)' /\ LostInv(j)'
  <2>1. \A j \in Keys : j # k => buffer'[j] = buffer[j] /\ pushed'[j] = pushed[j] /\ Taken(j)' = Taken(j)
    BY <1>1, <1>3 DEF TypeOK, Taken
  <2> QED
    BY <1>1, <2>1, LostByKey, SameLost
<1>13. TimerInv'
  <2>1. \A j \in Keys : Scheduled(j)' => Scheduled(j)
    BY <1>1 DEF TypeOK, Scheduled
  <2>2. \A c \in unstamped' : c \in unstamped \/ c = b
    BY <1>1
  <2> QED
    BY <1>1, <1>2, <1>3, <2>1, <2>2 DEF TimerInv, Since
<1>14. CountInv'
  <2>1. \A j \in Keys : Posts(j)' = Posts(j) /\ Posts(j) \subseteq Taken(j)
    BY <1>1 DEF Posts, Taken
  <2>2. buffer[k] # <<>> => \A j \in Keys : b \notin Posts(j)
    <3>1. buffer[k] # <<>> => b \notin Posts(k)
      BY <1>3, <2>1, FreshBundle
    <3>2. \A j \in Keys : j # k => b \notin Posts(j)
      BY <1>3 DEF Posts
    <3> QED
      BY <3>1, <3>2
  <2>3. \A j \in Keys : unstamped' \intersect Posts(j) = {}
    BY <1>1, <2>2 DEF CountInv
  <2> QED
    BY <1>1, <2>1, <2>3 DEF CountInv
<1> QED
  BY <1>4, <1>5, <1>8, <1>9, <1>11, <1>12, <1>13, <1>14, LostByKey

\* Its second critical section hands a bundle to outFn: one more was sent, and
\* the key's cooldown begins.
LEMMA StampKeeps ==
  ASSUME IInv, NEW b \in unstamped, Stamp(b)
  PROVE  IInv'
<1> USE Bounds DEF IInv, bundles, program, outcome
<1>1. /\ unstamped' = unstamped \ {b} /\ sending' = sending \union {b}
      /\ lastHit' = [lastHit EXCEPT ![b.key] = 0] /\ quiet' = [quiet EXCEPT ![b.key] = 0]
      /\ alertsSent' = [alertsSent EXCEPT ![b.key] = alertsSent[b.key] + 1]
      /\ atAlert' = [atAlert EXCEPT ![b.key] = pushed[b.key]]
      /\ UNCHANGED <<eventsCh, buffer, timer, phase, consuming, read, refused, delivered, failed,
                     pushed, opener>>
  BY DEF Stamp
<1>2. b \in Bundle /\ b.key \in Keys
  BY BundleParts DEF TypeOK
<1>3. \A k \in Keys : Taken(k)' = Taken(k)
  BY <1>1 DEF Taken
<1>4. \A k \in Keys : GroupInv(k)' /\ DisjointBundles(k)' /\ LostInv(k)'
  BY <1>1, <1>3, LostByKey, SameLost
<1>5. CountInv'
  <2> SUFFICES ASSUME NEW k \in Keys
               PROVE  /\ unstamped' \intersect Posts(k)' = {}
                      /\ IsFiniteSet(Posts(k)') /\ alertsSent'[k] = Cardinality(Posts(k)')
    BY DEF CountInv
  <2>1. CASE k # b.key
    <3>1. Posts(k)' = Posts(k) /\ alertsSent'[k] = alertsSent[k] /\ unstamped' \subseteq unstamped
      BY <1>1, <2>1 DEF Posts, TypeOK
    <3> QED
      BY <3>1 DEF CountInv
  <2>2. CASE k = b.key
    <3>1. Posts(k)' = Posts(k) \union {b} /\ alertsSent'[k] = alertsSent[k] + 1
      BY <1>1, <1>2, <2>2 DEF Posts, TypeOK
    <3>2. b \notin Posts(k) /\ IsFiniteSet(Posts(k)) /\ alertsSent[k] = Cardinality(Posts(k))
      BY DEF CountInv
    <3>3. IsFiniteSet(Posts(k) \union {b}) /\ Cardinality(Posts(k) \union {b}) = Cardinality(Posts(k)) + 1
      BY <3>2, FS_AddElement
    <3>4. unstamped' \intersect (Posts(k) \union {b}) = {}
      BY <1>1 DEF CountInv
    <3> QED
      BY <3>1, <3>2, <3>3, <3>4
  <2> QED
    BY <2>1, <2>2
<1>6. TypeOK'
  <2>1. {lastHit', quiet'} \subseteq [Keys -> 0 .. Cooldown]
    BY <1>1, <1>2 DEF TypeOK
  <2>2. atAlert' \in [Keys -> 0 .. MaxLines]
    BY <1>1, <1>2 DEF TypeOK
  <2>3. unstamped' \subseteq Bundle /\ sending' \subseteq Bundle
    BY <1>1, <1>2 DEF TypeOK
  <2>4. ASSUME NEW k \in Keys PROVE alertsSent'[k] \in 0 .. MaxLines
    <3>1. Posts(k)' \subseteq Bundle /\ Posts(k)' \subseteq Taken(k)
      BY <1>1, <2>3 DEF TypeOK, Posts, Taken
    <3>2. \A c, d \in Posts(k)' : c # d => NumbersOf(c.lines) \intersect NumbersOf(d.lines) = {}
      BY <3>1, LostByKey DEF DisjointBundles
    <3>3. Cardinality(Posts(k)') \in 0 .. MaxLines
      BY <3>1, <3>2, FewBundles
    <3> QED
      BY <1>5, <3>3 DEF CountInv
  <2>5. alertsSent' \in [Keys -> 0 .. MaxLines]
    BY <1>1, <2>4 DEF TypeOK
  <2>6. {read, pushed, opener, atAlert}' \subseteq [Keys -> 0 .. MaxLines]
    BY <1>1, <2>2 DEF TypeOK
  <2>7. \A set \in {unstamped', sending', delivered', failed'} : set \subseteq Bundle
    BY <1>1, <2>3 DEF TypeOK
  <2>8. /\ eventsCh' \in Seq(Line) /\ Len(eventsCh') <= Capacity
        /\ buffer' \in [Keys -> Seq(Numbers)]
        /\ BundleMax > 0 => \A k \in Keys : Len(buffer'[k]) <= BundleMax
        /\ timer' \in [Keys -> 0 .. BundleWindow \union {None}]
        /\ refused' \subseteq Line
    BY <1>1 DEF TypeOK
  <2>9. phase' \in {"running", "stopping", "exited"} /\ consuming' \in BOOLEAN
    BY <1>1 DEF TypeOK
  <2> QED
    BY <2>1, <2>5, <2>6, <2>7, <2>8, <2>9 DEF TypeOK
<1>7. ChannelInv'
  BY <1>1 DEF ChannelInv
<1>8. TimerInv'
  <2>1. \A k \in Keys, line \in Nat : Since(k, line) => Since(k, line)'
    BY <1>1, <1>2 DEF Since, TypeOK
  <2>2. \A k \in Keys : opener[k] \in Nat
    BY DEF TypeOK
  <2>3. \A c \in unstamped : c.key \in Keys /\ c.opener \in Nat
    BY BundleParts DEF TypeOK
  <2>4. quiet' = lastHit'
    BY <1>1 DEF TimerInv
  <2>5. \A k \in Keys : Scheduled(k)' => opener'[k] > 0 /\ Since(k, opener[k])'
    BY <1>1, <2>1, <2>2 DEF TimerInv, Scheduled
  <2>6. \A c \in unstamped' : Since(c.key, c.opener)'
    BY <1>1, <2>1, <2>3 DEF TimerInv
  <2> QED
    BY <1>1, <2>4, <2>5, <2>6 DEF TimerInv, Since
<1> QED
  BY <1>4, <1>5, <1>6, <1>7, <1>8, LostByKey

\* The answer of the webhook, time, and the end of the program leave the groups
\* of lines as they are; a timer's key stays out of its cooldown as time passes.
LEMMA OthersKeep ==
  ASSUME IInv, (\E b \in sending : Posted(b)) \/ Tick \/ Stop \/ UNCHANGED vars
  PROVE  IInv'
<1> USE Bounds DEF IInv, bundles, program, outcome, ghosts
<1>1. UNCHANGED <<eventsCh, buffer, unstamped, alertsSent, read, refused, pushed, opener, atAlert>>
  BY DEF Posted, Tick, Stop, vars
<1>2. sending' \union delivered' \union failed' = sending \union delivered \union failed
  BY DEF Posted, Tick, Stop, vars
<1>3. UNCHANGED <<timer, lastHit, quiet>> \/ Tick
  BY DEF Posted, Stop, vars
<1>4. TypeOK'
  <2>1. \A set \in {sending', delivered', failed'} : set \subseteq Bundle
    BY <1>2 DEF TypeOK
  <2>2. {lastHit', quiet'} \subseteq [Keys -> 0 .. Cooldown] /\ timer' \in [Keys -> 0 .. BundleWindow \union {None}]
    <3>1. CASE Tick
      <4>1. ASSUME NEW k \in Keys
            PROVE  /\ (IF InCooldown(k) THEN lastHit[k] + 1 ELSE lastHit[k]) \in 0 .. Cooldown
                   /\ (IF quiet[k] < Cooldown THEN quiet[k] + 1 ELSE Cooldown) \in 0 .. Cooldown
        <5>1. lastHit[k] \in 0 .. Cooldown /\ quiet[k] \in 0 .. Cooldown
          BY DEF TypeOK
        <5> QED
          BY <5>1 DEF InCooldown
      <4>2. ASSUME NEW k \in Keys
            PROVE  (IF Scheduled(k) THEN timer[k] - 1 ELSE None) \in 0 .. BundleWindow \union {None}
        <5>1. timer[k] \in 0 .. BundleWindow \union {None} /\ timer[k] # 0
          BY <3>1 DEF TypeOK, Tick
        <5> QED
          BY <5>1 DEF Scheduled, None
      <4> QED
        BY <3>1, <4>1, <4>2 DEF Tick
    <3>2. CASE UNCHANGED <<timer, lastHit, quiet>>
      BY <3>2 DEF TypeOK
    <3> QED
      BY <1>3, <3>1, <3>2
  <2>3. phase' \in {"running", "stopping", "exited"} /\ consuming' \in BOOLEAN
    BY DEF Posted, Tick, Stop, Interrupt, Return, Exit, vars, TypeOK
  <2> QED
    BY <1>1, <2>1, <2>2, <2>3 DEF TypeOK
<1>5. ChannelInv'
  BY <1>1 DEF ChannelInv
<1>6. \A k \in Keys : Taken(k)' = Taken(k) /\ Posts(k)' = Posts(k)
  BY <1>1, <1>2 DEF Taken, Posts
<1>7. \A k \in Keys : GroupInv(k)' /\ DisjointBundles(k)' /\ LostInv(k)'
  BY <1>1, <1>6, LostByKey, SameLost
<1>8. CountInv'
  BY <1>1, <1>6 DEF CountInv
<1>9. TimerInv'
  <2>1. ASSUME Tick
        PROVE  /\ quiet' = lastHit'
               /\ \A k \in Keys : Scheduled(k)' => Scheduled(k)
               /\ \A k \in Keys : lastHit[k] = Cooldown => lastHit'[k] = Cooldown
    <3>1. quiet' = lastHit'
      <4>1. \A k \in Keys : (IF InCooldown(k) THEN lastHit[k] + 1 ELSE lastHit[k])
                            = (IF quiet[k] < Cooldown THEN quiet[k] + 1 ELSE Cooldown)
        <5> SUFFICES ASSUME NEW k \in Keys
                     PROVE  (IF InCooldown(k) THEN lastHit[k] + 1 ELSE lastHit[k])
                            = (IF quiet[k] < Cooldown THEN quiet[k] + 1 ELSE Cooldown)
          OBVIOUS
        <5>1. lastHit[k] \in 0 .. Cooldown /\ quiet[k] = lastHit[k]
          BY DEF TypeOK, TimerInv
        <5> QED
          BY <5>1 DEF InCooldown
      <4> QED
        BY <2>1, <4>1 DEF Tick
    <3>2. \A k \in Keys : lastHit[k] = Cooldown => lastHit'[k] = Cooldown
      BY <2>1 DEF Tick, InCooldown
    <3>3. \A k \in Keys : Scheduled(k)' => Scheduled(k)
      BY <2>1 DEF Tick, Scheduled
    <3> QED
      BY <3>1, <3>2, <3>3
  <2>3. /\ quiet' = lastHit'
        /\ \A k \in Keys : Scheduled(k)' => Scheduled(k)
        /\ \A k \in Keys : lastHit[k] = Cooldown => lastHit'[k] = Cooldown
    BY <1>3, <2>1 DEF TimerInv, Scheduled
  <2>4. \A k \in Keys, line \in Nat : Since(k, line) => Since(k, line)'
    BY <1>1, <2>3 DEF Since
  <2>5. \A k \in Keys : Scheduled(k)' => opener'[k] > 0 /\ Since(k, opener[k])'
    <3>1. \A k \in Keys : opener[k] \in Nat
      BY DEF TypeOK
    <3> QED
      BY <1>1, <2>3, <2>4, <3>1 DEF TimerInv
  <2>6. \A c \in unstamped' : Since(c.key, c.opener)'
    <3>1. \A c \in unstamped : c.key \in Keys /\ c.opener \in Nat
      BY BundleParts DEF TypeOK
    <3> QED
      BY <1>1, <2>4, <3>1 DEF TimerInv
  <2> QED
    BY <1>1, <2>3, <2>5, <2>6 DEF TimerInv, Since
<1> QED
  BY <1>4, <1>5, <1>7, <1>8, <1>9, LostByKey

LEMMA StepKeeps ==
  ASSUME IInv, [Next]_vars
  PROVE  IInv'
<1>1. CASE \E k \in Keys : Match(k)
  BY <1>1, MatchKeeps
<1>2. CASE push
  BY <1>2, PushKeeps
<1>3. CASE flush
  BY <1>3, TakeKeeps, StampKeeps, OthersKeep DEF flush
<1>4. CASE Tick \/ Stop \/ UNCHANGED vars
  BY <1>4, OthersKeep
<1> QED
  BY <1>1, <1>2, <1>3, <1>4 DEF Next

-----------------------------------------------------------------------------
\* The types of all variables; in particular a file's alerts are never more than
\* its lines, because no two bundles share one.
THEOREM TypeCorrect == Spec => []TypeOK
<1>1. IInv => TypeOK
  BY DEF IInv
<1> QED
  BY <1>1, InitInv, StepKeeps, PTL DEF Spec

\* However pushes, timers, posts and the end of the program interleave, a line
\* given to the bundler is in one alert or buffer only, or was dropped by
\* appendClip from a full group all of whose lines are newer (main.go:460).
THEOREM OnlyTheClipLoses == Spec => []LostOnlyToTheClip
<1>1. IInv => LostOnlyToTheClip
  BY DEF IInv
<1> QED
  BY <1>1, InitInv, StepKeeps, PTL DEF Spec

\* An alert within the cooldown of another is one whose timer was started before
\* the other was stamped: between flush's two critical sections, and never by a
\* push that could have seen the cooldown (main.go:419 and :446).
THEOREM CooldownUpToRaces == Spec => OnlyRacesBreakTheCooldown
<1>1. IInv /\ [Next]_vars
      => [\A b \in unstamped : Stamp(b) /\ quiet[b.key] < Cooldown => b.opener <= atAlert[b.key]]_vars
  <2> SUFFICES ASSUME IInv, NEW b \in unstamped, quiet[b.key] < Cooldown
               PROVE  b.opener <= atAlert[b.key]
    OBVIOUS
  <2>1. Since(b.key, b.opener) /\ quiet = lastHit
    BY DEF IInv, TimerInv
  <2>2. Cooldown \in Nat
    BY Bounds
  <2> QED
    BY <2>1, <2>2 DEF Since
<1> QED
  BY <1>1, InitInv, StepKeeps, PTL DEF Spec, OnlyRacesBreakTheCooldown
=============================================================================
