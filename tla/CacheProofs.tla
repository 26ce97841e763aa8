----------------------------- MODULE CacheProofs -----------------------------
(***************************************************************************)
(* Theorems about the replacement policies, for every stream, number of    *)
(* leaves, capacity, discount and window: Belady with bypass is optimal,   *)
(* capacity never hurts, no fixed table beats the window oracle, and the   *)
(* fast kernels answer and count as the policies they stand for.           *)
(***************************************************************************)
EXTENDS CachePolicies, NumberSets, SequenceTheorems

-----------------------------------------------------------------------------
(* Numbers and sets.                                                       *)

\* What the constants are.
LEMMA Sizes ==
  /\ NumLeaves \in Nat \ {0} /\ Length \in Nat \ {0} /\ MaxK \in Nat \ {0} /\ Window \in Nat \ {0}
  /\ IsFiniteSet(Leaves) /\ Leaves \subseteq Nat /\ Caps \subseteq Nat \ {0}
  <1>1. NumLeaves \in Nat \ {0} /\ Length \in Nat \ {0} /\ MaxK \in Nat \ {0} /\ Window \in Nat \ {0}
    BY SizesAssumption
  <1>2. IsFiniteSet(0 .. NumLeaves - 1)
    BY <1>1, FS_Interval
  <1>3. QED
    BY <1>1, <1>2 DEF Leaves, Caps

\* Min of a set of numbers up to a bound.
LEMMA MinIs ==
  ASSUME NEW top \in Nat, NEW S \in SUBSET (0 .. top), S # {}
  PROVE  Min(S) \in S /\ \A y \in S : Min(S) <= y
  <1>1. \E x \in S : \A y \in S : x <= y
    BY Least
  <1>2. QED
    BY <1>1 DEF Min

\* Max of a set of integers between bounds.
LEMMA MaxIs ==
  ASSUME NEW lo \in Int, NEW hi \in Int, NEW S \in SUBSET (lo .. hi), S # {}
  PROVE  Max(S) \in S /\ \A y \in S : Max(S) >= y
  <1> DEFINE T == {x - lo : x \in S}
  <1>0. PICK z \in S : lo <= z /\ z <= hi /\ z \in Int
    <2>1. \A z \in S : z \in lo .. hi
      OBVIOUS
    <2>2. \E z : z \in S
      OBVIOUS
    <2>3. QED
      BY <2>1, <2>2
  <1>1. hi - lo \in Nat
    BY <1>0
  <1>2. T \in SUBSET (0 .. hi - lo) /\ T # {}
    <2>1. \A x \in S : x - lo \in 0 .. hi - lo
      OBVIOUS
    <2>2. QED
      BY <2>1
  <1>3. PICK m \in T : \A y \in T : y <= m
    <2> HIDE DEF T
    <2> QED BY <1>1, <1>2, Greatest
  <1>4. PICK x \in S : m = x - lo
    OBVIOUS
  <1>5. \A y \in S : x >= y
    <2> SUFFICES ASSUME NEW y \in S PROVE x >= y
      OBVIOUS
    <2>1. y - lo <= x - lo
      BY <1>3, <1>4
    <2>2. QED
      BY <2>1
  <1>6. QED
    BY <1>5 DEF Max

\* The set of a sequence, and what happens to it.
LEMMA SetOf ==
  ASSUME NEW S, NEW q \in Seq(S)
  PROVE  /\ DOMAIN q = 1 .. Len(q) /\ Len(q) \in Nat
         /\ ToSet(q) = {q[i] : i \in 1 .. Len(q)} /\ ToSet(q) \subseteq S
         /\ \A x : Contains(q, x) <=> x \in ToSet(q)
  BY LenProperties DEF ToSet, Contains

\* No element twice.
Distinct(q) == \A i, j \in 1 .. Len(q) : q[i] = q[j] => i = j

\* Then the sequence is as long as its set is large.
LEMMA DistinctCard ==
  ASSUME NEW S, NEW q \in Seq(S), Distinct(q)
  PROVE  IsFiniteSet(ToSet(q)) /\ Cardinality(ToSet(q)) = Len(q)
  <1>1. q \in Bijection(1 .. Len(q), ToSet(q))
    BY SetOf, LenProperties DEF Bijection, Injection, Surjection, IsInjective, ToSet, Distinct
  <1>2. IsFiniteSet(1 .. Len(q)) /\ Cardinality(1 .. Len(q)) = Len(q)
    <2>1. Len(q) \in Nat /\ Len(q) \in Int /\ 1 \in Int
      BY LenProperties
    <2>2. Cardinality(1 .. Len(q)) = IF 1 > Len(q) THEN 0 ELSE Len(q) - 1 + 1
      BY <2>1, FS_Interval
    <2>3. QED
      BY <2>1, <2>2, FS_Interval
  <1>3. QED
    BY <1>1, <1>2, FS_Bijection DEF ExistsBijection

\* Adding an element at the end.
LEMMA AppendSet ==
  ASSUME NEW S, NEW q \in Seq(S), NEW x \in S
  PROVE  /\ Append(q, x) \in Seq(S) /\ Len(Append(q, x)) = Len(q) + 1
         /\ \A i \in 1 .. Len(q) : Append(q, x)[i] = q[i]
         /\ Append(q, x)[Len(q) + 1] = x
         /\ ToSet(Append(q, x)) = ToSet(q) \cup {x}
         /\ Distinct(q) /\ x \notin ToSet(q) => Distinct(Append(q, x))
  <1> DEFINE r == Append(q, x)
  <1>1. /\ r \in Seq(S) /\ Len(r) = Len(q) + 1
        /\ \A i \in 1 .. Len(q) : r[i] = q[i]
        /\ r[Len(q) + 1] = x
    BY AppendProperties
  <1>2. Len(q) \in Nat
    BY LenProperties
  <1> HIDE DEF r
  <1>3. ToSet(r) = {r[i] : i \in 1 .. Len(q) + 1} /\ ToSet(q) = {q[i] : i \in 1 .. Len(q)}
    BY <1>1, SetOf
  <1>4. ToSet(r) = ToSet(q) \cup {x}
    BY <1>1, <1>2, <1>3
  <1>5. Distinct(q) /\ x \notin ToSet(q) => Distinct(r)
    BY <1>1, <1>2, <1>3 DEF Distinct
  <1>6. QED
    BY <1>1, <1>4, <1>5 DEF r

\* Removing an element from its place.
LEMMA RemoveSet ==
  ASSUME NEW S, NEW q \in Seq(S), NEW i \in 1 .. Len(q), Distinct(q)
  PROVE  /\ RemoveAt(q, i) \in Seq(S) /\ Len(RemoveAt(q, i)) = Len(q) - 1
         /\ \A j \in 1 .. Len(q) - 1 : RemoveAt(q, i)[j] = IF j < i THEN q[j] ELSE q[j + 1]
         /\ ToSet(RemoveAt(q, i)) = ToSet(q) \ {q[i]}
         /\ Distinct(RemoveAt(q, i))
  <1> DEFINE a == SubSeq(q, 1, i - 1)
             b == SubSeq(q, i + 1, Len(q))
             r == RemoveAt(q, i)
  <1>0. Len(q) \in Nat /\ i \in Nat /\ i \in Int /\ \A j \in 1 .. Len(q) : q[j] \in S
    BY LenProperties, ElementOfSeq
  <1>1. /\ a \in Seq(S) /\ Len(a) = i - 1
        /\ \A j \in 1 .. i - 1 : a[j] = q[j]
    BY <1>0, SubSeqProperties
  <1>2. /\ b \in Seq(S) /\ Len(b) = Len(q) - i
        /\ \A j \in 1 .. Len(q) - i : b[j] = q[i + j]
    BY <1>0, SubSeqProperties
  <1>3. /\ a \o b \in Seq(S) /\ Len(a \o b) = Len(a) + Len(b)
        /\ \A j \in 1 .. Len(a) + Len(b) : (a \o b)[j] = IF j <= Len(a) THEN a[j] ELSE b[j - Len(a)]
    <2> HIDE DEF a, b
    <2> QED BY <1>1, <1>2, ConcatProperties
  <1>4. r = a \o b
    BY DEF RemoveAt
  <1> HIDE DEF r, a, b
  <1>5. r \in Seq(S) /\ Len(r) = Len(q) - 1
    <2>1. Len(a) + Len(b) = Len(q) - 1
      BY <1>0, <1>1, <1>2
    <2>2. QED
      BY <1>3, <1>4, <2>1
  <1>6. \A j \in 1 .. Len(q) - 1 : r[j] = IF j < i THEN q[j] ELSE q[j + 1]
    <2> SUFFICES ASSUME NEW j \in 1 .. Len(q) - 1 PROVE r[j] = IF j < i THEN q[j] ELSE q[j + 1]
      OBVIOUS
    <2>1. r[j] = IF j <= i - 1 THEN a[j] ELSE b[j - (i - 1)]
      BY <1>0, <1>1, <1>2, <1>3, <1>4
    <2>2. CASE j < i
      BY <1>0, <1>1, <2>1, <2>2
    <2>3. CASE ~ (j < i)
      <3>1. j - (i - 1) \in 1 .. Len(q) - i
        BY <1>0, <2>3
      <3>2. i + (j - (i - 1)) = j + 1
        BY <1>0
      <3>3. QED
        BY <1>0, <1>2, <2>1, <2>3, <3>1, <3>2
    <2>4. QED
      BY <2>2, <2>3
  <1>7. ToSet(r) = {r[j] : j \in 1 .. Len(q) - 1} /\ ToSet(q) = {q[j] : j \in 1 .. Len(q)}
    BY <1>5, SetOf
  <1>8. ToSet(r) \subseteq ToSet(q) \ {q[i]}
    BY <1>0, <1>6, <1>7 DEF Distinct
  <1>9. ASSUME NEW x \in ToSet(q) \ {q[i]} PROVE x \in ToSet(r)
    <2>1. PICK j \in 1 .. Len(q) : x = q[j]
      BY <1>7
    <2>2. j # i
      BY <1>9, <2>1
    <2>3. CASE j < i
      <3>1. j \in 1 .. Len(q) - 1 /\ r[j] = x
        BY <1>0, <1>6, <2>1, <2>3
      <3>2. QED
        BY <1>7, <3>1
    <2>4. CASE j > i
      <3>1. j - 1 \in 1 .. Len(q) - 1 /\ ~ (j - 1 < i) /\ (j - 1) + 1 = j
        BY <1>0, <2>4
      <3>2. r[j - 1] = x
        BY <1>6, <2>1, <3>1
      <3>3. QED
        BY <1>7, <3>1, <3>2
    <2>5. QED
      BY <1>0, <2>2, <2>3, <2>4
  <1>10. Distinct(r)
    <2> SUFFICES ASSUME NEW j \in 1 .. Len(q) - 1, NEW m \in 1 .. Len(q) - 1, r[j] = r[m]
        PROVE  j = m
      BY <1>5 DEF Distinct
    <2>1. r[j] = (IF j < i THEN q[j] ELSE q[j + 1]) /\ r[m] = IF m < i THEN q[m] ELSE q[m + 1]
      BY <1>6
    <2>2. j \in 1 .. Len(q) /\ j + 1 \in 1 .. Len(q) /\ m \in 1 .. Len(q) /\ m + 1 \in 1 .. Len(q)
      BY <1>0
    <2>3. (IF j < i THEN j ELSE j + 1) = IF m < i THEN m ELSE m + 1
      BY <2>1, <2>2 DEF Distinct
    <2>4. QED
      BY <1>0, <2>3
  <1>11. QED
    BY <1>5, <1>6, <1>8, <1>9, <1>10 DEF r

\* Putting another element in a place.
LEMMA ReplaceSet ==
  ASSUME NEW S, NEW q \in Seq(S), NEW i \in 1 .. Len(q), NEW x \in S, Distinct(q), x \notin ToSet(q)
  PROVE  /\ ReplaceAt(q, i, x) \in Seq(S) /\ Len(ReplaceAt(q, i, x)) = Len(q)
         /\ ToSet(ReplaceAt(q, i, x)) = (ToSet(q) \ {q[i]}) \cup {x}
         /\ Distinct(ReplaceAt(q, i, x))
  <1> DEFINE r == ReplaceAt(q, i, x)
  <1>1. /\ r \in Seq(S) /\ Len(r) = Len(q)
        /\ \A j \in 1 .. Len(q) : r[j] = IF j = i THEN x ELSE q[j]
    BY ExceptSeq DEF ReplaceAt
  <1> HIDE DEF r
  <1>2. ToSet(r) = {r[j] : j \in 1 .. Len(q)} /\ ToSet(q) = {q[j] : j \in 1 .. Len(q)}
    BY <1>1, SetOf
  <1>3. ToSet(r) = (ToSet(q) \ {q[i]}) \cup {x}
    BY <1>1, <1>2 DEF Distinct
  <1>4. Distinct(r)
    BY <1>1, <1>2 DEF Distinct
  <1>5. QED
    BY <1>1, <1>3, <1>4 DEF r

-----------------------------------------------------------------------------
(* The stream: next uses.                                                  *)

StreamTypes == seq \in [1 .. Length -> Leaves] /\ t \in 0 .. Length

\* The first position from i on with leaf l.
FirstUse(l, i) == Min({u \in i .. Length - 1 : LeafAt(u) = l} \cup {Never})

\* What it is.
LEMMA FirstUseIs ==
  ASSUME NEW l, NEW i \in 0 .. Length
  PROVE  /\ FirstUse(l, i) \in i .. Length
         /\ FirstUse(l, i) # Never => LeafAt(FirstUse(l, i)) = l
         /\ \A u \in i .. Length - 1 : LeafAt(u) = l => FirstUse(l, i) <= u
  <1> DEFINE S == {u \in i .. Length - 1 : LeafAt(u) = l} \cup {Never}
  <1>1. Length \in Nat
    BY Sizes
  <1>2. S \in SUBSET (0 .. Length) /\ S # {} /\ S \subseteq i .. Length
    BY <1>1 DEF Never
  <1>3. \A u \in S : u = Never \/ LeafAt(u) = l
    OBVIOUS
  <1>4. \A u \in i .. Length - 1 : LeafAt(u) = l => u \in S
    OBVIOUS
  <1>5. FirstUse(l, i) = Min(S)
    BY DEF FirstUse
  <1> HIDE DEF S
  <1>6. Min(S) \in S /\ \A y \in S : Min(S) <= y
    BY <1>1, <1>2, MinIs
  <1>7. QED
    BY <1>2, <1>3, <1>4, <1>5, <1>6

\* It is here, or it is the first from the next position on.
LEMMA FirstUseHere ==
  ASSUME NEW l, NEW i \in 0 .. Length - 1
  PROVE  FirstUse(l, i) = IF LeafAt(i) = l THEN i ELSE FirstUse(l, i + 1)
  <1>0. Length \in Nat /\ i \in 0 .. Length /\ i + 1 \in 0 .. Length
    BY Sizes
  <1>1. CASE LeafAt(i) = l
    <2>1. FirstUse(l, i) <= i /\ FirstUse(l, i) \in i .. Length
      BY <1>0, <1>1, FirstUseIs
    <2>2. QED
      BY <1>0, <1>1, <2>1
  <1>2. CASE LeafAt(i) # l
    <2>1. {u \in i .. Length - 1 : LeafAt(u) = l} = {u \in i + 1 .. Length - 1 : LeafAt(u) = l}
      <3>1. \A u \in i .. Length - 1 : u = i \/ u \in i + 1 .. Length - 1
        BY <1>0
      <3>2. i + 1 .. Length - 1 \subseteq i .. Length - 1
        BY <1>0
      <3>3. QED
        BY <1>2, <3>1, <3>2
    <2>2. QED
      BY <1>2, <2>1 DEF FirstUse
  <1>3. QED
    BY <1>1, <1>2

\* At the end of the stream there is no use.
LEMMA NoUseAtEnd == ASSUME NEW l PROVE FirstUse(l, Length) = Never
  <1>1. Length \in Nat
    BY Sizes
  <1>2. Length \in 0 .. Length
    BY <1>1
  <1>3. FirstUse(l, Length) \in Length .. Length
    BY <1>2, FirstUseIs
  <1>4. QED
    BY <1>1, <1>3 DEF Never

\* Two leaves that are used again are used at different positions.
LEMMA UsesDiffer ==
  ASSUME NEW l, NEW m, NEW i \in 0 .. Length, FirstUse(l, i) = FirstUse(m, i), FirstUse(l, i) # Never
  PROVE  l = m
  BY FirstUseIs

\* next_use of Belady.reset and of the kernel.
LEMMA NextUseIs == ASSUME NEW i PROVE NextUse(i) = FirstUse(LeafAt(i), i + 1)
  BY DEF NextUse, FirstUse

\* The leaves of a stream.
LEMMA LeafIs == ASSUME StreamTypes, NEW i \in 0 .. Length - 1 PROVE LeafAt(i) \in Leaves
  <1>1. i + 1 \in 1 .. Length
    BY Sizes
  <1>2. QED
    BY <1>1 DEF StreamTypes, LeafAt

IsLastSeen(g) ==
    g = [j \in 1 .. Length |-> IF j = Length THEN [l \in Leaves |-> Never]
                               ELSE [g[j + 1] EXCEPT ![LeafAt(j)] = j]]

\* Filling from the back finds the next uses: they solve its recursion, and
\* nothing else does.
LEMMA FillsNextUse ==
  ASSUME StreamTypes, NEW i \in 0 .. Length - 1
  PROVE  FillNextUse(i) = NextUse(i)
  <1> DEFINE Uses(j) == [l \in Leaves |-> FirstUse(l, j)]
             g == [j \in 1 .. Length |-> Uses(j)]
             Step(h, j) == IF j = Length THEN [l \in Leaves |-> Never] ELSE [h EXCEPT ![LeafAt(j)] = j]
  <1>0. Length \in Nat \ {0}
    BY Sizes
  <1>1. Uses(Length) = [l \in Leaves |-> Never]
    BY NoUseAtEnd
  <1>2. ASSUME NEW j \in 1 .. Length - 1
        PROVE  Uses(j) = [Uses(j + 1) EXCEPT ![LeafAt(j)] = j]
    <2>1. \A l \in Leaves : FirstUse(l, j) = IF l = LeafAt(j) THEN j ELSE FirstUse(l, j + 1)
      <3>1. j \in 0 .. Length - 1
        BY <1>0
      <3>2. QED
        BY <3>1, FirstUseHere
    <2>2. QED
      BY <2>1
  <1> HIDE DEF Uses
  <1>3. IsLastSeen(g)
    <2>1. ASSUME NEW j \in 1 .. Length
          PROVE  Uses(j) = IF j = Length THEN [l \in Leaves |-> Never] ELSE [g[j + 1] EXCEPT ![LeafAt(j)] = j]
      <3>1. CASE j = Length
        BY <1>1, <3>1
      <3>2. CASE j # Length
        <4>1. j \in 1 .. Length - 1 /\ j + 1 \in 1 .. Length
          BY <1>0, <3>2
        <4>2. g[j + 1] = Uses(j + 1)
          BY <4>1
        <4>3. QED
          BY <1>2, <3>2, <4>1, <4>2
      <3>3. QED
        BY <3>1, <3>2
    <2>2. QED
      BY <2>1 DEF IsLastSeen
  <1>4. IsLastSeen(LastSeen)
    <2> HIDE DEF g
    <2>1. \E f : IsLastSeen(f)
      BY <1>3
    <2>2. QED
      BY <2>1 DEF LastSeen, IsLastSeen
  <1> DEFINE Bad == {j \in 1 .. Length : LastSeen[j] # Uses(j)}
  <1>5. ASSUME NEW j \in Bad, \A m \in Bad : m <= j PROVE FALSE
    <2>1. LastSeen[j] = IF j = Length THEN [l \in Leaves |-> Never] ELSE [LastSeen[j + 1] EXCEPT ![LeafAt(j)] = j]
      BY <1>4 DEF IsLastSeen
    <2>2. CASE j = Length
      BY <1>1, <2>1, <2>2
    <2>3. CASE j # Length
      <3>1. j \in 1 .. Length - 1 /\ j + 1 \in 1 .. Length /\ ~ (j + 1 <= j)
        BY <1>0, <2>3
      <3>2. LastSeen[j + 1] = Uses(j + 1)
        BY <1>5, <3>1
      <3>3. QED
        BY <1>2, <2>1, <2>3, <3>1, <3>2
    <2>4. QED
      BY <2>2, <2>3
  <1>6. Bad = {}
    <2>1. Bad \in SUBSET (0 .. Length) /\ Length \in Nat
      BY <1>0
    <2> HIDE DEF Bad
    <2>2. QED
      BY <1>5, <2>1, Greatest
  <1>7. i + 1 \in 1 .. Length /\ LeafAt(i) \in Leaves
    BY <1>0, LeafIs
  <1>8. LastSeen[i + 1] = Uses(i + 1)
    BY <1>6, <1>7
  <1>9. QED
    BY <1>7, <1>8, NextUseIs DEF FillNextUse, Uses

-----------------------------------------------------------------------------
(* The last access of every leaf, which the Fenwick tree keeps.            *)

LastOf(l) == fenwick.last[l]
Seen == {l \in Leaves : LastOf(l) # None}

FenwickInv ==
    /\ fenwick \in [ones : SUBSET Nat, last : [Leaves -> Int], rd : Seq(Int)]
    /\ \A l \in Seen : LastOf(l) \in 0 .. t - 1 /\ LeafAt(LastOf(l)) = l
    /\ \A i \in 0 .. t - 1 : LeafAt(i) \in Seen /\ i <= LastOf(LeafAt(i))
    /\ fenwick.ones = {LastOf(l) : l \in Seen}
    /\ Len(fenwick.rd) = t

\* The leaves seen are those of the stream so far.
LEMMA SeenIs == ASSUME FenwickInv PROVE Seen = {LeafAt(i) : i \in 0 .. t - 1}
  BY DEF FenwickInv, Seen

\* Two leaves have not the same last access.
LEMMA LastDiffers ==
  ASSUME FenwickInv, NEW l \in Seen, NEW m \in Seen, LastOf(l) = LastOf(m)
  PROVE  l = m
  BY DEF FenwickInv

\* What an access does to the last accesses.
LEMMA LastMoves ==
  ASSUME StreamTypes, FenwickInv, Access
  PROVE  /\ LeafAt(t) \in Leaves
         /\ \A l \in Leaves : LastOf(l)' = IF l = LeafAt(t) THEN t ELSE LastOf(l)
         /\ Seen' = Seen \cup {LeafAt(t)}
         /\ \A l \in Seen : LastOf(l) < t
  <1>0. /\ t < Length /\ t \in 0 .. Length - 1 /\ fenwick' = FenwickAccess(fenwick, LeafAt(t))
        /\ Length \in Nat
    BY Sizes DEF Access, StreamTypes
  <1>1. LeafAt(t) \in Leaves
    BY <1>0, LeafIs
  <1>2. fenwick'.last = [fenwick.last EXCEPT ![LeafAt(t)] = t]
    BY <1>0 DEF FenwickAccess
  <1>3. fenwick.last \in [Leaves -> Int]
    BY DEF FenwickInv
  <1>4. \A l \in Leaves : LastOf(l)' = IF l = LeafAt(t) THEN t ELSE LastOf(l)
    BY <1>1, <1>2, <1>3 DEF LastOf
  <1>5. t # None
    BY <1>0 DEF None
  <1>6. Seen' = {l \in Leaves : LastOf(l)' # None}
    BY DEF Seen
  <1>7. Seen' = Seen \cup {LeafAt(t)}
    BY <1>1, <1>4, <1>5, <1>6 DEF Seen
  <1>8. \A l \in Seen : LastOf(l) < t
    BY <1>0 DEF FenwickInv
  <1>9. QED
    BY <1>1, <1>4, <1>7, <1>8

\* An access keeps FenwickInv.
LEMMA FenwickStep == ASSUME StreamTypes, FenwickInv, Access PROVE FenwickInv'
  <1> DEFINE l == LeafAt(t)
  <1>0. /\ t < Length /\ t \in 0 .. Length - 1 /\ fenwick' = FenwickAccess(fenwick, l)
        /\ seq' = seq /\ t' = t + 1
    BY Sizes DEF Access, StreamTypes
  <1>1. /\ l \in Leaves
        /\ \A m \in Leaves : LastOf(m)' = IF m = l THEN t ELSE LastOf(m)
        /\ Seen' = Seen \cup {l}
        /\ Seen \subseteq Leaves
    BY LastMoves DEF Seen
  <1>2. /\ fenwick \in [ones : SUBSET Nat, last : [Leaves -> Int], rd : Seq(Int)]
        /\ fenwick.last \in [Leaves -> Int] /\ fenwick.rd \in Seq(Int) /\ fenwick.ones \in SUBSET Nat
    BY DEF FenwickInv
  <1>3. Distance(fenwick, l) \in Int
    <2>1. CASE fenwick.last[l] = None
      BY <2>1 DEF Distance, None
    <2>2. CASE fenwick.last[l] # None
      <3>1. IsFiniteSet(fenwick.last[l] + 1 .. t - 1)
        BY <1>0, <1>1, <1>2, FS_Interval
      <3>2. IsFiniteSet(fenwick.ones \cap (fenwick.last[l] + 1 .. t - 1))
        BY <3>1, FS_Intersection
      <3>3. QED
        BY <2>2, <3>2, FS_CardinalityType DEF Distance
    <2>3. QED
      BY <2>1, <2>2
  <1>4. /\ fenwick' = [ones |-> (fenwick.ones \ {fenwick.last[l]}) \cup {t},
                       last |-> [fenwick.last EXCEPT ![l] = t],
                       rd |-> Append(fenwick.rd, Distance(fenwick, l))]
    BY <1>0 DEF FenwickAccess
  <1>5. /\ Append(fenwick.rd, Distance(fenwick, l)) \in Seq(Int)
        /\ Len(Append(fenwick.rd, Distance(fenwick, l))) = t + 1
    BY <1>2, <1>3, AppendProperties DEF FenwickInv
  <1>6. fenwick' \in [ones : SUBSET Nat, last : [Leaves -> Int], rd : Seq(Int)] /\ Len(fenwick'.rd) = t'
    BY <1>0, <1>1, <1>2, <1>4, <1>5
  <1>7. \A m \in Seen' : LastOf(m)' \in 0 .. t' - 1 /\ seq'[LastOf(m)' + 1] = m
    <2> SUFFICES ASSUME NEW m \in Seen' PROVE LastOf(m)' \in 0 .. t' - 1 /\ LeafAt(LastOf(m)') = m
      BY <1>0 DEF LeafAt
    <2>1. CASE m = l
      BY <1>0, <1>1, <2>1
    <2>2. CASE m # l
      BY <1>0, <1>1, <2>2 DEF FenwickInv
    <2>3. QED
      BY <2>1, <2>2
  <1>8. \A i \in 0 .. t' - 1 : seq'[i + 1] \in Seen' /\ i <= fenwick'.last[seq'[i + 1]]
    <2> SUFFICES ASSUME NEW i \in 0 .. t' - 1 PROVE LeafAt(i) \in Seen' /\ i <= fenwick'.last[LeafAt(i)]
      BY <1>0 DEF LeafAt
    <2>1. CASE LeafAt(i) = l
      BY <1>0, <1>1, <2>1 DEF LastOf
    <2>2. CASE LeafAt(i) # l
      <3>1. i \in 0 .. t - 1
        BY <1>0, <2>2
      <3>2. QED
        BY <1>0, <1>1, <2>2, <3>1 DEF FenwickInv, LastOf
    <2>3. QED
      BY <2>1, <2>2
  <1>9. fenwick'.ones = {LastOf(m)' : m \in Seen'}
    <2>1. fenwick.ones = {LastOf(m) : m \in Seen}
      BY DEF FenwickInv
    <2>2. \A m \in Seen : m # l => LastOf(m) # LastOf(l)
      <3> SUFFICES ASSUME NEW m \in Seen, m # l, LastOf(m) = LastOf(l) PROVE FALSE
        OBVIOUS
      <3>1. l \in Seen
        BY <1>1 DEF Seen
      <3>2. QED
        BY <3>1, LastDiffers
    <2>3. {LastOf(m)' : m \in Seen'} = {LastOf(m) : m \in Seen \ {l}} \cup {t}
      BY <1>1
    <2>4. {LastOf(m) : m \in Seen \ {l}} = fenwick.ones \ {LastOf(l)}
      BY <2>1, <2>2
    <2>5. fenwick'.ones = (fenwick.ones \ {LastOf(l)}) \cup {t}
      BY <1>4 DEF LastOf
    <2>6. QED
      BY <2>3, <2>4, <2>5
  <1>10. QED
    BY <1>6, <1>7, <1>8, <1>9 DEF FenwickInv, LeafAt, LastOf

-----------------------------------------------------------------------------
(* What simulate records, with the residents in a set or a sequence R.     *)

PlainRecords(R) ==
    [hit : BOOLEAN, hits : Nat, inserts : Nat, evictions : Nat, resident : R]

ScoredRecords(R) ==
    [hit : BOOLEAN, hits : Nat, inserts : Nat, evictions : Nat, resident : R,
     weight : [Leaves -> Nat], last : [Leaves -> Int]]

BeladyRecords(R) ==
    [hit : BOOLEAN, hits : Nat, inserts : Nat, evictions : Nat, resident : R,
     next : [Leaves -> Int]]

\* Counting a hit, of LRU and the window oracle.
LEMMA PlainHit ==
  ASSUME NEW R, NEW c \in PlainRecords(R)
  PROVE  LET d == Hit(c) IN
         /\ d \in PlainRecords(R) /\ d.hit = TRUE /\ d.hits = c.hits + 1 /\ d.inserts = c.inserts
         /\ d.evictions = c.evictions /\ d.resident = c.resident
  <1>1. c.hits + 1 \in Nat
    BY DEF PlainRecords
  <1>2. QED
    BY <1>1, Zenon DEF Hit, PlainRecords

\* Counting an insert.
LEMMA PlainInsert ==
  ASSUME NEW R, NEW c \in PlainRecords(R), NEW e \in Nat
  PROVE  LET d == Insert(c, e) IN
         /\ d \in PlainRecords(R) /\ d.hit = FALSE /\ d.hits = c.hits /\ d.inserts = c.inserts + 1
         /\ d.evictions = c.evictions + e /\ d.resident = c.resident
  <1>1. c.inserts + 1 \in Nat /\ c.evictions + e \in Nat
    BY DEF PlainRecords
  <1>2. QED
    BY <1>1, Zenon DEF Insert, PlainRecords

\* Changing the residents.
LEMMA PlainHeld ==
  ASSUME NEW R, NEW c \in PlainRecords(R), NEW r \in R
  PROVE  LET d == [c EXCEPT !.resident = r] IN
         /\ d \in PlainRecords(R) /\ d.hit = c.hit /\ d.hits = c.hits /\ d.inserts = c.inserts
         /\ d.evictions = c.evictions /\ d.resident = r
  BY Zenon DEF PlainRecords

\* A miss that changes nothing.
LEMMA PlainBypass ==
  ASSUME NEW R, NEW c \in PlainRecords(R)
  PROVE  LET d == Bypass(c) IN
         /\ d \in PlainRecords(R) /\ d.hit = FALSE /\ d.hits = c.hits /\ d.inserts = c.inserts
         /\ d.evictions = c.evictions /\ d.resident = c.resident
  BY Zenon DEF Bypass, PlainRecords

\* Counting a hit, of decayed LFU.
LEMMA ScoredHit ==
  ASSUME NEW R, NEW c \in ScoredRecords(R)
  PROVE  LET d == Hit(c) IN
         /\ d \in ScoredRecords(R) /\ d.hit = TRUE /\ d.hits = c.hits + 1 /\ d.inserts = c.inserts
         /\ d.evictions = c.evictions /\ d.resident = c.resident /\ d.weight = c.weight /\ d.last = c.last
  <1>1. c.hits + 1 \in Nat
    BY DEF ScoredRecords
  <1>2. QED
    BY <1>1, Zenon DEF Hit, ScoredRecords

\* Counting an insert.
LEMMA ScoredInsert ==
  ASSUME NEW R, NEW c \in ScoredRecords(R), NEW e \in Nat
  PROVE  LET d == Insert(c, e) IN
         /\ d \in ScoredRecords(R) /\ d.hit = FALSE /\ d.hits = c.hits /\ d.inserts = c.inserts + 1
         /\ d.evictions = c.evictions + e /\ d.resident = c.resident /\ d.weight = c.weight /\ d.last = c.last
  <1>1. c.inserts + 1 \in Nat /\ c.evictions + e \in Nat
    BY DEF ScoredRecords
  <1>2. QED
    BY <1>1, Zenon DEF Insert, ScoredRecords

\* Changing the residents.
LEMMA ScoredHeld ==
  ASSUME NEW R, NEW c \in ScoredRecords(R), NEW r \in R
  PROVE  LET d == [c EXCEPT !.resident = r] IN
         /\ d \in ScoredRecords(R) /\ d.hit = c.hit /\ d.hits = c.hits /\ d.inserts = c.inserts
         /\ d.evictions = c.evictions /\ d.resident = r /\ d.weight = c.weight /\ d.last = c.last
  BY Zenon DEF ScoredRecords

\* Counting a hit, of Belady.
LEMMA BeladyHit ==
  ASSUME NEW R, NEW c \in BeladyRecords(R)
  PROVE  LET d == Hit(c) IN
         /\ d \in BeladyRecords(R) /\ d.hit = TRUE /\ d.hits = c.hits + 1 /\ d.inserts = c.inserts
         /\ d.evictions = c.evictions /\ d.resident = c.resident /\ d.next = c.next
  <1>1. c.hits + 1 \in Nat
    BY DEF BeladyRecords
  <1>2. QED
    BY <1>1, Zenon DEF Hit, BeladyRecords

\* Counting an insert.
LEMMA BeladyInsert ==
  ASSUME NEW R, NEW c \in BeladyRecords(R), NEW e \in Nat
  PROVE  LET d == Insert(c, e) IN
         /\ d \in BeladyRecords(R) /\ d.hit = FALSE /\ d.hits = c.hits /\ d.inserts = c.inserts + 1
         /\ d.evictions = c.evictions + e /\ d.resident = c.resident /\ d.next = c.next
  <1>1. c.inserts + 1 \in Nat /\ c.evictions + e \in Nat
    BY DEF BeladyRecords
  <1>2. QED
    BY <1>1, Zenon DEF Insert, BeladyRecords

\* Changing the residents.
LEMMA BeladyHeld ==
  ASSUME NEW R, NEW c \in BeladyRecords(R), NEW r \in R
  PROVE  LET d == [c EXCEPT !.resident = r] IN
         /\ d \in BeladyRecords(R) /\ d.hit = c.hit /\ d.hits = c.hits /\ d.inserts = c.inserts
         /\ d.evictions = c.evictions /\ d.resident = r /\ d.next = c.next
  BY Zenon DEF BeladyRecords

\* A miss that changes nothing.
LEMMA BeladyBypass ==
  ASSUME NEW R, NEW c \in BeladyRecords(R)
  PROVE  LET d == Bypass(c) IN
         /\ d \in BeladyRecords(R) /\ d.hit = FALSE /\ d.hits = c.hits /\ d.inserts = c.inserts
         /\ d.evictions = c.evictions /\ d.resident = c.resident /\ d.next = c.next
  BY Zenon DEF Bypass, BeladyRecords

\* Only the score of l has become w, at now.
ScoredAs(c, l, w, now, d) ==
    /\ d.hit = c.hit /\ d.hits = c.hits /\ d.inserts = c.inserts
    /\ d.evictions = c.evictions /\ d.resident = c.resident
    /\ d.weight = [c.weight EXCEPT ![l] = w]
    /\ d.last = [c.last EXCEPT ![l] = now]

\* score[leaf], last[leaf] = prev + n, now.
LEMMA ScoredMoves ==
  ASSUME NEW R, NEW c \in ScoredRecords(R), NEW gain, NEW l \in Leaves, NEW n, NEW now \in Int,
         c.weight[l] + n * gain[now] \in Nat
  PROVE  LET d == Scored(c, gain, l, n, now) IN
         d \in ScoredRecords(R) /\ ScoredAs(c, l, c.weight[l] + n * gain[now], now, d)
  <1> DEFINE w == c.weight[l] + n * gain[now]
  <1>1. w \in Nat
    OBVIOUS
  <1>2. Scored(c, gain, l, n, now) = [c EXCEPT !.weight[l] = w, !.last[l] = now]
    BY DEF Scored
  <1> HIDE DEF w
  <1>3. c.weight \in [Leaves -> Nat] /\ c.last \in [Leaves -> Int]
    BY Zenon DEF ScoredRecords
  <1>4. [c.weight EXCEPT ![l] = w] \in [Leaves -> Nat] /\ [c.last EXCEPT ![l] = now] \in [Leaves -> Int]
    BY <1>1, <1>3
  <1>5. QED
    BY <1>2, <1>4, Zenon DEF ScoredRecords, ScoredAs, w

\* The next use of a leaf.
LEMMA BeladyUsed ==
  ASSUME NEW R, NEW c \in BeladyRecords(R), NEW l \in Leaves, NEW nxt \in Int
  PROVE  LET d == Used(c, l, nxt) IN
         /\ d \in BeladyRecords(R) /\ d.hit = c.hit /\ d.hits = c.hits /\ d.inserts = c.inserts
         /\ d.evictions = c.evictions /\ d.resident = c.resident
         /\ d.next = [c.next EXCEPT ![l] = nxt]
  <1>1. c.next \in [Leaves -> Int]
    BY Zenon DEF BeladyRecords
  <1>2. [c.next EXCEPT ![l] = nxt] \in [Leaves -> Int]
    BY <1>1
  <1>3. QED
    BY <1>2, Zenon DEF BeladyRecords, Used

-----------------------------------------------------------------------------
(* LRU: the residents of every capacity are the leaves seen last.          *)

LruRecords == PlainRecords(Seq(Leaves))

\* The first element of a sequence is the one Tail drops.
LEMMA TailRemoves ==
  ASSUME NEW S, NEW q \in Seq(S), q # <<>>
  PROVE  Tail(q) = RemoveAt(q, 1)
  <1>1. Len(q) \in Nat /\ Len(q) >= 1
    BY EmptySeq, LenProperties
  <1>2. SubSeq(q, 1, 1 - 1) = <<>>
    BY SubSeqEmpty
  <1>3. Tail(q) = SubSeq(q, 2, Len(q)) /\ Tail(q) \in Seq(S)
    BY TailIsSubSeq, HeadTailProperties
  <1>4. <<>> \o Tail(q) = Tail(q)
    BY <1>3, ConcatEmptySeq
  <1>5. 1 + 1 = 2
    OBVIOUS
  <1>6. QED
    BY <1>2, <1>3, <1>4, <1>5 DEF RemoveAt

\* In the order of their last access, which f keeps.
Ordered(q, f) == \A i, j \in 1 .. Len(q) : i < j => f[q[i]] < f[q[j]]

\* Removing keeps the order.
LEMMA RemoveOrdered ==
  ASSUME NEW S, NEW q \in Seq(S), NEW i \in 1 .. Len(q), NEW f, Distinct(q), Ordered(q, f)
  PROVE  Ordered(RemoveAt(q, i), f)
  <1> DEFINE s == RemoveAt(q, i)
  <1>1. Len(s) = Len(q) - 1 /\ \A j \in 1 .. Len(q) - 1 : s[j] = IF j < i THEN q[j] ELSE q[j + 1]
    BY RemoveSet
  <1>2. Len(q) \in Nat
    BY LenProperties
  <1> HIDE DEF s
  <1>3. ASSUME NEW j \in 1 .. Len(s), NEW m \in 1 .. Len(s), j < m PROVE f[s[j]] < f[s[m]]
    <2> DEFINE a == IF j < i THEN j ELSE j + 1
               b == IF m < i THEN m ELSE m + 1
    <2>1. s[j] = q[a] /\ s[m] = q[b]
      BY <1>1
    <2>2. a \in 1 .. Len(q) /\ b \in 1 .. Len(q) /\ a < b
      BY <1>1, <1>2, <1>3
    <2> HIDE DEF a, b
    <2>3. QED
      BY <2>1, <2>2 DEF Ordered
  <1>4. QED
    BY <1>3 DEF Ordered, s

\* The residents of LRU with capacity k, by last access: a leaf seen that is
\* not resident is older than all of k residents.
LruSeq(q, k, f) ==
    /\ q \in Seq(Leaves) /\ Distinct(q) /\ Len(q) <= k /\ Ordered(q, f)
    /\ \A x \in ToSet(q) : f[x] # None
    /\ \A m \in Leaves \ ToSet(q) :
           f[m] # None => Len(q) = k /\ \A x \in ToSet(q) : f[m] < f[x]

\* What an access makes of the residents.
LruSeqMoves(q, k, l, r) ==
    /\ l \in ToSet(q) => \E i \in 1 .. Len(q) : q[i] = l /\ r = Append(RemoveAt(q, i), l)
    /\ l \notin ToSet(q) /\ Len(q) < k => r = Append(q, l)
    /\ l \notin ToSet(q) /\ Len(q) = k => 1 \in 1 .. Len(q) /\ r = Append(RemoveAt(q, 1), l)

\* One access of LRU.
LEMMA LruMoves ==
  ASSUME NEW c \in LruRecords, NEW k \in Nat \ {0}, NEW l \in Leaves, NEW q, q = c.resident,
         Distinct(q), Len(q) <= k, NEW d, d = LruAccess(c, k, l)
  PROVE  /\ d \in LruRecords
         /\ d.hit <=> l \in ToSet(q)
         /\ d.hits = c.hits + IF l \in ToSet(q) THEN 1 ELSE 0
         /\ d.inserts = c.inserts + IF l \in ToSet(q) THEN 0 ELSE 1
         /\ d.evictions = c.evictions + IF l \in ToSet(q) \/ Len(q) < k THEN 0 ELSE 1
         /\ LruSeqMoves(q, k, l, d.resident)
  <1>0. q \in Seq(Leaves) /\ c \in PlainRecords(Seq(Leaves)) /\ c.hits \in Nat /\ c.inserts \in Nat /\ c.evictions \in Nat
    BY DEF LruRecords, PlainRecords
  <1>1. /\ DOMAIN q = 1 .. Len(q) /\ Len(q) \in Nat /\ ToSet(q) = {q[i] : i \in 1 .. Len(q)}
        /\ Contains(q, l) <=> l \in ToSet(q)
    BY <1>0, SetOf
  <1>2. CASE l \in ToSet(q)
    <2>1. PICK i \in 1 .. Len(q) : q[i] = l /\ Refreshed(q, l) = Append(RemoveAt(q, i), l)
      BY <1>1, <1>2 DEF Refreshed
    <2>2. Refreshed(q, l) \in Seq(Leaves)
      <3>1. RemoveAt(q, i) \in Seq(Leaves)
        BY <1>0, RemoveSet
      <3>2. QED
        BY <2>1, <3>1, AppendSet
    <2>3. PICK h \in PlainRecords(Seq(Leaves)) :
             h = Hit(c) /\ h.hit = TRUE /\ h.hits = c.hits + 1 /\ h.inserts = c.inserts
             /\ h.evictions = c.evictions /\ h.resident = q
      BY <1>0, PlainHit
    <2>4. d = [h EXCEPT !.resident = Refreshed(q, l)]
      BY <1>1, <1>2, <2>3, Zenon DEF LruAccess
    <2>5. /\ d \in LruRecords /\ d.hit = TRUE /\ d.hits = c.hits + 1 /\ d.inserts = c.inserts
          /\ d.evictions = c.evictions /\ d.resident = Refreshed(q, l)
      BY <2>2, <2>3, <2>4, PlainHeld DEF LruRecords
    <2>6. LruSeqMoves(q, k, l, d.resident)
      BY <1>2, <2>1, <2>5 DEF LruSeqMoves
    <2>7. d.evictions = c.evictions + 0 /\ d.inserts = c.inserts + 0
      BY <1>0, <2>5
    <2>8. QED
      BY <1>2, <2>5, <2>6, <2>7, Zenon
  <1>3. CASE l \notin ToSet(q)
    <2> DEFINE kept == IF Len(q) >= k THEN Tail(q) ELSE q
               e == IF Len(q) >= k THEN 1 ELSE 0
    <2>1. Len(q) >= k => q # <<>> /\ 1 \in 1 .. Len(q)
      BY <1>0, <1>1, EmptySeq
    <2>2. Len(q) >= k => kept = RemoveAt(q, 1)
      BY <1>0, <2>1, TailRemoves
    <2>3. kept \in Seq(Leaves)
      <3>1. Len(q) >= k => RemoveAt(q, 1) \in Seq(Leaves)
        BY <1>0, <2>1, RemoveSet
      <3>2. QED
        BY <1>0, <2>2, <3>1
    <2>4. Append(kept, l) \in Seq(Leaves)
      BY <2>3, AppendSet
    <2>5. PICK h \in PlainRecords(Seq(Leaves)) :
             h = Insert(c, e) /\ h.hit = FALSE /\ h.hits = c.hits /\ h.inserts = c.inserts + 1
             /\ h.evictions = c.evictions + e /\ h.resident = q
      <3>1. e \in Nat
        OBVIOUS
      <3> HIDE DEF e
      <3>2. QED
        BY <1>0, <3>1, PlainInsert, ZenonT(60)
    <2>6. d = [h EXCEPT !.resident = Append(kept, l)]
      BY <1>1, <1>3, <2>5, Zenon DEF LruAccess
    <2>7. e = IF Len(q) < k THEN 0 ELSE 1
      BY <1>1
    <2>8. Len(q) < k => kept = q
      BY <1>1
    <2>9. Len(q) = k => Len(q) >= k
      BY <1>1
    <2> HIDE DEF kept, e
    <2>10. /\ d \in LruRecords /\ d.hit = FALSE /\ d.hits = c.hits /\ d.inserts = c.inserts + 1
           /\ d.evictions = c.evictions + e /\ d.resident = Append(kept, l)
      <3>1. PICK w \in Seq(Leaves) : w = Append(kept, l)
        BY <2>4
      <3>2. d = [h EXCEPT !.resident = w]
        BY <2>6, <3>1
      <3>3. /\ d \in PlainRecords(Seq(Leaves)) /\ d.hit = h.hit /\ d.hits = h.hits /\ d.inserts = h.inserts
            /\ d.evictions = h.evictions /\ d.resident = w
        BY <3>2, PlainHeld
      <3>4. QED
        BY <2>5, <3>1, <3>3 DEF LruRecords
    <2>11. LruSeqMoves(q, k, l, d.resident)
      BY <1>3, <2>1, <2>2, <2>8, <2>9, <2>10 DEF LruSeqMoves
    <2>12. d.hits = c.hits + 0
      BY <1>0, <2>10
    <2>13. e = IF l \in ToSet(q) \/ Len(q) < k THEN 0 ELSE 1
      BY <1>3, <2>7
    <2>14. d.hit <=> l \in ToSet(q)
      BY <1>3, <2>10
    <2>15. QED
      BY <1>3, <2>10, <2>11, <2>12, <2>13, <2>14, Zenon
  <1>4. QED
    BY <1>2, <1>3

\* Of q, all residents but v are kept, in s, below the leaf accessed.
Keeping(q, k, f, l, r, s, v) ==
    /\ r = Append(s, l) /\ Distinct(s) /\ Ordered(s, f)
    /\ ToSet(s) = ToSet(q) \ {v} /\ l \notin ToSet(s)
    /\ Len(s) = Len(q) - (IF l \notin ToSet(q) /\ Len(q) < k THEN 0 ELSE 1)
    /\ l \in ToSet(q) => v = l
    /\ v \in ToSet(q) /\ v # l => Len(q) = k /\ \A x \in ToSet(s) : f[v] < f[x]

\* The residents kept are in order, and the one dropped is the oldest.
LEMMA LruKeeps ==
  ASSUME NEW k \in Nat \ {0}, NEW f, NEW q, NEW r, NEW l \in Leaves, LruSeq(q, k, f), LruSeqMoves(q, k, l, r)
  PROVE  \E s \in Seq(Leaves) : \E v : Keeping(q, k, f, l, r, s, v)
  <1>1. q \in Seq(Leaves) /\ Distinct(q) /\ Len(q) <= k /\ Ordered(q, f) /\ Len(q) \in Nat
    BY LenProperties DEF LruSeq
  <1>2. CASE l \in ToSet(q)
    <2>1. PICK i \in 1 .. Len(q) : q[i] = l /\ r = Append(RemoveAt(q, i), l)
      BY <1>2 DEF LruSeqMoves
    <2> DEFINE s == RemoveAt(q, i)
    <2>2. s \in Seq(Leaves) /\ Len(s) = Len(q) - 1 /\ ToSet(s) = ToSet(q) \ {q[i]} /\ Distinct(s)
      BY <1>1, RemoveSet
    <2>3. Ordered(s, f)
      BY <1>1, RemoveOrdered
    <2> HIDE DEF s
    <2>4. r = Append(s, l)
      BY <2>1 DEF s
    <2>5. /\ r = Append(s, l) /\ Distinct(s) /\ Ordered(s, f)
          /\ ToSet(s) = ToSet(q) \ {l} /\ l \notin ToSet(s)
          /\ Len(s) = Len(q) - (IF l \notin ToSet(q) /\ Len(q) < k THEN 0 ELSE 1)
      BY <1>2, <2>1, <2>2, <2>3, <2>4
    <2>6. Keeping(q, k, f, l, r, s, l)
      BY <2>5 DEF Keeping
    <2>7. QED
      BY <2>2, <2>6
  <1>3. CASE l \notin ToSet(q) /\ Len(q) < k
    <2>1. r = Append(q, l)
      BY <1>3 DEF LruSeqMoves
    <2>2. ToSet(q) = ToSet(q) \ {l} /\ Len(q) = Len(q) - IF l \notin ToSet(q) /\ Len(q) < k THEN 0 ELSE 1
      BY <1>1, <1>3
    <2>3. Keeping(q, k, f, l, r, q, l)
      BY <1>1, <1>3, <2>1, <2>2, Zenon DEF Keeping
    <2>4. QED
      BY <1>1, <2>3
  <1>4. CASE l \notin ToSet(q) /\ Len(q) = k
    <2>1. 1 \in 1 .. Len(q) /\ r = Append(RemoveAt(q, 1), l)
      BY <1>4 DEF LruSeqMoves
    <2> DEFINE s == RemoveAt(q, 1)
    <2>2. s \in Seq(Leaves) /\ Len(s) = Len(q) - 1 /\ ToSet(s) = ToSet(q) \ {q[1]} /\ Distinct(s)
      BY <1>1, <2>1, RemoveSet
    <2>3. Ordered(s, f)
      BY <1>1, <2>1, RemoveOrdered
    <2>4. r = Append(s, l)
      BY <2>1
    <2> HIDE DEF s
    <2>5. ASSUME NEW x \in ToSet(s) PROVE f[q[1]] < f[x]
      <3>1. x \in ToSet(q) /\ x # q[1]
        BY <2>2, <2>5
      <3>2. PICK j \in 1 .. Len(q) : x = q[j]
        BY <1>1, <3>1, SetOf
      <3>3. 1 < j
        BY <3>1, <3>2
      <3>4. QED
        BY <1>1, <2>1, <3>2, <3>3 DEF Ordered
    <2>6. /\ l \notin ToSet(s)
          /\ Len(s) = Len(q) - (IF l \notin ToSet(q) /\ Len(q) < k THEN 0 ELSE 1)
      BY <1>1, <1>4, <2>2
    <2>7. Keeping(q, k, f, l, r, s, q[1])
      BY <1>4, <2>2, <2>3, <2>4, <2>5, <2>6, Zenon DEF Keeping
    <2>8. QED
      BY <2>2, <2>7
  <1>5. QED
    BY <1>1, <1>2, <1>3, <1>4

\* What becomes of the set of the residents.
Touched(q, k, l, r) ==
    /\ Len(r) = Len(q) + IF l \notin ToSet(q) /\ Len(q) < k THEN 1 ELSE 0
    /\ ToSet(r) \subseteq ToSet(q) \cup {l} /\ l \in ToSet(r)
    /\ l \in ToSet(q) => ToSet(r) = ToSet(q)
    /\ \E v : ToSet(q) \ {v} \subseteq ToSet(r)

\* One access keeps the order and the recency of the residents.
LEMMA LruSeqStep ==
  ASSUME NEW k \in Nat \ {0}, NEW f \in [Leaves -> Int], NEW g, NEW now \in Nat, NEW q, NEW r, NEW l \in Leaves,
         LruSeq(q, k, f), LruSeqMoves(q, k, l, r), \A x \in Leaves : f[x] < now, g = [f EXCEPT ![l] = now]
  PROVE  LruSeq(r, k, g) /\ Touched(q, k, l, r)
  <1>1. PICK s \in Seq(Leaves) : \E v : Keeping(q, k, f, l, r, s, v)
    BY LruKeeps
  <1>2. PICK v : /\ r = Append(s, l) /\ Distinct(s) /\ Ordered(s, f)
                 /\ ToSet(s) = ToSet(q) \ {v} /\ l \notin ToSet(s)
                 /\ Len(s) = Len(q) - (IF l \notin ToSet(q) /\ Len(q) < k THEN 0 ELSE 1)
                 /\ l \in ToSet(q) => v = l
                 /\ v \in ToSet(q) /\ v # l => Len(q) = k /\ \A x \in ToSet(s) : f[v] < f[x]
    BY <1>1 DEF Keeping
  <1>3. /\ q \in Seq(Leaves) /\ Len(q) <= k /\ Len(q) \in Nat /\ ToSet(q) \subseteq Leaves
        /\ \A x \in ToSet(q) : f[x] # None
        /\ \A m \in Leaves \ ToSet(q) : f[m] # None => Len(q) = k /\ \A x \in ToSet(q) : f[m] < f[x]
    <2>1. q \in Seq(Leaves) /\ Len(q) <= k
      BY DEF LruSeq
    <2>2. ToSet(q) \subseteq Leaves /\ Len(q) \in Nat
      BY <2>1, SetOf
    <2>3. QED
      BY <2>1, <2>2 DEF LruSeq
  <1>4. /\ Append(s, l) \in Seq(Leaves) /\ Len(Append(s, l)) = Len(s) + 1
        /\ \A i \in 1 .. Len(s) : Append(s, l)[i] = s[i]
        /\ Append(s, l)[Len(s) + 1] = l
        /\ ToSet(Append(s, l)) = ToSet(s) \cup {l}
        /\ Distinct(s) /\ l \notin ToSet(s) => Distinct(Append(s, l))
    BY AppendSet
  <1>5. Len(s) \in Nat /\ \A i \in 1 .. Len(s) : s[i] \in ToSet(s)
    BY SetOf
  <1>6. /\ r \in Seq(Leaves) /\ Len(r) = Len(s) + 1 /\ ToSet(r) = ToSet(s) \cup {l} /\ Distinct(r)
        /\ \A i \in 1 .. Len(s) : r[i] = s[i]
        /\ r[Len(s) + 1] = l
    BY <1>2, <1>4
  <1>7. Len(r) = Len(q) + (IF l \notin ToSet(q) /\ Len(q) < k THEN 1 ELSE 0) /\ Len(r) <= k
    <2>1. CASE l \in ToSet(q)
      BY <1>2, <1>3, <1>6, <2>1
    <2>2. CASE l \notin ToSet(q)
      BY <1>2, <1>3, <1>6, <2>2
    <2>3. QED
      BY <2>1, <2>2
  <1>8. g[l] = now /\ \A x \in Leaves \ {l} : g[x] = f[x] /\ f[x] < now
    OBVIOUS
  <1>9. ToSet(s) \subseteq Leaves \ {l} /\ now # None
    BY <1>2, <1>3 DEF None
  <1>10. Ordered(r, g)
    <2> SUFFICES ASSUME NEW i \in 1 .. Len(r), NEW j \in 1 .. Len(r), i < j PROVE g[r[i]] < g[r[j]]
      BY DEF Ordered
    <2>1. i \in 1 .. Len(s)
      BY <1>5, <1>6
    <2>2. r[i] = s[i] /\ g[s[i]] = f[s[i]] /\ f[s[i]] < now
      BY <1>5, <1>6, <1>8, <1>9, <2>1
    <2>3. CASE j = Len(s) + 1
      BY <1>6, <1>8, <2>2, <2>3
    <2>4. CASE j # Len(s) + 1
      <3>1. j \in 1 .. Len(s)
        BY <1>5, <1>6, <2>4
      <3>2. r[j] = s[j] /\ g[s[j]] = f[s[j]]
        BY <1>5, <1>6, <1>8, <1>9, <3>1
      <3>3. f[s[i]] < f[s[j]]
        BY <1>2, <2>1, <3>1 DEF Ordered
      <3>4. QED
        BY <2>2, <3>2, <3>3
    <2>5. QED
      BY <2>3, <2>4
  <1>11. \A x \in ToSet(r) : g[x] # None
    BY <1>2, <1>3, <1>6, <1>8, <1>9
  <1>12. ASSUME NEW m \in Leaves \ ToSet(r), g[m] # None
         PROVE  Len(r) = k /\ \A x \in ToSet(r) : g[m] < g[x]
    <2>1. m # l /\ g[m] = f[m] /\ f[m] < now /\ m \notin ToSet(s)
      BY <1>6, <1>8, <1>12
    <2>2. Len(q) = k /\ \A x \in ToSet(s) : f[m] < f[x]
      <3>1. CASE m \in ToSet(q)
        <4>1. m = v
          BY <1>2, <2>1, <3>1
        <4>2. QED
          BY <1>2, <2>1, <3>1, <4>1
      <3>2. CASE m \notin ToSet(q)
        BY <1>2, <1>3, <1>12, <2>1, <3>2
      <3>3. QED
        BY <3>1, <3>2
    <2>3. \A x \in ToSet(s) : g[x] = f[x]
      BY <1>8, <1>9
    <2>4. Len(r) = k
      BY <1>3, <1>7, <2>2
    <2>5. QED
      BY <1>6, <1>8, <2>1, <2>2, <2>3, <2>4
  <1>13. LruSeq(r, k, g)
    BY <1>6, <1>7, <1>10, <1>11, <1>12 DEF LruSeq
  <1>14. Touched(q, k, l, r)
    BY <1>2, <1>6, <1>7, Zenon DEF Touched
  <1>15. QED
    BY <1>13, <1>14

\* What is kept of LRU's counters.
LruHeld(c, k) ==
    /\ c \in LruRecords /\ LruSeq(c.resident, k, fenwick.last)
    /\ c.hits + c.inserts = t /\ c.inserts - c.evictions = Len(c.resident)

\* LRU forgets nothing but the leaf seen longest ago.
LEMMA LruStep ==
  ASSUME StreamTypes, FenwickInv, Access, NEW k \in Caps, LruHeld(lru[k], k)
  PROVE  /\ LruHeld(lru[k], k)'
         /\ lru'[k].hit <=> LeafAt(t) \in ToSet(lru[k].resident)
         /\ lru'[k].hits = lru[k].hits + IF LeafAt(t) \in ToSet(lru[k].resident) THEN 1 ELSE 0
         /\ Touched(lru[k].resident, k, LeafAt(t), lru'[k].resident)
  <1>1. /\ t' = t + 1 /\ t \in Nat /\ k \in Nat \ {0} /\ LeafAt(t) \in Leaves
        /\ lru'[k] = LruAccess(lru[k], k, LeafAt(t))
        /\ fenwick' = FenwickAccess(fenwick, LeafAt(t))
    BY Sizes, LastMoves DEF Access, StreamTypes
  <1>2. PICK l \in Leaves : l = LeafAt(t)
    BY <1>1
  <1>3. PICK f \in [Leaves -> Int] : f = fenwick.last
    BY DEF FenwickInv
  <1>4. fenwick'.last = [f EXCEPT ![l] = t]
    BY <1>1, <1>2, <1>3 DEF FenwickAccess
  <1>5. \A x \in Leaves : f[x] < t
    BY <1>1, <1>3, LastMoves DEF Seen, LastOf, None
  <1>6. PICK now \in Nat : now = t
    BY <1>1
  <1>7. PICK g : g = fenwick'.last
    OBVIOUS
  <1>8. PICK c \in LruRecords : c = lru[k]
    BY DEF LruHeld
  <1>9. PICK d : d = lru'[k]
    OBVIOUS
  <1>10. /\ LruSeq(c.resident, k, f) /\ c.hits + c.inserts = now /\ c.inserts - c.evictions = Len(c.resident)
         /\ c.hits \in Nat /\ c.inserts \in Nat /\ c.evictions \in Nat
    BY <1>3, <1>6, <1>8 DEF LruHeld, LruRecords, PlainRecords
  <1>11. PICK q : q = c.resident
    OBVIOUS
  <1>12. PICK r : r = d.resident
    OBVIOUS
  <1>13. LruSeq(q, k, f) /\ Distinct(q) /\ Len(q) <= k /\ Len(q) \in Nat
    BY <1>10, <1>11, LenProperties DEF LruSeq
  <1>14. /\ d \in LruRecords
         /\ d.hit <=> l \in ToSet(q)
         /\ d.hits = c.hits + IF l \in ToSet(q) THEN 1 ELSE 0
         /\ d.inserts = c.inserts + IF l \in ToSet(q) THEN 0 ELSE 1
         /\ d.evictions = c.evictions + IF l \in ToSet(q) \/ Len(q) < k THEN 0 ELSE 1
         /\ LruSeqMoves(q, k, l, d.resident)
    BY <1>1, <1>2, <1>8, <1>9, <1>11, <1>13, LruMoves
  <1>15. g = [f EXCEPT ![l] = now] /\ \A x \in Leaves : f[x] < now
    BY <1>4, <1>5, <1>6, <1>7
  <1>16. LruSeq(r, k, g) /\ Touched(q, k, l, r)
    BY <1>1, <1>12, <1>13, <1>14, <1>15, LruSeqStep
  <1>17. d.hits + d.inserts = now + 1 /\ d.inserts - d.evictions = Len(r)
    <2>1. c.hits + c.inserts = now /\ c.inserts - c.evictions = Len(q)
      BY <1>10, <1>11
    <2>2. Len(r) = Len(q) + IF l \notin ToSet(q) /\ Len(q) < k THEN 1 ELSE 0
      BY <1>16 DEF Touched
    <2>3. PICK h \in Nat, i \in Nat, e \in Nat : h = c.hits /\ i = c.inserts /\ e = c.evictions
      BY <1>10
    <2>4. h + i = now /\ i - e = Len(q) /\ Len(q) \in Nat
      BY <1>13, <2>1, <2>3
    <2>5. CASE l \in ToSet(q)
      <3>1. d.hits = h + 1 /\ d.inserts = i + 0 /\ d.evictions = e + 0 /\ Len(r) = Len(q) + 0
        BY <1>14, <2>2, <2>3, <2>5, Zenon
      <3>2. QED
        BY <2>4, <3>1
    <2>6. CASE l \notin ToSet(q) /\ Len(q) < k
      <3>1. d.hits = h + 0 /\ d.inserts = i + 1 /\ d.evictions = e + 0 /\ Len(r) = Len(q) + 1
        BY <1>14, <2>2, <2>3, <2>6, Zenon
      <3>2. QED
        BY <2>4, <3>1
    <2>7. CASE l \notin ToSet(q) /\ ~ (Len(q) < k)
      <3>1. d.hits = h + 0 /\ d.inserts = i + 1 /\ d.evictions = e + 1 /\ Len(r) = Len(q) + 0
        BY <1>14, <2>2, <2>3, <2>7, Zenon
      <3>2. QED
        BY <2>4, <3>1
    <2>8. QED
      BY <2>5, <2>6, <2>7
  <1>18. LruHeld(lru[k], k)'
    BY <1>1, <1>6, <1>7, <1>9, <1>12, <1>14, <1>16, <1>17 DEF LruHeld
  <1>19. QED
    BY <1>2, <1>8, <1>9, <1>11, <1>12, <1>14, <1>16, <1>18

-----------------------------------------------------------------------------
(* LRU and the reuse distance.                                             *)

\* The leaves seen since leaf l was.
Newer(l) == {x \in Seen : LastOf(l) < LastOf(x)}

\* The positions that hold a 1 after l's last access are those of the leaves
\* seen since.
LEMMA NewerCount ==
  ASSUME StreamTypes, FenwickInv, NEW l \in Seen
  PROVE  /\ IsFiniteSet(Newer(l)) /\ Cardinality(Newer(l)) \in Nat
         /\ Distance(fenwick, l) = Cardinality(Newer(l))
  <1> DEFINE Y == Newer(l)
             O == fenwick.ones \cap (fenwick.last[l] + 1 .. t - 1)
             g == [x \in Y |-> LastOf(x)]
  <1>1. IsFiniteSet(Y)
    <2>1. Y \subseteq Leaves
      BY DEF Newer, Seen
    <2>2. QED
      BY <2>1, Sizes, FS_Subset
  <1>2. /\ t \in Nat /\ LastOf(l) \in Int /\ LastOf(l) # None
        /\ \A x \in Seen : LastOf(x) \in 0 .. t - 1
        /\ fenwick.ones = {LastOf(x) : x \in Seen}
    BY Sizes DEF FenwickInv, StreamTypes, Seen
  <1>3. O = {LastOf(x) : x \in Y}
    <2>1. \A x \in Seen : LastOf(x) \in (LastOf(l) + 1 .. t - 1) <=> LastOf(l) < LastOf(x)
      BY <1>2
    <2>2. O = {LastOf(x) : x \in Seen} \cap (LastOf(l) + 1 .. t - 1)
      BY <1>2 DEF LastOf
    <2> HIDE DEF O
    <2>3. QED
      BY <2>1, <2>2 DEF Newer
  <1>4. \A x, y \in Y : LastOf(x) = LastOf(y) => x = y
    BY LastDiffers DEF Newer
  <1> HIDE DEF O
  <1>5. g \in Bijection(Y, O)
    <2> HIDE DEF Y
    <2> QED BY <1>3, <1>4 DEF Bijection, Injection, Surjection, IsInjective
  <1>6. Cardinality(O) = Cardinality(Y)
    <2> HIDE DEF g, Y
    <2> QED BY <1>1, <1>5, FS_Bijection DEF ExistsBijection
  <1>7. Distance(fenwick, l) = Cardinality(O)
    BY <1>2 DEF Distance, LastOf, O
  <1>8. QED
    BY <1>1, <1>6, <1>7, FS_CardinalityType

\* A leaf is resident in LRU of capacity k exactly when fewer than k others
\* were seen since.
LEMMA ResidentByDistance ==
  ASSUME StreamTypes, FenwickInv, NEW k \in Caps, NEW q, LruSeq(q, k, fenwick.last), NEW l \in Leaves
  PROVE  l \in ToSet(q) <=> Distance(fenwick, l) \in 0 .. k - 1
  <1>1. /\ q \in Seq(Leaves) /\ Distinct(q) /\ Len(q) <= k /\ k \in Nat \ {0}
        /\ \A x \in ToSet(q) : LastOf(x) # None
        /\ \A m \in Leaves \ ToSet(q) : LastOf(m) # None => Len(q) = k /\ \A x \in ToSet(q) : LastOf(m) < LastOf(x)
    BY Sizes DEF LruSeq, LastOf
  <1>2. /\ IsFiniteSet(ToSet(q)) /\ Cardinality(ToSet(q)) = Len(q) /\ Len(q) \in Nat
        /\ ToSet(q) \subseteq Leaves
    BY <1>1, DistinctCard, SetOf
  <1>3. ToSet(q) \subseteq Seen
    BY <1>1, <1>2 DEF Seen
  <1>4. CASE l \notin Seen
    <2>1. Distance(fenwick, l) = -1
      BY <1>4 DEF Distance, Seen, LastOf, None
    <2>2. QED
      BY <1>1, <1>3, <1>4, <2>1
  <1>5. CASE l \in Seen /\ l \in ToSet(q)
    <2>1. Newer(l) \subseteq ToSet(q) \ {l}
      <3> SUFFICES ASSUME NEW x \in Seen, LastOf(l) < LastOf(x) PROVE x \in ToSet(q) \ {l}
        BY DEF Newer
      <3>1. LastOf(l) \in Int /\ LastOf(x) \in Int /\ x \in Leaves /\ LastOf(x) # None
        BY <1>5 DEF FenwickInv, Seen, LastOf
      <3>2. x # l
        BY <3>1
      <3>3. CASE x \notin ToSet(q)
        <4>1. LastOf(x) < LastOf(l)
          BY <1>1, <1>5, <3>1, <3>3
        <4>2. QED
          BY <3>1, <4>1
      <3>4. QED
        BY <3>2, <3>3
    <2>2. IsFiniteSet(ToSet(q) \ {l}) /\ Cardinality(ToSet(q) \ {l}) = Len(q) - 1
      BY <1>2, <1>5, FS_RemoveElement
    <2>3. Cardinality(Newer(l)) <= Len(q) - 1
      BY <2>1, <2>2, FS_Subset
    <2>4. Distance(fenwick, l) = Cardinality(Newer(l)) /\ Cardinality(Newer(l)) \in Nat
      BY <1>5, NewerCount
    <2>5. QED
      BY <1>1, <1>2, <1>5, <2>3, <2>4
  <1>6. CASE l \in Seen /\ l \notin ToSet(q)
    <2>1. Len(q) = k /\ \A x \in ToSet(q) : LastOf(l) < LastOf(x)
      BY <1>1, <1>6 DEF Seen
    <2>2. ToSet(q) \subseteq Newer(l)
      BY <1>3, <2>1 DEF Newer
    <2>3. IsFiniteSet(Newer(l)) /\ Cardinality(Newer(l)) \in Nat /\ Distance(fenwick, l) = Cardinality(Newer(l))
      BY <1>6, NewerCount
    <2>4. Len(q) <= Cardinality(Newer(l))
      BY <1>2, <2>2, <2>3, FS_Subset
    <2>5. QED
      BY <1>1, <1>6, <2>1, <2>3, <2>4
  <1>7. QED
    BY <1>4, <1>5, <1>6

\* LRU of capacity k holds k leaves, or all that were seen.
LEMMA LruHolds ==
  ASSUME StreamTypes, FenwickInv, NEW k \in Caps, NEW q, LruSeq(q, k, fenwick.last)
  PROVE  Len(q) = Min({k, Cardinality({LeafAt(i) : i \in 0 .. t - 1})})
  <1>1. /\ q \in Seq(Leaves) /\ Distinct(q) /\ Len(q) <= k /\ k \in Nat \ {0}
        /\ \A x \in ToSet(q) : LastOf(x) # None
        /\ \A m \in Leaves \ ToSet(q) : LastOf(m) # None => Len(q) = k
    BY Sizes DEF LruSeq, LastOf
  <1>2. /\ IsFiniteSet(ToSet(q)) /\ Cardinality(ToSet(q)) = Len(q) /\ Len(q) \in Nat
        /\ ToSet(q) \subseteq Leaves
    BY <1>1, DistinctCard, SetOf
  <1>3. ToSet(q) \subseteq Seen /\ IsFiniteSet(Seen) /\ Cardinality(Seen) \in Nat
    <2>1. Seen \subseteq Leaves
      BY DEF Seen
    <2>2. ToSet(q) \subseteq Seen
      BY <1>1, <1>2 DEF Seen
    <2>3. IsFiniteSet(Seen)
      BY <2>1, Sizes, FS_Subset
    <2>4. QED
      BY <2>2, <2>3, FS_CardinalityType
  <1>4. Len(q) <= Cardinality(Seen)
    BY <1>2, <1>3, FS_Subset
  <1>5. Len(q) = k \/ Len(q) = Cardinality(Seen)
    <2>1. CASE Len(q) # k
      <3>1. Seen = ToSet(q)
        BY <1>1, <1>3, <2>1 DEF Seen
      <3>2. QED
        BY <1>2, <3>1
    <2>2. QED
      BY <2>1
  <1>6. PICK n \in Nat : n = Cardinality(Seen)
    BY <1>3
  <1>7. Min({k, n}) \in {k, n} /\ \A y \in {k, n} : Min({k, n}) <= y
    <2>1. k \in 0 .. k + n /\ n \in 0 .. k + n /\ k + n \in Nat
      BY <1>1, <1>6
    <2>2. {k, n} \in SUBSET (0 .. k + n) /\ {k, n} # {}
      BY <2>1
    <2>3. QED
      BY <2>1, <2>2, MinIs
  <1>8. Len(q) = Min({k, n})
    BY <1>1, <1>2, <1>4, <1>5, <1>6, <1>7
  <1>9. QED
    BY <1>6, <1>8, SeenIs

\* The hits so far by reuse distance.
Near(k, n) == {i \in 1 .. n : fenwick.rd[i] \in 0 .. k - 1}

\* What relates LRU to the reuse distances.
LruDistance(k) ==
    /\ t > 0 => (lru[k].hit <=> fenwick.rd[t] \in 0 .. k - 1)
    /\ Cardinality(Near(k, t)) = lru[k].hits

\* An access keeps it.
LEMMA LruDistanceStep ==
  ASSUME StreamTypes, FenwickInv, Access, NEW k \in Caps, LruHeld(lru[k], k), LruDistance(k)
  PROVE  LruDistance(k)'
  <1> DEFINE l == LeafAt(t)
             hit == l \in ToSet(lru[k].resident)
  <1>1. t' = t + 1 /\ t \in Nat /\ l \in Leaves /\ fenwick' = FenwickAccess(fenwick, l)
    BY Sizes, LastMoves DEF Access, StreamTypes
  <1>2. lru'[k].hit <=> hit
    BY LruStep
  <1>3. lru'[k].hits = lru[k].hits + IF hit THEN 1 ELSE 0
    BY LruStep
  <1>4. hit <=> Distance(fenwick, l) \in 0 .. k - 1
    BY <1>1, ResidentByDistance DEF LruHeld
  <1>5. fenwick'.rd = Append(fenwick.rd, Distance(fenwick, l))
    BY <1>1 DEF FenwickAccess
  <1>6. Len(fenwick'.rd) = t + 1 /\ fenwick.rd \in Seq(Int) /\ Len(fenwick.rd) = t
    BY <1>1, FenwickStep DEF FenwickInv
  <1>7. fenwick'.rd[t + 1] = Distance(fenwick, l) /\ \A i \in 1 .. t : fenwick'.rd[i] = fenwick.rd[i]
    <2>1. PICK r \in Seq(Int) : r = fenwick.rd
      BY <1>6
    <2>2. PICK d : d = Distance(fenwick, l)
      OBVIOUS
    <2>3. d \in Int => \A i \in 1 .. Len(r) : Append(r, d)[i] = r[i] /\ Append(r, d)[Len(r) + 1] = d
      BY AppendProperties
    <2>4. Append(r, d)[Len(r) + 1] = d /\ \A i \in 1 .. Len(r) : Append(r, d)[i] = r[i]
      BY <2>1
    <2>5. QED
      BY <1>5, <1>6, <2>1, <2>2, <2>4
  <1>8. Near(k, t) = {i \in 1 .. t : fenwick'.rd[i] \in 0 .. k - 1}
    BY <1>7 DEF Near
  <1>9. Near(k, t)' = IF hit THEN Near(k, t) \cup {t + 1} ELSE Near(k, t)
    <2>1. 1 .. t + 1 = (1 .. t) \cup {t + 1}
      BY <1>1
    <2>2. Near(k, t)' = {i \in 1 .. t + 1 : fenwick'.rd[i] \in 0 .. k - 1}
      BY <1>1 DEF Near
    <2>3. QED
      BY <1>4, <1>7, <1>8, <2>1, <2>2
  <1>10. IsFiniteSet(Near(k, t)) /\ t + 1 \notin Near(k, t)
    <2>1. IsFiniteSet(1 .. t)
      BY <1>1, FS_Interval
    <2>2. Near(k, t) \subseteq 1 .. t /\ t + 1 \notin 1 .. t
      BY <1>1 DEF Near
    <2>3. QED
      BY <2>1, <2>2, FS_Subset
  <1>11. Cardinality(Near(k, t) \cup {t + 1}) = Cardinality(Near(k, t)) + 1 /\ Cardinality(Near(k, t)) \in Nat
    BY <1>10, FS_AddElement, FS_CardinalityType
  <1>12. Cardinality(Near(k, t)') = lru'[k].hits
    <2> HIDE DEF hit
    <2>1. CASE hit
      BY <1>3, <1>9, <1>11, <2>1 DEF LruDistance
    <2>2. CASE ~hit
      BY <1>3, <1>9, <1>11, <2>2 DEF LruDistance
    <2>3. QED
      BY <2>1, <2>2
  <1>13. lru'[k].hit <=> fenwick'.rd[t'] \in 0 .. k - 1
    BY <1>1, <1>2, <1>4, <1>7
  <1>14. QED
    BY <1>12, <1>13 DEF LruDistance

\* A hit exactly when the reuse distance is short; the counters follow.
LEMMA LruByDistance ==
  ASSUME StreamTypes, FenwickInv, \A k \in Caps : LruHeld(lru[k], k) /\ LruDistance(k)
  PROVE  LruHitsByReuseDistance
  <1> SUFFICES ASSUME NEW k \in Caps
      PROVE  /\ t > 0 => (lru[k].hit <=> t \in FastLru(k).hits)
             /\ lru[k].inserts = FastLru(k).inserts
             /\ lru[k].evictions = FastLru(k).evictions
    BY DEF LruHitsByReuseDistance
  <1>1. t \in Nat /\ LruHeld(lru[k], k) /\ LruDistance(k)
    BY Sizes DEF StreamTypes
  <1> DEFINE n == Min({k, Cardinality({LeafAt(i) : i \in 0 .. t - 1})})
  <1>2. /\ FastLru(k).hits = Near(k, t)
        /\ FastLru(k).inserts = t - Cardinality(Near(k, t))
        /\ FastLru(k).evictions = t - Cardinality(Near(k, t)) - n
    BY DEF FastLru, Near
  <1>3. PICK h \in Nat, i \in Nat, e \in Nat : h = lru[k].hits /\ i = lru[k].inserts /\ e = lru[k].evictions
    BY <1>1 DEF LruHeld, LruRecords, PlainRecords
  <1>4. PICK q : q = lru[k].resident
    OBVIOUS
  <1>5. Len(q) = n
    BY <1>1, <1>4, LruHolds DEF LruHeld
  <1>6. Len(q) \in Nat
    BY <1>1, <1>4, LenProperties DEF LruHeld, LruSeq
  <1>7. h + i = t /\ i - e = Len(q) /\ Cardinality(Near(k, t)) = h
    BY <1>1, <1>3, <1>4 DEF LruHeld, LruDistance
  <1>8. t > 0 => (lru[k].hit <=> t \in Near(k, t))
    <2>1. t > 0 => t \in 1 .. t
      BY <1>1
    <2>2. QED
      BY <1>1, <2>1 DEF LruDistance, Near
  <1> HIDE DEF n
  <1>9. i = t - h /\ e = t - h - n
    BY <1>1, <1>5, <1>6, <1>7
  <1>10. QED
    BY <1>2, <1>3, <1>7, <1>8, <1>9

\* What a smaller LRU holds a larger one holds.
LEMMA LruIncluded ==
  ASSUME FenwickInv, NEW k \in Caps, NEW m \in Caps, k <= m,
         NEW q, LruSeq(q, k, fenwick.last), NEW r, LruSeq(r, m, fenwick.last)
  PROVE  ToSet(q) \subseteq ToSet(r)
  <1>1. /\ q \in Seq(Leaves) /\ Distinct(q) /\ Len(q) <= k
        /\ \A x \in ToSet(q) : LastOf(x) # None
        /\ \A y \in Leaves \ ToSet(q) : LastOf(y) # None => \A x \in ToSet(q) : LastOf(y) < LastOf(x)
    BY DEF LruSeq, LastOf
  <1>2. /\ r \in Seq(Leaves) /\ Distinct(r)
        /\ \A x \in ToSet(r) : LastOf(x) # None
        /\ \A y \in Leaves \ ToSet(r) : LastOf(y) # None => Len(r) = m /\ \A x \in ToSet(r) : LastOf(y) < LastOf(x)
    BY DEF LruSeq, LastOf
  <1>3. /\ IsFiniteSet(ToSet(q)) /\ Cardinality(ToSet(q)) = Len(q) /\ Len(q) \in Nat /\ ToSet(q) \subseteq Leaves
        /\ IsFiniteSet(ToSet(r)) /\ Cardinality(ToSet(r)) = Len(r) /\ Len(r) \in Nat /\ ToSet(r) \subseteq Leaves
    BY <1>1, <1>2, DistinctCard, SetOf
  <1>4. \A x \in Leaves : LastOf(x) \in Int
    BY DEF FenwickInv, LastOf
  <1>5. k \in Nat /\ m \in Nat
    BY Sizes
  <1> SUFFICES ASSUME NEW x \in ToSet(q), x \notin ToSet(r) PROVE FALSE
    OBVIOUS
  <1>6. Len(r) = m /\ \A y \in ToSet(r) : LastOf(x) < LastOf(y)
    BY <1>1, <1>2, <1>3
  <1>7. ToSet(r) \cup {x} \subseteq ToSet(q)
    <2> SUFFICES ASSUME NEW y \in ToSet(r), y \notin ToSet(q) PROVE FALSE
      OBVIOUS
    <2>1. LastOf(y) < LastOf(x)
      BY <1>1, <1>2, <1>3
    <2>2. LastOf(x) < LastOf(y) /\ LastOf(x) \in Int /\ LastOf(y) \in Int
      BY <1>3, <1>4, <1>6
    <2>3. QED
      BY <2>1, <2>2
  <1>8. Cardinality(ToSet(r) \cup {x}) = Len(r) + 1
    BY <1>3, FS_AddElement
  <1>9. Len(r) + 1 <= Len(q)
    BY <1>3, <1>7, <1>8, FS_Subset
  <1>10. QED
    BY <1>1, <1>3, <1>5, <1>6, <1>9

-----------------------------------------------------------------------------
(* Belady: one access, as the dict and as the array.                       *)

\* The first of the residents used furthest in the future.
LEMMA FirstFurthestIs ==
  ASSUME NEW c, NEW q \in Seq(Leaves), q = c.resident, q # <<>>,
         \A i \in 1 .. Len(q) : c.next[q[i]] \in 0 .. Length
  PROVE  /\ FirstFurthest(c) \in 1 .. Len(q)
         /\ \A i \in 1 .. Len(q) : c.next[q[i]] <= c.next[q[FirstFurthest(c)]]
  <1> DEFINE S == {c.next[q[i]] : i \in 1 .. Len(q)}
  <1>1. Len(q) \in Nat /\ Len(q) >= 1 /\ DOMAIN q = 1 .. Len(q) /\ Length \in Nat
    BY Sizes, EmptySeq, LenProperties
  <1>2. PICK m \in S : \A y \in S : y <= m
    <2>1. S \in SUBSET (0 .. Length)
      OBVIOUS
    <2>2. c.next[q[1]] \in S
      BY <1>1
    <2> HIDE DEF S
    <2>3. QED
      BY <1>1, <2>1, <2>2, Greatest
  <1> DEFINE I == {i \in 1 .. Len(q) : c.next[q[i]] = m}
  <1>3. PICK j \in I : \A i \in I : j <= i
    <2>1. I \in SUBSET (0 .. Len(q)) /\ I # {}
      BY <1>1
    <2> HIDE DEF I
    <2>2. QED
      BY <1>1, <2>1, Least
  <1>4. j \in 1 .. Len(q) /\ c.next[q[j]] = m
    OBVIOUS
  <1>5. \A i \in 1 .. Len(q) : c.next[q[i]] <= m /\ c.next[q[i]] \in Int /\ m \in Int
    BY <1>2, <1>4
  <1>6. ASSUME NEW i \in 1 .. j - 1 PROVE c.next[q[i]] < m
    <2>1. i \in 1 .. Len(q) /\ ~ (j <= i)
      BY <1>1, <1>4
    <2>2. c.next[q[i]] # m
      BY <1>3, <2>1
    <2>3. QED
      BY <1>5, <2>1, <2>2
  <1> HIDE DEF S, I
  <1>7. \E a \in DOMAIN c.resident :
           /\ \A i \in DOMAIN c.resident : c.next[c.resident[i]] <= c.next[c.resident[a]]
           /\ \A i \in 1 .. a - 1 : c.next[c.resident[i]] < c.next[c.resident[a]]
    BY <1>1, <1>4, <1>5, <1>6, Zenon
  <1>8. QED
    BY <1>1, <1>7, Zenon DEF FirstFurthest

\* What becomes of the set B of the residents when l is accessed, whose next
\* use is nxt: a full cache gives up a resident used furthest in the future,
\* or l if l is used no sooner.
BeladySet(B, next, k, l, nxt, D) ==
    /\ l \in B => D = B
    /\ l \notin B /\ Cardinality(B) < k => D = B \cup {l}
    /\ l \notin B /\ Cardinality(B) >= k =>
           \E v \in B : /\ \A b \in B : next[b] <= next[v]
                        /\ D = IF next[v] <= nxt THEN B ELSE (B \ {v}) \cup {l}

\* The residents when the one at j has made room for l.
SwappedAt(q, j, l, r) ==
    r \in Seq(Leaves) /\ Distinct(r) /\ Len(r) = Len(q) /\ ToSet(r) = (ToSet(q) \ {q[j]}) \cup {l}

\* What an access makes of the residents, their next uses and the counters.
BeladyMove(c, k, l, nxt, d) ==
    LET B == ToSet(c.resident)
        D == ToSet(d.resident)
    IN  /\ d \in BeladyRecords(Seq(Leaves)) /\ Distinct(d.resident)
        /\ Len(d.resident) = Len(c.resident) + IF l \notin B /\ Len(c.resident) < k THEN 1 ELSE 0
        /\ BeladySet(B, c.next, k, l, nxt, D)
        /\ d.hit <=> l \in B
        /\ d.hits = c.hits + IF l \in B THEN 1 ELSE 0
        /\ d.inserts = c.inserts + IF l \notin B /\ l \in D THEN 1 ELSE 0
        /\ d.evictions = c.evictions + IF l \notin B /\ l \in D /\ Len(c.resident) >= k THEN 1 ELSE 0
        /\ d.next = IF l \in D THEN [c.next EXCEPT ![l] = nxt] ELSE c.next

\* Both forms make this move.
LEMMA BeladyMoves ==
  ASSUME NEW c \in BeladyRecords(Seq(Leaves)), NEW k \in Nat \ {0}, NEW l \in Leaves, NEW nxt \in Int,
         NEW q, q = c.resident, Distinct(q), Len(q) <= k,
         \A i \in 1 .. Len(q) : c.next[q[i]] \in 0 .. Length,
         NEW swapped, l \notin ToSet(q) /\ q # <<>> => SwappedAt(q, FirstFurthest(c), l, swapped),
         NEW d, d = BeladyStep(c, k, l, nxt, swapped)
  PROVE  BeladyMove(c, k, l, nxt, d)
  <1>0. q \in Seq(Leaves) /\ c.hits \in Nat /\ c.inserts \in Nat /\ c.evictions \in Nat
    BY DEF BeladyRecords
  <1>1. /\ DOMAIN q = 1 .. Len(q) /\ Len(q) \in Nat /\ ToSet(q) = {q[i] : i \in 1 .. Len(q)}
        /\ Contains(q, l) <=> l \in ToSet(q)
        /\ IsFiniteSet(ToSet(q)) /\ Cardinality(ToSet(q)) = Len(q)
    BY <1>0, SetOf, DistinctCard
  <1>2. CASE l \in ToSet(q)
    <2>1. PICK h \in BeladyRecords(Seq(Leaves)) :
             h = Hit(c) /\ h.hit = TRUE /\ h.hits = c.hits + 1 /\ h.inserts = c.inserts
             /\ h.evictions = c.evictions /\ h.resident = q /\ h.next = c.next
      BY BeladyHit
    <2>2. d = Used(h, l, nxt)
      BY <1>1, <1>2, <2>1, Zenon DEF BeladyStep
    <2>3. /\ d \in BeladyRecords(Seq(Leaves)) /\ d.hit = h.hit /\ d.hits = h.hits /\ d.inserts = h.inserts
          /\ d.evictions = h.evictions /\ d.resident = h.resident
          /\ d.next = [h.next EXCEPT ![l] = nxt]
      BY <2>2, BeladyUsed
    <2>4. BeladySet(ToSet(q), c.next, k, l, nxt, ToSet(q))
      BY <1>2 DEF BeladySet
    <2>5. c.inserts = c.inserts + 0 /\ c.evictions = c.evictions + 0 /\ Len(q) = Len(q) + 0
      BY <1>0, <1>1
    <2>6. QED
      BY <1>2, <2>1, <2>3, <2>4, <2>5, Zenon DEF BeladyMove
  <1>3. CASE l \notin ToSet(q) /\ Bypassed(c, k, nxt)
    <2>1. d = Bypass(c)
      BY <1>1, <1>3, Zenon DEF BeladyStep
    <2>2. /\ d \in BeladyRecords(Seq(Leaves)) /\ d.hit = FALSE /\ d.hits = c.hits /\ d.inserts = c.inserts
          /\ d.evictions = c.evictions /\ d.resident = q /\ d.next = c.next
      BY <2>1, BeladyBypass
    <2>3. Len(q) >= k /\ c.next[q[FirstFurthest(c)]] <= nxt
      BY <1>3 DEF Bypassed
    <2>4. q # <<>>
      BY <1>1, <2>3, EmptySeq
    <2>5. /\ FirstFurthest(c) \in 1 .. Len(q)
          /\ \A i \in 1 .. Len(q) : c.next[q[i]] <= c.next[q[FirstFurthest(c)]]
      BY <1>0, <2>4, FirstFurthestIs
    <2>6. q[FirstFurthest(c)] \in ToSet(q) /\ \A b \in ToSet(q) : c.next[b] <= c.next[q[FirstFurthest(c)]]
      BY <1>1, <2>5
    <2>7. BeladySet(ToSet(q), c.next, k, l, nxt, ToSet(q))
      <3>1. ~ (Cardinality(ToSet(q)) < k)
        BY <1>1, <2>3
      <3>2. QED
        BY <1>3, <2>3, <2>6, <3>1, Zenon DEF BeladySet
    <2>8. c.hits = c.hits + 0 /\ c.inserts = c.inserts + 0 /\ c.evictions = c.evictions + 0
      BY <1>0
    <2>9. Len(q) = Len(q) + IF l \notin ToSet(q) /\ Len(q) < k THEN 1 ELSE 0
      <3>1. ~ (Len(q) < k) /\ Len(q) = Len(q) + 0
        BY <1>1, <2>3
      <3>2. QED
        BY <3>1, Zenon
    <2>10. QED
      BY <1>3, <2>2, <2>7, <2>8, <2>9, Zenon DEF BeladyMove
  <1>4. CASE l \notin ToSet(q) /\ ~Bypassed(c, k, nxt)
    <2> DEFINE e == IF Len(q) >= k THEN 1 ELSE 0
               r == IF Len(q) >= k THEN swapped ELSE Append(q, l)
    <2>1. PICK h \in BeladyRecords(Seq(Leaves)) :
             h = Insert(c, e) /\ h.hit = FALSE /\ h.hits = c.hits /\ h.inserts = c.inserts + 1
             /\ h.evictions = c.evictions + e /\ h.resident = q /\ h.next = c.next
      <3>1. e \in Nat
        OBVIOUS
      <3> HIDE DEF e
      <3>2. QED
        BY <3>1, BeladyInsert, ZenonT(60)
    <2>2. PICK u \in BeladyRecords(Seq(Leaves)) :
             u = Used(h, l, nxt) /\ u.hit = h.hit /\ u.hits = h.hits /\ u.inserts = h.inserts
             /\ u.evictions = h.evictions /\ u.resident = h.resident
             /\ u.next = [h.next EXCEPT ![l] = nxt]
      BY BeladyUsed
    <2>3. d = [u EXCEPT !.resident = r]
      <3>1. u.resident = q
        BY <2>1, <2>2
      <3>2. QED
        BY <1>1, <1>4, <2>1, <2>2, <3>1, Zenon DEF BeladyStep
    <2>4. Len(q) >= k => q # <<>>
      BY <1>1, EmptySeq
    <2>5. Len(q) >= k => /\ SwappedAt(q, FirstFurthest(c), l, swapped)
                         /\ FirstFurthest(c) \in 1 .. Len(q)
                         /\ \A i \in 1 .. Len(q) : c.next[q[i]] <= c.next[q[FirstFurthest(c)]]
                         /\ ~ (c.next[q[FirstFurthest(c)]] <= nxt)
      <3>1. Len(q) >= k => ~ (c.next[q[FirstFurthest(c)]] <= nxt)
        BY <1>4 DEF Bypassed
      <3>2. Len(q) >= k => /\ FirstFurthest(c) \in 1 .. Len(q)
                           /\ \A i \in 1 .. Len(q) : c.next[q[i]] <= c.next[q[FirstFurthest(c)]]
        BY <1>0, <2>4, FirstFurthestIs
      <3>3. QED
        BY <1>4, <2>4, <3>1, <3>2
    <2>6. /\ Append(q, l) \in Seq(Leaves) /\ Len(Append(q, l)) = Len(q) + 1
          /\ ToSet(Append(q, l)) = ToSet(q) \cup {l} /\ Distinct(Append(q, l))
      BY <1>0, <1>4, AppendSet
    <2>7. r \in Seq(Leaves) /\ Distinct(r) /\ l \in ToSet(r)
          /\ Len(r) = Len(q) + IF l \notin ToSet(q) /\ Len(q) < k THEN 1 ELSE 0
      <3>1. CASE Len(q) >= k
        <4>1. ~ (Len(q) < k) /\ Len(q) = Len(q) + 0
          BY <1>1, <3>1
        <4>2. r = swapped
          BY <3>1
        <4>3. swapped \in Seq(Leaves) /\ Distinct(swapped) /\ Len(swapped) = Len(q) /\ l \in ToSet(swapped)
          BY <2>5, <3>1 DEF SwappedAt
        <4> HIDE DEF r
        <4>4. QED
          BY <4>1, <4>2, <4>3, Zenon
      <3>2. CASE ~ (Len(q) >= k)
        <4>1. Len(q) < k
          BY <1>1, <3>2
        <4>2. r = Append(q, l)
          BY <3>2
        <4> HIDE DEF r
        <4>3. QED
          BY <1>4, <2>6, <4>1, <4>2, Zenon
      <3>3. QED
        BY <3>1, <3>2
    <2>8. BeladySet(ToSet(q), c.next, k, l, nxt, ToSet(r))
      <3>1. CASE Len(q) >= k
        <4>1. q[FirstFurthest(c)] \in ToSet(q) /\ \A b \in ToSet(q) : c.next[b] <= c.next[q[FirstFurthest(c)]]
          BY <1>1, <2>5, <3>1
        <4>2. ToSet(r) = (ToSet(q) \ {q[FirstFurthest(c)]}) \cup {l}
          BY <2>5, <3>1 DEF SwappedAt
        <4>3. ~ (Cardinality(ToSet(q)) < k)
          BY <1>1, <3>1
        <4> HIDE DEF r
        <4>4. QED
          BY <1>4, <2>5, <3>1, <4>1, <4>2, <4>3, Zenon DEF BeladySet
      <3>2. CASE ~ (Len(q) >= k)
        <4>1. ToSet(r) = ToSet(q) \cup {l}
          BY <2>6, <3>2
        <4>2. ~ (Cardinality(ToSet(q)) >= k)
          BY <1>1, <3>2
        <4> HIDE DEF r
        <4>3. QED
          BY <1>4, <4>1, <4>2, Zenon DEF BeladySet
      <3>3. QED
        BY <3>1, <3>2
    <2>9. e = IF Len(q) >= k THEN 1 ELSE 0
      OBVIOUS
    <2> HIDE DEF r, e
    <2>10. /\ d \in BeladyRecords(Seq(Leaves)) /\ d.hit = u.hit /\ d.hits = u.hits /\ d.inserts = u.inserts
           /\ d.evictions = u.evictions /\ d.resident = r /\ d.next = u.next
      BY <2>3, <2>7, BeladyHeld
    <2>11. c.hits = c.hits + 0
      BY <1>0
    <2>12. e = IF l \notin ToSet(q) /\ l \in ToSet(r) /\ Len(q) >= k THEN 1 ELSE 0
      BY <1>4, <2>7, <2>9
    <2>13. QED
      BY <1>4, <2>1, <2>2, <2>7, <2>8, <2>10, <2>11, <2>12, ZenonT(60) DEF BeladyMove
  <1>5. QED
    BY <1>2, <1>3, <1>4

\* The dict.
LEMMA DictMoves ==
  ASSUME NEW c \in BeladyRecords(Seq(Leaves)), NEW k \in Nat \ {0}, NEW l \in Leaves, NEW nxt \in Int,
         Distinct(c.resident), Len(c.resident) <= k,
         \A i \in 1 .. Len(c.resident) : c.next[c.resident[i]] \in 0 .. Length
  PROVE  BeladyMove(c, k, l, nxt, BeladyAccess(c, k, l, nxt))
  <1>1. PICK q \in Seq(Leaves) : q = c.resident
    BY DEF BeladyRecords
  <1> DEFINE j == FirstFurthest(c)
             swapped == Append(RemoveAt(q, j), l)
  <1>2. ASSUME l \notin ToSet(q), q # <<>> PROVE SwappedAt(q, j, l, swapped)
    <2>1. j \in 1 .. Len(q)
      BY <1>1, <1>2, FirstFurthestIs
    <2>2. /\ RemoveAt(q, j) \in Seq(Leaves) /\ Len(RemoveAt(q, j)) = Len(q) - 1
          /\ ToSet(RemoveAt(q, j)) = ToSet(q) \ {q[j]} /\ Distinct(RemoveAt(q, j))
      BY <1>1, <2>1, RemoveSet
    <2>3. Len(q) \in Nat
      BY LenProperties
    <2> HIDE DEF j
    <2>4. /\ swapped \in Seq(Leaves) /\ Len(swapped) = Len(RemoveAt(q, j)) + 1
          /\ ToSet(swapped) = ToSet(RemoveAt(q, j)) \cup {l} /\ Distinct(swapped)
      BY <1>2, <2>2, AppendSet
    <2> HIDE DEF swapped
    <2>5. QED
      BY <2>2, <2>3, <2>4 DEF SwappedAt
  <1>3. BeladyAccess(c, k, l, nxt) = BeladyStep(c, k, l, nxt, swapped)
    BY <1>1 DEF BeladyAccess
  <1> HIDE DEF swapped
  <1>4. QED
    BY <1>1, <1>2, <1>3, BeladyMoves

\* The array.
LEMMA ArrayMoves ==
  ASSUME NEW c \in BeladyRecords(Seq(Leaves)), NEW k \in Nat \ {0}, NEW l \in Leaves, NEW nxt \in Int,
         Distinct(c.resident), Len(c.resident) <= k,
         \A i \in 1 .. Len(c.resident) : c.next[c.resident[i]] \in 0 .. Length
  PROVE  BeladyMove(c, k, l, nxt, BeladyKernel(c, k, l, nxt))
  <1>1. PICK q \in Seq(Leaves) : q = c.resident
    BY DEF BeladyRecords
  <1> DEFINE j == FirstFurthest(c)
             swapped == ReplaceAt(q, j, l)
  <1>2. ASSUME l \notin ToSet(q), q # <<>> PROVE SwappedAt(q, j, l, swapped)
    <2>1. j \in 1 .. Len(q)
      BY <1>1, <1>2, FirstFurthestIs
    <2> HIDE DEF j
    <2>2. QED
      BY <1>1, <1>2, <2>1, ReplaceSet DEF SwappedAt
  <1>3. BeladyKernel(c, k, l, nxt) = BeladyStep(c, k, l, nxt, swapped)
    BY <1>1 DEF BeladyKernel
  <1> HIDE DEF swapped
  <1>4. QED
    BY <1>1, <1>2, <1>3, BeladyMoves

-----------------------------------------------------------------------------
(* Belady: what is kept, in terms of the stream alone.                     *)

\* The next use of every leaf after the query at t.
Upcoming == [b \in Leaves |-> FirstUse(b, t + 1)]

BeladyKept(c, k) ==
    /\ c \in BeladyRecords(Seq(Leaves)) /\ Distinct(c.resident) /\ Len(c.resident) <= k
    /\ \A b \in ToSet(c.resident) : c.next[b] = FirstUse(b, t)
    /\ c.hits <= t /\ c.inserts - c.evictions = Len(c.resident)

\* The step of the stream.
LEMMA StreamStep ==
  ASSUME StreamTypes, Access
  PROVE  /\ t' = t + 1 /\ t \in Nat /\ t \in 0 .. Length - 1 /\ t + 1 \in 0 .. Length /\ Length \in Nat
         /\ seq' = seq /\ LeafAt(t) \in Leaves
         /\ \A b : FirstUse(b, t)' = FirstUse(b, t + 1)
         /\ StreamTypes'
  <1>1. t' = t + 1 /\ t \in Nat /\ t \in 0 .. Length - 1 /\ t + 1 \in 0 .. Length /\ seq' = seq /\ Length \in Nat
    BY Sizes DEF Access, StreamTypes
  <1>2. LeafAt(t) \in Leaves
    BY <1>1, LeafIs
  <1>3. ASSUME NEW b PROVE FirstUse(b, t)' = FirstUse(b, t + 1)
    BY <1>1 DEF FirstUse, LeafAt
  <1>4. StreamTypes'
    BY <1>1 DEF StreamTypes
  <1>5. QED
    BY <1>1, <1>2, <1>3, <1>4

\* The upcoming uses: of the other leaves they were the next uses before.
LEMMA UpcomingIs ==
  ASSUME StreamTypes, Access
  PROVE  /\ Upcoming \in [Leaves -> t + 1 .. Length]
         /\ \A b \in Leaves : Upcoming[b] = FirstUse(b, t + 1)
         /\ \A b \in Leaves : FirstUse(b, t) = IF b = LeafAt(t) THEN t ELSE Upcoming[b]
         /\ NextUse(t) = Upcoming[LeafAt(t)]
         /\ \A b, c \in Leaves : Upcoming[b] = Upcoming[c] /\ Upcoming[b] # Never => b = c
  <1>1. t \in 0 .. Length - 1 /\ t + 1 \in 0 .. Length /\ LeafAt(t) \in Leaves
    BY StreamStep
  <1>2. \A b \in Leaves : FirstUse(b, t + 1) \in t + 1 .. Length
    BY <1>1, FirstUseIs
  <1>3. \A b \in Leaves : Upcoming[b] = FirstUse(b, t + 1)
    BY DEF Upcoming
  <1>4. \A b \in Leaves : FirstUse(b, t) = IF b = LeafAt(t) THEN t ELSE Upcoming[b]
    BY <1>1, <1>3, FirstUseHere
  <1>5. NextUse(t) = Upcoming[LeafAt(t)]
    BY <1>1, <1>3, NextUseIs
  <1>6. ASSUME NEW b \in Leaves, NEW c \in Leaves, Upcoming[b] = Upcoming[c], Upcoming[b] # Never PROVE b = c
    BY <1>1, <1>3, <1>6, UsesDiffer
  <1>7. Upcoming \in [Leaves -> t + 1 .. Length]
    BY <1>2 DEF Upcoming
  <1>8. QED
    BY <1>3, <1>4, <1>5, <1>6, <1>7

\* What an access does, in those terms.
BeladyDone(c, k, l, d) ==
    LET B == ToSet(c.resident)
        D == ToSet(d.resident)
    IN  /\ BeladySet(B, Upcoming, k, l, Upcoming[l], D)
        /\ d.hit <=> l \in B
        /\ d.hits = c.hits + IF l \in B THEN 1 ELSE 0
        /\ d.inserts = c.inserts + IF l \notin B /\ l \in D THEN 1 ELSE 0
        /\ d.evictions = c.evictions + IF l \notin B /\ l \in D /\ Len(c.resident) >= k THEN 1 ELSE 0
        /\ Len(d.resident) = Len(c.resident) + IF l \notin B /\ Len(c.resident) < k THEN 1 ELSE 0

\* A cache that keeps only leaves it had, and the leaf accessed.
LEMMA BeladySetIs ==
  ASSUME NEW B, NEW F, NEW k, NEW l, NEW n, NEW D, NEW m \in Nat, Cardinality(B) = m, k \in Nat,
         BeladySet(B, F, k, l, n, D)
  PROVE  D \subseteq B \cup {l} /\ (l \notin B /\ l \notin D => D = B) /\ (l \in B => D = B)
         /\ (l \notin B /\ m < k => l \in D)
  <1>1. CASE l \in B
    BY <1>1 DEF BeladySet
  <1>2. CASE l \notin B /\ m < k
    BY <1>2 DEF BeladySet
  <1>3. CASE l \notin B /\ m >= k
    <2>1. PICK v \in B : D = IF F[v] <= n THEN B ELSE (B \ {v}) \cup {l}
      BY <1>3 DEF BeladySet
    <2>2. QED
      BY <1>3, <2>1
  <1>4. QED
    BY <1>1, <1>2, <1>3

\* A move with the next use of the stream keeps what is kept.
LEMMA BeladyKeeps ==
  ASSUME StreamTypes, Access, NEW k \in Nat \ {0}, NEW c, BeladyKept(c, k), NEW d,
         BeladyMove(c, k, LeafAt(t), NextUse(t), d)
  PROVE  /\ d \in BeladyRecords(Seq(Leaves)) /\ Distinct(d.resident) /\ Len(d.resident) <= k
         /\ \A b \in ToSet(d.resident) : d.next[b] = FirstUse(b, t + 1)
         /\ d.hits <= t + 1 /\ d.inserts - d.evictions = Len(d.resident)
         /\ BeladyDone(c, k, LeafAt(t), d)
  <1>1. PICK l \in Leaves : l = LeafAt(t)
    BY StreamStep
  <1>2. PICK B : B = ToSet(c.resident)
    OBVIOUS
  <1>3. PICK D : D = ToSet(d.resident)
    OBVIOUS
  <1>4. /\ c.resident \in Seq(Leaves) /\ Distinct(c.resident) /\ Len(c.resident) <= k
        /\ c.hits \in Nat /\ c.inserts \in Nat /\ c.evictions \in Nat
        /\ c.next \in [Leaves -> Int]
        /\ \A b \in B : c.next[b] = FirstUse(b, t)
        /\ c.hits <= t /\ c.inserts - c.evictions = Len(c.resident)
    BY <1>2 DEF BeladyKept, BeladyRecords
  <1>5. /\ Len(c.resident) \in Nat /\ Cardinality(B) = Len(c.resident) /\ B \subseteq Leaves
        /\ IsFiniteSet(B)
    BY <1>2, <1>4, DistinctCard, SetOf
  <1>6. /\ d \in BeladyRecords(Seq(Leaves)) /\ Distinct(d.resident)
        /\ Len(d.resident) = Len(c.resident) + IF l \notin B /\ Len(c.resident) < k THEN 1 ELSE 0
        /\ BeladySet(B, c.next, k, l, NextUse(t), D)
        /\ d.hit <=> l \in B
        /\ d.hits = c.hits + IF l \in B THEN 1 ELSE 0
        /\ d.inserts = c.inserts + IF l \notin B /\ l \in D THEN 1 ELSE 0
        /\ d.evictions = c.evictions + IF l \notin B /\ l \in D /\ Len(c.resident) >= k THEN 1 ELSE 0
        /\ d.next = IF l \in D THEN [c.next EXCEPT ![l] = NextUse(t)] ELSE c.next
    BY <1>1, <1>2, <1>3, Zenon DEF BeladyMove
  <1>7. /\ \A b \in Leaves : Upcoming[b] = FirstUse(b, t + 1)
        /\ \A b \in Leaves : FirstUse(b, t) = IF b = l THEN t ELSE Upcoming[b]
        /\ NextUse(t) = Upcoming[l]
    BY <1>1, UpcomingIs
  <1>8. \A b \in B : b # l => c.next[b] = Upcoming[b]
    BY <1>4, <1>5, <1>7
  <1>9. BeladySet(B, Upcoming, k, l, Upcoming[l], D)
    <2>1. CASE l \in B
      BY <1>6, <2>1 DEF BeladySet
    <2>2. CASE l \notin B
      <3>1. \A b \in B : c.next[b] = Upcoming[b]
        BY <1>8, <2>2
      <3>2. CASE Cardinality(B) >= k
        <4>1. PICK v \in B : /\ \A b \in B : c.next[b] <= c.next[v]
                             /\ D = IF c.next[v] <= NextUse(t) THEN B ELSE (B \ {v}) \cup {l}
          BY <1>6, <2>2, <3>2 DEF BeladySet
        <4>2. /\ \A b \in B : Upcoming[b] <= Upcoming[v]
              /\ D = IF Upcoming[v] <= Upcoming[l] THEN B ELSE (B \ {v}) \cup {l}
          BY <1>7, <3>1, <4>1
        <4>3. ~ (Cardinality(B) < k)
          BY <1>5, <3>2
        <4>4. QED
          BY <2>2, <4>2, <4>3, Zenon DEF BeladySet
      <3>3. CASE ~ (Cardinality(B) >= k)
        <4>1. Cardinality(B) < k
          BY <1>5, <3>3
        <4>2. QED
          BY <1>6, <2>2, <3>3, <4>1 DEF BeladySet
      <3>4. QED
        BY <3>2, <3>3
    <2>3. QED
      BY <2>1, <2>2
  <1>10. D \subseteq B \cup {l} /\ (l \notin B /\ l \notin D => D = B) /\ (l \in B => D = B)
         /\ (l \notin B /\ Len(c.resident) < k => l \in D)
    <2>1. PICK n \in Nat : n = Len(c.resident)
      BY <1>5
    <2>2. Cardinality(B) = n /\ k \in Nat
      BY <1>5, <2>1
    <2>3. PICK F, x : F = Upcoming /\ x = Upcoming[l]
      OBVIOUS
    <2>4. BeladySet(B, F, k, l, x, D)
      BY <1>9, <2>3
    <2>5. D \subseteq B \cup {l} /\ (l \notin B /\ l \notin D => D = B) /\ (l \in B => D = B)
          /\ (l \notin B /\ n < k => l \in D)
      BY <2>2, <2>4, BeladySetIs
    <2>6. QED
      BY <2>1, <2>5
  <1>11. \A b \in D : d.next[b] = FirstUse(b, t + 1)
    <2> SUFFICES ASSUME NEW b \in D PROVE d.next[b] = FirstUse(b, t + 1)
      OBVIOUS
    <2>1. b \in Leaves
      BY <1>5, <1>10
    <2>2. CASE b = l
      <3>1. d.next = [c.next EXCEPT ![l] = NextUse(t)]
        BY <1>6, <2>2
      <3>2. d.next[l] = NextUse(t)
        BY <1>4, <3>1
      <3>3. QED
        BY <1>7, <2>2, <3>2
    <2>3. CASE b # l
      <3>1. b \in B
        BY <1>10, <2>3
      <3>2. d.next[b] = c.next[b]
        <4>1. CASE l \in D
          <5>1. d.next = [c.next EXCEPT ![l] = NextUse(t)]
            BY <1>6, <4>1
          <5>2. QED
            BY <1>4, <2>1, <2>3, <5>1
        <4>2. CASE l \notin D
          BY <1>6, <4>2
        <4>3. QED
          BY <4>1, <4>2
      <3>3. QED
        BY <1>7, <1>8, <2>1, <2>3, <3>1, <3>2
    <2>4. QED
      BY <2>2, <2>3
  <1>12. t \in Nat
    BY StreamStep
  <1>13. d.hits <= t + 1
    <2>1. CASE l \in B
      BY <1>4, <1>6, <1>12, <2>1
    <2>2. CASE l \notin B
      BY <1>4, <1>6, <1>12, <2>2
    <2>3. QED
      BY <2>1, <2>2
  <1>14. Len(d.resident) <= k /\ d.inserts - d.evictions = Len(d.resident)
    <2>1. PICK i \in Nat, e \in Nat, n \in Nat : i = c.inserts /\ e = c.evictions /\ n = Len(c.resident)
      BY <1>4, <1>5
    <2>2. i - e = n /\ n <= k
      BY <1>4, <2>1
    <2>3. CASE l \notin B /\ n < k
      <3>1. d.inserts = i + 1 /\ d.evictions = e + 0 /\ Len(d.resident) = n + 1
        <4>1. l \in D /\ ~ (n >= k)
          BY <1>10, <2>1, <2>3
        <4>2. QED
          BY <1>6, <2>1, <2>3, <4>1, Zenon
      <3>2. QED
        BY <2>2, <2>3, <3>1
    <2>4. CASE l \notin B /\ ~ (n < k) /\ l \in D
      <3>1. d.inserts = i + 1 /\ d.evictions = e + 1 /\ Len(d.resident) = n + 0
        <4>1. n >= k
          BY <2>4
        <4>2. QED
          BY <1>6, <2>1, <2>4, <4>1, Zenon
      <3>2. QED
        BY <2>2, <2>4, <3>1
    <2>5. CASE l \in B \/ (~ (n < k) /\ l \notin D)
      <3>1. d.inserts = i + 0 /\ d.evictions = e + 0 /\ Len(d.resident) = n + 0
        BY <1>6, <2>1, <2>5, Zenon
      <3>2. QED
        BY <2>2, <2>5, <3>1
    <2>6. QED
      BY <2>3, <2>4, <2>5
  <1>15. BeladyDone(c, k, l, d)
    BY <1>2, <1>3, <1>6, <1>9, Zenon DEF BeladyDone
  <1>16. QED
    BY <1>1, <1>3, <1>6, <1>11, <1>13, <1>14, <1>15

\* One access of the reference.
LEMMA BeladyMovesOn ==
  ASSUME StreamTypes, Access, NEW k \in Caps, BeladyKept(belady[k], k)
  PROVE  BeladyKept(belady[k], k)' /\ BeladyDone(belady[k], k, LeafAt(t), belady'[k])
  <1>1. k \in Nat \ {0} /\ LeafAt(t) \in Leaves /\ t \in 0 .. Length /\ Length \in Nat /\ t \in Nat
    BY Sizes, StreamStep DEF StreamTypes
  <1>2. belady'[k] = BeladyAccess(belady[k], k, LeafAt(t), NextUse(t))
    BY DEF Access
  <1>3. NextUse(t) \in Int
    <2>1. Upcoming \in [Leaves -> t + 1 .. Length] /\ NextUse(t) = Upcoming[LeafAt(t)]
      BY UpcomingIs
    <2>2. QED
      BY <1>1, <2>1
  <1>4. PICK c \in BeladyRecords(Seq(Leaves)) : c = belady[k]
    BY DEF BeladyKept
  <1>5. BeladyKept(c, k)
    BY <1>4
  <1>6. Distinct(c.resident) /\ Len(c.resident) <= k
        /\ \A i \in 1 .. Len(c.resident) : c.next[c.resident[i]] \in 0 .. Length
    <2>1. \A b \in ToSet(c.resident) : c.next[b] \in 0 .. Length
      <3>1. \A b : FirstUse(b, t) \in t .. Length
        BY <1>1, FirstUseIs
      <3>2. t .. Length \subseteq 0 .. Length
        BY <1>1
      <3>3. QED
        BY <1>5, <3>1, <3>2 DEF BeladyKept
    <2>2. \A i \in 1 .. Len(c.resident) : c.resident[i] \in ToSet(c.resident)
      <3>1. c.resident \in Seq(Leaves)
        BY DEF BeladyRecords
      <3>2. QED
        BY <3>1, SetOf
    <2>3. QED
      BY <1>5, <2>1, <2>2 DEF BeladyKept
  <1>7. BeladyMove(c, k, LeafAt(t), NextUse(t), belady'[k])
    BY <1>1, <1>2, <1>3, <1>4, <1>6, DictMoves
  <1>8. PICK d : d = belady'[k]
    OBVIOUS
  <1>9. /\ d \in BeladyRecords(Seq(Leaves)) /\ Distinct(d.resident) /\ Len(d.resident) <= k
        /\ \A b \in ToSet(d.resident) : d.next[b] = FirstUse(b, t + 1)
        /\ d.hits <= t + 1 /\ d.inserts - d.evictions = Len(d.resident)
        /\ BeladyDone(c, k, LeafAt(t), d)
    BY <1>1, <1>5, <1>7, <1>8, BeladyKeeps
  <1>10. t' = t + 1 /\ \A b : FirstUse(b, t)' = FirstUse(b, t + 1)
    BY StreamStep
  <1>11. QED
    BY <1>4, <1>8, <1>9, <1>10 DEF BeladyKept

\* One access of the kernel.
LEMMA KernelMovesOn ==
  ASSUME StreamTypes, Access, NEW k \in Caps, BeladyKept(beladyFast[k], k)
  PROVE  BeladyKept(beladyFast[k], k)' /\ BeladyDone(beladyFast[k], k, LeafAt(t), beladyFast'[k])
  <1>1. k \in Nat \ {0} /\ LeafAt(t) \in Leaves /\ t \in 0 .. Length /\ Length \in Nat /\ t \in Nat
    BY Sizes, StreamStep DEF StreamTypes
  <1>2. beladyFast'[k] = BeladyKernel(beladyFast[k], k, LeafAt(t), NextUse(t))
    <2>1. FillNextUse(t) = NextUse(t)
      BY StreamStep, FillsNextUse
    <2>2. QED
      BY <2>1 DEF Access
  <1>3. NextUse(t) \in Int
    <2>1. Upcoming \in [Leaves -> t + 1 .. Length] /\ NextUse(t) = Upcoming[LeafAt(t)]
      BY UpcomingIs
    <2>2. QED
      BY <1>1, <2>1
  <1>4. PICK c \in BeladyRecords(Seq(Leaves)) : c = beladyFast[k]
    BY DEF BeladyKept
  <1>5. BeladyKept(c, k)
    BY <1>4
  <1>6. Distinct(c.resident) /\ Len(c.resident) <= k
        /\ \A i \in 1 .. Len(c.resident) : c.next[c.resident[i]] \in 0 .. Length
    <2>1. \A b \in ToSet(c.resident) : c.next[b] \in 0 .. Length
      <3>1. \A b : FirstUse(b, t) \in t .. Length
        BY <1>1, FirstUseIs
      <3>2. t .. Length \subseteq 0 .. Length
        BY <1>1
      <3>3. QED
        BY <1>5, <3>1, <3>2 DEF BeladyKept
    <2>2. \A i \in 1 .. Len(c.resident) : c.resident[i] \in ToSet(c.resident)
      <3>1. c.resident \in Seq(Leaves)
        BY DEF BeladyRecords
      <3>2. QED
        BY <3>1, SetOf
    <2>3. QED
      BY <1>5, <2>1, <2>2 DEF BeladyKept
  <1>7. BeladyMove(c, k, LeafAt(t), NextUse(t), beladyFast'[k])
    BY <1>1, <1>2, <1>3, <1>4, <1>6, ArrayMoves
  <1>8. PICK d : d = beladyFast'[k]
    OBVIOUS
  <1>9. /\ d \in BeladyRecords(Seq(Leaves)) /\ Distinct(d.resident) /\ Len(d.resident) <= k
        /\ \A b \in ToSet(d.resident) : d.next[b] = FirstUse(b, t + 1)
        /\ d.hits <= t + 1 /\ d.inserts - d.evictions = Len(d.resident)
        /\ BeladyDone(c, k, LeafAt(t), d)
    BY <1>1, <1>5, <1>7, <1>8, BeladyKeeps
  <1>10. t' = t + 1 /\ \A b : FirstUse(b, t)' = FirstUse(b, t + 1)
    BY StreamStep
  <1>11. QED
    BY <1>4, <1>8, <1>9, <1>10 DEF BeladyKept

-----------------------------------------------------------------------------
(* Belady's two forms hold the same leaves that are used again.            *)

\* Those of X that are used again.
Again(X, F) == {b \in X : F[b] # Never}

NextUses(F) ==
    /\ F \in [Leaves -> 0 .. Length]
    /\ \A b, c \in Leaves : F[b] = F[c] /\ F[b] # Never => b = c

\* Two caches of one size and with the same leaves used again both have a leaf
\* that is not, or neither has.
LEMMA DeadToo ==
  ASSUME NEW F, NEW B \in SUBSET Leaves, NEW C \in SUBSET Leaves, Cardinality(B) = Cardinality(C),
         Again(B, F) = Again(C, F), NEW b \in B, F[b] = Never
  PROVE  \E c \in C : F[c] = Never
  <1> SUFFICES ASSUME \A c \in C : F[c] # Never PROVE FALSE
    OBVIOUS
  <1>1. IsFiniteSet(B) /\ IsFiniteSet(C) /\ Cardinality(B) \in Nat
    BY Sizes, FS_Subset, FS_CardinalityType
  <1>2. C \subseteq B \ {b}
    BY DEF Again
  <1>3. IsFiniteSet(B \ {b}) /\ Cardinality(B \ {b}) = Cardinality(B) - 1
    BY <1>1, FS_RemoveElement
  <1>4. Cardinality(C) <= Cardinality(B) - 1
    BY <1>2, <1>3, FS_Subset
  <1>5. QED
    BY <1>1, <1>4

\* A full cache gives up a leaf of the same next use in both.
LEMMA SameVictimUse ==
  ASSUME NEW F, NextUses(F), NEW B \in SUBSET Leaves, NEW C \in SUBSET Leaves, Cardinality(B) = Cardinality(C),
         Again(B, F) = Again(C, F),
         NEW v \in B, \A b \in B : F[b] <= F[v], NEW w \in C, \A c \in C : F[c] <= F[w]
  PROVE  F[v] = F[w] /\ (F[v] # Never => v = w)
  <1>1. /\ \A b \in Leaves : F[b] \in 0 .. Length
        /\ \A b, c \in Leaves : F[b] = F[c] /\ F[b] # Never => b = c
        /\ Length \in Nat
    BY Sizes DEF NextUses
  <1>2. CASE F[v] = Never
    <2>1. PICK c \in C : F[c] = Never
      BY <1>2, DeadToo
    <2>2. F[w] >= Length
      BY <1>1, <2>1 DEF Never
    <2>3. QED
      BY <1>1, <1>2, <2>2 DEF Never
  <1>3. CASE F[w] = Never
    <2>1. PICK b \in B : F[b] = Never
      BY <1>3, DeadToo
    <2>2. F[v] >= Length
      BY <1>1, <2>1 DEF Never
    <2>3. QED
      BY <1>1, <1>3, <2>2 DEF Never
  <1>4. CASE F[v] # Never /\ F[w] # Never
    <2>1. v \in C /\ w \in B
      BY <1>4 DEF Again
    <2>2. F[v] <= F[w] /\ F[w] <= F[v] /\ F[v] \in Int /\ F[w] \in Int
      BY <1>1, <2>1
    <2>3. QED
      BY <1>1, <1>4, <2>2
  <1>5. QED
    BY <1>2, <1>3, <1>4

\* A move keeps two such caches alike.
LEMMA SameAgain ==
  ASSUME NEW F, NextUses(F), NEW B \in SUBSET Leaves, NEW C \in SUBSET Leaves, Cardinality(B) = Cardinality(C),
         NEW l \in Leaves, l \in B <=> l \in C, Again(B \ {l}, F) = Again(C \ {l}, F), NEW k \in Nat,
         NEW D, BeladySet(B, F, k, l, F[l], D), NEW E, BeladySet(C, F, k, l, F[l], E)
  PROVE  Again(D, F) = Again(E, F) /\ (l \in D <=> l \in E)
  <1>0. /\ Cardinality(B) \in Nat
        /\ Length \in Nat /\ \A b \in Leaves : F[b] \in 0 .. Length
    <2>1. IsFiniteSet(B)
      BY Sizes, FS_Subset
    <2>2. QED
      BY <2>1, Sizes, FS_CardinalityType DEF NextUses
  <1>1. CASE l \in B
    <2>1. D = B /\ E = C
      BY <1>1 DEF BeladySet
    <2>2. QED
      BY <1>1, <2>1 DEF Again
  <1>2. CASE l \notin B
    <2>1. Again(B, F) = Again(C, F)
      BY <1>2 DEF Again
    <2>2. CASE Cardinality(B) < k
      <3>1. D = B \cup {l} /\ E = C \cup {l}
        BY <1>2, <2>2 DEF BeladySet
      <3>2. QED
        BY <2>1, <3>1 DEF Again
    <2>3. CASE Cardinality(B) >= k
      <3>1. PICK v \in B : /\ \A b \in B : F[b] <= F[v]
                           /\ D = IF F[v] <= F[l] THEN B ELSE (B \ {v}) \cup {l}
        BY <1>2, <2>3 DEF BeladySet
      <3>2. PICK w \in C : /\ \A c \in C : F[c] <= F[w]
                           /\ E = IF F[w] <= F[l] THEN C ELSE (C \ {w}) \cup {l}
        BY <1>2, <2>3 DEF BeladySet
      <3>3. F[v] = F[w] /\ (F[v] # Never => v = w)
        BY <2>1, <3>1, <3>2, SameVictimUse
      <3>4. CASE F[v] <= F[l]
        BY <1>2, <2>1, <3>1, <3>2, <3>3, <3>4
      <3>5. CASE ~ (F[v] <= F[l])
        <4>1. D = (B \ {v}) \cup {l} /\ E = (C \ {w}) \cup {l}
          BY <3>1, <3>2, <3>3, <3>5
        <4>2. QED
          BY <2>1, <3>3, <4>1 DEF Again
      <3>6. QED
        BY <3>4, <3>5
    <2>4. QED
      BY <1>0, <2>2, <2>3
  <1>3. QED
    BY <1>1, <1>2

\* What the reference and the kernel have in common.
BeladyAlike(c, d) ==
    /\ {b \in ToSet(c.resident) : FirstUse(b, t) # Never} = {b \in ToSet(d.resident) : FirstUse(b, t) # Never}
    /\ Len(c.resident) = Len(d.resident)
    /\ c.hit = d.hit /\ c.hits = d.hits /\ c.inserts = d.inserts /\ c.evictions = d.evictions

\* An access keeps them alike.
LEMMA BeladyAlikeStep ==
  ASSUME StreamTypes, Access, NEW k \in Caps, BeladyKept(belady[k], k), BeladyKept(beladyFast[k], k),
         BeladyAlike(belady[k], beladyFast[k])
  PROVE  BeladyAlike(belady[k], beladyFast[k])'
  <1>1. PICK c : c = belady[k]
    OBVIOUS
  <1>2. PICK d : d = belady'[k]
    OBVIOUS
  <1>3. PICK x : x = beladyFast[k]
    OBVIOUS
  <1>4. PICK y : y = beladyFast'[k]
    OBVIOUS
  <1>5. PICK l \in Leaves : l = LeafAt(t)
    BY StreamStep
  <1>6. PICK F : F = Upcoming
    OBVIOUS
  <1> DEFINE B == ToSet(c.resident)
             D == ToSet(d.resident)
             C == ToSet(x.resident)
             E == ToSet(y.resident)
  <1>7. /\ BeladyKept(belady[k], k)' /\ BeladyKept(beladyFast[k], k)'
        /\ BeladyDone(c, k, l, d) /\ BeladyDone(x, k, l, y)
    BY <1>1, <1>2, <1>3, <1>4, <1>5, BeladyMovesOn, KernelMovesOn
  <1>8. d \in BeladyRecords(Seq(Leaves)) /\ y \in BeladyRecords(Seq(Leaves))
    BY <1>2, <1>4, <1>7 DEF BeladyKept
  <1>9. /\ B \in SUBSET Leaves /\ Cardinality(B) = Len(c.resident) /\ Len(c.resident) \in Nat
        /\ C \in SUBSET Leaves /\ Cardinality(C) = Len(x.resident)
    <2>1. c.resident \in Seq(Leaves) /\ Distinct(c.resident) /\ x.resident \in Seq(Leaves) /\ Distinct(x.resident)
      BY <1>1, <1>3 DEF BeladyKept, BeladyRecords
    <2>2. QED
      BY <2>1, DistinctCard, SetOf, LenProperties
  <1>10. D \subseteq Leaves /\ E \subseteq Leaves
    <2>1. d.resident \in Seq(Leaves) /\ y.resident \in Seq(Leaves)
      BY <1>8 DEF BeladyRecords
    <2>2. QED
      BY <2>1, SetOf
  <1>11. /\ {b \in B : FirstUse(b, t) # Never} = {b \in C : FirstUse(b, t) # Never}
         /\ Len(c.resident) = Len(x.resident)
         /\ c.hits = x.hits /\ c.inserts = x.inserts /\ c.evictions = x.evictions
    BY <1>1, <1>3 DEF BeladyAlike
  <1>12. /\ NextUses(F)
         /\ \A b \in Leaves : F[b] = FirstUse(b, t + 1)
         /\ \A b \in Leaves : FirstUse(b, t) = IF b = l THEN t ELSE F[b]
         /\ t # Never
    <2>1. t \in 0 .. Length - 1 /\ Length \in Nat /\ t \in Nat
      BY StreamStep
    <2>2. t + 1 .. Length \subseteq 0 .. Length
      BY <2>1
    <2>3. F \in [Leaves -> 0 .. Length]
      <3>1. F \in [Leaves -> t + 1 .. Length]
        BY <1>6, UpcomingIs
      <3>2. QED
        BY <2>2, <3>1
    <2>4. QED
      BY <1>5, <1>6, <2>1, <2>3, UpcomingIs DEF NextUses, Never
  <1> HIDE DEF B, C, D, E
  <1>13. l \in B <=> l \in C
    BY <1>11, <1>12
  <1>14. Again(B \ {l}, F) = Again(C \ {l}, F)
    <2>1. Again(B \ {l}, F) = {b \in B : FirstUse(b, t) # Never} \ {l}
      BY <1>9, <1>12 DEF Again
    <2>2. Again(C \ {l}, F) = {b \in C : FirstUse(b, t) # Never} \ {l}
      BY <1>9, <1>12 DEF Again
    <2>3. QED
      BY <1>11, <2>1, <2>2
  <1>15. BeladySet(B, F, k, l, F[l], D) /\ BeladySet(C, F, k, l, F[l], E)
    BY <1>6, <1>7 DEF BeladyDone, B, C, D, E
  <1>16. Again(D, F) = Again(E, F) /\ (l \in D <=> l \in E)
    <2>1. k \in Nat /\ Cardinality(B) = Cardinality(C)
      BY <1>9, <1>11, Sizes
    <2>2. QED
      BY <1>9, <1>12, <1>13, <1>14, <1>15, <2>1, SameAgain
  <1>17. {b \in D : FirstUse(b, t + 1) # Never} = {b \in E : FirstUse(b, t + 1) # Never}
    <2>1. {b \in D : FirstUse(b, t + 1) # Never} = Again(D, F) /\ {b \in E : FirstUse(b, t + 1) # Never} = Again(E, F)
      BY <1>10, <1>12 DEF Again
    <2>2. QED
      BY <1>16, <2>1
  <1>18. /\ d.hit <=> l \in B
         /\ d.hits = c.hits + IF l \in B THEN 1 ELSE 0
         /\ d.inserts = c.inserts + IF l \notin B /\ l \in D THEN 1 ELSE 0
         /\ d.evictions = c.evictions + IF l \notin B /\ l \in D /\ Len(c.resident) >= k THEN 1 ELSE 0
         /\ Len(d.resident) = Len(c.resident) + IF l \notin B /\ Len(c.resident) < k THEN 1 ELSE 0
    BY <1>7, Zenon DEF BeladyDone, B, D
  <1>19. /\ y.hit <=> l \in C
         /\ y.hits = x.hits + IF l \in C THEN 1 ELSE 0
         /\ y.inserts = x.inserts + IF l \notin C /\ l \in E THEN 1 ELSE 0
         /\ y.evictions = x.evictions + IF l \notin C /\ l \in E /\ Len(x.resident) >= k THEN 1 ELSE 0
         /\ Len(y.resident) = Len(x.resident) + IF l \notin C /\ Len(x.resident) < k THEN 1 ELSE 0
    BY <1>7, Zenon DEF BeladyDone, C, E
  <1>20. d.hits = y.hits /\ d.inserts = y.inserts /\ d.evictions = y.evictions
         /\ Len(d.resident) = Len(y.resident) /\ (d.hit <=> y.hit)
    <2>1. /\ (l \notin B /\ l \in D) <=> (l \notin C /\ l \in E)
          /\ (l \notin B /\ l \in D /\ Len(c.resident) >= k) <=> (l \notin C /\ l \in E /\ Len(x.resident) >= k)
          /\ (l \notin B /\ Len(c.resident) < k) <=> (l \notin C /\ Len(x.resident) < k)
      BY <1>11, <1>13, <1>16
    <2>2. QED
      BY <1>11, <1>13, <1>18, <1>19, <2>1
  <1>21. d.hit = y.hit
    <2>1. d.hit \in BOOLEAN /\ y.hit \in BOOLEAN
      BY <1>8 DEF BeladyRecords
    <2>2. QED
      BY <1>20, <2>1
  <1>22. t' = t + 1 /\ \A b : FirstUse(b, t)' = FirstUse(b, t + 1)
    BY StreamStep
  <1>23. QED
    BY <1>2, <1>4, <1>17, <1>20, <1>21, <1>22 DEF BeladyAlike, D, E

-----------------------------------------------------------------------------
(* What a smaller Belady holds and uses again a larger one holds.          *)

\* The leaves of C that are used again are those of B and at most one other.
Nested(B, C, F) ==
    /\ \A b \in B : F[b] # Never => b \in C
    /\ \E x : \A c \in C : F[c] # Never => c \in B \/ c = x

\* A larger cache holds a leaf not used again if the smaller one has room, or
\* holds such a leaf.
LEMMA DeadInLarger ==
  ASSUME NEW F, NEW B \in SUBSET Leaves, NEW C \in SUBSET Leaves, NEW k \in Nat, Cardinality(C) >= k + 1,
         NEW x, \A c \in C : F[c] # Never => c \in B \/ c = x,
         Cardinality(B) < k \/ (Cardinality(B) <= k /\ \E b \in B : F[b] = Never)
  PROVE  \E c \in C : F[c] = Never
  <1> SUFFICES ASSUME \A c \in C : F[c] # Never PROVE FALSE
    OBVIOUS
  <1> DEFINE L == Again(B, F)
  <1>1. IsFiniteSet(B) /\ Cardinality(B) \in Nat /\ IsFiniteSet(C) /\ Cardinality(C) \in Nat
    BY Sizes, FS_Subset, FS_CardinalityType
  <1>2. L \subseteq B
    BY DEF Again
  <1>3. IsFiniteSet(L) /\ Cardinality(L) \in Nat /\ Cardinality(L) < k
    <2>1. IsFiniteSet(L) /\ Cardinality(L) \in Nat /\ Cardinality(L) <= Cardinality(B)
      BY <1>1, <1>2, FS_Subset, FS_CardinalityType
    <2>2. CASE Cardinality(B) < k
      BY <1>1, <2>1, <2>2
    <2>3. CASE Cardinality(B) <= k /\ \E b \in B : F[b] = Never
      <3>1. PICK b \in B : F[b] = Never
        BY <2>3
      <3>2. L \subseteq B \ {b}
        BY <3>1 DEF Again
      <3>3. IsFiniteSet(B \ {b}) /\ Cardinality(B \ {b}) = Cardinality(B) - 1
        BY <1>1, FS_RemoveElement
      <3>4. Cardinality(L) <= Cardinality(B) - 1
        BY <3>2, <3>3, FS_Subset
      <3>5. QED
        BY <1>1, <2>1, <2>3, <3>4
    <2>4. QED
      BY <2>2, <2>3
  <1>4. C \subseteq L \cup {x}
    BY DEF Again
  <1> HIDE DEF L
  <1>5. IsFiniteSet(L \cup {x}) /\ Cardinality(L \cup {x}) <= Cardinality(L) + 1
    <2>1. CASE x \in L
      <3>1. L \cup {x} = L
        BY <2>1
      <3>2. QED
        BY <1>3, <3>1
    <2>2. CASE x \notin L
      <3>1. IsFiniteSet(L \cup {x}) /\ Cardinality(L \cup {x}) = Cardinality(L) + 1
        BY <1>3, <2>2, FS_AddElement
      <3>2. QED
        BY <1>3, <3>1
    <2>3. QED
      BY <2>1, <2>2
  <1>6. Cardinality(C) <= Cardinality(L \cup {x})
    BY <1>4, <1>5, FS_Subset
  <1>7. Cardinality(L \cup {x}) \in Nat
    BY <1>5, FS_CardinalityType
  <1>8. QED
    BY <1>1, <1>3, <1>5, <1>6, <1>7

\* If the smaller cache is full of leaves used again and there is no room for
\* another in the larger, both hold the same of them.
LEMMA SameWhenFull ==
  ASSUME NEW F, NEW B \in SUBSET Leaves, NEW C \in SUBSET Leaves, NEW k \in Nat, Cardinality(B) = k,
         \A b \in B : F[b] # Never, \A b \in B : F[b] # Never => b \in C,
         Cardinality(C) <= k \/ (Cardinality(C) <= k + 1 /\ \E c \in C : F[c] = Never)
  PROVE  \A c \in C : F[c] # Never => c \in B
  <1> DEFINE L == Again(C, F)
  <1>1. IsFiniteSet(B) /\ IsFiniteSet(C) /\ Cardinality(C) \in Nat
    BY Sizes, FS_Subset, FS_CardinalityType
  <1>2. L \subseteq C /\ B \subseteq L
    BY DEF Again
  <1>3. IsFiniteSet(L) /\ Cardinality(L) \in Nat /\ Cardinality(L) <= k
    <2>1. IsFiniteSet(L) /\ Cardinality(L) \in Nat /\ Cardinality(L) <= Cardinality(C)
      BY <1>1, <1>2, FS_Subset, FS_CardinalityType
    <2>2. CASE Cardinality(C) <= k
      BY <1>1, <2>1, <2>2
    <2>3. CASE Cardinality(C) <= k + 1 /\ \E c \in C : F[c] = Never
      <3>1. PICK c \in C : F[c] = Never
        BY <2>3
      <3>2. L \subseteq C \ {c}
        BY <3>1 DEF Again
      <3>3. IsFiniteSet(C \ {c}) /\ Cardinality(C \ {c}) = Cardinality(C) - 1
        BY <1>1, FS_RemoveElement
      <3>4. Cardinality(L) <= Cardinality(C) - 1
        BY <3>2, <3>3, FS_Subset
      <3>5. QED
        BY <1>1, <2>1, <2>3, <3>4
    <2>4. QED
      BY <2>2, <2>3
  <1>4. L = B
    <2>1. Cardinality(B) <= Cardinality(L) /\ (Cardinality(B) = Cardinality(L) => B = L)
      BY <1>2, <1>3, FS_Subset
    <2>2. QED
      BY <1>3, <2>1
  <1>5. QED
    BY <1>4 DEF Again

\* An access keeps the caches nested.
LEMMA NestedStep ==
  ASSUME NEW F, NextUses(F), NEW B \in SUBSET Leaves, NEW C \in SUBSET Leaves, NEW k \in Nat \ {0},
         Cardinality(B) <= k, Cardinality(C) <= k + 1, NEW l \in Leaves,
         \A b \in B : b = l \/ F[b] # Never => b \in C,
         NEW x, \A c \in C : c = l \/ F[c] # Never => c \in B \/ c = x,
         NEW D, BeladySet(B, F, k, l, F[l], D), NEW E, BeladySet(C, F, k + 1, l, F[l], E)
  PROVE  Nested(D, E, F)
  <1>0. /\ \A b \in Leaves : F[b] \in 0 .. Length
        /\ \A b, c \in Leaves : F[b] = F[c] /\ F[b] # Never => b = c
        /\ Length \in Nat /\ Never = Length
    BY Sizes DEF NextUses, Never
  <1>1. Cardinality(B) \in Nat /\ Cardinality(C) \in Nat
    BY Sizes, FS_Subset, FS_CardinalityType
  <1>2. /\ \A b \in B : F[b] # Never => b \in C
        /\ \A c \in C : F[c] # Never => c \in B \/ c = x
    OBVIOUS
  <1>3. CASE l \in B
    <2>1. D = B /\ E = C
      BY <1>3 DEF BeladySet
    <2>2. QED
      BY <1>2, <2>1 DEF Nested
  <1>4. CASE l \notin B /\ l \in C
    <2>1. E = C /\ x = l
      BY <1>4 DEF BeladySet
    <2>2. CASE Cardinality(B) < k
      <3>1. D = B \cup {l}
        BY <1>4, <2>2 DEF BeladySet
      <3>2. QED
        BY <1>2, <1>4, <2>1, <3>1 DEF Nested
    <2>3. CASE Cardinality(B) >= k
      <3>1. PICK v \in B : D = IF F[v] <= F[l] THEN B ELSE (B \ {v}) \cup {l}
        BY <1>4, <2>3 DEF BeladySet
      <3>2. CASE D = B
        BY <1>2, <2>1, <3>2 DEF Nested
      <3>3. CASE D = (B \ {v}) \cup {l}
        <4>1. \A b \in D : F[b] # Never => b \in E
          BY <1>2, <1>4, <2>1, <3>3
        <4>2. \A c \in E : F[c] # Never => c \in D \/ c = v
          BY <1>2, <2>1, <3>3
        <4>3. QED
          BY <4>1, <4>2 DEF Nested
      <3>4. QED
        BY <3>1, <3>2, <3>3
    <2>4. QED
      BY <1>1, <2>2, <2>3
  <1>5. CASE l \notin B /\ l \notin C
    <2>1. \/ Cardinality(B) < k /\ D = B \cup {l}
          \/ /\ Cardinality(B) = k
             /\ \E v \in B : /\ \A b \in B : F[b] <= F[v]
                             /\ \/ F[v] <= F[l] /\ D = B
                                \/ F[v] > F[l] /\ D = (B \ {v}) \cup {l}
      <3>1. CASE Cardinality(B) < k
        BY <1>5, <3>1 DEF BeladySet
      <3>2. CASE Cardinality(B) >= k
        <4>1. PICK v \in B : /\ \A b \in B : F[b] <= F[v]
                             /\ D = IF F[v] <= F[l] THEN B ELSE (B \ {v}) \cup {l}
          BY <1>5, <3>2 DEF BeladySet
        <4>2. F[v] <= F[l] \/ F[v] > F[l]
          BY <1>0
        <4>3. Cardinality(B) = k
          BY <1>1, <3>2
        <4>4. CASE F[v] <= F[l]
          BY <4>1, <4>3, <4>4
        <4>5. CASE ~ (F[v] <= F[l])
          <5>1. D = (B \ {v}) \cup {l} /\ F[v] > F[l]
            BY <4>1, <4>2, <4>5
          <5>2. QED
            BY <4>1, <4>3, <5>1
        <4>6. QED
          BY <4>4, <4>5
      <3>3. QED
        BY <1>1, <3>1, <3>2
    <2>2. \/ Cardinality(C) < k + 1 /\ E = C \cup {l}
          \/ /\ Cardinality(C) = k + 1
             /\ \E w \in C : /\ \A c \in C : F[c] <= F[w]
                             /\ \/ F[w] <= F[l] /\ E = C
                                \/ F[w] > F[l] /\ E = (C \ {w}) \cup {l}
      <3>1. CASE Cardinality(C) < k + 1
        BY <1>5, <3>1 DEF BeladySet
      <3>2. CASE Cardinality(C) >= k + 1
        <4>1. PICK w \in C : /\ \A c \in C : F[c] <= F[w]
                             /\ E = IF F[w] <= F[l] THEN C ELSE (C \ {w}) \cup {l}
          BY <1>5, <3>2 DEF BeladySet
        <4>2. F[w] <= F[l] \/ F[w] > F[l]
          BY <1>0
        <4>3. Cardinality(C) = k + 1
          BY <1>1, <3>2
        <4>4. CASE F[w] <= F[l]
          BY <4>1, <4>3, <4>4
        <4>5. CASE ~ (F[w] <= F[l])
          <5>1. E = (C \ {w}) \cup {l} /\ F[w] > F[l]
            BY <4>1, <4>2, <4>5
          <5>2. QED
            BY <4>1, <4>3, <5>1
        <4>6. QED
          BY <4>4, <4>5
      <3>3. QED
        BY <1>1, <3>1, <3>2
    <2>3. CASE F[l] = Never
      <3>1. ~ \E v \in Leaves : F[v] > F[l]
        BY <1>0, <2>3
      <3>2. (D = B \/ D = B \cup {l}) /\ (E = C \/ E = C \cup {l})
        BY <2>1, <2>2, <3>1
      <3>3. QED
        BY <1>2, <2>3, <3>2 DEF Nested
    <2>4. CASE F[l] # Never /\ Cardinality(B) < k
      <3>1. D = B \cup {l}
        BY <2>1, <2>4
      <3>2. CASE Cardinality(C) < k + 1
        <4>1. E = C \cup {l}
          BY <2>2, <3>2
        <4>2. QED
          BY <1>2, <3>1, <4>1 DEF Nested
      <3>3. CASE Cardinality(C) = k + 1
        <4>1. \E c \in C : F[c] = Never
          BY <1>1, <1>2, <2>4, <3>3, DeadInLarger
        <4>2. PICK w \in C : F[w] = Never /\ E = (C \ {w}) \cup {l}
          BY <1>0, <2>2, <2>4, <3>3, <4>1
        <4>3. \A b \in D : F[b] # Never => b \in E
          BY <1>2, <3>1, <4>2
        <4>4. \A c \in E : F[c] # Never => c \in D \/ c = x
          BY <1>2, <3>1, <4>2
        <4>5. QED
          BY <4>3, <4>4 DEF Nested
      <3>4. QED
        BY <2>2, <3>2, <3>3
    <2>5. CASE F[l] # Never /\ Cardinality(B) = k
      <3>1. PICK v \in B : /\ \A b \in B : F[b] <= F[v]
                           /\ \/ F[v] <= F[l] /\ D = B
                              \/ F[v] > F[l] /\ D = (B \ {v}) \cup {l}
        BY <2>1, <2>5
      <3>2. CASE F[v] <= F[l] /\ D = B
        <4>1. \A b \in B : F[b] # Never
          BY <1>0, <2>5, <3>1, <3>2
        <4>2. CASE Cardinality(C) < k + 1
          <5>1. E = C \cup {l}
            BY <2>2, <4>2
          <5>2. \A c \in C : F[c] # Never => c \in B
            BY <1>1, <1>2, <2>5, <4>1, <4>2, SameWhenFull
          <5>3. /\ \A b \in D : F[b] # Never => b \in E
                /\ \A c \in E : F[c] # Never => c \in D \/ c = l
            BY <1>2, <3>2, <5>1, <5>2
          <5>4. QED
            BY <5>3 DEF Nested
        <4>3. CASE Cardinality(C) = k + 1
          <5>1. PICK w \in C : /\ \A c \in C : F[c] <= F[w]
                               /\ \/ F[w] <= F[l] /\ E = C
                                  \/ F[w] > F[l] /\ E = (C \ {w}) \cup {l}
            BY <2>2, <4>3
          <5>2. CASE E = C
            BY <1>2, <3>2, <5>2 DEF Nested
          <5>3. CASE F[w] > F[l] /\ E = (C \ {w}) \cup {l}
            <6>1. w \notin B
              <7>1. ASSUME w \in B PROVE FALSE
                <8>1. F[w] <= F[v] /\ F[v] <= F[l] /\ F[w] \in Int /\ F[v] \in Int /\ F[l] \in Int
                  BY <1>0, <3>1, <3>2, <7>1
                <8>2. QED
                  BY <5>3, <8>1
              <7>2. QED
                BY <7>1
            <6>2. \A c \in C \ {w} : F[c] # Never => c \in B
              <7>1. CASE F[w] = Never
                BY <1>2, <2>5, <4>1, <4>3, <7>1, SameWhenFull
              <7>2. CASE F[w] # Never
                BY <1>2, <6>1, <7>2
              <7>3. QED
                BY <7>1, <7>2
            <6>3. /\ \A b \in D : F[b] # Never => b \in E
                  /\ \A c \in E : F[c] # Never => c \in D \/ c = l
              BY <1>2, <3>2, <5>3, <6>1, <6>2
            <6>4. QED
              BY <6>3 DEF Nested
          <5>4. QED
            BY <5>1, <5>2, <5>3
        <4>4. QED
          BY <2>2, <4>2, <4>3
      <3>3. CASE F[v] > F[l] /\ D = (B \ {v}) \cup {l} /\ F[v] = Never
        <4>1. CASE Cardinality(C) < k + 1
          <5>1. E = C \cup {l}
            BY <2>2, <4>1
          <5>2. /\ \A b \in D : F[b] # Never => b \in E
                /\ \A c \in E : F[c] # Never => c \in D \/ c = x
            BY <1>2, <3>3, <5>1
          <5>3. QED
            BY <5>2 DEF Nested
        <4>2. CASE Cardinality(C) = k + 1
          <5>1. \E c \in C : F[c] = Never
            BY <1>1, <1>2, <2>5, <3>3, <4>2, DeadInLarger
          <5>2. PICK w \in C : F[w] = Never /\ E = (C \ {w}) \cup {l}
            BY <1>0, <2>2, <2>5, <4>2, <5>1
          <5>3. /\ \A b \in D : F[b] # Never => b \in E
                /\ \A c \in E : F[c] # Never => c \in D \/ c = x
            BY <1>2, <3>3, <5>2
          <5>4. QED
            BY <5>3 DEF Nested
        <4>3. QED
          BY <2>2, <4>1, <4>2
      <3>4. CASE F[v] > F[l] /\ D = (B \ {v}) \cup {l} /\ F[v] # Never
        <4>1. \A b \in B : F[b] # Never
          <5>1. \A b \in B : F[b] <= F[v] /\ F[b] \in 0 .. Length /\ F[v] \in 0 .. Length
            BY <1>0, <3>1
          <5>2. QED
            BY <1>0, <3>4, <5>1
        <4>2. CASE Cardinality(C) < k + 1
          <5>1. E = C \cup {l}
            BY <2>2, <4>2
          <5>2. \A c \in C : F[c] # Never => c \in B
            BY <1>1, <1>2, <2>5, <4>1, <4>2, SameWhenFull
          <5>3. /\ \A b \in D : F[b] # Never => b \in E
                /\ \A c \in E : F[c] # Never => c \in D \/ c = v
            BY <1>2, <3>4, <5>1, <5>2
          <5>4. QED
            BY <5>3 DEF Nested
        <4>3. CASE Cardinality(C) = k + 1
          <5>1. PICK w \in C : /\ \A c \in C : F[c] <= F[w]
                               /\ \/ F[w] <= F[l] /\ E = C
                                  \/ F[w] > F[l] /\ E = (C \ {w}) \cup {l}
            BY <2>2, <4>3
          <5>2. F[v] <= F[w]
            BY <1>2, <4>1, <5>1
          <5>3. E = (C \ {w}) \cup {l}
            <6>1. F[v] \in Int /\ F[w] \in Int /\ F[l] \in Int
              BY <1>0
            <6>2. QED
              BY <3>4, <5>1, <5>2, <6>1
          <5>4. CASE w \in B
            <6>1. w = v
              <7>1. F[w] <= F[v] /\ F[v] \in Int /\ F[w] \in Int
                BY <1>0, <3>1, <5>4
              <7>2. F[w] = F[v]
                BY <5>2, <7>1
              <7>3. QED
                BY <1>0, <3>4, <7>2
            <6>2. /\ \A b \in D : F[b] # Never => b \in E
                  /\ \A c \in E : F[c] # Never => c \in D \/ c = x
              BY <1>2, <3>4, <5>3, <6>1
            <6>3. QED
              BY <6>2 DEF Nested
          <5>5. CASE w \notin B
            <6>1. \A c \in C \ {w} : F[c] # Never => c \in B
              <7>1. CASE F[w] = Never
                BY <1>2, <2>5, <4>1, <4>3, <7>1, SameWhenFull
              <7>2. CASE F[w] # Never
                BY <1>2, <5>5, <7>2
              <7>3. QED
                BY <7>1, <7>2
            <6>2. /\ \A b \in D : F[b] # Never => b \in E
                  /\ \A c \in E : F[c] # Never => c \in D \/ c = v
              BY <1>2, <3>4, <5>3, <5>5, <6>1
            <6>3. QED
              BY <6>2 DEF Nested
          <5>6. QED
            BY <5>4, <5>5
        <4>4. QED
          BY <2>2, <4>2, <4>3
      <3>5. QED
        BY <3>1, <3>2, <3>3, <3>4
    <2>6. QED
      BY <2>1, <2>3, <2>4, <2>5
  <1>6. QED
    BY <1>3, <1>4, <1>5

\* The larger Belady has what the smaller one has and uses again.
BeladyNested(c, d) ==
    /\ \A b \in ToSet(c.resident) : FirstUse(b, t) # Never => b \in ToSet(d.resident)
    /\ \E x : \A b \in ToSet(d.resident) : FirstUse(b, t) # Never => b \in ToSet(c.resident) \/ b = x

\* An access keeps it so.
LEMMA BeladyNestedStep ==
  ASSUME StreamTypes, Access, NEW k \in Caps, k + 1 \in Caps,
         BeladyKept(belady[k], k), BeladyKept(belady[k + 1], k + 1), BeladyNested(belady[k], belady[k + 1])
  PROVE  BeladyNested(belady[k], belady[k + 1])'
  <1>1. PICK c : c = belady[k]
    OBVIOUS
  <1>2. PICK d : d = belady'[k]
    OBVIOUS
  <1>3. PICK x : x = belady[k + 1]
    OBVIOUS
  <1>4. PICK y : y = belady'[k + 1]
    OBVIOUS
  <1>5. PICK l \in Leaves : l = LeafAt(t)
    BY StreamStep
  <1>6. PICK F : F = Upcoming
    OBVIOUS
  <1> DEFINE B == ToSet(c.resident)
             D == ToSet(d.resident)
             C == ToSet(x.resident)
             E == ToSet(y.resident)
  <1>7. /\ BeladyKept(belady[k], k)' /\ BeladyKept(belady[k + 1], k + 1)'
        /\ BeladyDone(c, k, l, d) /\ BeladyDone(x, k + 1, l, y)
    BY <1>1, <1>2, <1>3, <1>4, <1>5, BeladyMovesOn
  <1>8. d \in BeladyRecords(Seq(Leaves)) /\ y \in BeladyRecords(Seq(Leaves))
    BY <1>2, <1>4, <1>7 DEF BeladyKept
  <1>9. B \in SUBSET Leaves /\ Cardinality(B) <= k /\ C \in SUBSET Leaves /\ Cardinality(C) <= k + 1
    <2>1. c.resident \in Seq(Leaves) /\ Distinct(c.resident) /\ x.resident \in Seq(Leaves) /\ Distinct(x.resident)
          /\ Len(c.resident) <= k /\ Len(x.resident) <= k + 1
      BY <1>1, <1>3 DEF BeladyKept, BeladyRecords
    <2>2. Cardinality(B) = Len(c.resident) /\ Cardinality(C) = Len(x.resident) /\ B \subseteq Leaves /\ C \subseteq Leaves
      BY <2>1, DistinctCard, SetOf
    <2> HIDE DEF B, C
    <2>3. QED
      BY <2>1, <2>2
  <1>10. D \subseteq Leaves /\ E \subseteq Leaves
    <2>1. d.resident \in Seq(Leaves) /\ y.resident \in Seq(Leaves)
      BY <1>8 DEF BeladyRecords
    <2>2. QED
      BY <2>1, SetOf
  <1>11. /\ \A b \in B : FirstUse(b, t) # Never => b \in C
         /\ \E z : \A b \in C : FirstUse(b, t) # Never => b \in B \/ b = z
    BY <1>1, <1>3 DEF BeladyNested
  <1>12. /\ NextUses(F)
         /\ \A b \in Leaves : F[b] = FirstUse(b, t + 1)
         /\ \A b \in Leaves : FirstUse(b, t) = IF b = l THEN t ELSE F[b]
         /\ t # Never
    <2>1. t \in 0 .. Length - 1 /\ Length \in Nat /\ t \in Nat
      BY StreamStep
    <2>2. t + 1 .. Length \subseteq 0 .. Length
      BY <2>1
    <2>3. F \in [Leaves -> 0 .. Length]
      <3>1. F \in [Leaves -> t + 1 .. Length]
        BY <1>6, UpcomingIs
      <3>2. QED
        BY <2>2, <3>1
    <2>4. QED
      BY <1>5, <1>6, <2>1, <2>3, UpcomingIs DEF NextUses, Never
  <1>13. BeladySet(B, F, k, l, F[l], D) /\ BeladySet(C, F, k + 1, l, F[l], E)
    BY <1>6, <1>7 DEF BeladyDone
  <1> HIDE DEF B, C, D, E
  <1>14. PICK z : \A b \in C : FirstUse(b, t) # Never => b \in B \/ b = z
    BY <1>11
  <1>15. /\ \A b \in B : b = l \/ F[b] # Never => b \in C
         /\ \A b \in C : b = l \/ F[b] # Never => b \in B \/ b = z
    BY <1>9, <1>11, <1>12, <1>14
  <1>16. Nested(D, E, F)
    <2>1. k \in Nat \ {0}
      BY Sizes
    <2>2. QED
      BY <1>9, <1>12, <1>13, <1>15, <2>1, NestedStep
  <1>17. /\ \A b \in D : FirstUse(b, t + 1) # Never => b \in E
         /\ \E w : \A b \in E : FirstUse(b, t + 1) # Never => b \in D \/ b = w
    BY <1>10, <1>12, <1>16 DEF Nested
  <1>18. t' = t + 1 /\ \A b : FirstUse(b, t)' = FirstUse(b, t + 1)
    BY StreamStep
  <1>19. QED
    BY <1>2, <1>4, <1>17, <1>18 DEF BeladyNested, D, E

-----------------------------------------------------------------------------
(* Belady is optimal.  The argument is a potential: whatever contents R a  *)
(* cache can have after some hits, those hits and the leaves of R used by  *)
(* position n are no more than Belady's hits and its residents used by     *)
(* position n, for every n.                                                *)

\* How many of X are used by position n.
Count(X, F, n) == Cardinality({x \in X : F[x] <= n})

\* Counting.
LEMMA CountIs ==
  ASSUME NEW F \in [Leaves -> Nat], NEW X \in SUBSET Leaves, NEW n \in Int
  PROVE  /\ Count(X, F, n) \in Nat
         /\ Count(X, F, n) <= Cardinality(X) /\ Cardinality(X) \in Nat
         /\ (\A x \in X : F[x] <= n) => Count(X, F, n) = Cardinality(X)
         /\ (\A x \in X : F[x] > n) => Count(X, F, n) = 0
  <1> DEFINE S == {x \in X : F[x] <= n}
  <1>1. IsFiniteSet(X) /\ Cardinality(X) \in Nat
    BY Sizes, FS_Subset, FS_CardinalityType
  <1>2. IsFiniteSet(S) /\ Cardinality(S) <= Cardinality(X) /\ Cardinality(S) \in Nat
    <2>1. S \subseteq X
      OBVIOUS
    <2> HIDE DEF S
    <2>2. QED
      BY <1>1, <2>1, FS_Subset, FS_CardinalityType
  <1>3. ASSUME \A x \in X : F[x] <= n PROVE Cardinality(S) = Cardinality(X)
    <2>1. S = X
      BY <1>3
    <2>2. QED
      BY <2>1
  <1>4. ASSUME \A x \in X : F[x] > n PROVE Cardinality(S) = 0
    <2>1. \A x \in X : ~ (F[x] <= n)
      BY <1>4
    <2>2. S = {}
      BY <2>1
    <2>3. QED
      BY <2>2, FS_EmptySet
  <1>5. QED
    BY <1>1, <1>2, <1>3, <1>4 DEF Count

\* Fewer are used in a smaller set.
LEMMA CountGrows ==
  ASSUME NEW F \in [Leaves -> Nat], NEW X \in SUBSET Leaves, NEW Y \in SUBSET X, NEW n \in Int
  PROVE  Count(Y, F, n) <= Count(X, F, n)
  <1> DEFINE S == {x \in X : F[x] <= n}
             T == {x \in Y : F[x] <= n}
  <1>1. IsFiniteSet(S)
    <2>1. S \subseteq Leaves
      OBVIOUS
    <2>2. QED
      BY <2>1, Sizes, FS_Subset
  <1>2. T \subseteq S
    OBVIOUS
  <1> HIDE DEF S, T
  <1>3. Cardinality(T) <= Cardinality(S)
    BY <1>1, <1>2, FS_Subset
  <1>4. QED
    BY <1>3 DEF Count, S, T

\* One more leaf.
LEMMA CountAdds ==
  ASSUME NEW F \in [Leaves -> Nat], NEW X \in SUBSET Leaves, NEW l \in Leaves \ X, NEW n \in Int
  PROVE  Count(X \cup {l}, F, n) = Count(X, F, n) + IF F[l] <= n THEN 1 ELSE 0
  <1> DEFINE S == {x \in X : F[x] <= n}
  <1>1. IsFiniteSet(S) /\ Cardinality(S) \in Nat
    <2>1. S \subseteq Leaves
      OBVIOUS
    <2>2. IsFiniteSet(S)
      BY <2>1, Sizes, FS_Subset
    <2>3. QED
      BY <2>2, FS_CardinalityType
  <1>2. l \notin S
    OBVIOUS
  <1>3. Count(X, F, n) = Cardinality(S)
    BY DEF Count
  <1>4. CASE F[l] <= n
    <2>1. {x \in X \cup {l} : F[x] <= n} = S \cup {l}
      BY <1>4
    <2> HIDE DEF S
    <2>2. Cardinality(S \cup {l}) = Cardinality(S) + 1
      BY <1>1, <1>2, FS_AddElement
    <2>3. QED
      BY <1>3, <1>4, <2>1, <2>2 DEF Count
  <1>5. CASE ~ (F[l] <= n)
    <2>1. {x \in X \cup {l} : F[x] <= n} = S
      BY <1>5
    <2>2. Count(X \cup {l}, F, n) = Cardinality(S)
      BY <2>1 DEF Count
    <2>3. Count(X, F, n) \in Nat
      BY <1>1, <1>3
    <2>4. Count(X \cup {l}, F, n) = Count(X, F, n)
      BY <1>3, <2>2
    <2>5. QED
      BY <1>5, <2>3, <2>4
  <1>6. QED
    BY <1>4, <1>5

\* The uses before l was accessed now.
UsedNow(F, l, now) == [F EXCEPT ![l] = now]

\* The leaf accessed now is used by every position from now on.
LEMMA CountNow ==
  ASSUME NEW F \in [Leaves -> Nat], NEW X \in SUBSET Leaves, NEW l \in Leaves, NEW now \in Nat,
         NEW n \in Int, now <= n
  PROVE  Count(X, UsedNow(F, l, now), n) = Count(X \ {l}, F, n) + IF l \in X THEN 1 ELSE 0
  <1>0. PICK G : G = UsedNow(F, l, now)
    OBVIOUS
  <1>1. G \in [Leaves -> Nat] /\ G[l] = now /\ \A x \in Leaves \ {l} : G[x] = F[x]
    BY <1>0 DEF UsedNow
  <1>2. Count(X \ {l}, G, n) = Count(X \ {l}, F, n) /\ Count(X \ {l}, F, n) \in Nat
    <2>1. {x \in X \ {l} : G[x] <= n} = {x \in X \ {l} : F[x] <= n}
      BY <1>1
    <2>2. Count(X \ {l}, G, n) = Count(X \ {l}, F, n)
      BY <2>1 DEF Count
    <2>3. X \ {l} \in SUBSET Leaves
      OBVIOUS
    <2>4. QED
      BY <2>2, <2>3, CountIs
  <1>3. CASE l \in X
    <2>1. X = (X \ {l}) \cup {l} /\ l \in Leaves \ (X \ {l}) /\ X \ {l} \in SUBSET Leaves
      BY <1>3
    <2>2. PICK Y \in SUBSET Leaves : Y = X \ {l}
      OBVIOUS
    <2>3. Count(Y \cup {l}, G, n) = Count(Y, G, n) + IF G[l] <= n THEN 1 ELSE 0
      BY <1>1, <2>1, <2>2, CountAdds
    <2>4. Y \cup {l} = X
      BY <2>1, <2>2
    <2>5. QED
      BY <1>0, <1>1, <1>2, <1>3, <2>2, <2>3, <2>4
  <1>4. CASE l \notin X
    <2>1. X \ {l} = X
      BY <1>4
    <2>2. QED
      BY <1>0, <1>2, <1>4, <2>1
  <1>5. QED
    BY <1>0, <1>3, <1>4

Tables(k) == {R \in SUBSET Leaves : Cardinality(R) <= k}

\* What the best way to end with R after l can have been.
BestMove(b, k, l, R, now, a) ==
    /\ a \in Unreachable .. now + 1
    /\ l \notin R => a = b[R]
    /\ l \in R => a >= b[R] + 1
    /\ l \in R => \A P \in Tables(k) :
           l \notin P /\ R \ {l} \subseteq P /\ Cardinality(P) <= Cardinality(R \ {l}) + 1 => a >= b[P]
    /\ l \in R => \/ a = b[R] + 1
                  \/ \E P \in Tables(k) : l \notin P /\ R \ {l} \subseteq P /\ a = b[P]

\* It is found.
LEMMA BestIs ==
  ASSUME NEW k \in Nat, NEW now \in Nat, NEW b \in [Tables(k) -> Unreachable .. now], NEW l \in Leaves,
         NEW R \in Tables(k), NEW a, a = BestAfter(b, k, l)[R]
  PROVE  BestMove(b, k, l, R, now, a)
  <1> DEFINE rest == R \ {l}
             replacing == {P \in Tables(k) : l \notin P /\ rest \subseteq P
                                            /\ Cardinality(P) <= Cardinality(rest) + 1}
             S == {b[R] + 1} \cup {b[P] : P \in replacing}
  <1>1. DOMAIN b = Tables(k)
    OBVIOUS
  <1>2. a = IF l \in R THEN Max(S) ELSE b[R]
    BY <1>1 DEF BestAfter
  <1>3. Unreachable \in Int
    BY Sizes DEF Unreachable
  <1>4. \A P \in Tables(k) : b[P] \in Unreachable .. now
    OBVIOUS
  <1>5. CASE l \notin R
    BY <1>2, <1>3, <1>4, <1>5 DEF BestMove
  <1>6. CASE l \in R
    <2>1. S \in SUBSET (Unreachable .. now + 1) /\ S # {} /\ now + 1 \in Int
      <3>1. \A P \in replacing : P \in Tables(k)
        OBVIOUS
      <3>2. \A P \in Tables(k) : b[P] \in Unreachable .. now + 1 /\ b[P] + 1 \in Unreachable .. now + 1
        BY <1>3, <1>4
      <3> HIDE DEF replacing
      <3>3. QED
        BY <3>1, <3>2
    <2>2. a = Max(S)
      BY <1>2, <1>6
    <2>3. \A P \in replacing : b[P] \in S
      OBVIOUS
    <2>4. b[R] + 1 \in S
      OBVIOUS
    <2>5. \A x \in S : x = b[R] + 1 \/ \E P \in replacing : x = b[P]
      OBVIOUS
    <2> HIDE DEF S
    <2>6. a \in S /\ \A y \in S : a >= y
      BY <1>3, <2>1, <2>2, MaxIs
    <2>7. ASSUME NEW P \in Tables(k), l \notin P, R \ {l} \subseteq P, Cardinality(P) <= Cardinality(R \ {l}) + 1
          PROVE  a >= b[P]
      <3>1. P \in replacing
        BY <2>7
      <3>2. QED
        BY <2>3, <2>6, <3>1
    <2>8. a = b[R] + 1 \/ \E P \in Tables(k) : l \notin P /\ R \ {l} \subseteq P /\ a = b[P]
      <3>1. a = b[R] + 1 \/ \E P \in replacing : a = b[P]
        BY <2>5, <2>6
      <3>2. QED
        BY <3>1
    <2> HIDE DEF replacing
    <2>9. QED
      BY <1>6, <2>1, <2>4, <2>6, <2>7, <2>8 DEF BestMove
  <1>7. QED
    BY <1>5, <1>6

\* A set with and without one leaf.
LEMMA CountWithout ==
  ASSUME NEW F \in [Leaves -> Nat], NEW X \in SUBSET Leaves, NEW l \in Leaves, NEW n \in Int
  PROVE  /\ Count(X \ {l}, F, n) \in Nat
         /\ Count(X, F, n) = Count(X \ {l}, F, n) + IF l \in X /\ F[l] <= n THEN 1 ELSE 0
  <1>1. PICK Y \in SUBSET Leaves : Y = X \ {l}
    OBVIOUS
  <1>2. Count(Y, F, n) \in Nat
    BY CountIs
  <1>3. CASE l \in X
    <2>1. X = Y \cup {l} /\ l \in Leaves \ Y
      BY <1>1, <1>3
    <2>2. Count(Y \cup {l}, F, n) = Count(Y, F, n) + IF F[l] <= n THEN 1 ELSE 0
      BY <2>1, CountAdds
    <2>3. QED
      BY <1>1, <1>2, <1>3, <2>1, <2>2, Zenon
  <1>4. CASE l \notin X
    <2>1. X = Y
      BY <1>1, <1>4
    <2>2. Count(X, F, n) = Count(Y, F, n) + 0
      BY <1>2, <2>1
    <2>3. QED
      BY <1>1, <1>2, <1>4, <2>2, Zenon
  <1>5. QED
    BY <1>3, <1>4

\* Nobody is ahead of h hits with the residents B.
Unbeaten(b, k, h, B, F) ==
    \A n \in 0 .. Length - 1 : \A R \in Tables(k) : b[R] + Count(R, F, n) <= h + Count(B, F, n)

\* The same without the leaf accessed, whatever becomes of the residents.
LEMMA UnbeatenElsewhere ==
  ASSUME NEW k \in Nat, NEW now \in 0 .. Length - 1, NEW b \in [Tables(k) -> Unreachable .. now],
         NEW l \in Leaves, NEW B \in Tables(k), NEW F \in [Leaves -> now + 1 .. Length], NEW h \in Nat,
         Unbeaten(b, k, h, B, UsedNow(F, l, now)),
         NEW n \in now .. Length - 1, NEW R \in Tables(k)
  PROVE  /\ BestAfter(b, k, l)[R] \in Unreachable .. now + 1
         /\ BestAfter(b, k, l)[R] + Count(R \ {l}, F, n) <= h + (IF l \in B THEN 1 ELSE 0) + Count(B \ {l}, F, n)
  <1>0. Length \in Nat /\ now \in Nat /\ n \in 0 .. Length - 1 /\ n \in Int /\ now <= n /\ Unreachable \in Int
    BY Sizes DEF Unreachable
  <1>1. F \in [Leaves -> Nat] /\ B \in SUBSET Leaves
    BY <1>0 DEF Tables
  <1>2. PICK hit \in Nat : hit = IF l \in B THEN 1 ELSE 0
    OBVIOUS
  <1>3. PICK cb \in Nat : cb = Count(B \ {l}, F, n)
    BY <1>0, <1>1, CountWithout
  <1>4. Count(B, UsedNow(F, l, now), n) = cb + hit
    <2>1. Count(B, UsedNow(F, l, now), n) = Count(B \ {l}, F, n) + IF l \in B THEN 1 ELSE 0
      BY <1>0, <1>1, CountNow
    <2>2. QED
      BY <1>2, <1>3, <2>1
  <1> DEFINE a == BestAfter(b, k, l)[R]
  <1>5. ASSUME NEW P \in Tables(k)
        PROVE  /\ Count(P \ {l}, F, n) \in Nat /\ b[P] \in Int
               /\ b[P] + (Count(P \ {l}, F, n) + IF l \in P THEN 1 ELSE 0) <= h + (cb + hit)
    <2>1. P \in SUBSET Leaves
      BY DEF Tables
    <2>2. Count(P \ {l}, F, n) \in Nat
      BY <1>0, <1>1, <2>1, CountWithout
    <2>3. Count(P, UsedNow(F, l, now), n) = Count(P \ {l}, F, n) + IF l \in P THEN 1 ELSE 0
      BY <1>0, <1>1, <2>1, CountNow
    <2>4. b[P] + Count(P, UsedNow(F, l, now), n) <= h + Count(B, UsedNow(F, l, now), n)
      BY <1>0 DEF Unbeaten
    <2>5. b[P] \in Int
      BY <1>0
    <2>6. QED
      BY <1>4, <2>2, <2>3, <2>4, <2>5
  <1>6. PICK cr \in Nat : cr = Count(R \ {l}, F, n)
    BY <1>5
  <1>7. /\ a \in Unreachable .. now + 1
        /\ l \notin R => a = b[R]
        /\ l \in R => \/ a = b[R] + 1
                      \/ \E P \in Tables(k) : l \notin P /\ R \ {l} \subseteq P /\ a = b[P]
    <2>1. BestMove(b, k, l, R, now, a)
      BY <1>0, BestIs, Zenon
    <2>2. QED
      BY <2>1 DEF BestMove
  <1> HIDE DEF a
  <1>8. b[R] \in Int /\ b[R] + (cr + IF l \in R THEN 1 ELSE 0) <= h + (cb + hit)
    BY <1>5, <1>6
  <1>9. a + cr <= h + hit + cb
    <2>1. CASE l \notin R
      BY <1>7, <1>8, <2>1
    <2>2. CASE l \in R /\ a = b[R] + 1
      BY <1>8, <2>2
    <2>3. CASE \E P \in Tables(k) : l \notin P /\ R \ {l} \subseteq P /\ a = b[P]
      <3>1. PICK P \in Tables(k) : l \notin P /\ R \ {l} \subseteq P /\ a = b[P]
        BY <2>3
      <3>2. P \ {l} = P /\ P \in SUBSET Leaves
        BY <3>1 DEF Tables
      <3>3. PICK cp \in Nat : cp = Count(P, F, n)
        BY <1>0, <1>1, <3>2, CountIs
      <3>4. b[P] \in Int /\ b[P] + cp <= h + (cb + hit)
        <4>1. Count(P \ {l}, F, n) = cp
          BY <3>2, <3>3
        <4>2. b[P] \in Int /\ b[P] + (cp + 0) <= h + (cb + hit)
          BY <1>5, <3>1, <4>1
        <4>3. QED
          BY <4>2
      <3>5. cr <= cp
        <4>1. R \ {l} \in SUBSET P
          BY <3>1
        <4>2. QED
          BY <1>0, <1>1, <1>6, <3>2, <3>3, <4>1, CountGrows
      <3>6. QED
        BY <3>1, <3>4, <3>5
    <2>4. QED
      BY <1>7, <2>1, <2>2, <2>3
  <1>10. QED
    BY <1>2, <1>3, <1>6, <1>7, <1>9 DEF a

\* What Belady's choice makes of its residents, seen from position n: they
\* are as many as without the leaf accessed, or they are all used by n.
LEMMA BeladyCounts ==
  ASSUME NEW k \in Nat, NEW B \in Tables(k), NEW l \in Leaves, NEW F \in [Leaves -> Nat], NEW n \in Int,
         NEW D \in Tables(k), BeladySet(B, F, k, l, F[l], D)
  PROVE  \/ Count(D, F, n) = Count(B \ {l}, F, n) + IF F[l] <= n THEN 1 ELSE 0
         \/ Count(D, F, n) = k
  <1>1. /\ B \in SUBSET Leaves /\ D \in SUBSET Leaves /\ IsFiniteSet(B) /\ Cardinality(B) \in Nat
        /\ Cardinality(B) <= k
    BY Sizes, FS_Subset, FS_CardinalityType DEF Tables
  <1>2. PICK f \in {0, 1} : f = IF F[l] <= n THEN 1 ELSE 0
    OBVIOUS
  <1>3. CASE l \in D /\ D \ {l} = B \ {l}
    <2>1. Count(D, F, n) = Count(D \ {l}, F, n) + IF l \in D /\ F[l] <= n THEN 1 ELSE 0
      BY <1>1, CountWithout
    <2>2. QED
      BY <1>3, <2>1, Zenon
  <1>4. CASE l \notin B /\ Cardinality(B) >= k
    <2>1. PICK v \in B : /\ \A x \in B : F[x] <= F[v]
                         /\ D = IF F[v] <= F[l] THEN B ELSE (B \ {v}) \cup {l}
      BY <1>4 DEF BeladySet
    <2>2. Cardinality(B) = k /\ v \in Leaves /\ F[v] \in Nat /\ F[l] \in Nat /\ B \ {l} = B
          /\ \A x \in B : F[x] \in Nat
      BY <1>1, <1>4
    <2>3. CASE F[v] <= F[l]
      <3>1. D = B
        BY <2>1, <2>3
      <3>2. CASE F[l] <= n
        <4>1. \A x \in B : F[x] <= n
          BY <2>1, <2>2, <2>3, <3>2
        <4>2. Count(B, F, n) = Cardinality(B)
          BY <1>1, <4>1, CountIs
        <4>3. QED
          BY <2>2, <3>1, <4>2
      <3>3. CASE ~ (F[l] <= n)
        <4>1. Count(D, F, n) = Count(B \ {l}, F, n) + 0
          <5>1. Count(D, F, n) = Count(B \ {l}, F, n)
            BY <2>2, <3>1
          <5>2. Count(B \ {l}, F, n) \in Nat
            BY <1>1, CountWithout
          <5>3. QED
            BY <5>1, <5>2
        <4>2. QED
          BY <3>3, <4>1, Zenon
      <3>4. QED
        BY <3>2, <3>3
    <2>4. CASE ~ (F[v] <= F[l])
      <3>1. D = (B \ {v}) \cup {l}
        BY <2>1, <2>4
      <3>2. l \in D /\ D \ {l} = B \ {v}
        BY <1>4, <3>1
      <3>3. CASE F[v] <= n
        <4>1. \A x \in D : F[x] <= n
          BY <2>1, <2>2, <2>4, <3>1, <3>3
        <4>2. Cardinality(D) = k
          <5>1. IsFiniteSet(B \ {v}) /\ Cardinality(B \ {v}) = k - 1
            BY <1>1, <2>2, FS_RemoveElement
          <5>2. l \notin B \ {v}
            BY <1>4
          <5>3. PICK E : E = B \ {v}
            OBVIOUS
          <5>4. Cardinality(E \cup {l}) = (k - 1) + 1
            BY <5>1, <5>2, <5>3, FS_AddElement
          <5>5. QED
            BY <3>1, <5>3, <5>4
        <4>3. Count(D, F, n) = Cardinality(D)
          BY <1>1, <4>1, CountIs
        <4>4. QED
          BY <4>2, <4>3
      <3>4. CASE ~ (F[v] <= n)
        <4>1. Count(B, F, n) = Count(B \ {v}, F, n) + 0 /\ Count(B \ {v}, F, n) \in Nat
          <5>1. Count(B, F, n) = Count(B \ {v}, F, n) + IF v \in B /\ F[v] <= n THEN 1 ELSE 0
            BY <1>1, <2>2, CountWithout
          <5>2. Count(B \ {v}, F, n) \in Nat
            BY <1>1, <2>2, CountWithout
          <5>3. QED
            BY <3>4, <5>1, <5>2, Zenon
        <4>2. Count(D, F, n) = Count(D \ {l}, F, n) + IF l \in D /\ F[l] <= n THEN 1 ELSE 0
          BY <1>1, CountWithout
        <4>3. Count(D \ {l}, F, n) = Count(B \ {l}, F, n)
          <5>1. Count(B, F, n) = Count(B \ {v}, F, n)
            BY <4>1
          <5>2. QED
            BY <2>2, <3>2, <5>1, Zenon
        <4>4. QED
          BY <3>2, <4>2, <4>3, Zenon
      <3>5. QED
        BY <3>3, <3>4
    <2>5. QED
      BY <2>3, <2>4
  <1>5. l \in B \/ Cardinality(B) < k => l \in D /\ D \ {l} = B \ {l}
    <2>1. CASE l \in B
      BY <2>1 DEF BeladySet
    <2>2. CASE l \notin B /\ Cardinality(B) < k
      BY <2>2 DEF BeladySet
    <2>3. QED
      BY <2>1, <2>2
  <1>6. QED
    BY <1>1, <1>3, <1>4, <1>5

\* So Belady stays unbeaten.
LEMMA UnbeatenStep ==
  ASSUME NEW k \in Nat, NEW now \in 0 .. Length - 1, NEW b \in [Tables(k) -> Unreachable .. now],
         NEW l \in Leaves, NEW B \in Tables(k), NEW F \in [Leaves -> now + 1 .. Length], NEW h \in Nat,
         Unbeaten(b, k, h, B, UsedNow(F, l, now)),
         NEW D \in Tables(k), BeladySet(B, F, k, l, F[l], D), NEW i, i = h + IF l \in B THEN 1 ELSE 0
  PROVE  Unbeaten(BestAfter(b, k, l), k, i, D, F)
  <1>0. Length \in Nat /\ now \in Nat /\ Unreachable \in Int /\ i \in Nat
    BY Sizes DEF Unreachable
  <1>1. F \in [Leaves -> Nat] /\ B \in SUBSET Leaves /\ D \in SUBSET Leaves
    BY <1>0 DEF Tables
  <1> SUFFICES ASSUME NEW n \in 0 .. Length - 1, NEW R \in Tables(k)
      PROVE  BestAfter(b, k, l)[R] + Count(R, F, n) <= i + Count(D, F, n)
    BY DEF Unbeaten
  <1>2. PICK a : a = BestAfter(b, k, l)[R]
    OBVIOUS
  <1>3. R \in SUBSET Leaves /\ n \in Int /\ n \in Nat
    BY <1>0 DEF Tables
  <1>4. /\ Count(R, F, n) \in Nat /\ Count(R, F, n) <= k
        /\ Count(D, F, n) \in Nat
    <2>1. Count(R, F, n) \in Nat /\ Count(R, F, n) <= Cardinality(R) /\ Cardinality(R) \in Nat
      BY <1>1, <1>3, CountIs
    <2>2. Cardinality(R) <= k
      BY DEF Tables
    <2>3. Count(D, F, n) \in Nat
      BY <1>1, <1>3, CountIs
    <2>4. QED
      BY <2>1, <2>2, <2>3
  <1>5. a \in Int /\ a <= i
    <2>1. now \in now .. Length - 1 /\ now \in Int
      BY <1>0
    <2>2. /\ a \in Unreachable .. now + 1
          /\ a + Count(R \ {l}, F, now) <= i + Count(B \ {l}, F, now)
      BY <1>2, <2>1, UnbeatenElsewhere
    <2>3. Count(R \ {l}, F, now) \in Nat
      BY <1>1, <1>3, <2>1, CountWithout
    <2>4. Count(B \ {l}, F, now) = 0
      <3>1. PICK Y \in SUBSET Leaves : Y = B \ {l}
        BY <1>1
      <3>2. \A x \in Y : F[x] > now
        BY <1>0
      <3>3. Count(Y, F, now) = 0
        BY <1>1, <2>1, <3>2, CountIs
      <3>4. QED
        BY <3>1, <3>3
    <2>5. QED
      BY <1>0, <2>2, <2>3, <2>4
  <1>6. CASE n <= now
    <2>1. \A x \in R : F[x] > n
      BY <1>0, <1>3, <1>6
    <2>2. Count(R, F, n) = 0
      BY <1>1, <1>3, <2>1, CountIs
    <2>3. QED
      BY <1>0, <1>2, <1>4, <1>5, <2>2
  <1>7. CASE n > now
    <2>1. n \in now .. Length - 1
      BY <1>0, <1>3, <1>7
    <2>2. a + Count(R \ {l}, F, n) <= i + Count(B \ {l}, F, n)
      BY <1>2, <2>1, UnbeatenElsewhere
    <2>3. Count(R \ {l}, F, n) \in Nat /\ Count(B \ {l}, F, n) \in Nat
      BY <1>1, <1>3, CountWithout
    <2>4. Count(R, F, n) = Count(R \ {l}, F, n) + IF l \in R /\ F[l] <= n THEN 1 ELSE 0
      BY <1>1, <1>3, CountWithout
    <2>5. CASE Count(D, F, n) = Count(B \ {l}, F, n) + IF F[l] <= n THEN 1 ELSE 0
      BY <1>0, <1>2, <1>5, <2>2, <2>3, <2>4, <2>5
    <2>6. CASE Count(D, F, n) = k
      BY <1>0, <1>2, <1>4, <1>5, <2>6
    <2>7. QED
      BY <1>1, <1>3, <2>5, <2>6, BeladyCounts
  <1>8. QED
    BY <1>0, <1>3, <1>6, <1>7

\* The next use of every leaf.
Uses == [x \in Leaves |-> FirstUse(x, t)]

BestTypes(k) == best[k] \in [Tables(k) -> Unreachable .. t]

\* Belady against every other way to use the cache.
BeladyBest(k) ==
    BestTypes(k) /\ Unbeaten(best[k], k, belady[k].hits, ToSet(belady[k].resident), Uses)

\* An access keeps the best hits between their bounds.
LEMMA BestTypesStep ==
  ASSUME StreamTypes, Access, NEW k \in Caps, BestTypes(k)
  PROVE  BestTypes(k)'
  <1>1. t' = t + 1 /\ t \in Nat /\ LeafAt(t) \in Leaves /\ k \in Nat
    BY Sizes, StreamStep
  <1>2. PICK b : b = best[k]
    OBVIOUS
  <1>3. PICK l \in Leaves : l = LeafAt(t)
    BY <1>1
  <1>4. b \in [Tables(k) -> Unreachable .. t] /\ DOMAIN b = Tables(k)
    BY <1>2 DEF BestTypes
  <1>5. best'[k] = BestAfter(b, k, l)
    BY <1>2, <1>3 DEF Access
  <1>6. ASSUME NEW R \in Tables(k) PROVE BestAfter(b, k, l)[R] \in Unreachable .. t + 1
    <2>1. PICK a : a = BestAfter(b, k, l)[R]
      OBVIOUS
    <2>2. BestMove(b, k, l, R, t, a)
      BY <1>1, <1>4, <2>1, BestIs
    <2>3. QED
      BY <2>1, <2>2 DEF BestMove
  <1>7. BestAfter(b, k, l) = [R \in Tables(k) |-> BestAfter(b, k, l)[R]]
    BY <1>4 DEF BestAfter
  <1>8. BestAfter(b, k, l) \in [Tables(k) -> Unreachable .. t + 1]
    <2>1. PICK f : f = BestAfter(b, k, l)
      OBVIOUS
    <2>2. f = [R \in Tables(k) |-> f[R]] /\ \A R \in Tables(k) : f[R] \in Unreachable .. t + 1
      BY <1>6, <1>7, <2>1
    <2>3. QED
      BY <2>1, <2>2
  <1>9. Tables(k)' = Tables(k) /\ Unreachable' = Unreachable
    BY DEF Tables, Unreachable
  <1>10. QED
    BY <1>1, <1>5, <1>8 DEF BestTypes, Tables, Unreachable

\* The residents of Belady are a table.
LEMMA BeladyTable ==
  ASSUME NEW k \in Nat, NEW c, BeladyKept(c, k)
  PROVE  ToSet(c.resident) \in Tables(k) /\ c.hits \in Nat /\ IsFiniteSet(ToSet(c.resident))
         /\ Cardinality(ToSet(c.resident)) = Len(c.resident) /\ Len(c.resident) \in Nat
  <1>1. PICK q \in Seq(Leaves) : q = c.resident
    BY DEF BeladyKept, BeladyRecords
  <1>2. Distinct(q) /\ Len(q) <= k /\ c.hits \in Nat
    BY <1>1 DEF BeladyKept, BeladyRecords
  <1>3. ToSet(q) \subseteq Leaves /\ Cardinality(ToSet(q)) = Len(q) /\ Len(q) \in Nat /\ IsFiniteSet(ToSet(q))
    BY <1>2, SetOf, DistinctCard
  <1>4. QED
    BY <1>1, <1>2, <1>3 DEF Tables

\* Belady stays the best.
LEMMA BeladyBestStep ==
  ASSUME StreamTypes, Access, NEW k \in Caps, BeladyKept(belady[k], k), BeladyBest(k)
  PROVE  BeladyBest(k)'
  <1>1. /\ t' = t + 1 /\ t \in Nat /\ t \in 0 .. Length - 1 /\ LeafAt(t) \in Leaves /\ k \in Nat
        /\ Length \in Nat
        /\ \A x : FirstUse(x, t)' = FirstUse(x, t + 1)
    BY Sizes, StreamStep
  <1>2. BestTypes(k)'
    BY BestTypesStep DEF BeladyBest
  <1>3. BeladyKept(belady[k], k)' /\ BeladyDone(belady[k], k, LeafAt(t), belady'[k])
    BY BeladyMovesOn
  <1>4. /\ Upcoming \in [Leaves -> t + 1 .. Length]
        /\ \A x \in Leaves : Upcoming[x] = FirstUse(x, t + 1)
        /\ \A x \in Leaves : FirstUse(x, t) = IF x = LeafAt(t) THEN t ELSE Upcoming[x]
    BY UpcomingIs
  <1>5. PICK l \in Leaves : l = LeafAt(t)
    BY <1>1
  <1>6. PICK F \in [Leaves -> t + 1 .. Length] : F = Upcoming
    BY <1>4
  <1>7. Uses = UsedNow(F, l, t)
    <2>1. \A x \in Leaves : FirstUse(x, t) = IF x = l THEN t ELSE F[x]
      BY <1>4, <1>5, <1>6
    <2>2. QED
      BY <2>1 DEF Uses, UsedNow
  <1>8. Uses' = F
    <2>1. Uses' = [x \in Leaves |-> FirstUse(x, t + 1)]
      BY <1>1 DEF Uses
    <2>2. QED
      BY <1>6, <2>1 DEF Upcoming
  <1>9. PICK c, d : c = belady[k] /\ d = belady'[k]
    OBVIOUS
  <1>10. PICK B, D : B = ToSet(c.resident) /\ D = ToSet(d.resident)
    OBVIOUS
  <1>11. B \in Tables(k) /\ c.hits \in Nat
    <2>1. BeladyKept(c, k)
      BY <1>9
    <2>2. QED
      BY <1>1, <1>10, <2>1, BeladyTable
  <1>12. D \in Tables(k)
    <2>1. /\ d.resident \in Seq(Leaves) /\ Distinct(d.resident) /\ Len(d.resident) <= k
      BY <1>3, <1>9 DEF BeladyKept, BeladyRecords
    <2>2. QED
      BY <1>10, <2>1, SetOf, DistinctCard DEF Tables
  <1>13. BeladySet(B, F, k, l, F[l], D) /\ d.hits = c.hits + IF l \in B THEN 1 ELSE 0
    <2>1. BeladyDone(c, k, l, d)
      BY <1>3, <1>5, <1>9
    <2>2. QED
      BY <1>6, <1>10, <2>1 DEF BeladyDone
  <1>14. PICK b, i : b = best[k] /\ i = d.hits
    OBVIOUS
  <1>15. PICK h \in Nat : h = c.hits
    BY <1>11
  <1>16. /\ b \in [Tables(k) -> Unreachable .. t]
         /\ Unbeaten(b, k, h, B, UsedNow(F, l, t))
    BY <1>7, <1>9, <1>10, <1>14, <1>15 DEF BeladyBest, BestTypes
  <1>17. i = h + IF l \in B THEN 1 ELSE 0
    BY <1>13, <1>14, <1>15
  <1>18. Unbeaten(BestAfter(b, k, l), k, i, D, F)
    BY <1>1, <1>11, <1>12, <1>13, <1>16, <1>17, UnbeatenStep
  <1>19. best'[k] = BestAfter(b, k, l)
    BY <1>5, <1>14 DEF Access
  <1>20. Unbeaten(best[k], k, belady[k].hits, ToSet(belady[k].resident), Uses)'
    BY <1>8, <1>9, <1>10, <1>14, <1>15, <1>18, <1>19 DEF Unbeaten, Count, Tables
  <1>21. QED
    BY <1>2, <1>20 DEF BeladyBest

-----------------------------------------------------------------------------
(* A cache that changes at most one entry per miss is one of those counted *)
(* in best, at its own capacity and at every larger one.                   *)

LegalMove(X, l, Y) ==
    \/ Y = X
    \/ l \notin X /\ l \in Y /\ Y \ {l} \subseteq X /\ \E v : X \ {v} \subseteq Y

Achieves(m, X, h) == X \in Tables(m) /\ best[m][X] >= h

\* What it has achieved.
LEMMA AchievesStep ==
  ASSUME StreamTypes, Access, NEW m \in Caps, BestTypes(m),
         NEW X, NEW h \in Nat, Achieves(m, X, h), NEW Y \in Tables(m), LegalMove(X, LeafAt(t), Y)
  PROVE  best'[m][Y] >= h + IF LeafAt(t) \in X THEN 1 ELSE 0
  <1>1. t' = t + 1 /\ t \in Nat /\ LeafAt(t) \in Leaves /\ m \in Nat /\ Unreachable \in Int
    BY Sizes, StreamStep DEF Unreachable
  <1>2. PICK b : b = best[m]
    OBVIOUS
  <1>3. PICK l \in Leaves : l = LeafAt(t)
    BY <1>1
  <1>4. b \in [Tables(m) -> Unreachable .. t] /\ X \in Tables(m) /\ b[X] >= h
    BY <1>2 DEF BestTypes, Achieves
  <1>5. PICK a : a = BestAfter(b, m, l)[Y]
    OBVIOUS
  <1>6. BestMove(b, m, l, Y, t, a)
    BY <1>1, <1>4, <1>5, BestIs
  <1>7. b[X] \in Int /\ a \in Int
    <2>1. b[X] \in Unreachable .. t /\ a \in Unreachable .. t + 1
      BY <1>4, <1>6 DEF BestMove
    <2>2. QED
      BY <1>1, <2>1
  <1>8. a >= h + IF l \in X THEN 1 ELSE 0
    <2>1. CASE l \in X
      <3>1. Y = X
        BY <1>3, <2>1 DEF LegalMove
      <3>2. a >= b[X] + 1
        BY <1>6, <2>1, <3>1 DEF BestMove
      <3>3. QED
        BY <1>4, <1>7, <2>1, <3>2
    <2>2. CASE l \notin X /\ Y = X
      <3>1. a = b[X]
        BY <1>6, <2>2 DEF BestMove
      <3>2. QED
        BY <1>4, <1>7, <2>2, <3>1
    <2>3. CASE l \notin X /\ Y # X
      <3>1. l \in Y /\ Y \ {l} \subseteq X /\ \E v : X \ {v} \subseteq Y
        BY <1>3, <2>3 DEF LegalMove
      <3>2. PICK v : X \ {v} \subseteq Y
        BY <3>1
      <3>3. X \ {v} \subseteq Y \ {l}
        BY <2>3, <3>2
      <3>4. IsFiniteSet(X) /\ IsFiniteSet(Y)
        BY <1>4, Sizes, FS_Subset DEF Tables
      <3>5. Cardinality(X) <= Cardinality(Y \ {l}) + 1
        <4>1. PICK E, Z : E = X \ {v} /\ Z = Y \ {l}
          OBVIOUS
        <4>2. IsFiniteSet(Z) /\ Cardinality(Z) \in Nat
          <5>1. Z \subseteq Y
            BY <4>1
          <5>2. IsFiniteSet(Z)
            BY <3>4, <5>1, FS_Subset
          <5>3. QED
            BY <5>2, FS_CardinalityType
        <4>3. Cardinality(E) <= Cardinality(Z) /\ Cardinality(E) \in Nat
          <5>1. E \subseteq Z
            BY <3>3, <4>1
          <5>2. QED
            BY <4>2, <5>1, FS_Subset, FS_CardinalityType
        <4>4. Cardinality(X) <= Cardinality(E) + 1
          <5>1. Cardinality(E) = IF v \in X THEN Cardinality(X) - 1 ELSE Cardinality(X)
            BY <3>4, <4>1, FS_RemoveElement
          <5>2. Cardinality(X) \in Nat
            BY <3>4, FS_CardinalityType
          <5>3. QED
            BY <5>1, <5>2
        <4>5. Cardinality(X) \in Nat
          BY <3>4, FS_CardinalityType
        <4>6. QED
          BY <4>1, <4>2, <4>3, <4>4, <4>5
      <3>6. a >= b[X]
        BY <1>4, <1>6, <2>3, <3>1, <3>5 DEF BestMove
      <3>7. QED
        BY <1>4, <1>7, <2>3, <3>6
    <2>4. QED
      BY <2>1, <2>2, <2>3
  <1>9. best'[m] = BestAfter(b, m, l)
    BY <1>2, <1>3 DEF Access
  <1>10. QED
    BY <1>3, <1>5, <1>8, <1>9

\* Belady's moves are such.
LEMMA BeladyLegal ==
  ASSUME NEW k \in Nat, NEW B \in Tables(k), NEW l, NEW F, NEW n, NEW D, BeladySet(B, F, k, l, n, D)
  PROVE  LegalMove(B, l, D)
  <1>1. Cardinality(B) \in Nat
    BY Sizes, FS_Subset, FS_CardinalityType DEF Tables
  <1>2. CASE l \in B
    BY <1>2 DEF BeladySet, LegalMove
  <1>3. CASE l \notin B /\ Cardinality(B) < k
    BY <1>3 DEF BeladySet, LegalMove
  <1>4. CASE l \notin B /\ Cardinality(B) >= k
    BY <1>4 DEF BeladySet, LegalMove
  <1>5. QED
    BY <1>1, <1>2, <1>3, <1>4

\* LRU's moves are such.
LEMMA TouchedLegal ==
  ASSUME NEW q, NEW k, NEW l, NEW r, Touched(q, k, l, r)
  PROVE  LegalMove(ToSet(q), l, ToSet(r))
  BY DEF Touched, LegalMove

\* At the end nothing is ahead of Belady.
LEMMA BeladyOptimal ==
  ASSUME StreamTypes, t = Length, NEW k \in Caps, BeladyKept(belady[k], k), BeladyBest(k)
  PROVE  /\ \A X, h : Achieves(k, X, h) /\ h \in Int => h <= belady[k].hits
         /\ Achieves(k, ToSet(belady[k].resident), belady[k].hits) => belady[k].hits = Optimum(k)
  <1>1. k \in Nat /\ Length \in Nat \ {0} /\ Unreachable \in Int /\ t \in Int
    BY Sizes DEF Unreachable
  <1>2. PICK b, c : b = best[k] /\ c = belady[k]
    OBVIOUS
  <1>3. PICK B \in Tables(k), h \in Nat : B = ToSet(c.resident) /\ h = c.hits
    <2>1. BeladyKept(c, k)
      BY <1>2
    <2>2. QED
      BY <1>1, <2>1, BeladyTable
  <1>4. b \in [Tables(k) -> Unreachable .. t] /\ Unbeaten(b, k, h, B, Uses)
    BY <1>2, <1>3 DEF BeladyBest, BestTypes
  <1>5. Uses \in [Leaves -> Nat] /\ \A x \in Leaves : Uses[x] = Length
    <2>1. \A x \in Leaves : FirstUse(x, t) = Length
      BY NoUseAtEnd DEF Never
    <2>2. QED
      BY <1>1, <2>1 DEF Uses
  <1>6. PICK n \in 0 .. Length - 1 : n = Length - 1
    BY <1>1
  <1>7. ASSUME NEW R \in Tables(k) PROVE Count(R, Uses, n) = 0
    <2>1. R \in SUBSET Leaves /\ n \in Int /\ \A x \in R : Uses[x] > n
      BY <1>1, <1>5, <1>6 DEF Tables
    <2>2. QED
      BY <1>5, <2>1, CountIs
  <1>8. ASSUME NEW R \in Tables(k) PROVE b[R] \in Unreachable .. t /\ b[R] \in Int /\ b[R] <= h
    <2>1. b[R] + Count(R, Uses, n) <= h + Count(B, Uses, n)
      BY <1>4 DEF Unbeaten
    <2>2. b[R] \in Unreachable .. t
      BY <1>4
    <2>3. QED
      BY <1>1, <1>7, <2>1, <2>2
  <1>9. ASSUME NEW X, NEW i \in Int, Achieves(k, X, i) PROVE i <= h
    BY <1>2, <1>8, <1>9 DEF Achieves
  <1>10. ASSUME Achieves(k, B, h) PROVE h = Optimum(k)
    <2> DEFINE S == {b[R] : R \in DOMAIN b}
    <2>1. DOMAIN b = Tables(k)
      BY <1>4
    <2>2. S \in SUBSET (Unreachable .. t) /\ b[B] \in S /\ \A x \in S : x <= h /\ x \in Int
      BY <1>8, <2>1
    <2>3. b[B] = h
      <3>1. b[B] >= h
        BY <1>2, <1>10 DEF Achieves
      <3>2. QED
        BY <1>8, <3>1
    <2>4. Optimum(k) = Max(S)
      BY <1>2 DEF Optimum
    <2> HIDE DEF S
    <2>5. Max(S) \in S /\ \A y \in S : Max(S) >= y
      BY <1>1, <2>2, MaxIs
    <2>6. PICK top : top = Max(S)
      OBVIOUS
    <2>7. top \in Int /\ top <= h /\ top >= h
      BY <2>2, <2>3, <2>5, <2>6
    <2>8. QED
      BY <2>4, <2>6, <2>7
  <1>11. QED
    BY <1>2, <1>3, <1>9, <1>10

-----------------------------------------------------------------------------
(* Decayed LFU: the reference and the kernel.  No two leaves were accessed *)
(* last at the same time, so there is one leaf with the lowest key.        *)

\* v has the lowest key of X.
Lowest(c, X, v) == v \in X /\ \A x \in X \ {v} : Lower(c, v, x)

\* A key that can be compared, on X.
Keys(c, X) ==
    /\ c.weight \in [Leaves -> Nat] /\ c.last \in [Leaves -> Int] /\ X \in SUBSET Leaves
    /\ \A x \in X : c.last[x] \in 0 .. t
    /\ \A x, y \in X : c.last[x] = c.last[y] => x = y

\* There is one, and Lower finds it.
LEMMA LowestIs ==
  ASSUME t \in Nat, NEW c, NEW X, Keys(c, X), X # {}
  PROVE  \E v \in X : /\ Lowest(c, X, v)
                      /\ \A u \in X : (\A r \in X : ~Lower(c, r, u)) <=> u = v
  <1>0. PICK w \in [Leaves -> Nat] : w = c.weight
    BY DEF Keys
  <1>1. PICK f \in [Leaves -> Int] : f = c.last
    BY DEF Keys
  <1>2. /\ X \in SUBSET Leaves
        /\ \A x \in X : f[x] \in 0 .. t
        /\ \A x, y \in X : f[x] = f[y] => x = y
    BY <1>1 DEF Keys
  <1>3. \A x, y : Lower(c, x, y) <=> w[x] < w[y] \/ (w[x] = w[y] /\ f[x] < f[y])
    BY <1>0, <1>1 DEF Lower
  <1>4. \A x \in X : w[x] \in Nat /\ f[x] \in Int
    BY <1>2
  <1>5. PICK a \in X : \A x \in X : w[a] <= w[x]
    <2>1. PICK z \in X : TRUE
      OBVIOUS
    <2> DEFINE S == {y \in {w[x] : x \in X} : y <= w[z]}
    <2>2. w[z] \in Nat /\ S \in SUBSET (0 .. w[z]) /\ w[z] \in S
      BY <1>4
    <2>3. \A y \in S : \E x \in X : y = w[x]
      OBVIOUS
    <2>4. \A x \in X : w[x] <= w[z] => w[x] \in S
      OBVIOUS
    <2> HIDE DEF S
    <2>5. PICK m \in S : \A y \in S : m <= y
      BY <2>2, Least
    <2>6. PICK x \in X : m = w[x]
      BY <2>3
    <2>7. \A y \in X : w[x] <= w[y]
      BY <1>4, <2>1, <2>2, <2>4, <2>5, <2>6
    <2>8. QED
      BY <2>7
  <1>6. PICK v \in X : w[v] = w[a] /\ \A x \in X : w[x] = w[a] => f[v] <= f[x]
    <2> DEFINE S == {f[x] : x \in {x \in X : w[x] = w[a]}}
    <2>1. S \in SUBSET (0 .. t) /\ f[a] \in S
      BY <1>2
    <2>2. \A y \in S : \E x \in X : w[x] = w[a] /\ y = f[x]
      OBVIOUS
    <2>3. \A x \in X : w[x] = w[a] => f[x] \in S
      OBVIOUS
    <2> HIDE DEF S
    <2>4. PICK m \in S : \A y \in S : m <= y
      BY <2>1, Least
    <2>5. PICK x \in X : w[x] = w[a] /\ m = f[x]
      BY <2>2
    <2>6. QED
      BY <2>3, <2>4, <2>5
  <1>7. ASSUME NEW x \in X \ {v} PROVE Lower(c, v, x) /\ ~Lower(c, x, v)
    <2>1. w[a] <= w[x] /\ f[x] # f[v] /\ w[v] = w[a] /\ (w[x] = w[a] => f[v] <= f[x])
      BY <1>2, <1>5, <1>6, <1>7
    <2>2. w[a] \in Nat /\ w[x] \in Nat /\ f[x] \in Int /\ f[v] \in Int
      BY <1>4
    <2>3. (w[v] < w[x] \/ (w[v] = w[x] /\ f[v] < f[x])) /\ ~ (w[x] < w[v] \/ (w[x] = w[v] /\ f[x] < f[v]))
      BY <2>1, <2>2
    <2>4. QED
      BY <1>3, <2>3
  <1>8. ~Lower(c, v, v)
    <2>1. w[v] \in Nat /\ f[v] \in Int
      BY <1>4
    <2>2. QED
      BY <1>3, <2>1
  <1>9. QED
    BY <1>7, <1>8 DEF Lowest

\* There is no other.
LEMMA OneLowest ==
  ASSUME NEW c, NEW X, Keys(c, X), NEW u, NEW v, Lowest(c, X, u), Lowest(c, X, v)
  PROVE  u = v
  <1> SUFFICES ASSUME u # v PROVE FALSE
    OBVIOUS
  <1>1. u \in Leaves /\ v \in Leaves /\ Lower(c, u, v) /\ Lower(c, v, u)
    BY DEF Lowest, Keys
  <1>2. c.weight[u] \in Nat /\ c.weight[v] \in Nat /\ c.last[u] \in Int /\ c.last[v] \in Int
    BY <1>1 DEF Keys
  <1>3. QED
    BY <1>1, <1>2 DEF Lower

\* What an access makes of the residents X.
ScoredSet(c, X, k, l, D) ==
    /\ l \in X => D = X
    /\ l \notin X /\ Cardinality(X) < k => D = X \cup {l}
    /\ l \notin X /\ Cardinality(X) >= k => \E v : Lowest(c, X, v) /\ D = (X \ {v}) \cup {l}

\* What it makes of the counters and the scores.
ScoredMove(c, X, gain, k, l, d, D) ==
    /\ d.hit <=> l \in X
    /\ d.hits = c.hits + IF l \in X THEN 1 ELSE 0
    /\ d.inserts = c.inserts + IF l \in X THEN 0 ELSE 1
    /\ d.evictions = c.evictions + IF l \in X \/ Cardinality(X) < k THEN 0 ELSE 1
    /\ d.weight = [c.weight EXCEPT ![l] = c.weight[l] + 1 * gain[t]]
    /\ d.last = [c.last EXCEPT ![l] = t]
    /\ ScoredSet(c, X, k, l, D)

LeafSets == SUBSET Leaves

\* The reference makes this move.
LEMMA DlfuMoves ==
  ASSUME t \in Nat, NEW c \in ScoredRecords(LeafSets), NEW gain, gain[t] \in Nat, NEW k \in Nat \ {0},
         NEW l \in Leaves, NEW X, X = c.resident, Keys(c, X), Cardinality(X) <= k,
         NEW d, d = DlfuAccess(c, gain, k, l)
  PROVE  d \in ScoredRecords(LeafSets) /\ ScoredMove(c, X, gain, k, l, d, d.resident)
  <1> DEFINE victims == {v \in X : Cardinality(X) >= k /\ \A r \in X : ~Lower(c, r, v)}
             base == IF l \in X THEN Hit(c)
                     ELSE [Insert(c, Cardinality(victims)) EXCEPT !.resident = (@ \ victims) \cup {l}]
  <1>0. /\ X \in SUBSET Leaves /\ IsFiniteSet(X) /\ Cardinality(X) \in Nat
        /\ c.hits \in Nat /\ c.inserts \in Nat /\ c.evictions \in Nat /\ c.weight \in [Leaves -> Nat]
    BY Sizes, FS_Subset, FS_CardinalityType DEF ScoredRecords, LeafSets
  <1>1. d = Scored(base, gain, l, 1, t)
    BY DEF DlfuAccess
  <1>2. ASSUME NEW h \in ScoredRecords(LeafSets), h = base, h.weight = c.weight, h.last = c.last
        PROVE  /\ d \in ScoredRecords(LeafSets) /\ d.hit = h.hit /\ d.hits = h.hits
               /\ d.inserts = h.inserts /\ d.evictions = h.evictions /\ d.resident = h.resident
               /\ d.weight = [c.weight EXCEPT ![l] = c.weight[l] + 1 * gain[t]]
               /\ d.last = [c.last EXCEPT ![l] = t]
    <2> HIDE DEF base
    <2>1. d = Scored(h, gain, l, 1, t)
      BY <1>1, <1>2
    <2>2. h.weight[l] + 1 * gain[t] \in Nat /\ t \in Int
      <3>1. c.weight[l] \in Nat
        BY <1>0
      <3>2. QED
        BY <1>2, <3>1
    <2>3. d \in ScoredRecords(LeafSets) /\ ScoredAs(h, l, h.weight[l] + 1 * gain[t], t, d)
      BY <2>1, <2>2, ScoredMoves, Zenon
    <2>4. QED
      BY <1>2, <2>3, Zenon DEF ScoredAs
  <1>3. CASE l \in X
    <2>1. PICK h \in ScoredRecords(LeafSets) :
             h = Hit(c) /\ h.hit = TRUE /\ h.hits = c.hits + 1 /\ h.inserts = c.inserts
             /\ h.evictions = c.evictions /\ h.resident = X /\ h.weight = c.weight /\ h.last = c.last
      BY ScoredHit
    <2>2. h = base
      BY <1>3, <2>1
    <2> HIDE DEF base
    <2>3. /\ d \in ScoredRecords(LeafSets) /\ d.hit = h.hit /\ d.hits = h.hits
          /\ d.inserts = h.inserts /\ d.evictions = h.evictions /\ d.resident = h.resident
          /\ d.weight = [c.weight EXCEPT ![l] = c.weight[l] + 1 * gain[t]]
          /\ d.last = [c.last EXCEPT ![l] = t]
      BY <1>2, <2>1, <2>2
    <2>4. ScoredSet(c, X, k, l, d.resident)
      BY <1>3, <2>1, <2>3 DEF ScoredSet
    <2>5. c.inserts = c.inserts + 0 /\ c.evictions = c.evictions + 0
      BY <1>0
    <2>6. QED
      BY <1>3, <2>1, <2>3, <2>4, <2>5, Zenon DEF ScoredMove
  <1>4. CASE l \notin X
    <2> DEFINE e == Cardinality(victims)
    <2>1. \/ victims = {} /\ Cardinality(X) < k
          \/ Cardinality(X) >= k /\ \E v : Lowest(c, X, v) /\ victims = {v}
      <3>1. CASE Cardinality(X) < k
        BY <1>0, <3>1
      <3>2. CASE Cardinality(X) >= k
        <4>1. X # {}
          BY <1>0, <3>2, FS_EmptySet
        <4>2. PICK v \in X : Lowest(c, X, v) /\ \A u \in X : (\A r \in X : ~Lower(c, r, u)) <=> u = v
          BY <4>1, LowestIs
        <4>3. victims = {v}
          BY <3>2, <4>2
        <4>4. QED
          BY <3>2, <4>2, <4>3
      <3>3. QED
        BY <1>0, <3>1, <3>2
    <2>2. e = IF Cardinality(X) < k THEN 0 ELSE 1
      <3> HIDE DEF victims
      <3>1. CASE victims = {} /\ Cardinality(X) < k
        BY <3>1, FS_EmptySet
      <3>2. CASE Cardinality(X) >= k /\ \E v : Lowest(c, X, v) /\ victims = {v}
        <4>1. PICK v : victims = {v}
          BY <3>2
        <4>2. Cardinality({v}) = 1
          BY FS_Singleton
        <4>3. ~ (Cardinality(X) < k)
          BY <1>0, <3>2
        <4>4. QED
          BY <4>1, <4>2, <4>3
      <3>3. QED
        BY <2>1, <3>1, <3>2
    <2>3. PICK D : D = (X \ victims) \cup {l}
      OBVIOUS
    <2>4. D \in SUBSET Leaves /\ ScoredSet(c, X, k, l, D)
      <3>1. victims \in SUBSET X
        OBVIOUS
      <3> HIDE DEF victims
      <3>2. D \in SUBSET Leaves
        BY <1>0, <2>3
      <3>3. Cardinality(X) < k => victims = {}
        BY <1>0, <2>1
      <3>4. Cardinality(X) >= k => \E v : Lowest(c, X, v) /\ victims = {v}
        BY <1>0, <2>1
      <3>5. QED
        BY <1>4, <2>3, <3>2, <3>3, <3>4 DEF ScoredSet
    <2> HIDE DEF victims
    <2>5. PICK i \in ScoredRecords(LeafSets) :
             i = Insert(c, e) /\ i.hit = FALSE /\ i.hits = c.hits /\ i.inserts = c.inserts + 1
             /\ i.evictions = c.evictions + e /\ i.resident = X /\ i.weight = c.weight /\ i.last = c.last
      <3>1. e \in Nat
        BY <2>2
      <3> HIDE DEF e
      <3>2. QED
        BY <3>1, ScoredInsert, ZenonT(60)
    <2>6. PICK h : h = [i EXCEPT !.resident = D]
      OBVIOUS
    <2>7. /\ h \in ScoredRecords(LeafSets) /\ h.hit = i.hit /\ h.hits = i.hits /\ h.inserts = i.inserts
          /\ h.evictions = i.evictions /\ h.resident = D /\ h.weight = i.weight /\ h.last = i.last
      <3>1. D \in LeafSets
        BY <2>4 DEF LeafSets
      <3>2. QED
        BY <2>6, <3>1, ScoredHeld
    <2>8. h = base
      BY <1>4, <2>3, <2>5, <2>6
    <2> HIDE DEF base, e
    <2>9. /\ d \in ScoredRecords(LeafSets) /\ d.hit = h.hit /\ d.hits = h.hits
          /\ d.inserts = h.inserts /\ d.evictions = h.evictions /\ d.resident = h.resident
          /\ d.weight = [c.weight EXCEPT ![l] = c.weight[l] + 1 * gain[t]]
          /\ d.last = [c.last EXCEPT ![l] = t]
      BY <1>2, <2>5, <2>7, <2>8
    <2>10. c.hits = c.hits + 0 /\ e = IF l \in X \/ Cardinality(X) < k THEN 0 ELSE 1
      BY <1>0, <1>4, <2>2
    <2>11. QED
      BY <1>4, <2>4, <2>5, <2>7, <2>9, <2>10, Zenon DEF ScoredMove
  <1>5. QED
    BY <1>3, <1>4

\* The scan of the kernel finds the lowest key.
LEMMA FirstLowestIs ==
  ASSUME t \in Nat, NEW c, NEW q \in Seq(Leaves), Distinct(q), q # <<>>, Keys(c, ToSet(q))
  PROVE  FirstLowest(c, q) \in 1 .. Len(q) /\ Lowest(c, ToSet(q), q[FirstLowest(c, q)])
  <1>1. DOMAIN q = 1 .. Len(q) /\ Len(q) \in Nat /\ Len(q) >= 1 /\ ToSet(q) = {q[i] : i \in 1 .. Len(q)}
    BY SetOf, EmptySeq, LenProperties
  <1>2. PICK X : X = ToSet(q)
    OBVIOUS
  <1>3. \A i \in 1 .. Len(q) : q[i] \in X
    BY <1>1, <1>2
  <1>4. PICK v \in X : Lowest(c, X, v) /\ \A u \in X : (\A r \in X : ~Lower(c, r, u)) <=> u = v
    <2>1. Keys(c, X)
      BY <1>2
    <2>2. q[1] \in X
      BY <1>1, <1>3
    <2>3. QED
      BY <2>1, <2>2, LowestIs
  <1>5. PICK j \in 1 .. Len(q) : q[j] = v
    BY <1>1, <1>2
  <1>6. \A i \in 1 .. Len(q) : ~Lower(c, q[i], q[j])
    BY <1>3, <1>4, <1>5
  <1>7. \A i \in 1 .. j - 1 : Lower(c, q[j], q[i])
    <2> SUFFICES ASSUME NEW i \in 1 .. j - 1 PROVE Lower(c, q[j], q[i])
      OBVIOUS
    <2>1. i \in 1 .. Len(q) /\ i # j
      BY <1>1
    <2>2. q[i] \in X \ {v}
      BY <1>3, <1>5, <2>1 DEF Distinct
    <2>3. QED
      BY <1>4, <1>5, <2>2 DEF Lowest
  <1>8. \E a \in DOMAIN q : /\ \A i \in DOMAIN q : ~Lower(c, q[i], q[a])
                            /\ \A i \in 1 .. a - 1 : Lower(c, q[a], q[i])
    BY <1>1, <1>6, <1>7
  <1>9. PICK a : a = FirstLowest(c, q)
    OBVIOUS
  <1>10. a \in 1 .. Len(q) /\ \A i \in 1 .. Len(q) : ~Lower(c, q[i], q[a])
    BY <1>1, <1>8, <1>9, Zenon DEF FirstLowest
  <1>11. q[a] = v
    <2>1. \A r \in X : ~Lower(c, r, q[a])
      BY <1>1, <1>2, <1>10
    <2>2. QED
      BY <1>3, <1>4, <1>10, <2>1
  <1>12. QED
    BY <1>2, <1>4, <1>9, <1>10, <1>11

LeafSeqs == Seq(Leaves)

\* The kernel makes this move.
LEMMA DlfuKernelMoves ==
  ASSUME t \in Nat, NEW c \in ScoredRecords(LeafSeqs), NEW gain, gain[t] \in Nat, NEW k \in Nat \ {0},
         NEW l \in Leaves, NEW q, q = c.resident, Distinct(q), Len(q) <= k, Keys(c, ToSet(q)),
         NEW d, d = DlfuKernel(c, gain, k, l)
  PROVE  /\ d \in ScoredRecords(LeafSeqs) /\ Distinct(d.resident)
         /\ ScoredMove(c, ToSet(q), gain, k, l, d, ToSet(d.resident))
  <1> DEFINE e == IF Len(q) >= k THEN 1 ELSE 0
             r == IF Len(q) >= k THEN ReplaceAt(q, FirstLowest(c, q), l) ELSE Append(q, l)
             base == IF Contains(q, l) THEN Hit(c) ELSE [Insert(c, e) EXCEPT !.resident = r]
  <1>0. /\ q \in Seq(Leaves)
        /\ c.hits \in Nat /\ c.inserts \in Nat /\ c.evictions \in Nat /\ c.weight \in [Leaves -> Nat]
    BY DEF ScoredRecords, LeafSeqs
  <1>1. PICK X : X = ToSet(q)
    OBVIOUS
  <1>2. /\ X \subseteq Leaves /\ IsFiniteSet(X) /\ Cardinality(X) = Len(q) /\ Len(q) \in Nat
        /\ Contains(q, l) <=> l \in X
    BY <1>0, <1>1, SetOf, DistinctCard
  <1>3. Insert(c, e).resident = q
    BY Zenon DEF Insert, ScoredRecords
  <1>4. d = Scored(base, gain, l, 1, t)
    BY <1>3 DEF DlfuKernel
  <1>5. ASSUME NEW h \in ScoredRecords(LeafSeqs), h = base, h.weight = c.weight, h.last = c.last
        PROVE  /\ d \in ScoredRecords(LeafSeqs) /\ d.hit = h.hit /\ d.hits = h.hits
               /\ d.inserts = h.inserts /\ d.evictions = h.evictions /\ d.resident = h.resident
               /\ d.weight = [c.weight EXCEPT ![l] = c.weight[l] + 1 * gain[t]]
               /\ d.last = [c.last EXCEPT ![l] = t]
    <2> HIDE DEF base
    <2>1. d = Scored(h, gain, l, 1, t)
      BY <1>4, <1>5
    <2>2. h.weight[l] + 1 * gain[t] \in Nat /\ t \in Int
      <3>1. c.weight[l] \in Nat
        BY <1>0
      <3>2. QED
        BY <1>5, <3>1
    <2>3. d \in ScoredRecords(LeafSeqs) /\ ScoredAs(h, l, h.weight[l] + 1 * gain[t], t, d)
      BY <2>1, <2>2, ScoredMoves, Zenon
    <2>4. QED
      BY <1>5, <2>3, Zenon DEF ScoredAs
  <1>6. CASE l \in X
    <2>1. PICK h \in ScoredRecords(LeafSeqs) :
             h = Hit(c) /\ h.hit = TRUE /\ h.hits = c.hits + 1 /\ h.inserts = c.inserts
             /\ h.evictions = c.evictions /\ h.resident = q /\ h.weight = c.weight /\ h.last = c.last
      BY ScoredHit
    <2>2. h = base
      BY <1>2, <1>6, <2>1
    <2> HIDE DEF base
    <2>3. /\ d \in ScoredRecords(LeafSeqs) /\ d.hit = h.hit /\ d.hits = h.hits
          /\ d.inserts = h.inserts /\ d.evictions = h.evictions /\ d.resident = h.resident
          /\ d.weight = [c.weight EXCEPT ![l] = c.weight[l] + 1 * gain[t]]
          /\ d.last = [c.last EXCEPT ![l] = t]
      BY <1>5, <2>1, <2>2
    <2>4. ScoredSet(c, X, k, l, X)
      BY <1>6 DEF ScoredSet
    <2>5. c.inserts = c.inserts + 0 /\ c.evictions = c.evictions + 0
      BY <1>0
    <2>6. ToSet(d.resident) = X /\ Distinct(d.resident)
      BY <1>1, <2>1, <2>3
    <2>7. ScoredMove(c, X, gain, k, l, d, X)
      BY <1>6, <2>1, <2>3, <2>4, <2>5, Zenon DEF ScoredMove
    <2>8. QED
      BY <1>1, <2>3, <2>6, <2>7
  <1>7. CASE l \notin X
    <2>1. r \in Seq(Leaves) /\ Distinct(r) /\ ScoredSet(c, X, k, l, ToSet(r))
      <3>1. CASE Len(q) >= k
        <4>1. r = ReplaceAt(q, FirstLowest(c, q), l)
          BY <3>1
        <4>2. q # <<>>
          BY <1>2, <3>1, EmptySeq
        <4>3. FirstLowest(c, q) \in 1 .. Len(q) /\ Lowest(c, X, q[FirstLowest(c, q)])
          BY <1>0, <1>1, <4>2, FirstLowestIs
        <4>4. PICK j \in 1 .. Len(q) : j = FirstLowest(c, q)
          BY <4>3
        <4>5. l \notin ToSet(q)
          BY <1>1, <1>7
        <4>6. /\ ReplaceAt(q, j, l) \in Seq(Leaves) /\ Distinct(ReplaceAt(q, j, l))
              /\ ToSet(ReplaceAt(q, j, l)) = (ToSet(q) \ {q[j]}) \cup {l}
          BY <1>0, <4>5, ReplaceSet
        <4> HIDE DEF r
        <4>7. ToSet(r) = (X \ {q[j]}) \cup {l} /\ Lowest(c, X, q[j])
          BY <1>1, <4>1, <4>3, <4>4, <4>6
        <4>8. ~ (Cardinality(X) < k)
          BY <1>2, <3>1
        <4>9. ScoredSet(c, X, k, l, ToSet(r))
          BY <1>7, <4>7, <4>8, Zenon DEF ScoredSet
        <4>10. QED
          BY <4>1, <4>4, <4>6, <4>9
      <3>2. CASE ~ (Len(q) >= k)
        <4>1. r = Append(q, l)
          BY <3>2
        <4> HIDE DEF r
        <4>2. r \in Seq(Leaves) /\ Distinct(r) /\ ToSet(r) = X \cup {l}
          <5>1. l \notin ToSet(q)
            BY <1>1, <1>7
          <5>2. /\ Append(q, l) \in Seq(Leaves) /\ Distinct(Append(q, l))
                /\ ToSet(Append(q, l)) = ToSet(q) \cup {l}
            BY <1>0, <5>1, AppendSet
          <5>3. QED
            BY <1>1, <4>1, <5>2
        <4>3. ~ (Cardinality(X) >= k)
          BY <1>2, <3>2
        <4>4. ScoredSet(c, X, k, l, ToSet(r))
          BY <1>7, <4>2, <4>3 DEF ScoredSet
        <4>5. QED
          BY <4>2, <4>4
      <3>3. QED
        BY <3>1, <3>2
    <2>2. e \in Nat /\ e = IF l \in X \/ Cardinality(X) < k THEN 0 ELSE 1
      BY <1>2, <1>7
    <2>3. PICK w \in LeafSeqs : w = r
      BY <2>1 DEF LeafSeqs
    <2>4. PICK i : i = Insert(c, e)
      OBVIOUS
    <2>5. /\ i \in ScoredRecords(LeafSeqs) /\ i.hit = FALSE /\ i.hits = c.hits
          /\ i.inserts = c.inserts + 1 /\ i.evictions = c.evictions + e
          /\ i.resident = q /\ i.weight = c.weight /\ i.last = c.last
      <3>1. e \in Nat
        OBVIOUS
      <3> HIDE DEF e
      <3>2. QED
        BY <2>4, <3>1, ScoredInsert, ZenonT(60)
    <2>6. PICK h : h = [i EXCEPT !.resident = w]
      OBVIOUS
    <2>7. /\ h \in ScoredRecords(LeafSeqs) /\ h.hit = i.hit /\ h.hits = i.hits /\ h.inserts = i.inserts
          /\ h.evictions = i.evictions /\ h.resident = w /\ h.weight = i.weight /\ h.last = i.last
      <3>1. h = [i EXCEPT !.resident = w] /\ i \in ScoredRecords(LeafSeqs) /\ w \in LeafSeqs
        BY <2>5, <2>6
      <3> HIDE DEF r, e, base
      <3>2. QED
        BY <3>1, ScoredHeld
    <2>8. h = base
      <3> HIDE DEF e, r
      <3>1. QED
        BY <1>2, <1>7, <2>3, <2>4, <2>6
    <2> HIDE DEF base, e, r
    <2>9. /\ d \in ScoredRecords(LeafSeqs) /\ d.hit = h.hit /\ d.hits = h.hits
          /\ d.inserts = h.inserts /\ d.evictions = h.evictions /\ d.resident = h.resident
          /\ d.weight = [c.weight EXCEPT ![l] = c.weight[l] + 1 * gain[t]]
          /\ d.last = [c.last EXCEPT ![l] = t]
      BY <1>5, <2>5, <2>7, <2>8
    <2>10. c.hits = c.hits + 0
      BY <1>0
    <2>11. ScoredSet(c, X, k, l, ToSet(d.resident)) /\ Distinct(d.resident)
      BY <2>1, <2>3, <2>7, <2>9
    <2>12. ScoredMove(c, X, gain, k, l, d, ToSet(d.resident))
      BY <1>7, <2>2, <2>5, <2>7, <2>9, <2>10, <2>11, Zenon DEF ScoredMove
    <2>13. QED
      BY <1>1, <2>9, <2>11, <2>12
  <1>8. QED
    BY <1>6, <1>7

\* What is kept of decayed LFU.
DlfuKept(c, k) ==
    /\ c \in ScoredRecords(LeafSets) /\ c.last = fenwick.last
    /\ c.resident \subseteq Seen /\ Cardinality(c.resident) <= k
    /\ c.hits <= t /\ c.inserts - c.evictions = Cardinality(c.resident)

\* What the kernel shares with it: its array holds the same leaves.
KernelKept(c, d) ==
    /\ d \in ScoredRecords(LeafSeqs) /\ Distinct(d.resident) /\ ToSet(d.resident) = c.resident
    /\ d.weight = c.weight /\ d.last = c.last
    /\ d.hit = c.hit /\ d.hits = c.hits /\ d.inserts = c.inserts /\ d.evictions = c.evictions

\* The keys of the residents can be compared.
LEMMA KeptKeys ==
  ASSUME StreamTypes, FenwickInv, NEW k, NEW c, DlfuKept(c, k)
  PROVE  Keys(c, c.resident)
  <1>1. PICK X, f : X = c.resident /\ f = c.last
    OBVIOUS
  <1>2. c.weight \in [Leaves -> Nat] /\ f \in [Leaves -> Int] /\ X \in SUBSET Leaves /\ X \subseteq Seen
    BY <1>1 DEF DlfuKept, ScoredRecords, LeafSets
  <1>3. \A x \in X : f[x] = LastOf(x)
    BY <1>1 DEF DlfuKept, LastOf
  <1>4. t \in Nat
    BY Sizes DEF StreamTypes
  <1>5. \A x \in X : f[x] \in 0 .. t
    <2>1. \A x \in Seen : LastOf(x) \in 0 .. t - 1
      BY DEF FenwickInv
    <2>2. QED
      BY <1>2, <1>3, <1>4, <2>1
  <1>6. ASSUME NEW x \in X, NEW y \in X, f[x] = f[y] PROVE x = y
    BY <1>2, <1>3, <1>6, LastDiffers
  <1>7. QED
    BY <1>1, <1>2, <1>5, <1>6 DEF Keys

\* Sizes of the residents.
LEMMA ScoredSetIs ==
  ASSUME NEW c, NEW X \in SUBSET Leaves, NEW k \in Nat \ {0}, NEW l \in Leaves, NEW D, ScoredSet(c, X, k, l, D),
         Cardinality(X) <= k
  PROVE  /\ D \subseteq X \cup {l} /\ LegalMove(X, l, D) /\ Cardinality(X) \in Nat
         /\ Cardinality(D) <= k
         /\ Cardinality(D) = Cardinality(X) + IF l \in X \/ Cardinality(X) >= k THEN 0 ELSE 1
  <1>1. IsFiniteSet(X) /\ Cardinality(X) \in Nat
    BY Sizes, FS_Subset, FS_CardinalityType
  <1>2. CASE l \in X
    <2>1. D = X
      BY <1>2 DEF ScoredSet
    <2>2. QED
      BY <1>1, <1>2, <2>1 DEF LegalMove
  <1>3. CASE l \notin X /\ Cardinality(X) < k
    <2>1. D = X \cup {l}
      BY <1>3 DEF ScoredSet
    <2>2. Cardinality(D) = Cardinality(X) + 1
      BY <1>1, <1>3, <2>1, FS_AddElement
    <2>3. LegalMove(X, l, D)
      BY <1>3, <2>1 DEF LegalMove
    <2>4. QED
      BY <1>1, <1>3, <2>1, <2>2, <2>3
  <1>4. CASE l \notin X /\ Cardinality(X) >= k
    <2>1. PICK v : Lowest(c, X, v) /\ D = (X \ {v}) \cup {l}
      BY <1>4 DEF ScoredSet
    <2>2. v \in X
      BY <2>1 DEF Lowest
    <2>3. PICK E : E = X \ {v}
      OBVIOUS
    <2>4. IsFiniteSet(E) /\ Cardinality(E) = Cardinality(X) - 1 /\ l \notin E
      <3>1. IsFiniteSet(E) /\ Cardinality(E) = Cardinality(X) - 1
        BY <1>1, <2>2, <2>3, FS_RemoveElement
      <3>2. QED
        BY <1>4, <2>3, <3>1
    <2>5. Cardinality(D) = Cardinality(E) + 1
      BY <2>1, <2>3, <2>4, FS_AddElement
    <2>6. LegalMove(X, l, D)
      BY <1>4, <2>1 DEF LegalMove
    <2>7. QED
      BY <1>1, <1>4, <2>1, <2>4, <2>5, <2>6
  <1>5. QED
    BY <1>1, <1>2, <1>3, <1>4

\* The gain of an access.
LEMMA GainIs == ASSUME StreamTypes, Access, NEW g \in Gains PROVE g[t] \in Nat
  <1>1. t \in Times
    BY StreamStep DEF Times
  <1>2. g \in [Times -> Nat \ {0}]
    BY GainsAssumption
  <1>3. QED
    BY <1>1, <1>2

\* One access of the reference.
LEMMA DlfuStep ==
  ASSUME StreamTypes, FenwickInv, Access, NEW g \in Gains, NEW k \in Caps, DlfuKept(dlfu[g][k], k)
  PROVE  /\ DlfuKept(dlfu[g][k], k)'
         /\ ScoredMove(dlfu[g][k], dlfu[g][k].resident, g, k, LeafAt(t), dlfu'[g][k], dlfu'[g][k].resident)
  <1>1. t' = t + 1 /\ t \in Nat /\ LeafAt(t) \in Leaves /\ k \in Nat \ {0} /\ k \in Nat
    BY Sizes, StreamStep
  <1>2. PICK l \in Leaves : l = LeafAt(t)
    BY <1>1
  <1>3. PICK c \in ScoredRecords(LeafSets) : c = dlfu[g][k]
    BY DEF DlfuKept
  <1>4. PICK d : d = dlfu'[g][k]
    OBVIOUS
  <1>5. d = DlfuAccess(c, g, k, l)
    BY <1>2, <1>3, <1>4 DEF Access
  <1>6. PICK X : X = c.resident
    OBVIOUS
  <1>7. DlfuKept(c, k)
    BY <1>3
  <1>8. Keys(c, X) /\ Cardinality(X) <= k /\ X \subseteq Seen /\ X \in SUBSET Leaves
    BY <1>6, <1>7, KeptKeys DEF DlfuKept, Seen
  <1>9. d \in ScoredRecords(LeafSets) /\ ScoredMove(c, X, g, k, l, d, d.resident)
    <2>1. g[t] \in Nat
      BY GainIs
    <2>2. QED
      BY <1>1, <1>5, <1>6, <1>8, <2>1, DlfuMoves
  <1>10. PICK D : D = d.resident
    OBVIOUS
  <1>11. /\ d.hits = c.hits + IF l \in X THEN 1 ELSE 0
         /\ d.inserts = c.inserts + IF l \in X THEN 0 ELSE 1
         /\ d.evictions = c.evictions + IF l \in X \/ Cardinality(X) < k THEN 0 ELSE 1
         /\ d.last = [c.last EXCEPT ![l] = t]
         /\ ScoredSet(c, X, k, l, D)
    BY <1>9, <1>10 DEF ScoredMove
  <1>12. /\ D \subseteq X \cup {l} /\ Cardinality(D) <= k /\ Cardinality(X) \in Nat
         /\ Cardinality(D) = Cardinality(X) + IF l \in X \/ Cardinality(X) >= k THEN 0 ELSE 1
    BY <1>1, <1>8, <1>11, ScoredSetIs
  <1>13. D \subseteq Seen'
    <2>1. Seen' = Seen \cup {l}
      BY <1>2, LastMoves
    <2>2. QED
      BY <1>8, <1>12, <2>1
  <1>14. d.last = fenwick'.last
    <2>1. fenwick'.last = [fenwick.last EXCEPT ![l] = t]
      BY <1>2 DEF Access, FenwickAccess
    <2>2. c.last = fenwick.last
      BY <1>7 DEF DlfuKept
    <2>3. QED
      BY <1>11, <2>1, <2>2
  <1>15. d.hits <= t + 1 /\ d.inserts - d.evictions = Cardinality(D)
    <2>1. c.hits \in Nat /\ c.inserts \in Nat /\ c.evictions \in Nat
      BY DEF ScoredRecords
    <2>2. c.hits <= t /\ c.inserts - c.evictions = Cardinality(X)
      BY <1>6, <1>7 DEF DlfuKept
    <2>3. QED
      BY <1>1, <1>11, <1>12, <2>1, <2>2
  <1>16. DlfuKept(dlfu[g][k], k)'
    <2>1. /\ d \in ScoredRecords(LeafSets) /\ d.last = fenwick'.last
          /\ d.resident \subseteq Seen' /\ Cardinality(d.resident) <= k
          /\ d.hits <= t' /\ d.inserts - d.evictions = Cardinality(d.resident)
      BY <1>1, <1>9, <1>10, <1>12, <1>13, <1>14, <1>15
    <2>2. QED
      BY <1>4, <2>1, Zenon DEF DlfuKept
  <1>17. QED
    BY <1>2, <1>3, <1>4, <1>6, <1>9, <1>16

\* The kernel keeps up with the reference.
LEMMA DlfuKernelStep ==
  ASSUME StreamTypes, FenwickInv, Access, NEW g \in Gains, NEW k \in Caps, DlfuKept(dlfu[g][k], k),
         KernelKept(dlfu[g][k], dlfuFast[g][k])
  PROVE  KernelKept(dlfu[g][k], dlfuFast[g][k])'
  <1>1. t' = t + 1 /\ t \in Nat /\ LeafAt(t) \in Leaves /\ k \in Nat \ {0} /\ k \in Nat
    BY Sizes, StreamStep
  <1>2. PICK l \in Leaves : l = LeafAt(t)
    BY <1>1
  <1>3. PICK c, e : c = dlfu[g][k] /\ e = dlfu'[g][k]
    OBVIOUS
  <1>4. PICK b \in ScoredRecords(LeafSeqs) : b = dlfuFast[g][k]
    BY DEF KernelKept
  <1>5. PICK d : d = dlfuFast'[g][k]
    OBVIOUS
  <1>6. d = DlfuKernel(b, g, k, l)
    BY <1>2, <1>4, <1>5 DEF Access
  <1>7. PICK q, X : q = b.resident /\ X = c.resident
    OBVIOUS
  <1>8. /\ Distinct(q) /\ ToSet(q) = X /\ b.weight = c.weight /\ b.last = c.last
        /\ b.hit = c.hit /\ b.hits = c.hits /\ b.inserts = c.inserts /\ b.evictions = c.evictions
    BY <1>3, <1>4, <1>7 DEF KernelKept
  <1>9. DlfuKept(c, k)
    BY <1>3
  <1>10. Keys(c, X) /\ Cardinality(X) <= k
    BY <1>7, <1>9, KeptKeys DEF DlfuKept
  <1>11. Keys(b, X)
    BY <1>8, <1>10 DEF Keys
  <1>12. Len(q) <= k
    <2>1. q \in Seq(Leaves)
      BY <1>7 DEF ScoredRecords, LeafSeqs
    <2>2. Cardinality(X) = Len(q)
      BY <1>8, <2>1, DistinctCard
    <2>3. QED
      BY <1>10, <2>2
  <1>13. /\ d \in ScoredRecords(LeafSeqs) /\ Distinct(d.resident)
         /\ ScoredMove(b, X, g, k, l, d, ToSet(d.resident))
    <2>1. g[t] \in Nat
      BY GainIs
    <2>2. Keys(b, ToSet(q))
      BY <1>8, <1>11
    <2>3. /\ d \in ScoredRecords(LeafSeqs) /\ Distinct(d.resident)
          /\ ScoredMove(b, ToSet(q), g, k, l, d, ToSet(d.resident))
      BY <1>1, <1>6, <1>7, <1>8, <1>12, <2>1, <2>2, DlfuKernelMoves
    <2>4. QED
      BY <1>8, <2>3
  <1>14. ScoredMove(c, X, g, k, l, e, e.resident)
    BY <1>2, <1>3, <1>7, DlfuStep
  <1>15. PICK D, E : D = ToSet(d.resident) /\ E = e.resident
    OBVIOUS
  <1>16. D = E
    <2>1. ScoredSet(b, X, k, l, D) /\ ScoredSet(c, X, k, l, E)
      BY <1>13, <1>14, <1>15 DEF ScoredMove
    <2>2. CASE l \in X
      BY <2>1, <2>2 DEF ScoredSet
    <2>3. CASE l \notin X /\ Cardinality(X) < k
      BY <2>1, <2>3 DEF ScoredSet
    <2>4. CASE l \notin X /\ Cardinality(X) >= k
      <3>1. PICK v : Lowest(b, X, v) /\ D = (X \ {v}) \cup {l}
        BY <2>1, <2>4 DEF ScoredSet
      <3>2. PICK u : Lowest(c, X, u) /\ E = (X \ {u}) \cup {l}
        BY <2>1, <2>4 DEF ScoredSet
      <3>3. Lowest(c, X, v)
        BY <1>8, <3>1 DEF Lowest, Lower
      <3>4. u = v
        BY <1>10, <3>2, <3>3, OneLowest
      <3>5. QED
        BY <3>1, <3>2, <3>4
    <2>5. Cardinality(X) < k \/ Cardinality(X) >= k
      <3>1. X \in SUBSET Leaves
        BY <1>10 DEF Keys
      <3>2. Cardinality(X) \in Nat
        BY <3>1, Sizes, FS_Subset, FS_CardinalityType
      <3>3. QED
        BY <1>1, <3>2
    <2>6. QED
      BY <2>2, <2>3, <2>4, <2>5
  <1>17. /\ d.weight = e.weight /\ d.last = e.last /\ d.hits = e.hits
         /\ d.inserts = e.inserts /\ d.evictions = e.evictions
    BY <1>8, <1>13, <1>14 DEF ScoredMove
  <1>18. d.hit = e.hit
    <2>1. (d.hit <=> l \in X) /\ (e.hit <=> l \in X)
      BY <1>13, <1>14 DEF ScoredMove
    <2>2. d.hit \in BOOLEAN
      BY <1>13 DEF ScoredRecords
    <2>3. DlfuKept(e, k)'
      BY <1>3, DlfuStep DEF DlfuKept
    <2>4. e.hit \in BOOLEAN
      BY <2>3 DEF DlfuKept, ScoredRecords
    <2>5. PICK x \in BOOLEAN : x = d.hit
      BY <2>2
    <2>6. PICK y \in BOOLEAN : y = e.hit
      BY <2>4
    <2>7. x <=> y
      BY <2>1, <2>5, <2>6
    <2>8. x = y
      BY <2>7
    <2>9. QED
      BY <2>5, <2>6, <2>8, Zenon
  <1>19. QED
    <2>1. /\ d \in ScoredRecords(LeafSeqs) /\ Distinct(d.resident) /\ ToSet(d.resident) = e.resident
          /\ d.weight = e.weight /\ d.last = e.last
          /\ d.hit = e.hit /\ d.hits = e.hits /\ d.inserts = e.inserts /\ d.evictions = e.evictions
      BY <1>13, <1>15, <1>16, <1>17, <1>18
    <2>2. QED
      BY <1>3, <1>5, <2>1, Zenon DEF KernelKept

-----------------------------------------------------------------------------
(* What the policies achieve.                                              *)

\* LRU, counted at its capacity or a larger one.
LEMMA LruAchieves ==
  ASSUME StreamTypes, FenwickInv, Access, NEW k \in Caps, NEW m \in Caps, k <= m, LruHeld(lru[k], k),
         BestTypes(m), Achieves(m, ToSet(lru[k].resident), lru[k].hits)
  PROVE  Achieves(m, ToSet(lru[k].resident), lru[k].hits)'
  <1>1. PICK c, d : c = lru[k] /\ d = lru'[k]
    OBVIOUS
  <1>2. PICK X, Y : X = ToSet(c.resident) /\ Y = ToSet(d.resident)
    OBVIOUS
  <1>3. PICK h \in Nat : h = c.hits
    BY <1>1 DEF LruHeld, LruRecords, PlainRecords
  <1>4. /\ d.hits = h + IF LeafAt(t) \in X THEN 1 ELSE 0
        /\ LegalMove(X, LeafAt(t), Y)
        /\ LruHeld(lru[k], k)'
    BY <1>1, <1>2, <1>3, LruStep, TouchedLegal
  <1>5. Y \in Tables(m)
    <2>1. /\ d.resident \in Seq(Leaves) /\ Distinct(d.resident) /\ Len(d.resident) <= k
      BY <1>1, <1>4 DEF LruHeld, LruSeq
    <2>2. Len(d.resident) \in Nat /\ k \in Nat /\ m \in Nat
      BY Sizes, <2>1, LenProperties
    <2>3. ToSet(d.resident) \subseteq Leaves /\ Cardinality(ToSet(d.resident)) = Len(d.resident)
      BY <2>1, SetOf, DistinctCard
    <2>4. Len(d.resident) <= m
      BY <2>1, <2>2
    <2>5. QED
      BY <1>2, <2>3, <2>4 DEF Tables
  <1>6. Achieves(m, X, h)
    BY <1>1, <1>2, <1>3
  <1>7. best'[m][Y] >= h + IF LeafAt(t) \in X THEN 1 ELSE 0
    BY <1>4, <1>5, <1>6, AchievesStep
  <1>8. QED
    BY <1>1, <1>2, <1>4, <1>5, <1>7 DEF Achieves, Tables

\* Belady, too.
LEMMA BeladyAchieves ==
  ASSUME StreamTypes, Access, NEW k \in Caps, NEW m \in Caps, k <= m, BeladyKept(belady[k], k),
         BestTypes(m), Achieves(m, ToSet(belady[k].resident), belady[k].hits)
  PROVE  Achieves(m, ToSet(belady[k].resident), belady[k].hits)'
  <1>0. k \in Nat /\ m \in Nat
    BY Sizes
  <1>1. PICK c, d : c = belady[k] /\ d = belady'[k]
    OBVIOUS
  <1>2. PICK X, Y : X = ToSet(c.resident) /\ Y = ToSet(d.resident)
    OBVIOUS
  <1>3. X \in Tables(k) /\ c.hits \in Nat
    <2>1. BeladyKept(c, k)
      BY <1>1
    <2>2. QED
      BY <1>0, <1>2, <2>1, BeladyTable
  <1>4. PICK h \in Nat : h = c.hits
    BY <1>3
  <1>5. BeladyKept(belady[k], k)' /\ BeladyDone(c, k, LeafAt(t), d)
    BY <1>1, BeladyMovesOn
  <1>6. /\ d.hits = h + IF LeafAt(t) \in X THEN 1 ELSE 0
        /\ BeladySet(X, Upcoming, k, LeafAt(t), Upcoming[LeafAt(t)], Y)
    BY <1>2, <1>4, <1>5 DEF BeladyDone
  <1>7. LegalMove(X, LeafAt(t), Y)
    BY <1>0, <1>3, <1>6, BeladyLegal
  <1>8. Y \in Tables(m)
    <2>1. /\ d.resident \in Seq(Leaves) /\ Distinct(d.resident) /\ Len(d.resident) <= k
      BY <1>1, <1>5 DEF BeladyKept, BeladyRecords
    <2>2. Len(d.resident) \in Nat
      BY <2>1, LenProperties
    <2>3. ToSet(d.resident) \subseteq Leaves /\ Cardinality(ToSet(d.resident)) = Len(d.resident)
      BY <2>1, SetOf, DistinctCard
    <2>4. Len(d.resident) <= m
      BY <1>0, <2>1, <2>2
    <2>5. QED
      BY <1>2, <2>3, <2>4 DEF Tables
  <1>9. Achieves(m, X, h)
    BY <1>1, <1>2, <1>4
  <1>10. best'[m][Y] >= h + IF LeafAt(t) \in X THEN 1 ELSE 0
    BY <1>7, <1>8, <1>9, AchievesStep
  <1>11. QED
    BY <1>1, <1>2, <1>6, <1>8, <1>10 DEF Achieves, Tables

\* Decayed LFU, too.
LEMMA DlfuAchieves ==
  ASSUME StreamTypes, FenwickInv, Access, NEW g \in Gains, NEW k \in Caps, DlfuKept(dlfu[g][k], k),
         BestTypes(k), Achieves(k, dlfu[g][k].resident, dlfu[g][k].hits)
  PROVE  Achieves(k, dlfu[g][k].resident, dlfu[g][k].hits)'
  <1>0. k \in Nat \ {0} /\ k \in Nat /\ LeafAt(t) \in Leaves
    BY Sizes, StreamStep
  <1>1. PICK c, d : c = dlfu[g][k] /\ d = dlfu'[g][k]
    OBVIOUS
  <1>2. PICK X, Y : X = c.resident /\ Y = d.resident
    OBVIOUS
  <1>3. X \in SUBSET Leaves /\ Cardinality(X) <= k /\ c.hits \in Nat
    BY <1>1, <1>2 DEF DlfuKept, ScoredRecords, LeafSets
  <1>4. PICK h \in Nat : h = c.hits
    BY <1>3
  <1>5. ScoredMove(c, X, g, k, LeafAt(t), d, Y)
    BY <1>1, <1>2, DlfuStep
  <1>6. /\ d.hits = h + IF LeafAt(t) \in X THEN 1 ELSE 0
        /\ ScoredSet(c, X, k, LeafAt(t), Y)
    BY <1>4, <1>5 DEF ScoredMove
  <1>7. LegalMove(X, LeafAt(t), Y) /\ Y \subseteq X \cup {LeafAt(t)} /\ Cardinality(Y) <= k
    BY <1>0, <1>3, <1>6, ScoredSetIs
  <1>8. Y \in Tables(k)
    BY <1>0, <1>3, <1>7 DEF Tables
  <1>9. Achieves(k, X, h)
    BY <1>1, <1>2, <1>4
  <1>10. best'[k][Y] >= h + IF LeafAt(t) \in X THEN 1 ELSE 0
    BY <1>7, <1>8, <1>9, AchievesStep
  <1>11. QED
    BY <1>1, <1>2, <1>6, <1>8, <1>10 DEF Achieves, Tables

\* A larger LRU hits when a smaller one does.
LEMMA LruGrows ==
  ASSUME StreamTypes, FenwickInv, Access, NEW k \in Caps, NEW m \in Caps, k <= m,
         LruHeld(lru[k], k), LruHeld(lru[m], m), lru[k].hits <= lru[m].hits
  PROVE  (lru[k].hits <= lru[m].hits)'
  <1>1. PICK c, d : c = lru[k] /\ d = lru[m]
    OBVIOUS
  <1>2. c.hits \in Nat /\ d.hits \in Nat
    BY <1>1 DEF LruHeld, LruRecords, PlainRecords
  <1>3. /\ lru'[k].hits = c.hits + IF LeafAt(t) \in ToSet(c.resident) THEN 1 ELSE 0
        /\ lru'[m].hits = d.hits + IF LeafAt(t) \in ToSet(d.resident) THEN 1 ELSE 0
    BY <1>1, LruStep
  <1>4. ToSet(c.resident) \subseteq ToSet(d.resident)
    <2>1. LruSeq(c.resident, k, fenwick.last) /\ LruSeq(d.resident, m, fenwick.last)
      BY <1>1 DEF LruHeld
    <2>2. QED
      BY <2>1, LruIncluded
  <1>5. c.hits <= d.hits
    BY <1>1
  <1>6. QED
    BY <1>2, <1>3, <1>4, <1>5

-----------------------------------------------------------------------------
(* The invariant of the cold policies.                                     *)

OneInv(k) ==
    /\ LruHeld(lru[k], k) /\ LruDistance(k)
    /\ BeladyKept(belady[k], k) /\ BeladyKept(beladyFast[k], k)
    /\ BeladyAlike(belady[k], beladyFast[k]) /\ BeladyBest(k)

DlfuInv(g, k) ==
    /\ DlfuKept(dlfu[g][k], k) /\ KernelKept(dlfu[g][k], dlfuFast[g][k])
    /\ Achieves(k, dlfu[g][k].resident, dlfu[g][k].hits)

PairInv(k, m) ==
    /\ Achieves(m, ToSet(lru[k].resident), lru[k].hits)
    /\ Achieves(m, ToSet(belady[k].resident), belady[k].hits)
    /\ lru[k].hits <= lru[m].hits

ColdInv ==
    /\ StreamTypes /\ FenwickInv
    /\ \A k \in Caps : OneInv(k)
    /\ \A g \in Gains : \A k \in Caps : DlfuInv(g, k)
    /\ \A k, m \in Caps : k <= m => PairInv(k, m)
    /\ \A k \in Caps : k + 1 \in Caps => BeladyNested(belady[k], belady[k + 1])

\* Every access keeps it.
LEMMA ColdStep == ASSUME ColdInv, Access PROVE ColdInv'
  <1>1. StreamTypes /\ FenwickInv /\ StreamTypes' /\ FenwickInv'
    BY StreamStep, FenwickStep DEF ColdInv
  <1>2. \A k \in Caps : OneInv(k)
    BY DEF ColdInv
  <1>3. \A g \in Gains : \A k \in Caps : DlfuInv(g, k)
    BY DEF ColdInv
  <1>4. ASSUME NEW k \in Caps PROVE OneInv(k)'
    <2>1. LruHeld(lru[k], k)' /\ LruDistance(k)'
      BY <1>1, <1>2, LruStep, LruDistanceStep DEF OneInv
    <2>2. BeladyKept(belady[k], k)'
      BY <1>1, <1>2, BeladyMovesOn DEF OneInv
    <2>3. BeladyKept(beladyFast[k], k)'
      BY <1>1, <1>2, KernelMovesOn DEF OneInv
    <2>4. BeladyAlike(belady[k], beladyFast[k])'
      BY <1>1, <1>2, BeladyAlikeStep DEF OneInv
    <2>5. BeladyBest(k)'
      BY <1>1, <1>2, BeladyBestStep DEF OneInv
    <2>6. QED
      BY <2>1, <2>2, <2>3, <2>4, <2>5 DEF OneInv
  <1>5. ASSUME NEW g \in Gains, NEW k \in Caps PROVE DlfuInv(g, k)'
    <2>1. DlfuInv(g, k) /\ BestTypes(k)
      BY <1>2, <1>3 DEF OneInv, BeladyBest
    <2>2. DlfuKept(dlfu[g][k], k)'
      BY <1>1, <2>1, DlfuStep DEF DlfuInv
    <2>3. KernelKept(dlfu[g][k], dlfuFast[g][k])'
      BY <1>1, <2>1, DlfuKernelStep DEF DlfuInv
    <2>4. Achieves(k, dlfu[g][k].resident, dlfu[g][k].hits)'
      BY <1>1, <2>1, DlfuAchieves DEF DlfuInv
    <2>5. QED
      BY <2>2, <2>3, <2>4 DEF DlfuInv
  <1>6. ASSUME NEW k \in Caps, NEW m \in Caps, k <= m PROVE PairInv(k, m)'
    <2>1. PairInv(k, m)
      BY <1>6 DEF ColdInv
    <2>2. LruHeld(lru[k], k) /\ LruHeld(lru[m], m) /\ BeladyKept(belady[k], k) /\ BestTypes(m)
      BY <1>2 DEF OneInv, BeladyBest
    <2>3. Achieves(m, ToSet(lru[k].resident), lru[k].hits)'
      BY <1>1, <1>6, <2>1, <2>2, LruAchieves DEF PairInv
    <2>4. Achieves(m, ToSet(belady[k].resident), belady[k].hits)'
      BY <1>1, <1>6, <2>1, <2>2, BeladyAchieves DEF PairInv
    <2>5. (lru[k].hits <= lru[m].hits)'
      BY <1>1, <1>6, <2>1, <2>2, LruGrows DEF PairInv
    <2>6. QED
      BY <2>3, <2>4, <2>5 DEF PairInv
  <1>7. ASSUME NEW k \in Caps, k + 1 \in Caps PROVE BeladyNested(belady[k], belady[k + 1])'
    <2>1. BeladyKept(belady[k], k) /\ BeladyKept(belady[k + 1], k + 1)
      BY <1>2, <1>7 DEF OneInv
    <2>2. BeladyNested(belady[k], belady[k + 1])
      BY <1>7 DEF ColdInv
    <2>3. QED
      BY <1>1, <1>7, <2>1, <2>2, BeladyNestedStep
  <1>8. QED
    BY <1>1, <1>4, <1>5, <1>6, <1>7 DEF ColdInv

\* The caches start empty.
LEMMA EmptyIs ==
  /\ <<>> \in Seq(Leaves) /\ Len(<<>>) = 0 /\ ToSet(<<>>) = {} /\ Distinct(<<>>)
  /\ IsFiniteSet({}) /\ Cardinality({}) = 0
  BY FS_EmptySet DEF ToSet, Distinct

\* Then nothing is ahead of Belady.
LEMMA BestStart ==
  ASSUME NEW k \in Caps, NEW b,
         b = [R \in {R \in SUBSET Leaves : Cardinality(R) <= k} |-> IF R = {} THEN 0 ELSE Unreachable],
         NEW F \in [Leaves -> Nat]
  PROVE  /\ b \in [Tables(k) -> Unreachable .. 0] /\ Unbeaten(b, k, 0, {}, F)
         /\ {} \in Tables(k) /\ b[{}] = 0
  <1>0. k \in Nat /\ k <= MaxK /\ MaxK \in Nat /\ Length \in Nat /\ Unreachable = -(Length + MaxK)
    BY Sizes DEF Caps, Unreachable
  <1>1. b = [R \in Tables(k) |-> IF R = {} THEN 0 ELSE Unreachable]
    BY DEF Tables
  <1>2. 0 \in Unreachable .. 0 /\ Unreachable \in Unreachable .. 0
    BY <1>0
  <1>3. b \in [Tables(k) -> Unreachable .. 0]
    BY <1>1, <1>2
  <1>4. {} \in Tables(k)
    BY <1>0, EmptyIs DEF Tables
  <1>5. ASSUME NEW n \in 0 .. Length - 1, NEW R \in Tables(k)
        PROVE  b[R] + Count(R, F, n) <= 0 + Count({}, F, n)
    <2>1. n \in Int /\ R \in SUBSET Leaves /\ {} \in SUBSET Leaves
      BY <1>0 DEF Tables
    <2>2. Count({}, F, n) \in Nat /\ Count({}, F, n) <= 0
      BY <2>1, CountIs, EmptyIs
    <2>3. Count(R, F, n) \in Nat /\ Count(R, F, n) <= k
      <3>1. Count(R, F, n) \in Nat /\ Count(R, F, n) <= Cardinality(R) /\ Cardinality(R) \in Nat
        BY <2>1, CountIs
      <3>2. QED
        BY <1>0, <3>1 DEF Tables
    <2>4. CASE R = {}
      <3>1. b[R] = 0
        BY <1>1, <1>4, <2>4
      <3>2. QED
        BY <2>2, <2>4, <3>1
    <2>5. CASE R # {}
      <3>1. b[R] = Unreachable
        BY <1>1, <2>5
      <3>2. QED
        BY <1>0, <2>2, <2>3, <3>1
    <2>6. QED
      BY <2>4, <2>5
  <1>6. QED
    BY <1>1, <1>3, <1>4, <1>5 DEF Unbeaten

\* The invariant holds at the start.
LEMMA ColdStart == ASSUME Init PROVE ColdInv
  <1>0. t = 0 /\ t \in Nat /\ Length \in Nat \ {0} /\ MaxK \in Nat \ {0}
    BY Sizes DEF Init
  <1>1. StreamTypes
    <2>1. seq \in [1 .. Length -> Leaves]
      BY StreamsAssumption DEF Init
    <2>2. QED
      BY <1>0, <2>1 DEF StreamTypes
  <1>2. fenwick = [ones |-> {}, last |-> [l \in Leaves |-> None], rd |-> <<>>]
    BY DEF Init
  <1>3. Seen = {} /\ \A l \in Leaves : fenwick.last[l] = None
    BY <1>2 DEF Seen, LastOf
  <1>4. FenwickInv
    <2>1. fenwick \in [ones : SUBSET Nat, last : [Leaves -> Int], rd : Seq(Int)]
      BY <1>2 DEF None
    <2>2. fenwick.ones = {} /\ Len(fenwick.rd) = 0
      BY <1>2
    <2>3. 0 .. t - 1 = {}
      BY <1>0
    <2>4. QED
      BY <1>0, <1>3, <2>1, <2>2, <2>3 DEF FenwickInv
  <1>5. ASSUME NEW k \in Caps
        PROVE  /\ lru[k] = Cold(<<>>) /\ belady[k] = ColdBelady /\ beladyFast[k] = ColdBelady
               /\ best[k] = [R \in {R \in SUBSET Leaves : Cardinality(R) <= k} |->
                                 IF R = {} THEN 0 ELSE Unreachable]
               /\ k \in Nat
    BY Sizes DEF Init
  <1>6. ASSUME NEW k \in Caps PROVE LruHeld(lru[k], k) /\ LruDistance(k)
    <2>1. PICK c : c = lru[k]
      OBVIOUS
    <2>2. c = Cold(<<>>)
      BY <1>5, <2>1
    <2>3. /\ c \in LruRecords /\ c.resident = <<>> /\ c.hits = 0 /\ c.inserts = 0 /\ c.evictions = 0
      BY <2>2, EmptyIs DEF Cold, LruRecords, PlainRecords
    <2>4. LruSeq(<<>>, k, fenwick.last)
      <3>1. 1 .. Len(<<>>) = {} /\ 0 <= k
        BY Sizes, EmptyIs
      <3>2. \A m \in Leaves : ~ (fenwick.last[m] # None)
        BY <1>3
      <3>3. Ordered(<<>>, fenwick.last)
        BY <3>1, Zenon DEF Ordered
      <3>4. QED
        BY <3>1, <3>2, <3>3, EmptyIs, Zenon DEF LruSeq
    <2>5. LruHeld(c, k)
      BY <1>0, <2>3, <2>4, EmptyIs DEF LruHeld
    <2>6. Near(k, t) = {}
      BY <1>0 DEF Near
    <2>7. LruDistance(k)
      <3>1. ~ (t > 0)
        BY <1>0
      <3>2. Cardinality(Near(k, t)) = lru[k].hits
        BY <2>1, <2>3, <2>6, EmptyIs, Zenon
      <3>3. QED
        BY <3>1, <3>2, Zenon DEF LruDistance
    <2>8. QED
      BY <2>1, <2>5, <2>7
  <1>7. PICK e : e = ColdBelady
    OBVIOUS
  <1>8. /\ e \in BeladyRecords(Seq(Leaves)) /\ e.resident = <<>> /\ e.hits = 0 /\ e.inserts = 0
        /\ e.evictions = 0
    BY <1>7, EmptyIs DEF ColdBelady, BeladyRecords
  <1>9. ASSUME NEW k \in Caps PROVE BeladyKept(e, k)
    <2>1. 0 <= k /\ 0 <= t /\ 0 - 0 = 0
      BY <1>0, Sizes
    <2>2. QED
      BY <1>8, <2>1, EmptyIs, Zenon DEF BeladyKept
  <1>10. BeladyAlike(e, e) /\ BeladyNested(e, e)
    BY DEF BeladyAlike, BeladyNested
  <1>11. Uses \in [Leaves -> Nat]
    <2>1. \A l \in Leaves : FirstUse(l, t) \in Nat
      <3>1. \A l \in Leaves : FirstUse(l, t) \in t .. Length
        BY <1>0, FirstUseIs
      <3>2. QED
        BY <1>0, <3>1
    <2>2. QED
      BY <2>1 DEF Uses
  <1>12. ASSUME NEW k \in Caps PROVE /\ BeladyBest(k) /\ Achieves(k, {}, 0)
    <2>1. PICK b : b = best[k]
      OBVIOUS
    <2>2. /\ b \in [Tables(k) -> Unreachable .. 0] /\ Unbeaten(b, k, 0, {}, Uses)
          /\ {} \in Tables(k) /\ b[{}] = 0
      BY <1>5, <1>11, <2>1, BestStart
    <2>3. belady[k].hits = 0 /\ ToSet(belady[k].resident) = {}
      BY <1>5, <1>7, <1>8, EmptyIs
    <2>4. QED
      BY <1>0, <2>1, <2>2, <2>3 DEF BeladyBest, BestTypes, Achieves
  <1>13. ASSUME NEW k \in Caps PROVE OneInv(k)
    BY <1>5, <1>6, <1>7, <1>9, <1>10, <1>12 DEF OneInv
  <1>14. ASSUME NEW g \in Gains, NEW k \in Caps PROVE DlfuInv(g, k)
    <2>1. PICK c : c = dlfu[g][k]
      OBVIOUS
    <2>2. PICK d : d = dlfuFast[g][k]
      OBVIOUS
    <2>3. c = ColdScored({}) /\ d = ColdScored(<<>>)
      BY <2>1, <2>2 DEF Init
    <2>4. [l \in Leaves |-> None] \in [Leaves -> Int] /\ [l \in Leaves |-> 0] \in [Leaves -> Nat]
      BY DEF None
    <2>5. /\ c \in ScoredRecords(LeafSets) /\ c.last = [l \in Leaves |-> None] /\ c.resident = {}
          /\ c.hits = 0 /\ c.inserts = 0 /\ c.evictions = 0 /\ c.hit = FALSE
          /\ c.weight = [l \in Leaves |-> 0]
      BY <2>3, <2>4 DEF ColdScored, ScoredRecords, LeafSets
    <2>6. /\ d \in ScoredRecords(LeafSeqs) /\ d.last = [l \in Leaves |-> None] /\ d.resident = <<>>
          /\ d.hits = 0 /\ d.inserts = 0 /\ d.evictions = 0 /\ d.hit = FALSE
          /\ d.weight = [l \in Leaves |-> 0]
      BY <2>3, <2>4, EmptyIs DEF ColdScored, ScoredRecords, LeafSeqs
    <2>7. DlfuKept(c, k)
      <3>1. 0 <= k /\ 0 <= t /\ 0 - 0 = 0
        BY <1>0, Sizes
      <3>2. fenwick.last = [l \in Leaves |-> None]
        BY <1>2
      <3>3. QED
        BY <2>5, <3>1, <3>2, EmptyIs, Zenon DEF DlfuKept
    <2>8. KernelKept(c, d)
      BY <2>5, <2>6, EmptyIs DEF KernelKept
    <2>9. Achieves(k, c.resident, c.hits)
      BY <1>12, <2>5
    <2>10. QED
      BY <2>1, <2>2, <2>7, <2>8, <2>9 DEF DlfuInv
  <1>15. ASSUME NEW k \in Caps, NEW m \in Caps PROVE PairInv(k, m)
    <2>1. lru[k].hits = 0 /\ lru[m].hits = 0 /\ ToSet(lru[k].resident) = {}
      <3>1. lru[k] = Cold(<<>>) /\ lru[m] = Cold(<<>>)
        BY <1>5
      <3>2. QED
        BY <3>1, EmptyIs DEF Cold
    <2>2. belady[k].hits = 0 /\ ToSet(belady[k].resident) = {}
      BY <1>5, <1>7, <1>8, EmptyIs
    <2>3. QED
      BY <1>12, <2>1, <2>2 DEF PairInv
  <1>16. QED
    BY <1>1, <1>4, <1>5, <1>7, <1>10, <1>13, <1>14, <1>15 DEF ColdInv

\* It holds throughout.
LEMMA ColdNext == ColdInv /\ [Next]_vars => ColdInv'
  <1> SUFFICES ASSUME ColdInv, [Next]_vars PROVE ColdInv'
    OBVIOUS
  <1>1. CASE Next
    BY <1>1, ColdStep DEF Next
  <1>2. CASE UNCHANGED vars
    <2>1. /\ seq' = seq /\ t' = t /\ lru' = lru /\ dlfu' = dlfu /\ dlfuFast' = dlfuFast
          /\ belady' = belady /\ beladyFast' = beladyFast /\ fenwick' = fenwick /\ best' = best
      BY <1>2 DEF vars
    <2>2. StreamTypes' = StreamTypes /\ FenwickInv' = FenwickInv
      BY <2>1 DEF StreamTypes, FenwickInv, Seen, LastOf, LeafAt
    <2>3. \A l : FirstUse(l, t)' = FirstUse(l, t)
      BY <2>1 DEF FirstUse, LeafAt
    <2>4. Uses' = Uses
      BY <2>3 DEF Uses
    <2>5. ASSUME NEW k \in Caps, OneInv(k) PROVE OneInv(k)'
      <3>1. LruHeld(lru[k], k)'
        BY <2>1, <2>5 DEF OneInv, LruHeld
      <3>2. LruDistance(k)'
        BY <2>1, <2>5 DEF OneInv, LruDistance, Near
      <3>3. BeladyKept(belady[k], k)' /\ BeladyKept(beladyFast[k], k)'
        BY <2>1, <2>3, <2>5 DEF OneInv, BeladyKept
      <3>4. BeladyAlike(belady[k], beladyFast[k])'
        BY <2>1, <2>3, <2>5 DEF OneInv, BeladyAlike
      <3>5. BeladyBest(k)'
        BY <2>1, <2>4, <2>5 DEF OneInv, BeladyBest, BestTypes, Unbeaten, Count, Tables, Unreachable
      <3>6. QED
        BY <3>1, <3>2, <3>3, <3>4, <3>5 DEF OneInv
    <2>6. ASSUME NEW g \in Gains, NEW k \in Caps, DlfuInv(g, k) PROVE DlfuInv(g, k)'
      <3>1. Seen' = Seen
        BY <2>1 DEF Seen, LastOf
      <3>2. QED
        BY <2>1, <2>6, <3>1 DEF DlfuInv, DlfuKept, KernelKept, Achieves, Tables
    <2>7. ASSUME NEW k \in Caps, NEW m \in Caps, PairInv(k, m) PROVE PairInv(k, m)'
      BY <2>1, <2>7 DEF PairInv, Achieves, Tables
    <2>8. ASSUME NEW k \in Caps, BeladyNested(belady[k], belady[k + 1])
          PROVE  BeladyNested(belady[k], belady[k + 1])'
      BY <2>1, <2>3, <2>8 DEF BeladyNested
    <2>9. QED
      BY <2>2, <2>5, <2>6, <2>7, <2>8 DEF ColdInv
  <1>3. QED
    BY <1>1, <1>2

\* Belady with bypass ends with as many hits as any cache that changes one
\* entry per miss, and check_summary holds.
LEMMA ColdOptimal == ASSUME ColdInv PROVE BeladyIsOptimal
  <1> SUFFICES ASSUME t = Length
      PROVE  (\A k \in Caps : belady[k].hits = Optimum(k)) /\ check_summary
    BY DEF BeladyIsOptimal
  <1>1. \A k \in Caps : OneInv(k)
    BY DEF ColdInv
  <1>2. \A k \in Caps : k \in Nat /\ k <= k
    BY Sizes
  <1>3. \A k \in Caps : k <= MaxK /\ k .. MaxK \subseteq Caps
    BY Sizes DEF Caps
  <1>4. ASSUME NEW k \in Caps
        PROVE  /\ \A X, h : Achieves(k, X, h) /\ h \in Int => h <= belady[k].hits
               /\ belady[k].hits = Optimum(k)
    <2>1. Achieves(k, ToSet(belady[k].resident), belady[k].hits)
      BY <1>2 DEF ColdInv, PairInv
    <2>2. StreamTypes /\ BeladyKept(belady[k], k) /\ BeladyBest(k)
      BY <1>1 DEF ColdInv, OneInv
    <2>3. QED
      BY <2>1, <2>2, BeladyOptimal
  <1>5. ASSUME NEW k \in Caps
        PROVE  belady[k].hits >= lru[k].hits /\ belady[k].hits \in Int
    <2>1. Achieves(k, ToSet(lru[k].resident), lru[k].hits)
      BY <1>2 DEF ColdInv, PairInv
    <2>2. lru[k].hits \in Int /\ belady[k].hits \in Int
      BY <1>1 DEF OneInv, LruHeld, LruRecords, PlainRecords, BeladyKept, BeladyRecords
    <2>3. QED
      BY <1>4, <2>1, <2>2
  <1>6. ASSUME NEW k \in Caps, NEW g \in Gains
        PROVE  belady[k].hits >= dlfu[g][k].hits
    <2>1. DlfuInv(g, k)
      BY DEF ColdInv
    <2>2. Achieves(k, dlfu[g][k].resident, dlfu[g][k].hits) /\ dlfu[g][k].hits \in Int
      BY <2>1 DEF DlfuInv, DlfuKept, ScoredRecords
    <2>3. QED
      BY <1>4, <1>5, <2>2
  <1>7. ASSUME NEW k \in Caps, NEW m \in k .. MaxK
        PROVE  lru[m].hits >= lru[k].hits /\ belady[m].hits >= belady[k].hits
    <2>1. m \in Caps /\ k <= m
      BY <1>2, <1>3
    <2>2. PairInv(k, m)
      BY <2>1 DEF ColdInv
    <2>3. lru[k].hits \in Int /\ lru[m].hits \in Int
      BY <1>1, <2>1 DEF OneInv, LruHeld, LruRecords, PlainRecords
    <2>4. belady[k].hits <= belady[m].hits /\ belady[k].hits \in Int /\ belady[m].hits \in Int
      BY <1>4, <1>5, <2>1, <2>2 DEF PairInv
    <2>5. QED
      BY <2>2, <2>3, <2>4 DEF PairInv
  <1>8. QED
    BY <1>4, <1>5, <1>6, <1>7 DEF check_summary

\* More capacity keeps what less would have hit.
LEMMA ColdGrows == ASSUME ColdInv PROVE HitsGrowWithCapacity
  <1> SUFFICES ASSUME NEW k \in Caps \ {MaxK}
      PROVE  /\ ToSet(lru[k].resident) \subseteq ToSet(lru[k + 1].resident)
             /\ {l \in ToSet(belady[k].resident) : belady[k].next[l] < Never}
                   \subseteq ToSet(belady[k + 1].resident)
    BY DEF HitsGrowWithCapacity
  <1>1. k \in Caps /\ k + 1 \in Caps /\ k <= k + 1
    BY Sizes DEF Caps
  <1>2. FenwickInv /\ LruSeq(lru[k].resident, k, fenwick.last)
        /\ LruSeq(lru[k + 1].resident, k + 1, fenwick.last)
    BY <1>1 DEF ColdInv, OneInv, LruHeld
  <1>3. ToSet(lru[k].resident) \subseteq ToSet(lru[k + 1].resident)
    BY <1>1, <1>2, LruIncluded
  <1>4. BeladyNested(belady[k], belady[k + 1]) /\ BeladyKept(belady[k], k)
    BY <1>1 DEF ColdInv, OneInv
  <1>5. \A l \in ToSet(belady[k].resident) :
            belady[k].next[l] < Never => l \in ToSet(belady[k + 1].resident)
    <2>1. \A l \in ToSet(belady[k].resident) : belady[k].next[l] = FirstUse(l, t)
      BY <1>4 DEF BeladyKept
    <2>2. Never \in Int
      BY Sizes DEF Never
    <2>3. \A l \in ToSet(belady[k].resident) :
              FirstUse(l, t) # Never => l \in ToSet(belady[k + 1].resident)
      BY <1>4 DEF BeladyNested
    <2>4. QED
      BY <2>1, <2>2, <2>3
  <1>6. QED
    BY <1>3, <1>5

\* The kernels agree with the references.
LEMMA ColdAgrees == ASSUME ColdInv PROVE KernelsAgree /\ LruHitsByReuseDistance
  <1>1. \A k \in Caps : OneInv(k) /\ \A g \in Gains : DlfuInv(g, k)
    BY DEF ColdInv
  <1>2. KernelsAgree
    BY <1>1 DEF OneInv, BeladyAlike, DlfuInv, KernelKept, KernelsAgree
  <1>3. LruHitsByReuseDistance
    BY <1>1, LruByDistance DEF ColdInv, OneInv
  <1>4. QED
    BY <1>2, <1>3

-----------------------------------------------------------------------------
(* The window oracle: no k leaves are requested more in a window than the  *)
(* k most frequent.                                                        *)

\* The requests of a stretch that leaves in X answer.
Served(X, from, to) == Cardinality({i \in from .. to : LeafAt(i) \in X})

\* Requests and Served are counts.
LEMMA ServedIs ==
  ASSUME NEW from \in Int, NEW to \in Int
  PROVE  /\ \A X : Served(X, from, to) \in Nat
         /\ \A l : Requests(l, from, to) \in Nat
         /\ \A X, Y : X \subseteq Y => Served(X, from, to) <= Served(Y, from, to)
         /\ from > to => \A X : Served(X, from, to) = 0
  <1>1. IsFiniteSet(from .. to)
    BY FS_Interval
  <1>2. ASSUME NEW S \in SUBSET (from .. to) PROVE IsFiniteSet(S) /\ Cardinality(S) \in Nat
    BY <1>1, FS_Subset, FS_CardinalityType
  <1>3. ASSUME NEW X PROVE Served(X, from, to) \in Nat
    <2>1. {i \in from .. to : LeafAt(i) \in X} \in SUBSET (from .. to)
      OBVIOUS
    <2>2. QED
      BY <1>2, <2>1 DEF Served
  <1>4. ASSUME NEW l PROVE Requests(l, from, to) \in Nat
    <2>1. {i \in from .. to : LeafAt(i) = l} \in SUBSET (from .. to)
      OBVIOUS
    <2>2. QED
      BY <1>2, <2>1 DEF Requests
  <1>5. ASSUME NEW X, NEW Y, X \subseteq Y PROVE Served(X, from, to) <= Served(Y, from, to)
    <2> DEFINE S == {i \in from .. to : LeafAt(i) \in X}
               T == {i \in from .. to : LeafAt(i) \in Y}
    <2>1. S \subseteq T /\ T \in SUBSET (from .. to)
      BY <1>5
    <2> HIDE DEF S, T
    <2>2. Cardinality(S) <= Cardinality(T)
      BY <1>2, <2>1, FS_Subset
    <2>3. QED
      BY <2>2 DEF Served, S, T
  <1>6. ASSUME from > to, NEW X PROVE Served(X, from, to) = 0
    <2>1. {i \in from .. to : LeafAt(i) \in X} = {}
      BY <1>6
    <2>2. QED
      BY <2>1, FS_EmptySet DEF Served
  <1>7. QED
    BY <1>3, <1>4, <1>5, <1>6

\* Stretches add up.
LEMMA ServedSplit ==
  ASSUME NEW X, NEW from \in Int, NEW to \in Int, NEW mid \in Int, from <= mid + 1, mid <= to
  PROVE  Served(X, from, to) = Served(X, from, mid) + Served(X, mid + 1, to)
  <1> DEFINE S == {i \in from .. mid : LeafAt(i) \in X}
             T == {i \in mid + 1 .. to : LeafAt(i) \in X}
             U == {i \in from .. to : LeafAt(i) \in X}
  <1>1. IsFiniteSet(S)
    <2>1. IsFiniteSet(from .. mid) /\ S \subseteq from .. mid
      BY FS_Interval
    <2> HIDE DEF S
    <2>2. QED
      BY <2>1, FS_Subset
  <1>2. IsFiniteSet(T)
    <2>1. IsFiniteSet(mid + 1 .. to) /\ T \subseteq mid + 1 .. to
      BY FS_Interval
    <2> HIDE DEF T
    <2>2. QED
      BY <2>1, FS_Subset
  <1>3. U = S \cup T /\ S \cap T = {}
    <2>1. \A i \in from .. to : i \in from .. mid \/ i \in mid + 1 .. to
      OBVIOUS
    <2>2. from .. mid \subseteq from .. to /\ mid + 1 .. to \subseteq from .. to
      OBVIOUS
    <2>3. (from .. mid) \cap (mid + 1 .. to) = {}
      OBVIOUS
    <2>4. QED
      BY <2>1, <2>2, <2>3
  <1> HIDE DEF S, T, U
  <1>4. Cardinality(S \cup T) = Cardinality(S) + Cardinality(T) - Cardinality(S \cap T)
    BY <1>1, <1>2, FS_Union
  <1>5. Cardinality(S) \in Nat /\ Cardinality(T) \in Nat /\ Cardinality(S \cap T) = 0
    BY <1>1, <1>2, <1>3, FS_CardinalityType, FS_EmptySet
  <1>6. QED
    BY <1>3, <1>4, <1>5 DEF Served, S, T, U

\* One more request.
LEMMA ServedOne ==
  ASSUME NEW X, NEW i \in Int
  PROVE  Served(X, i, i) = IF LeafAt(i) \in X THEN 1 ELSE 0
  <1>1. i .. i = {i}
    OBVIOUS
  <1>2. CASE LeafAt(i) \in X
    <2>1. {j \in i .. i : LeafAt(j) \in X} = {i}
      BY <1>1, <1>2
    <2>2. QED
      BY <1>2, <2>1, FS_Singleton DEF Served
  <1>3. CASE LeafAt(i) \notin X
    <2>1. {j \in i .. i : LeafAt(j) \in X} = {}
      BY <1>1, <1>3
    <2>2. QED
      BY <1>3, <2>1, FS_EmptySet DEF Served
  <1>4. QED
    BY <1>2, <1>3

\* One more leaf.
LEMMA ServedAdds ==
  ASSUME NEW X, NEW m, m \notin X, NEW from \in Int, NEW to \in Int
  PROVE  Served(X \cup {m}, from, to) = Served(X, from, to) + Requests(m, from, to)
  <1> DEFINE S == {i \in from .. to : LeafAt(i) \in X}
             T == {i \in from .. to : LeafAt(i) = m}
             U == {i \in from .. to : LeafAt(i) \in X \cup {m}}
  <1>1. IsFiniteSet(S) /\ IsFiniteSet(T)
    <2>1. IsFiniteSet(from .. to) /\ S \subseteq from .. to /\ T \subseteq from .. to
      BY FS_Interval
    <2> HIDE DEF S, T
    <2>2. QED
      BY <2>1, FS_Subset
  <1>2. U = S \cup T /\ S \cap T = {}
    OBVIOUS
  <1> HIDE DEF S, T, U
  <1>3. Cardinality(S \cup T) = Cardinality(S) + Cardinality(T) - Cardinality(S \cap T)
    BY <1>1, FS_Union
  <1>4. Cardinality(S) \in Nat /\ Cardinality(T) \in Nat /\ Cardinality(S \cap T) = 0
    BY <1>1, <1>2, FS_CardinalityType, FS_EmptySet
  <1>5. /\ Served(X \cup {m}, from, to) = Cardinality(U)
        /\ Served(X, from, to) = Cardinality(S)
        /\ Requests(m, from, to) = Cardinality(T)
    BY DEF Served, Requests, S, T, U
  <1>6. QED
    BY <1>2, <1>3, <1>4, <1>5

\* The order of a window.
LEMMA AheadIs ==
  ASSUME NEW from \in Int, NEW to \in Int, NEW m, NEW l
  PROVE  Ahead(m, l, from, to) <=>
            \/ Requests(m, from, to) > Requests(l, from, to)
            \/ Requests(m, from, to) = Requests(l, from, to) /\ m < l
  BY ServedIs DEF Ahead

\* A set of leaves has one ahead of the others, and one behind them.
LEMMA FirstAndLast ==
  ASSUME NEW from \in Int, NEW to \in Int, NEW X \in SUBSET Leaves, X # {}
  PROVE  /\ \E v \in X : \A x \in X \ {v} : Ahead(v, x, from, to)
         /\ \E v \in X : \A x \in X \ {v} : Ahead(x, v, from, to)
  <1> DEFINE r[x \in Leaves] == Requests(x, from, to)
  <1>0. /\ \A x \in Leaves : r[x] = Requests(x, from, to) /\ r[x] \in Nat
        /\ X \subseteq 0 .. NumLeaves - 1 /\ NumLeaves - 1 \in Nat
        /\ \A x \in X : x \in Nat /\ x \in Leaves
    BY Sizes, ServedIs DEF Leaves
  <1> HIDE DEF r
  <1>1. \A x, y \in X : Ahead(x, y, from, to) <=> r[x] > r[y] \/ (r[x] = r[y] /\ x < y)
    BY <1>0, AheadIs
  <1>2. \A S \in SUBSET X : S # {} => /\ \E x \in S : \A y \in S : x <= y
                                      /\ \E x \in S : \A y \in S : y <= x
    <2> SUFFICES ASSUME NEW S \in SUBSET X, S # {}
        PROVE  (\E x \in S : \A y \in S : x <= y) /\ \E x \in S : \A y \in S : y <= x
      OBVIOUS
    <2>1. S \in SUBSET (0 .. NumLeaves - 1)
      BY <1>0
    <2>2. QED
      BY <1>0, <2>1, Least, Greatest
  <1>3. \E a \in X : \A x \in X : r[x] <= r[a]
    <2>1. PICK top \in Nat : \A x \in X : r[x] <= top
      <3>1. IsFiniteSet(from .. to)
        BY FS_Interval
      <3>2. ASSUME NEW x \in X PROVE r[x] <= Cardinality(from .. to)
        <4>1. PICK S : S = {i \in from .. to : LeafAt(i) = x}
          OBVIOUS
        <4>2. Cardinality(S) <= Cardinality(from .. to)
          BY <3>1, <4>1, FS_Subset
        <4>3. r[x] = Cardinality(S)
          BY <1>0, <4>1 DEF Requests
        <4>4. QED
          BY <4>2, <4>3
      <3>3. QED
        BY <3>1, <3>2, FS_CardinalityType
    <2> DEFINE S == {r[x] : x \in X}
    <2>0. \A x \in X : r[x] \in 0 .. top
      BY <1>0, <2>1
    <2>2. S \in SUBSET (0 .. top) /\ S # {}
      BY <2>0
    <2>3. \A y \in S : \E x \in X : y = r[x]
      OBVIOUS
    <2>4. \A x \in X : r[x] \in S
      OBVIOUS
    <2> HIDE DEF S
    <2>5. PICK m \in S : \A y \in S : y <= m
      BY <2>1, <2>2, Greatest
    <2>6. QED
      BY <2>3, <2>4, <2>5
  <1>4. \E a \in X : \A x \in X : r[a] <= r[x]
    <2>1. PICK z \in X : TRUE
      OBVIOUS
    <2> DEFINE S == {y \in {r[x] : x \in X} : y <= r[z]}
    <2>2. r[z] \in Nat /\ S \in SUBSET (0 .. r[z]) /\ r[z] \in S
      BY <1>0
    <2>3. \A y \in S : \E x \in X : y = r[x]
      OBVIOUS
    <2>4. \A x \in X : r[x] <= r[z] => r[x] \in S
      OBVIOUS
    <2> HIDE DEF S
    <2>5. PICK m \in S : \A y \in S : m <= y
      BY <2>2, Least
    <2>6. PICK x \in X : m = r[x]
      BY <2>3
    <2>7. \A y \in X : r[x] <= r[y]
      BY <1>0, <2>2, <2>4, <2>5, <2>6
    <2>8. QED
      BY <2>7
  <1>5. \E v \in X : \A x \in X \ {v} : Ahead(v, x, from, to)
    <2>1. PICK a \in X : \A x \in X : r[x] <= r[a]
      BY <1>3
    <2>2. PICK S : S = {x \in X : r[x] = r[a]}
      OBVIOUS
    <2>3. PICK v \in S : \A y \in S : v <= y
      <3>1. S \in SUBSET X /\ S # {}
        BY <2>2
      <3>2. QED
        BY <1>2, <3>1
    <2>4. ASSUME NEW x \in X \ {v} PROVE r[v] > r[x] \/ (r[v] = r[x] /\ v < x)
      <3>1. v \in X /\ r[v] = r[a] /\ r[x] <= r[a] /\ r[x] \in Nat /\ r[a] \in Nat /\ v \in Nat /\ x \in Nat /\ x # v
        BY <1>0, <2>1, <2>2
      <3>2. r[x] = r[a] => v <= x
        BY <2>2, <2>3
      <3>3. QED
        BY <3>1, <3>2
    <2>5. v \in X
      BY <2>2
    <2>6. QED
      BY <1>1, <2>4, <2>5
  <1>6. \E v \in X : \A x \in X \ {v} : Ahead(x, v, from, to)
    <2>1. PICK a \in X : \A x \in X : r[a] <= r[x]
      BY <1>4
    <2>2. PICK S : S = {x \in X : r[x] = r[a]}
      OBVIOUS
    <2>3. PICK v \in S : \A y \in S : y <= v
      <3>1. S \in SUBSET X /\ S # {}
        BY <2>2
      <3>2. QED
        BY <1>2, <3>1
    <2>4. ASSUME NEW x \in X \ {v} PROVE r[x] > r[v] \/ (r[x] = r[v] /\ x < v)
      <3>1. v \in X /\ r[v] = r[a] /\ r[a] <= r[x] /\ r[x] \in Nat /\ r[a] \in Nat /\ v \in Nat /\ x \in Nat /\ x # v
        BY <1>0, <2>1, <2>2
      <3>2. r[x] = r[a] => x <= v
        BY <2>2, <2>3
      <3>3. QED
        BY <3>1, <3>2
    <2>5. v \in X
      BY <2>2
    <2>6. QED
      BY <1>1, <2>4, <2>5
  <1>7. QED
    BY <1>5, <1>6

\* The leaves of a stretch, in the order of the oracle, are a strict line.
LEMMA AheadOrder ==
  ASSUME NEW from \in Int, NEW to \in Int, NEW x \in Leaves, NEW y \in Leaves
  PROVE  /\ ~Ahead(x, x, from, to)
         /\ Ahead(x, y, from, to) => ~Ahead(y, x, from, to) /\ x # y
         /\ \A z \in Leaves :
                Ahead(x, y, from, to) /\ Ahead(y, z, from, to) => Ahead(x, z, from, to)
         /\ Ahead(x, y, from, to) => Requests(x, from, to) >= Requests(y, from, to)
  <1>1. \A l \in Leaves : l \in Nat /\ Requests(l, from, to) \in Nat
    BY Sizes, ServedIs DEF Leaves
  <1>2. \A m, l \in Leaves :
            Ahead(m, l, from, to) <=>
                \/ Requests(m, from, to) > Requests(l, from, to)
                \/ Requests(m, from, to) = Requests(l, from, to) /\ m < l
    BY AheadIs
  <1>3. PICK p, q \in Nat : p = Requests(x, from, to) /\ q = Requests(y, from, to)
    BY <1>1
  <1>4. x \in Nat /\ y \in Nat
    BY <1>1
  <1>5. Ahead(x, y, from, to) <=> p > q \/ (p = q /\ x < y)
    BY <1>2, <1>3
  <1>6. Ahead(y, x, from, to) <=> q > p \/ (q = p /\ y < x)
    BY <1>2, <1>3
  <1>7. ~Ahead(x, x, from, to)
    BY <1>2, <1>3, <1>4
  <1>8. ASSUME NEW z \in Leaves, Ahead(x, y, from, to), Ahead(y, z, from, to)
        PROVE  Ahead(x, z, from, to)
    <2>1. PICK r \in Nat : r = Requests(z, from, to)
      BY <1>1
    <2>2. z \in Nat /\ (q > r \/ (q = r /\ y < z)) /\ (p > q \/ (p = q /\ x < y))
      BY <1>1, <1>2, <1>3, <1>5, <1>8, <2>1
    <2>3. p > r \/ (p = r /\ x < z)
      BY <1>4, <2>2
    <2>4. QED
      BY <1>2, <1>3, <2>1, <2>3
  <1>9. QED
    BY <1>3, <1>4, <1>5, <1>6, <1>7, <1>8

\* The leaves ahead of another, and how many there are.
LEMMA AheadSet ==
  ASSUME NEW from \in Int, NEW to \in Int, NEW k \in Nat, NEW l \in Leaves
  PROVE  \E A \in SUBSET Leaves :
            /\ \A m \in Leaves : m \in A <=> Ahead(m, l, from, to)
            /\ l \in MostFrequent(k, from, to) <=> Requests(l, from, to) > 0 /\ Cardinality(A) < k
  <1>1. PICK A : A = {m \in Leaves : Ahead(m, l, from, to)}
    OBVIOUS
  <1>2. l \in MostFrequent(k, from, to) <=> Requests(l, from, to) > 0 /\ Cardinality(A) < k
    BY <1>1 DEF MostFrequent
  <1>3. A \in SUBSET Leaves /\ \A m \in Leaves : m \in A <=> Ahead(m, l, from, to)
    BY <1>1
  <1>4. QED
    BY <1>2, <1>3

\* Sets of leaves are finite.
LEMMA LeavesCount ==
  ASSUME NEW X \in SUBSET Leaves
  PROVE  /\ IsFiniteSet(X) /\ Cardinality(X) \in Nat /\ Cardinality(X) <= NumLeaves
         /\ \A Y \in SUBSET X : Cardinality(Y) \in Nat /\ Cardinality(Y) <= Cardinality(X)
         /\ \A x \in X : Cardinality(X \ {x}) = Cardinality(X) - 1
         /\ \A x \in Leaves \ X : Cardinality(X \cup {x}) = Cardinality(X) + 1
  <1>1. IsFiniteSet(Leaves) /\ Cardinality(Leaves) = NumLeaves
    <2>1. 0 \in Int /\ NumLeaves - 1 \in Int /\ 0 <= NumLeaves - 1
      BY Sizes
    <2>2. IsFiniteSet(0 .. NumLeaves - 1)
          /\ Cardinality(0 .. NumLeaves - 1) = (NumLeaves - 1) - 0 + 1
      BY <2>1, FS_Interval
    <2>3. QED
      BY <2>2, Sizes DEF Leaves
  <1>2. IsFiniteSet(X) /\ Cardinality(X) <= NumLeaves
    BY <1>1, FS_Subset
  <1>3. Cardinality(X) \in Nat
    BY <1>2, FS_CardinalityType
  <1>4. \A Y \in SUBSET X : Cardinality(Y) \in Nat /\ Cardinality(Y) <= Cardinality(X)
    BY <1>2, FS_Subset, FS_CardinalityType
  <1>5. \A x \in X : Cardinality(X \ {x}) = Cardinality(X) - 1
    BY <1>2, FS_RemoveElement
  <1>6. \A x \in Leaves \ X : Cardinality(X \cup {x}) = Cardinality(X) + 1
    BY <1>2, FS_AddElement
  <1>7. QED
    BY <1>2, <1>3, <1>4, <1>5, <1>6

\* The table of a window has at most k leaves.
LEMMA MostFrequentFits ==
  ASSUME NEW from \in Int, NEW to \in Int, NEW k \in Nat
  PROVE  /\ MostFrequent(k, from, to) \in SUBSET Leaves
         /\ Cardinality(MostFrequent(k, from, to)) <= k
  <1>1. PICK T : T = MostFrequent(k, from, to)
    OBVIOUS
  <1>2. T \in SUBSET Leaves
    BY <1>1 DEF MostFrequent
  <1>3. CASE T = {}
    <2>1. Cardinality(T) = 0
      BY <1>3, FS_EmptySet
    <2>2. QED
      BY <1>1, <1>2, <2>1
  <1>4. CASE T # {}
    <2>1. PICK v \in T : \A x \in T \ {v} : Ahead(x, v, from, to)
      BY <1>2, <1>4, FirstAndLast
    <2>2. v \in Leaves
      BY <1>2
    <2>3. PICK A \in SUBSET Leaves :
            /\ \A m \in Leaves : m \in A <=> Ahead(m, v, from, to)
            /\ v \in MostFrequent(k, from, to)
                 <=> Requests(v, from, to) > 0 /\ Cardinality(A) < k
      BY <2>2, AheadSet
    <2>4. Cardinality(A) < k
      BY <1>1, <2>3
    <2>5. T \ {v} \in SUBSET A
      BY <1>2, <2>1, <2>3
    <2>6. Cardinality(T \ {v}) <= Cardinality(A) /\ Cardinality(A) \in Nat
          /\ Cardinality(T \ {v}) \in Nat
      BY <2>5, LeavesCount
    <2>7. Cardinality(T \ {v}) = Cardinality(T) - 1 /\ Cardinality(T) \in Nat
      BY <1>2, LeavesCount
    <2>8. Cardinality(T) <= k
      BY <2>4, <2>6, <2>7
    <2>9. QED
      BY <1>1, <1>2, <2>8
  <1>5. QED
    BY <1>3, <1>4

\* Taking a leaf out, and another in.
LEMMA ServedSwap ==
  ASSUME NEW from \in Int, NEW to \in Int, NEW X \in SUBSET Leaves, NEW x \in X
  PROVE  /\ Served(X, from, to) = Served(X \ {x}, from, to) + Requests(x, from, to)
         /\ \A m \in Leaves \ X :
                Served((X \ {x}) \cup {m}, from, to)
                    = Served(X \ {x}, from, to) + Requests(m, from, to)
  <1>1. (X \ {x}) \cup {x} = X /\ x \notin X \ {x}
    OBVIOUS
  <1>2. Served((X \ {x}) \cup {x}, from, to)
          = Served(X \ {x}, from, to) + Requests(x, from, to)
    BY <1>1, ServedAdds
  <1>3. \A m \in Leaves \ X :
            Served((X \ {x}) \cup {m}, from, to)
                = Served(X \ {x}, from, to) + Requests(m, from, to)
    BY ServedAdds
  <1>4. QED
    BY <1>1, <1>2, <1>3

\* One exchange: a table that is not within the most frequent leaves is no
\* better than one that is a leaf nearer to them.
LEMMA Nearer ==
  ASSUME NEW from \in Int, NEW to \in Int, NEW k \in Nat, NEW X \in SUBSET Leaves,
         Cardinality(X) <= k, NEW x \in X, x \notin MostFrequent(k, from, to)
  PROVE  \E Z \in SUBSET Leaves :
            /\ Cardinality(Z) <= k
            /\ Cardinality(Z \ MostFrequent(k, from, to))
                 = Cardinality(X \ MostFrequent(k, from, to)) - 1
            /\ Served(X, from, to) <= Served(Z, from, to)
  <1>1. PICK T : T = MostFrequent(k, from, to)
    OBVIOUS
  <1>2. x \in Leaves /\ x \notin T /\ X \ {x} \in SUBSET Leaves /\ X \ T \in SUBSET Leaves
        /\ x \in X \ T
    BY <1>1
  <1>3. PICK a \in Nat : a = Requests(x, from, to)
    BY ServedIs
  <1>4. PICK p \in Nat : p = Served(X \ {x}, from, to)
    BY ServedIs
  <1>5. Served(X, from, to) = p + a
    BY <1>3, <1>4, ServedSwap
  <1>6. Cardinality(X \ {x}) = Cardinality(X) - 1 /\ Cardinality(X) \in Nat
    BY LeavesCount
  <1>7. Cardinality((X \ T) \ {x}) = Cardinality(X \ T) - 1
    BY <1>2, LeavesCount
  <1>8. CASE a = 0
    <2>1. (X \ {x}) \ T = (X \ T) \ {x}
      OBVIOUS
    <2>2. Cardinality(X \ {x}) <= k
      BY <1>6
    <2>3. Served(X, from, to) <= Served(X \ {x}, from, to)
      BY <1>4, <1>5, <1>8
    <2>4. QED
      BY <1>1, <1>2, <1>7, <2>1, <2>2, <2>3
  <1>9. CASE a > 0
    <2>1. PICK A \in SUBSET Leaves :
            /\ \A m \in Leaves : m \in A <=> Ahead(m, x, from, to)
            /\ x \in MostFrequent(k, from, to)
                 <=> Requests(x, from, to) > 0 /\ Cardinality(A) < k
      BY <1>2, AheadSet
    <2>2. ~(Cardinality(A) < k)
      BY <1>1, <1>2, <1>3, <1>9, <2>1
    <2>3. A \ X # {}
      <3>1. SUFFICES ASSUME A \subseteq X PROVE FALSE
        OBVIOUS
      <3>2. x \notin A
        BY <1>2, <2>1, AheadOrder
      <3>3. A \in SUBSET (X \ {x})
        BY <3>1, <3>2
      <3>4. Cardinality(A) <= Cardinality(X \ {x}) /\ Cardinality(A) \in Nat
        BY <1>2, <3>3, LeavesCount
      <3>5. QED
        BY <1>6, <2>2, <3>4
    <2>4. PICK m \in A \ X : \A y \in (A \ X) \ {m} : Ahead(m, y, from, to)
      <3>1. A \ X \in SUBSET Leaves
        OBVIOUS
      <3>2. QED
        BY <2>3, <3>1, FirstAndLast
    <2>5. m \in Leaves /\ m \notin X /\ m \in A /\ Ahead(m, x, from, to)
      BY <2>1, <2>4
    <2>6. PICK B \in SUBSET Leaves :
            /\ \A y \in Leaves : y \in B <=> Ahead(y, m, from, to)
            /\ m \in MostFrequent(k, from, to)
                 <=> Requests(m, from, to) > 0 /\ Cardinality(B) < k
      BY <2>5, AheadSet
    <2>7. B \in SUBSET (X \ {x})
      <3>1. SUFFICES ASSUME NEW y \in B PROVE y \in X \ {x}
        OBVIOUS
      <3>2. y \in Leaves /\ Ahead(y, m, from, to)
        BY <2>6, <3>1
      <3>3. y \in A
        <4>1. Ahead(y, x, from, to)
          BY <1>2, <2>5, <3>2, AheadOrder
        <4>2. QED
          BY <2>1, <3>2, <4>1
      <3>4. y # m /\ ~Ahead(m, y, from, to)
        BY <2>5, <3>2, AheadOrder
      <3>5. y \in X
        BY <2>4, <3>3, <3>4
      <3>6. y # x
        BY <1>2, <2>5, <3>2, AheadOrder
      <3>7. QED
        BY <3>5, <3>6
    <2>8. Cardinality(B) < k
      <3>1. Cardinality(B) <= Cardinality(X \ {x}) /\ Cardinality(B) \in Nat
        BY <1>2, <2>7, LeavesCount
      <3>2. QED
        BY <1>6, <3>1
    <2>9. PICK b \in Nat : b = Requests(m, from, to)
      BY ServedIs
    <2>10. b >= a
      BY <1>2, <1>3, <2>5, <2>9, AheadOrder
    <2>11. m \in T
      BY <1>1, <1>9, <2>6, <2>8, <2>9, <2>10
    <2>12. PICK Z : Z = (X \ {x}) \cup {m}
      OBVIOUS
    <2>13. Z \in SUBSET Leaves /\ Z \ T = (X \ T) \ {x}
      BY <2>5, <2>11, <2>12
    <2>14. Cardinality(Z) <= k
      <3>1. m \in Leaves \ (X \ {x})
        BY <2>5
      <3>2. Cardinality(Z) = Cardinality(X \ {x}) + 1
        BY <1>2, <2>12, <3>1, LeavesCount
      <3>3. QED
        BY <1>6, <3>2
    <2>15. Served(Z, from, to) = p + b
      BY <1>4, <2>5, <2>9, <2>12, ServedSwap
    <2>16. Served(X, from, to) <= Served(Z, from, to)
      BY <1>5, <2>10, <2>15
    <2>17. QED
      BY <1>1, <1>7, <2>13, <2>14, <2>16
  <1>10. a = 0 \/ a > 0
    BY <1>3
  <1>11. QED
    BY <1>8, <1>9, <1>10

\* No k leaves are requested more often in a stretch than the k most frequent.
LEMMA MostFrequentServesMost ==
  ASSUME NEW from \in Int, NEW to \in Int, NEW k \in Nat, NEW X \in SUBSET Leaves,
         Cardinality(X) <= k
  PROVE  Served(X, from, to) <= Served(MostFrequent(k, from, to), from, to)
  <1>1. PICK T : T = MostFrequent(k, from, to)
    OBVIOUS
  <1>2. PICK s \in Nat : s = Served(T, from, to)
    BY ServedIs
  <1> DEFINE Beats(n) == \E Y \in SUBSET Leaves :
                            /\ Cardinality(Y) <= k /\ Cardinality(Y \ T) = n
                            /\ s < Served(Y, from, to)
             N == {n \in 0 .. NumLeaves : Beats(n)}
  <1>3. SUFFICES ASSUME ~(Served(X, from, to) <= s) PROVE FALSE
    BY <1>1, <1>2
  <1>4. NumLeaves \in Nat /\ N \in SUBSET (0 .. NumLeaves)
    BY Sizes
  <1>5. \A Y \in SUBSET Leaves : Cardinality(Y \ T) \in 0 .. NumLeaves
    <2>1. ASSUME NEW Y \in SUBSET Leaves PROVE Cardinality(Y \ T) \in 0 .. NumLeaves
      <3>1. Y \ T \in SUBSET Leaves
        OBVIOUS
      <3>2. Cardinality(Y \ T) \in Nat /\ Cardinality(Y \ T) <= NumLeaves
        BY <3>1, LeavesCount
      <3>3. QED
        BY <1>4, <3>2
    <2>2. QED
      BY <2>1
  <1>6. N # {}
    <2>1. s < Served(X, from, to)
      BY <1>2, <1>3, ServedIs
    <2>2. Cardinality(X \ T) \in 0 .. NumLeaves
      BY <1>5
    <2>3. Beats(Cardinality(X \ T))
      BY <2>1
    <2> HIDE DEF Beats
    <2>4. QED
      BY <2>2, <2>3
  <1>7. PICK n \in N : \A i \in N : n <= i
    <2> HIDE DEF N
    <2>1. QED
      BY <1>4, <1>6, Least
  <1>8. PICK Y \in SUBSET Leaves : /\ Cardinality(Y) <= k /\ Cardinality(Y \ T) = n
                                   /\ s < Served(Y, from, to)
    BY <1>7
  <1>9. Y \ T # {}
    <2>1. SUFFICES ASSUME Y \subseteq T PROVE FALSE
      OBVIOUS
    <2>2. Served(Y, from, to) <= Served(T, from, to) /\ Served(Y, from, to) \in Nat
      BY <2>1, ServedIs
    <2>3. QED
      BY <1>2, <1>8, <2>2
  <1>10. PICK x \in Y : x \notin T
    BY <1>9
  <1>11. PICK Z \in SUBSET Leaves :
            /\ Cardinality(Z) <= k
            /\ Cardinality(Z \ T) = Cardinality(Y \ T) - 1
            /\ Served(Y, from, to) <= Served(Z, from, to)
    BY <1>1, <1>8, <1>10, Nearer
  <1>12. s < Served(Z, from, to)
    <2>1. Served(Y, from, to) \in Nat /\ Served(Z, from, to) \in Nat
      BY ServedIs
    <2>2. QED
      BY <1>8, <1>11, <2>1
  <1>13. n - 1 \in N
    <2>1. Cardinality(Z \ T) = n - 1
      BY <1>8, <1>11
    <2>2. n - 1 \in 0 .. NumLeaves
      BY <1>5, <2>1
    <2>3. Beats(n - 1)
      BY <1>11, <1>12, <2>1
    <2> HIDE DEF Beats
    <2>4. QED
      BY <2>2, <2>3
  <1>14. n <= n - 1 /\ n \in Nat
    BY <1>7, <1>13
  <1>15. QED
    BY <1>14

-----------------------------------------------------------------------------
(* The window oracle at work.                                              *)

\* The table of a window, and the places where it is counted.
LEMMA TopIs ==
  ASSUME NEW k \in Nat, NEW w \in 0 .. Length
  PROVE  /\ Top(k, w) \in LeafSets /\ Cardinality(Top(k, w)) <= k
         /\ w + Window <= Length => Top(k, w) = MostFrequent(k, w, (w + Window) - 1)
         /\ w + Window > Length => Top(k, w) = MostFrequent(k, w, Length - 1)
  <1>0. Window \in Nat /\ Length \in Nat /\ w \in Nat /\ w + Window \in Nat
    BY Sizes
  <1>1. PICK m : m = Min({w + Window, Length})
    OBVIOUS
  <1>2. m \in {w + Window, Length} /\ \A y \in {w + Window, Length} : m <= y
    <2>1. {w + Window, Length} \in SUBSET (0 .. w + Window + Length)
      BY <1>0
    <2>2. w + Window + Length \in Nat /\ {w + Window, Length} # {}
      BY <1>0
    <2>3. QED
      BY <1>1, <2>1, <2>2, MinIs
  <1>3. m \in Nat /\ m - 1 \in Int /\ w \in Int
    BY <1>0, <1>2
  <1>4. Top(k, w) = MostFrequent(k, w, m - 1)
    BY <1>1 DEF Top
  <1>5. Top(k, w) \in LeafSets /\ Cardinality(Top(k, w)) <= k
    BY <1>3, <1>4, MostFrequentFits DEF LeafSets
  <1>6. w + Window <= Length => Top(k, w) = MostFrequent(k, w, (w + Window) - 1)
    <2>1. w + Window <= Length => m = w + Window
      BY <1>0, <1>2
    <2>2. QED
      BY <1>4, <2>1, Zenon
  <1>7. w + Window > Length => Top(k, w) = MostFrequent(k, w, Length - 1)
    <2>1. w + Window > Length => m = Length
      BY <1>0, <1>2
    <2>2. QED
      BY <1>4, <2>1, Zenon
  <1>8. QED
    BY <1>5, <1>6, <1>7, Zenon

\* Loading another table.
LEMMA OracleReload ==
  ASSUME NEW c \in PlainRecords(LeafSets), NEW new \in LeafSets,
         c.inserts - c.evictions = Cardinality(c.resident)
  PROVE  LET d == Reloaded(c, new) IN
         /\ d \in PlainRecords(LeafSets) /\ d.hits = c.hits /\ d.resident = new
         /\ d.inserts - d.evictions = Cardinality(new)
  <1>0. c.resident \in SUBSET Leaves /\ new \in SUBSET Leaves
        /\ c.hits \in Nat /\ c.inserts \in Nat /\ c.evictions \in Nat
    BY DEF PlainRecords, LeafSets
  <1>1. PICK r : r = c.resident
    OBVIOUS
  <1>2. PICK i, e \in Nat : i = Cardinality(new \ r) /\ e = Cardinality(r \ new)
    BY <1>0, <1>1, LeavesCount
  <1>3. IsFiniteSet(r) /\ IsFiniteSet(new) /\ Cardinality(r) \in Nat /\ Cardinality(new) \in Nat
    BY <1>0, <1>1, LeavesCount
  <1>4. PICK both \in Nat : both = Cardinality(r \cap new)
    <2>1. r \cap new \in SUBSET r
      OBVIOUS
    <2>2. QED
      BY <1>0, <1>1, <2>1, LeavesCount
  <1>5. i = Cardinality(new) - both /\ e = Cardinality(r) - both
    <2>1. new \cap r = r \cap new
      OBVIOUS
    <2>2. Cardinality(new \ r) = Cardinality(new) - Cardinality(new \cap r)
      BY <1>3, FS_Difference
    <2>3. Cardinality(r \ new) = Cardinality(r) - Cardinality(r \cap new)
      BY <1>3, FS_Difference
    <2>4. QED
      BY <1>2, <1>4, <2>1, <2>2, <2>3
  <1>6. c.inserts + i \in Nat /\ c.evictions + e \in Nat
    BY <1>0, <1>2
  <1>7. PICK d : d = [c EXCEPT !.inserts = c.inserts + i, !.evictions = c.evictions + e,
                               !.resident = new]
    OBVIOUS
  <1>8. d = Reloaded(c, new)
    BY <1>1, <1>2, <1>7 DEF Reloaded
  <1>9. /\ d \in PlainRecords(LeafSets) /\ d.hits = c.hits /\ d.resident = new
        /\ d.inserts = c.inserts + i /\ d.evictions = c.evictions + e
    BY <1>6, <1>7, Zenon DEF PlainRecords
  <1>10. d.inserts - d.evictions = Cardinality(new)
    <2>1. c.inserts - c.evictions = Cardinality(r)
      BY <1>1
    <2>2. QED
      BY <1>0, <1>2, <1>3, <1>4, <1>5, <1>9, <2>1
  <1>11. QED
    BY <1>8, <1>9, <1>10

\* What the cache of a window, begun at w, has served.
BeatsFixed(c, k, w, n) ==
    \A S \in LeafSets :
        Cardinality(S) <= k => Served(S, 0, w - 1) + Served(Top(k, w), w, n - 1) <= c.hits

\* The oracle's cache after n queries, in the window that begins at w.
OracleCounts(c, k, n) ==
    /\ c \in PlainRecords(LeafSets) /\ Cardinality(c.resident) <= k /\ c.hits <= n
    /\ c.inserts - c.evictions = Cardinality(c.resident)

InWindow(c, k, w, n) == n # w => c.resident = Top(k, w)

\* One query.
LEMMA OracleMoves ==
  ASSUME NEW k \in Caps, NEW c, OracleCounts(c, k, t), t \in 0 .. Length - 1, LeafAt(t) \in Leaves,
         NEW w \in 0 .. t, (t % Window = 0) <=> (w = t), InWindow(c, k, w, t),
         NEW d, d = OracleAccess(c, k, LeafAt(t))
  PROVE  /\ OracleCounts(d, k, t + 1) /\ d.resident = Top(k, w)
         /\ d.hits = c.hits + Served(Top(k, w), t, t)
  <1>0. k \in Nat /\ t \in Nat /\ w \in 0 .. Length /\ t \in Int
    BY Sizes
  <1>1. PICK T : T = Top(k, w)
    OBVIOUS
  <1>2. T \in LeafSets /\ Cardinality(T) <= k
    BY <1>0, <1>1, TopIs
  <1>3. PICK e : e = IF t % Window = 0 THEN Reloaded(c, Top(k, t)) ELSE c
    OBVIOUS
  <1>4. /\ e \in PlainRecords(LeafSets) /\ e.hits = c.hits /\ e.resident = T
        /\ e.inserts - e.evictions = Cardinality(T)
    <2>1. CASE t % Window = 0
      <3>1. e = Reloaded(c, T)
        BY <1>1, <1>3, <2>1
      <3>2. c \in PlainRecords(LeafSets) /\ c.inserts - c.evictions = Cardinality(c.resident)
        BY DEF OracleCounts
      <3>3. QED
        BY <1>2, <3>1, <3>2, OracleReload
    <2>2. CASE t % Window # 0
      <3>1. e = c /\ c.resident = T
        BY <1>1, <1>3, <2>2 DEF InWindow
      <3>2. QED
        BY <3>1 DEF OracleCounts
    <2>3. QED
      BY <2>1, <2>2
  <1>5. d = IF LeafAt(t) \in e.resident THEN Hit(e) ELSE Bypass(e)
    BY <1>3 DEF OracleAccess
  <1>6. Served(T, t, t) = IF LeafAt(t) \in T THEN 1 ELSE 0
    BY <1>0, ServedOne
  <1>7. c.hits \in Nat /\ c.hits <= t
    BY DEF OracleCounts, PlainRecords
  <1>8. CASE LeafAt(t) \in T
    <2>1. d = Hit(e)
      BY <1>4, <1>5, <1>8
    <2>2. /\ d \in PlainRecords(LeafSets) /\ d.hits = e.hits + 1 /\ d.inserts = e.inserts
          /\ d.evictions = e.evictions /\ d.resident = e.resident
      BY <1>4, <2>1, PlainHit
    <2>3. d.hits = c.hits + 1 /\ d.hits <= t + 1
      BY <1>0, <1>4, <1>7, <2>2
    <2>4. Served(T, t, t) = 1
      BY <1>6, <1>8
    <2>5. d.inserts - d.evictions = Cardinality(d.resident)
      BY <1>4, <2>2
    <2>6. QED
      BY <1>1, <1>2, <1>4, <2>2, <2>3, <2>4, <2>5 DEF OracleCounts
  <1>9. CASE LeafAt(t) \notin T
    <2>1. d = Bypass(e)
      BY <1>4, <1>5, <1>9
    <2>2. /\ d \in PlainRecords(LeafSets) /\ d.hits = e.hits /\ d.inserts = e.inserts
          /\ d.evictions = e.evictions /\ d.resident = e.resident
      BY <1>4, <2>1, PlainBypass
    <2>3. d.hits = c.hits + 0 /\ d.hits <= t + 1
      BY <1>0, <1>4, <1>7, <2>2
    <2>4. Served(T, t, t) = 0
      BY <1>6, <1>9
    <2>5. d.inserts - d.evictions = Cardinality(d.resident)
      BY <1>4, <2>2
    <2>6. QED
      BY <1>1, <1>2, <1>4, <2>2, <2>3, <2>4, <2>5 DEF OracleCounts
  <1>10. QED
    BY <1>8, <1>9

\* A table kept from the start and through the window of w serves no more.
LEMMA FixedIsBeaten ==
  ASSUME NEW k \in Nat, NEW S \in LeafSets, Cardinality(S) <= k,
         NEW n \in Nat, NEW w \in 0 .. n, NEW h \in Nat, Top(k, w) = MostFrequent(k, w, n - 1),
         Served(S, 0, w - 1) + Served(Top(k, w), w, n - 1) <= h
  PROVE  Served(S, 0, n - 1) <= h
  <1>1. w - 1 \in Int /\ n - 1 \in Int /\ 0 \in Int /\ w \in Int /\ 0 <= (w - 1) + 1 /\ w - 1 <= n - 1
    BY Z3
  <1>2. PICK a \in Nat : a = Served(S, 0, w - 1)
    BY <1>1, ServedIs
  <1>3. PICK b \in Nat : b = Served(S, w, n - 1)
    BY <1>1, ServedIs
  <1>4. PICK m \in Nat : m = Served(Top(k, w), w, n - 1)
    BY <1>1, ServedIs
  <1>5. Served(S, 0, n - 1) = a + b
    <2>1. (w - 1) + 1 = w
      BY <1>1
    <2>2. Served(S, 0, n - 1) = Served(S, 0, w - 1) + Served(S, (w - 1) + 1, n - 1)
      BY <1>1, ServedSplit
    <2>3. QED
      BY <1>2, <1>3, <2>1, <2>2
  <1>6. b <= m
    <2>1. Served(S, w, n - 1) <= Served(MostFrequent(k, w, n - 1), w, n - 1)
      BY <1>1, MostFrequentServesMost DEF LeafSets
    <2>2. QED
      BY <1>3, <1>4, <2>1
  <1>7. a + m <= h
    BY <1>2, <1>4
  <1>8. QED
    BY <1>5, <1>6, <1>7

\* Where the window of the next query began, or begins.
WindowStart == t - (t % Window)

\* The oracle's cache: it has served no fewer queries than any fixed table up
\* to this window and its own since.
OracleKept(k) ==
    /\ OracleCounts(oracle[k], k, t)
    /\ InWindow(oracle[k], k, WindowStart, t)
    /\ BeatsFixed(oracle[k], k, WindowStart, t)

\* Tables and what they serve do not change.
LEMMA TablesStay ==
  ASSUME seq' = seq, NEW c, NEW k, NEW w, NEW n
  PROVE  /\ InWindow(c, k, w, n)' <=> InWindow(c, k, w, n)
         /\ BeatsFixed(c, k, w, n)' <=> BeatsFixed(c, k, w, n)
         /\ OracleCounts(c, k, n)' <=> OracleCounts(c, k, n)
  <1>1. \A l, from, to : Requests(l, from, to)' = Requests(l, from, to)
    BY DEF Requests, LeafAt
  <1>2. \A m, l, from, to : Ahead(m, l, from, to)' <=> Ahead(m, l, from, to)
    BY <1>1 DEF Ahead
  <1>3. Top(k, w)' = Top(k, w)
    BY <1>1, <1>2 DEF Top, MostFrequent
  <1>4. \A X, from, to : Served(X, from, to)' = Served(X, from, to)
    BY DEF Served, LeafAt
  <1>5. QED
    BY <1>3, <1>4 DEF InWindow, BeatsFixed, OracleCounts

\* Each query keeps it.
LEMMA OracleStep ==
  ASSUME StreamTypes, Access, NEW k \in Caps, OracleKept(k)
  PROVE  OracleKept(k)'
  <1>0. /\ t' = t + 1 /\ seq' = seq /\ t \in Nat /\ t \in 0 .. Length - 1 /\ Length \in Nat
        /\ LeafAt(t) \in Leaves /\ k \in Nat /\ Window \in Nat \ {0} /\ t + 1 \in Nat /\ t \in Int
    BY StreamStep, Sizes
  <1>1. PICK r \in 0 .. Window - 1 : r = t % Window
    BY <1>0, NextRemainder
  <1>2. PICK w \in Int : w = t - r
    BY <1>0, <1>1
  <1>3. w = WindowStart /\ w \in 0 .. t /\ (t % Window = 0 <=> w = t)
    <2>1. r <= t
      BY <1>0, <1>1, NextRemainder
    <2>2. w \in 0 .. t /\ (r = 0 <=> w = t)
      BY <1>0, <1>1, <1>2, <2>1
    <2>3. w = WindowStart
      BY <1>1, <1>2 DEF WindowStart
    <2>4. QED
      BY <1>1, <2>2, <2>3
  <1>4. PICK c : c = oracle[k]
    OBVIOUS
  <1>5. PICK d : d = oracle'[k]
    OBVIOUS
  <1>6. d = OracleAccess(c, k, LeafAt(t))
    BY <1>4, <1>5 DEF Access
  <1>7. OracleCounts(c, k, t) /\ InWindow(c, k, w, t) /\ BeatsFixed(c, k, w, t)
    BY <1>3, <1>4 DEF OracleKept
  <1>8. PICK T : T = Top(k, w)
    OBVIOUS
  <1>9. OracleCounts(d, k, t + 1) /\ d.resident = T /\ d.hits = c.hits + Served(T, t, t)
    BY <1>0, <1>3, <1>6, <1>7, <1>8, OracleMoves
  <1>10. c.hits \in Nat /\ d.hits \in Nat
    BY <1>7, <1>9 DEF OracleCounts, PlainRecords
  <1>11. BeatsFixed(d, k, w, t + 1)
    <2>1. SUFFICES ASSUME NEW S \in LeafSets, Cardinality(S) <= k
          PROVE  Served(S, 0, w - 1) + Served(T, w, (t + 1) - 1) <= d.hits
      BY <1>8 DEF BeatsFixed
    <2>2. Served(S, 0, w - 1) + Served(T, w, t - 1) <= c.hits
      BY <1>7, <1>8, <2>1 DEF BeatsFixed
    <2>3. w \in Int /\ w - 1 \in Int /\ t - 1 \in Int /\ 0 \in Int /\ (t - 1) + 1 = t /\ (t + 1) - 1 = t
          /\ w <= (t - 1) + 1 /\ t - 1 <= t
      BY <1>0, <1>3
    <2>4. PICK a \in Nat : a = Served(S, 0, w - 1)
      BY <2>3, ServedIs
    <2>5. PICK b \in Nat : b = Served(T, w, t - 1)
      BY <2>3, ServedIs
    <2>6. PICK e \in Nat : e = Served(T, t, t)
      BY <1>0, ServedIs
    <2>7. Served(T, w, t) = b + e
      <3>1. Served(T, w, t) = Served(T, w, t - 1) + Served(T, (t - 1) + 1, t)
        BY <1>0, <2>3, ServedSplit
      <3>2. QED
        BY <2>3, <2>5, <2>6, <3>1
    <2>8. a + b <= c.hits /\ d.hits = c.hits + e
      BY <1>9, <2>2, <2>4, <2>5, <2>6
    <2>9. a + (b + e) <= d.hits
      BY <1>10, <2>8
    <2>10. QED
      BY <2>3, <2>4, <2>7, <2>9
  <1>12. PICK v : v = (t + 1) - ((t + 1) % Window)
    OBVIOUS
  <1>13. InWindow(d, k, v, t + 1) /\ BeatsFixed(d, k, v, t + 1)
    <2>1. CASE r + 1 # Window
      <3>1. v = w
        <4>1. (t + 1) % Window = r + 1
          BY <1>0, <1>1, <2>1, NextRemainder
        <4>2. QED
          BY <1>0, <1>1, <1>2, <1>12, <4>1
      <3>2. QED
        BY <1>8, <1>9, <1>11, <3>1 DEF InWindow
    <2>2. CASE r + 1 = Window
      <3>1. v = t + 1 /\ w + Window = t + 1
        <4>1. (t + 1) % Window = 0
          BY <1>0, <1>1, <2>2, NextRemainder
        <4>2. QED
          BY <1>0, <1>1, <1>2, <1>12, <2>2, <4>1
      <3>2. T = MostFrequent(k, w, (t + 1) - 1)
        <4>1. w \in 0 .. Length /\ w + Window <= Length
          BY <1>0, <1>3, <3>1
        <4>2. T = MostFrequent(k, w, (w + Window) - 1)
          BY <1>0, <1>8, <4>1, TopIs
        <4>3. QED
          BY <3>1, <4>2, Zenon
      <3>3. ASSUME NEW S \in LeafSets, Cardinality(S) <= k
            PROVE  Served(S, 0, v - 1) + Served(Top(k, v), v, (t + 1) - 1) <= d.hits
        <4>1. Served(S, 0, w - 1) + Served(Top(k, w), w, (t + 1) - 1) <= d.hits
          BY <1>11, <3>3 DEF BeatsFixed
        <4>2. w \in 0 .. t + 1
          BY <1>0, <1>3
        <4>3. Served(S, 0, (t + 1) - 1) <= d.hits
          BY <1>0, <1>8, <1>10, <3>2, <3>3, <4>1, <4>2, FixedIsBeaten
        <4>4. Served(Top(k, v), v, (t + 1) - 1) = 0
          <5>1. v \in Int /\ (t + 1) - 1 \in Int /\ v > (t + 1) - 1
            BY <1>0, <3>1
          <5>2. QED
            BY <5>1, ServedIs
        <4>5. PICK a \in Nat : a = Served(S, 0, (t + 1) - 1)
          <5>1. 0 \in Int /\ (t + 1) - 1 \in Int
            BY <1>0
          <5>2. QED
            BY <5>1, ServedIs
        <4>6. Served(S, 0, v - 1) = a
          BY <3>1, <4>5, Zenon
        <4>7. a + 0 <= d.hits
          BY <1>10, <4>3, <4>5
        <4>8. QED
          BY <4>4, <4>6, <4>7
      <3>4. QED
        BY <3>1, <3>3 DEF InWindow, BeatsFixed
    <2>3. QED
      BY <2>1, <2>2
  <1>14. v = WindowStart'
    BY <1>0, <1>12 DEF WindowStart
  <1>15. QED
    BY <1>0, <1>5, <1>9, <1>13, <1>14, TablesStay DEF OracleKept

\* It holds at the start.
LEMMA OracleStart ==
  ASSUME Init, NEW k \in Caps
  PROVE  OracleKept(k)
  <1>0. t = 0 /\ Window \in Nat \ {0} /\ Length \in Nat /\ k \in Nat /\ 0 \in Nat /\ 0 \in 0 .. Length
    BY Sizes DEF Init
  <1>1. PICK c : c = oracle[k]
    OBVIOUS
  <1>2. c = Cold({})
    BY <1>1 DEF Init
  <1>3. /\ c \in PlainRecords(LeafSets) /\ c.resident = {} /\ c.hits = 0 /\ c.inserts = 0
        /\ c.evictions = 0
    BY <1>2 DEF Cold, PlainRecords, LeafSets
  <1>4. OracleCounts(c, k, 0)
    <2>1. 0 <= k /\ 0 <= 0 /\ 0 - 0 = 0
      BY <1>0
    <2>2. QED
      BY <1>3, <2>1, EmptyIs, Zenon DEF OracleCounts
  <1>5. WindowStart = 0
    <2>1. 0 % Window = 0
      BY <1>0, NextRemainder
    <2>2. QED
      BY <1>0, <2>1 DEF WindowStart
  <1>6. ASSUME NEW S \in LeafSets PROVE Served(S, 0, 0 - 1) + Served(Top(k, 0), 0, 0 - 1) <= c.hits
    <2>1. 0 \in Int /\ 0 - 1 \in Int /\ 0 > 0 - 1
      OBVIOUS
    <2>2. Served(S, 0, 0 - 1) = 0 /\ Served(Top(k, 0), 0, 0 - 1) = 0
      BY <2>1, ServedIs
    <2>3. QED
      BY <1>3, <2>2
  <1>7. QED
    BY <1>0, <1>1, <1>4, <1>5, <1>6 DEF OracleKept, InWindow, BeatsFixed

\* At the end of a window no fixed table has served more.
LEMMA OracleBest == ASSUME StreamTypes, \A k \in Caps : OracleKept(k) PROVE NoFixedTableBeatsOracle
  <1> SUFFICES ASSUME t = Length \/ t % Window = 0, NEW k \in Caps, NEW S \in kSubset(k, Leaves)
      PROVE  StaticHits(S) <= oracle[k].hits
    BY DEF NoFixedTableBeatsOracle
  <1>0. t \in Nat /\ t \in 0 .. Length /\ Length \in Nat /\ k \in Nat /\ Window \in Nat \ {0} /\ t \in Int
    BY Sizes DEF StreamTypes
  <1>1. S \in LeafSets /\ Cardinality(S) = k /\ Cardinality(S) <= k
    BY <1>0 DEF kSubset, LeafSets
  <1>2. StaticHits(S) = Served(S, 0, t - 1)
    BY DEF StaticHits, Quantify, Served
  <1>3. PICK h \in Nat : h = oracle[k].hits
    BY DEF OracleKept, OracleCounts, PlainRecords
  <1>4. PICK r \in 0 .. Window - 1 : r = t % Window /\ r <= t
    BY <1>0, NextRemainder
  <1>5. PICK w \in 0 .. t : w = t - r
    <2>1. t - r \in 0 .. t
      BY <1>0, <1>4
    <2>2. QED
      BY <2>1
  <1>6. Served(S, 0, w - 1) + Served(Top(k, w), w, t - 1) <= h
    <2>1. w = WindowStart
      BY <1>4, <1>5 DEF WindowStart
    <2>2. QED
      BY <1>1, <1>3, <2>1 DEF OracleKept, BeatsFixed
  <1>7. w \in Int /\ w - 1 \in Int /\ t - 1 \in Int /\ 0 \in Int
    BY <1>0, <1>5
  <1>8. CASE r = 0
    <2>1. w = t
      BY <1>0, <1>5, <1>8
    <2>2. PICK a \in Nat : a = Served(S, 0, w - 1)
      BY <1>7, ServedIs
    <2>3. PICK b \in Nat : b = Served(Top(k, w), w, t - 1)
      BY <1>7, ServedIs
    <2>4. a <= h
      BY <1>6, <2>2, <2>3
    <2>5. Served(S, 0, t - 1) = a
      BY <2>1, <2>2
    <2>6. QED
      BY <1>2, <1>3, <2>4, <2>5
  <1>9. CASE r # 0
    <2>1. t = Length
      BY <1>4, <1>9
    <2>2. w \in 0 .. Length /\ w + Window > Length
      BY <1>0, <1>4, <1>5, <2>1
    <2>3. Top(k, w) = MostFrequent(k, w, Length - 1)
      BY <1>0, <2>2, TopIs
    <2>4. Served(S, 0, t - 1) <= h
      BY <1>0, <1>1, <1>6, <2>1, <2>3, FixedIsBeaten
    <2>5. QED
      BY <1>2, <1>3, <2>4
  <1>10. QED
    BY <1>8, <1>9

-----------------------------------------------------------------------------
(* The controller's variant: what a digest, a poll and a query change.     *)

Digests == [due : Nat, leaf : Leaves, qid : Nat]
DigestSeqs == Seq(Digests)

HwRecords ==
    [weight : [Leaves -> Nat], last : [Leaves -> Int], hit : BOOLEAN, resident : LeafSets,
     credits : [Leaves -> Nat], queue : DigestSeqs, t_ctl : Nat]

\* What the settings are.
SettingTypes ==
    /\ setting \in HwSettings /\ setting.k \in 0 .. MaxK /\ setting.k \in Nat
    /\ setting.gain \in [Times -> Nat] /\ setting.gain \in Gains
    /\ setting.lag \in Nat /\ setting.poll \in Nat

\* They are so throughout.
LEMMA SettingIs == ASSUME setting \in HwSettings PROVE SettingTypes
  <1>1. /\ setting.k \in 0 .. MaxK /\ setting.gain \in Gains /\ setting.lag \in Nat
        /\ setting.poll \in Nat
    BY HwAssumption
  <1>2. setting.k \in Nat
    BY <1>1, Sizes
  <1>3. setting.gain \in [Times -> Nat]
    <2>1. setting.gain \in [Times -> Nat \ {0}]
      BY <1>1, GainsAssumption
    <2>2. QED
      BY <2>1
  <1>4. QED
    BY <1>1, <1>2, <1>3 DEF SettingTypes

\* All but the scores stay, and the digests left are q.
HwScored(c, l, now, q, d) ==
    /\ d.weight = [c.weight EXCEPT ![l] = c.weight[l] + 1 * setting.gain[now]]
    /\ d.last = [c.last EXCEPT ![l] = now]
    /\ d.hit = c.hit /\ d.resident = c.resident /\ d.credits = c.credits
    /\ d.queue = q /\ d.t_ctl = now

\* A digest is scored.
LEMMA HwScores ==
  ASSUME SettingTypes, NEW c \in HwRecords, NEW l \in Leaves, NEW now \in Times,
         Tail(c.queue) \in DigestSeqs
  PROVE  LET d == [Scored(c, setting.gain, l, 1, now) EXCEPT !.queue = Tail(@), !.t_ctl = now] IN
         d \in HwRecords /\ HwScored(c, l, now, Tail(c.queue), d)
  <1> DEFINE w == c.weight[l] + 1 * setting.gain[now]
             q == Tail(c.queue)
  <1>1. c.weight \in [Leaves -> Nat] /\ c.last \in [Leaves -> Int]
    BY Zenon DEF HwRecords
  <1>2. now \in Nat /\ now \in Int
    BY Sizes DEF Times
  <1>3. w \in Nat
    <2>1. c.weight[l] \in Nat /\ setting.gain[now] \in Nat
      BY <1>1 DEF SettingTypes
    <2>2. QED
      BY <2>1
  <1>4. PICK e : e = [c EXCEPT !.weight[l] = w, !.last[l] = now]
    OBVIOUS
  <1>5. e = Scored(c, setting.gain, l, 1, now)
    BY <1>4 DEF Scored
  <1>6. PICK d : d = [e EXCEPT !.queue = Tail(@), !.t_ctl = now]
    OBVIOUS
  <1> HIDE DEF w
  <1>7. [c.weight EXCEPT ![l] = w] \in [Leaves -> Nat] /\ [c.last EXCEPT ![l] = now] \in [Leaves -> Int]
    BY <1>1, <1>2, <1>3
  <1>8. /\ e \in HwRecords /\ e.weight = [c.weight EXCEPT ![l] = w] /\ e.last = [c.last EXCEPT ![l] = now]
        /\ e.hit = c.hit /\ e.resident = c.resident /\ e.credits = c.credits /\ e.queue = c.queue
        /\ e.t_ctl = c.t_ctl
    BY <1>4, <1>7, Zenon DEF HwRecords
  <1>9. d = [e EXCEPT !.queue = q, !.t_ctl = now]
    BY <1>6, <1>8
  <1>10. q \in DigestSeqs
    OBVIOUS
  <1> HIDE DEF q
  <1>11. /\ d \in HwRecords /\ d.weight = e.weight /\ d.last = e.last /\ d.hit = e.hit
         /\ d.resident = e.resident /\ d.credits = e.credits /\ d.queue = q /\ d.t_ctl = now
    BY <1>2, <1>8, <1>9, <1>10, Zenon DEF HwRecords
  <1>12. d \in HwRecords /\ HwScored(c, l, now, q, d)
    BY <1>8, <1>11, Zenon DEF HwScored, w
  <1>13. QED
    BY <1>5, <1>6, <1>12, Zenon DEF q

\* What an install makes of the residents X.
HwSet(c, X, l, D) ==
    /\ setting.k = 0 \/ l \in X => D = X
    /\ setting.k # 0 /\ l \notin X /\ Cardinality(X) < setting.k => D = X \cup {l}
    /\ setting.k # 0 /\ l \notin X /\ ~(Cardinality(X) < setting.k) =>
           \E v \in X : (\A r \in X : ~Lower(c, r, v)) /\ D = (X \ {v}) \cup {l}

\* Nothing but the residents changes.
HwHolds(c, d) ==
    /\ d.weight = c.weight /\ d.last = c.last /\ d.hit = c.hit /\ d.credits = c.credits
    /\ d.queue = c.queue /\ d.t_ctl = c.t_ctl

\* Other residents.
LEMMA HwPuts ==
  ASSUME NEW c \in HwRecords, NEW D \in LeafSets
  PROVE  LET d == [c EXCEPT !.resident = D] IN
         d \in HwRecords /\ HwHolds(c, d) /\ d.resident = D
  BY Zenon DEF HwRecords, HwHolds

\* An install.
LEMMA HwInstallsIs ==
  ASSUME NEW c \in HwRecords, NEW l \in Leaves, NEW d \in HwInstalls(c, l)
  PROVE  d \in HwRecords /\ HwHolds(c, d) /\ HwSet(c, c.resident, l, d.resident)
  <1>1. PICK X : X = c.resident
    OBVIOUS
  <1>2. X \in SUBSET Leaves
    BY <1>1 DEF HwRecords, LeafSets
  <1>3. CASE setting.k = 0 \/ l \in X
    <2>1. d = c
      BY <1>1, <1>3 DEF HwInstalls
    <2>2. HwSet(c, X, l, X)
      BY <1>3 DEF HwSet
    <2>3. QED
      BY <1>1, <2>1, <2>2 DEF HwHolds
  <1>4. CASE setting.k # 0 /\ l \notin X /\ Cardinality(X) < setting.k
    <2>1. PICK D : D = X \cup {l}
      OBVIOUS
    <2>2. D \in LeafSets
      BY <1>2, <2>1 DEF LeafSets
    <2>3. d = [c EXCEPT !.resident = D]
      BY <1>1, <1>4, <2>1 DEF HwInstalls
    <2>4. d \in HwRecords /\ HwHolds(c, d) /\ d.resident = D
      BY <2>2, <2>3, HwPuts
    <2>5. HwSet(c, X, l, D)
      BY <1>4, <2>1 DEF HwSet
    <2>6. QED
      BY <1>1, <2>4, <2>5
  <1>5. CASE setting.k # 0 /\ l \notin X /\ ~(Cardinality(X) < setting.k)
    <2>1. PICK v \in X : /\ \A r \in X : ~Lower(c, r, v)
                         /\ d = [c EXCEPT !.resident = (@ \ {v}) \cup {l}]
      BY <1>1, <1>5 DEF HwInstalls
    <2>2. PICK D : D = (X \ {v}) \cup {l}
      OBVIOUS
    <2>3. D \in LeafSets
      BY <1>2, <2>2 DEF LeafSets
    <2>4. d = [c EXCEPT !.resident = D]
      BY <1>1, <2>1, <2>2
    <2>5. d \in HwRecords /\ HwHolds(c, d) /\ d.resident = D
      BY <2>3, <2>4, HwPuts
    <2>6. HwSet(c, X, l, D)
      BY <1>5, <2>1, <2>2 DEF HwSet
    <2>7. QED
      BY <1>1, <2>5, <2>6
  <1>6. QED
    BY <1>3, <1>4, <1>5

\* What a digest that is due leaves behind.
HwTook(c, l, now, d) ==
    /\ d.weight = [c.weight EXCEPT ![l] = c.weight[l] + 1 * setting.gain[now]]
    /\ d.last = [c.last EXCEPT ![l] = now]
    /\ d.hit = c.hit /\ d.credits = c.credits /\ d.queue = Tail(c.queue) /\ d.t_ctl = now
    /\ HwSet(d, c.resident, l, d.resident)

\* Taking the digest that is due, if one is.
LEMMA HwDigestsIs ==
  ASSUME SettingTypes, NEW c \in HwRecords, NEW h \in HwDigests(c), c.t_ctl \in Times,
         c.queue # <<>> => Head(c.queue).qid \in Times
  PROVE  /\ h \in HwRecords
         /\ ~Due(c) => h = c
         /\ Due(c) => LET now == IF c.t_ctl > Head(c.queue).qid THEN c.t_ctl ELSE Head(c.queue).qid
                      IN  HwTook(c, Head(c.queue).leaf, now, h)
  <1>1. CASE ~Due(c)
    BY <1>1 DEF HwDigests
  <1>2. CASE Due(c)
    <2>1. PICK q : q = c.queue
      OBVIOUS
    <2>2. q \in Seq(Digests) /\ q # <<>>
      BY <1>2, <2>1 DEF HwRecords, DigestSeqs, Due
    <2>3. Tail(q) \in DigestSeqs /\ Head(q) \in Digests
      BY <2>2, HeadTailProperties DEF DigestSeqs
    <2>4. PICK d \in Digests : d = Head(q)
      BY <2>3
    <2>5. PICK l \in Leaves : l = d.leaf
      BY DEF Digests
    <2>6. PICK a \in Times : a = c.t_ctl
      OBVIOUS
    <2>7. PICK b \in Times : b = d.qid
      BY <2>1, <2>2, <2>4
    <2>8. PICK now : now = IF a > b THEN a ELSE b
      OBVIOUS
    <2>9. now \in Times /\ now = Max({a, b})
      <3>1. a \in Nat /\ b \in Nat
        BY Sizes DEF Times
      <3>2. now \in Times /\ now \in {a, b}
        BY <2>8
      <3>3. {a, b} \in SUBSET (0 .. Length) /\ {a, b} # {} /\ 0 \in Int /\ Length \in Int
        BY Sizes DEF Times
      <3>4. PICK m : m = Max({a, b})
        OBVIOUS
      <3>5. m \in {a, b} /\ \A y \in {a, b} : m >= y
        BY <3>3, <3>4, MaxIs
      <3>6. m = now
        BY <2>8, <3>1, <3>5
      <3>7. QED
        BY <3>2, <3>4, <3>6
    <2>10. PICK e : e = [Scored(c, setting.gain, l, 1, now) EXCEPT !.queue = Tail(@), !.t_ctl = now]
      OBVIOUS
    <2>11. e \in HwRecords /\ HwScored(c, l, now, Tail(q), e)
      BY <2>1, <2>3, <2>9, <2>10, HwScores
    <2>12. h \in HwInstalls(e, l)
      BY <1>2, <2>1, <2>4, <2>5, <2>6, <2>7, <2>9, <2>10 DEF HwDigests
    <2>13. h \in HwRecords /\ HwHolds(e, h) /\ HwSet(e, e.resident, l, h.resident)
      BY <2>11, <2>12, HwInstallsIs
    <2>14. HwSet(h, c.resident, l, h.resident)
      <3>1. h.weight = e.weight /\ h.last = e.last /\ e.resident = c.resident
        BY <2>11, <2>13 DEF HwHolds, HwScored
      <3>2. HwSet(e, c.resident, l, h.resident)
        BY <2>13, <3>1
      <3>3. QED
        BY <3>1, <3>2 DEF HwSet, Lower
    <2>15. HwTook(c, l, now, h)
      BY <2>1, <2>11, <2>13, <2>14 DEF HwTook, HwHolds, HwScored
    <2>16. QED
      BY <1>2, <2>1, <2>4, <2>5, <2>6, <2>7, <2>8, <2>13, <2>15
  <1>3. QED
    BY <1>1, <1>2

\* The scores after a poll.
Credited(c, now) ==
    [l \in Leaves |-> c.weight[l] + IF l \in c.resident /\ c.credits[l] > 0
                                    THEN c.credits[l] * setting.gain[now] ELSE 0]

\* A poll, if it is time for one.
LEMMA HwPollIs ==
  ASSUME SettingTypes, NEW c \in HwRecords, t \in 0 .. Length - 1, c.t_ctl \in Times
  PROVE  LET d == HwPoll(c) IN
         /\ d \in HwRecords /\ d.hit = c.hit /\ d.resident = c.resident /\ d.queue = c.queue
         /\ d.t_ctl = c.t_ctl
         /\ ~Polls => d = c
         /\ Polls /\ setting.clock = "query" =>
               /\ d.weight = Credited(c, t - 1) /\ d.credits = [l \in Leaves |-> 0]
               /\ d.last = [l \in Leaves |-> IF l \in c.resident /\ c.credits[l] > 0 THEN t - 1
                                             ELSE c.last[l]]
  <1>1. CASE ~Polls
    BY <1>1 DEF HwPoll
  <1>2. CASE Polls
    <2>1. PICK now : now = IF setting.clock = "query" THEN t - 1 ELSE c.t_ctl
      OBVIOUS
    <2>2. now \in Times /\ now \in Int
      BY <1>2, <2>1, Sizes DEF Times, Polls
    <2>3. PICK read : read = {l \in c.resident : c.credits[l] > 0}
      OBVIOUS
    <2>4. PICK w : w = [l \in Leaves |-> c.weight[l] + IF l \in read THEN c.credits[l] * setting.gain[now]
                                                       ELSE 0]
      OBVIOUS
    <2>5. PICK f : f = [l \in Leaves |-> IF l \in read THEN now ELSE c.last[l]]
      OBVIOUS
    <2>6. w \in [Leaves -> Nat] /\ f \in [Leaves -> Int]
      <3>1. c.weight \in [Leaves -> Nat] /\ c.last \in [Leaves -> Int] /\ c.credits \in [Leaves -> Nat]
        BY Zenon DEF HwRecords
      <3>2. setting.gain[now] \in Nat
        BY <2>2 DEF SettingTypes
      <3>3. \A a, b, n \in Nat : a + b * n \in Nat /\ a + 0 \in Nat
        OBVIOUS
      <3>4. ASSUME NEW l \in Leaves
            PROVE  c.weight[l] + (IF l \in read THEN c.credits[l] * setting.gain[now] ELSE 0) \in Nat
        BY <3>1, <3>2, <3>3
      <3>5. QED
        BY <2>2, <2>4, <2>5, <3>1, <3>4
    <2>7. PICK z : z = [l \in Leaves |-> 0]
      OBVIOUS
    <2>8. z \in [Leaves -> Nat]
      BY <2>7
    <2>9. PICK e : e = HwCredited(c)
      OBVIOUS
    <2>10. e = [c EXCEPT !.weight = w, !.last = f]
      <3>1. e = [c EXCEPT !.weight = [l \in Leaves |-> @[l] + IF l \in read
                                                             THEN c.credits[l] * setting.gain[now]
                                                             ELSE 0],
                          !.last = [l \in Leaves |-> IF l \in read THEN now ELSE @[l]]]
        BY <2>1, <2>3, <2>9 DEF HwCredited
      <3>2. QED
        BY <2>4, <2>5, <3>1
    <2>11. /\ e \in HwRecords /\ e.weight = w /\ e.last = f /\ e.hit = c.hit
           /\ e.resident = c.resident /\ e.queue = c.queue /\ e.t_ctl = c.t_ctl
      BY <2>6, <2>10, Zenon DEF HwRecords
    <2>12. PICK d : d = [e EXCEPT !.credits = z]
      OBVIOUS
    <2>13. /\ d \in HwRecords /\ d.weight = w /\ d.last = f /\ d.hit = c.hit /\ d.credits = z
           /\ d.resident = c.resident /\ d.queue = c.queue /\ d.t_ctl = c.t_ctl
      BY <2>8, <2>11, <2>12, Zenon DEF HwRecords
    <2>14. d = HwPoll(c)
      BY <1>2, <2>7, <2>9, <2>12 DEF HwPoll
    <2>15. ASSUME setting.clock = "query" PROVE w = Credited(c, t - 1)
      BY <2>1, <2>3, <2>4, <2>15 DEF Credited
    <2>16. ASSUME setting.clock = "query"
           PROVE  f = [l \in Leaves |-> IF l \in c.resident /\ c.credits[l] > 0 THEN t - 1
                                        ELSE c.last[l]]
      BY <2>1, <2>3, <2>5, <2>16
    <2>17. QED
      BY <1>2, <2>7, <2>13, <2>14, <2>15, <2>16
  <1>3. QED
    BY <1>1, <1>2

\* What a query leaves behind.
HwNoted(c, l, d) ==
    /\ d.weight = c.weight /\ d.last = c.last /\ d.resident = c.resident /\ d.t_ctl = c.t_ctl
    /\ l \in c.resident =>
           /\ d.hit = TRUE /\ d.queue = c.queue
           /\ d.credits = [c.credits EXCEPT ![l] = c.credits[l] + 1]
    /\ l \notin c.resident =>
           /\ d.hit = FALSE /\ d.credits = c.credits
           /\ d.queue = Append(c.queue, [due |-> t + setting.lag, leaf |-> l, qid |-> t])

\* The answer to a query.
LEMMA HwAnswerIs ==
  ASSUME SettingTypes, NEW c \in HwRecords, t \in Nat, NEW l \in Leaves
  PROVE  HwAnswer(c, l) \in HwRecords /\ HwNoted(c, l, HwAnswer(c, l))
  <1>1. PICK d : d = HwAnswer(c, l)
    OBVIOUS
  <1>2. c.credits \in [Leaves -> Nat] /\ c.queue \in DigestSeqs
    BY Zenon DEF HwRecords
  <1>3. CASE l \in c.resident
    <2>1. PICK n : n = [c.credits EXCEPT ![l] = c.credits[l] + 1]
      OBVIOUS
    <2>2. n \in [Leaves -> Nat]
      <3>1. c.credits[l] + 1 \in Nat
        BY <1>2
      <3>2. QED
        BY <1>2, <2>1, <3>1
    <2>3. d = [c EXCEPT !.hit = TRUE, !.credits = n]
      <3>1. d = [c EXCEPT !.hit = TRUE, !.credits[l] = c.credits[l] + 1]
        BY <1>1, <1>3 DEF HwAnswer
      <3>2. QED
        BY <2>1, <3>1, Zenon
    <2>4. /\ d \in HwRecords /\ d.weight = c.weight /\ d.last = c.last /\ d.resident = c.resident
          /\ d.t_ctl = c.t_ctl /\ d.hit = TRUE /\ d.queue = c.queue /\ d.credits = n
      BY <2>2, <2>3, Zenon DEF HwRecords
    <2>5. QED
      BY <1>1, <1>3, <2>1, <2>4, Zenon DEF HwNoted
  <1>4. CASE l \notin c.resident
    <2>1. PICK e : e = [due |-> t + setting.lag, leaf |-> l, qid |-> t]
      OBVIOUS
    <2>2. e \in Digests
      <3>1. t + setting.lag \in Nat
        BY DEF SettingTypes
      <3>2. QED
        BY <2>1, <3>1 DEF Digests
    <2>3. PICK q : q = Append(c.queue, e)
      OBVIOUS
    <2>4. q \in DigestSeqs
      BY <1>2, <2>2, <2>3, AppendProperties DEF DigestSeqs
    <2>5. d = [c EXCEPT !.hit = FALSE, !.queue = q]
      BY <1>1, <1>4, <2>1, <2>3 DEF HwAnswer
    <2>6. /\ d \in HwRecords /\ d.weight = c.weight /\ d.last = c.last /\ d.resident = c.resident
          /\ d.t_ctl = c.t_ctl /\ d.hit = FALSE /\ d.queue = q /\ d.credits = c.credits
      BY <2>4, <2>5, Zenon DEF HwRecords
    <2>7. QED
      BY <1>1, <1>4, <2>1, <2>3, <2>6, Zenon DEF HwNoted
  <1>5. QED
    BY <1>3, <1>4

-----------------------------------------------------------------------------
(* The controller's variant: the digests under way and what they explain.  *)

\* The queries a digest is under way for.
Delay == IF setting.lag = 0 THEN 1 ELSE setting.lag

\* The digests under way before query n.
QueueIs(q, n) ==
    /\ q \in DigestSeqs
    /\ \A i \in 1 .. Len(q) :
           /\ q[i].qid \in Nat /\ q[i].qid < n /\ q[i].qid + Delay >= n
           /\ q[i].due = q[i].qid + setting.lag /\ q[i].leaf = LeafAt(q[i].qid)
    /\ \A i, j \in 1 .. Len(q) : i < j => q[i].qid < q[j].qid

HwKept ==
    /\ hw \in HwRecords /\ (hw.t_ctl = 0 \/ hw.t_ctl < t)
    /\ Cardinality(hw.resident) <= setting.k /\ QueueIs(hw.queue, t)

\* The delay is at least a query.
LEMMA DelayIs == ASSUME SettingTypes
                 PROVE  Delay \in Nat \ {0} /\ setting.lag \in Nat /\ setting.lag <= Delay
                        /\ (setting.lag # 0 => Delay = setting.lag) /\ (setting.lag = 0 => Delay = 1)
  BY DEF SettingTypes, Delay

\* The digest taken is the only one due, and the oldest that can be under way.
LEMMA HeadLeaves ==
  ASSUME SettingTypes, NEW n \in Nat, NEW q, QueueIs(q, n), q # <<>>, Head(q).due <= n
  PROVE  /\ Head(q).qid = n - Delay /\ Head(q).leaf = LeafAt(n - Delay) /\ n - Delay \in 0 .. n - 1
         /\ QueueIs(Tail(q), n)
         /\ \A i \in 1 .. Len(Tail(q)) : Tail(q)[i].qid + Delay >= n + 1
         /\ \A i \in 1 .. Len(q) : q[i].qid # n - Delay => \E j \in 1 .. Len(Tail(q)) : Tail(q)[j] = q[i]
  <1>0. q \in Seq(Digests) /\ DigestSeqs = Seq(Digests)
    BY DEF QueueIs, DigestSeqs
  <1>1. /\ Len(q) \in Nat /\ Len(q) > 0 /\ Head(q) = q[1] /\ Tail(q) \in Seq(Digests)
        /\ Len(Tail(q)) = Len(q) - 1 /\ \A i \in 1 .. Len(Tail(q)) : Tail(q)[i] = q[i + 1]
    BY <1>0, HeadTailProperties, LenProperties, EmptySeq
  <1>2. PICK p \in Nat : p = q[1].qid
    <2>1. 1 \in 1 .. Len(q)
      BY <1>1
    <2>2. QED
      BY <2>1 DEF QueueIs
  <1>3. /\ p < n /\ p + Delay >= n /\ q[1].due = p + setting.lag /\ q[1].leaf = LeafAt(p)
    <2>1. 1 \in 1 .. Len(q)
      BY <1>1
    <2>2. QED
      BY <1>2, <2>1 DEF QueueIs
  <1>4. p + setting.lag <= n
    BY <1>1, <1>3
  <1>5. p = n - Delay
    BY <1>3, <1>4, DelayIs
  <1>6. n - Delay \in 0 .. n - 1
    BY <1>3, <1>5
  <1>7. ASSUME NEW i \in 1 .. Len(q) - 1
        PROVE  /\ i + 1 \in 1 .. Len(q) /\ Tail(q)[i] = q[i + 1]
               /\ q[i + 1].qid \in Nat /\ q[i + 1].qid < n /\ q[i + 1].qid > p
               /\ q[i + 1].due = q[i + 1].qid + setting.lag /\ q[i + 1].leaf = LeafAt(q[i + 1].qid)
    <2>1. i + 1 \in 1 .. Len(q) /\ 1 \in 1 .. Len(q) /\ 1 < i + 1 /\ i \in 1 .. Len(Tail(q))
      BY <1>1
    <2>2. QED
      BY <1>1, <1>2, <2>1 DEF QueueIs
  <1>8. QueueIs(Tail(q), n)
    <2>1. ASSUME NEW i \in 1 .. Len(Tail(q)), NEW j \in 1 .. Len(Tail(q)), i < j
          PROVE  Tail(q)[i].qid < Tail(q)[j].qid
      <3>1. i \in 1 .. Len(q) - 1 /\ j \in 1 .. Len(q) - 1 /\ i + 1 < j + 1
        BY <1>1, <2>1
      <3>2. QED
        BY <1>7, <3>1 DEF QueueIs
    <2>2. ASSUME NEW i \in 1 .. Len(Tail(q))
          PROVE  /\ Tail(q)[i].qid \in Nat /\ Tail(q)[i].qid < n /\ Tail(q)[i].qid + Delay >= n
                 /\ Tail(q)[i].due = Tail(q)[i].qid + setting.lag
                 /\ Tail(q)[i].leaf = LeafAt(Tail(q)[i].qid)
      <3>1. i \in 1 .. Len(q) - 1
        BY <1>1
      <3>2. q[i + 1].qid + Delay >= n
        BY <1>3, <1>7, <3>1, DelayIs
      <3>3. QED
        BY <1>7, <3>1, <3>2
    <2>3. QED
      BY <1>0, <1>1, <2>1, <2>2 DEF QueueIs
  <1>9. ASSUME NEW i \in 1 .. Len(Tail(q)) PROVE Tail(q)[i].qid + Delay >= n + 1
    <2>1. i \in 1 .. Len(q) - 1
      BY <1>1
    <2>2. q[i + 1].qid \in Nat /\ q[i + 1].qid > p /\ Tail(q)[i] = q[i + 1]
      BY <1>7, <2>1
    <2>3. QED
      BY <1>5, <2>2, DelayIs
  <1>10. ASSUME NEW i \in 1 .. Len(q), q[i].qid # n - Delay
         PROVE  \E j \in 1 .. Len(Tail(q)) : Tail(q)[j] = q[i]
    <2>1. i # 1
      BY <1>2, <1>5, <1>10
    <2>2. i - 1 \in 1 .. Len(Tail(q)) /\ (i - 1) + 1 = i
      BY <1>1, <2>1
    <2>3. Tail(q)[i - 1] = q[i]
      BY <1>1, <2>2
    <2>4. QED
      BY <2>2, <2>3
  <1>11. QED
    BY <1>1, <1>2, <1>3, <1>5, <1>6, <1>8, <1>9, <1>10

\* If none is due, none is as old as that.
LEMMA HeadStays ==
  ASSUME SettingTypes, NEW n \in Nat, NEW q, QueueIs(q, n), ~(q # <<>> /\ Head(q).due <= n)
  PROVE  \A i \in 1 .. Len(q) : q[i].qid + Delay >= n + 1
  <1> SUFFICES ASSUME NEW i \in 1 .. Len(q) PROVE q[i].qid + Delay >= n + 1
    OBVIOUS
  <1>1. q \in Seq(Digests)
    BY DEF QueueIs, DigestSeqs
  <1>2. q # <<>> /\ Len(q) \in Nat /\ 1 \in 1 .. Len(q) /\ Head(q) = q[1]
    BY <1>1, LenProperties, EmptySeq, HeadTailProperties
  <1>3. PICK p \in Nat : p = q[1].qid
    BY <1>2 DEF QueueIs
  <1>4. q[1].due = p + setting.lag /\ p < n
    BY <1>2, <1>3 DEF QueueIs
  <1>5. p + setting.lag > n
    BY <1>2, <1>4, DelayIs
  <1>6. q[i].qid \in Nat /\ q[i].qid >= p
    <2>1. CASE i = 1
      BY <1>3, <2>1
    <2>2. CASE i # 1
      <3>1. 1 < i
        BY <2>2
      <3>2. QED
        BY <1>2, <1>3, <3>1 DEF QueueIs
    <2>3. QED
      BY <2>1, <2>2
  <1>7. QED
    BY <1>5, <1>6, DelayIs

\* A query adds its own.
LEMMA QueueGrows ==
  ASSUME SettingTypes, NEW n \in Nat, NEW q, QueueIs(q, n), LeafAt(n) \in Leaves,
         \A i \in 1 .. Len(q) : q[i].qid + Delay >= n + 1
  PROVE  /\ QueueIs(q, n + 1)
         /\ \A e : e = [due |-> n + setting.lag, leaf |-> LeafAt(n), qid |-> n] =>
                QueueIs(Append(q, e), n + 1)
  <1>0. q \in Seq(Digests) /\ Len(q) \in Nat
    BY LenProperties DEF QueueIs, DigestSeqs
  <1>1. /\ \A i \in 1 .. Len(q) : /\ q[i].qid \in Nat /\ q[i].qid < n + 1 /\ q[i].qid + Delay >= n + 1
                                  /\ q[i].due = q[i].qid + setting.lag
                                  /\ q[i].leaf = LeafAt(q[i].qid) /\ q[i].qid < n
        /\ \A i, j \in 1 .. Len(q) : i < j => q[i].qid < q[j].qid
    <2>1. \A i \in 1 .. Len(q) : q[i].qid \in Nat /\ q[i].qid < n
      BY DEF QueueIs
    <2>2. \A i \in 1 .. Len(q) : q[i].qid < n + 1
      BY <2>1
    <2>3. QED
      BY <2>1, <2>2 DEF QueueIs
  <1>2. QueueIs(q, n + 1)
    BY <1>0, <1>1 DEF QueueIs, DigestSeqs
  <1>3. ASSUME NEW e, e = [due |-> n + setting.lag, leaf |-> LeafAt(n), qid |-> n]
        PROVE  QueueIs(Append(q, e), n + 1)
    <2>1. e.due = n + setting.lag /\ e.leaf = LeafAt(n) /\ e.qid = n /\ e \in Digests
      <3>1. n + setting.lag \in Nat
        BY DelayIs
      <3>2. QED
        BY <1>3, <3>1 DEF Digests
    <2>2. PICK r : r = Append(q, e)
      OBVIOUS
    <2>3. /\ r \in Seq(Digests) /\ Len(r) = Len(q) + 1 /\ r[Len(q) + 1] = e
          /\ \A i \in 1 .. Len(q) : r[i] = q[i]
      BY <1>0, <2>1, <2>2, AppendProperties
    <2>4. ASSUME NEW i \in 1 .. Len(r)
          PROVE  /\ r[i].qid \in Nat /\ r[i].qid < n + 1 /\ r[i].qid + Delay >= n + 1
                 /\ r[i].due = r[i].qid + setting.lag /\ r[i].leaf = LeafAt(r[i].qid)
      <3>1. CASE i \in 1 .. Len(q)
        BY <1>1, <2>3, <3>1
      <3>2. CASE i = Len(q) + 1
        <4>1. n \in Nat /\ n < n + 1 /\ n + Delay >= n + 1
          BY DelayIs
        <4>2. r[i] = e
          BY <2>3, <3>2
        <4>3. QED
          BY <2>1, <4>1, <4>2
      <3>3. QED
        BY <1>0, <2>3, <3>1, <3>2
    <2>5. ASSUME NEW i \in 1 .. Len(r), NEW j \in 1 .. Len(r), i < j PROVE r[i].qid < r[j].qid
      <3>1. i \in 1 .. Len(q)
        BY <1>0, <2>3, <2>5
      <3>2. CASE j \in 1 .. Len(q)
        BY <1>1, <2>3, <2>5, <3>1, <3>2
      <3>3. CASE j = Len(q) + 1
        BY <1>1, <2>1, <2>3, <3>1, <3>3
      <3>4. QED
        BY <1>0, <2>3, <3>2, <3>3
    <2>6. QED
      BY <2>2, <2>3, <2>4, <2>5 DEF QueueIs, DigestSeqs
  <1>4. QED
    BY <1>2, <1>3

\* One query of the controller's variant: from c, the digest due leaves h, the
\* poll p and the answer d.
HwTurn(c, h, p, d) ==
    /\ h \in HwRecords /\ p \in HwRecords /\ d \in HwRecords
    /\ ~Due(c) => h = c
    /\ Due(c) =>
           /\ t - Delay \in 0 .. t - 1
           /\ \E now \in Times : /\ now < t /\ (setting.lag = 0 => now = t - 1)
                                 /\ HwTook(c, LeafAt(t - Delay), now, h)
    /\ QueueIs(h.queue, t) /\ h.t_ctl = p.t_ctl /\ (h.t_ctl = 0 \/ h.t_ctl < t)
    /\ \A i \in 1 .. Len(h.queue) : h.queue[i].qid + Delay >= t + 1
    /\ \A i \in 1 .. Len(c.queue) :
           c.queue[i].qid # t - Delay => \E j \in 1 .. Len(h.queue) : h.queue[j] = c.queue[i]
    /\ p = HwPoll(h) /\ p.hit = h.hit /\ p.resident = h.resident /\ p.queue = h.queue
    /\ ~Polls => p = h
    /\ Polls /\ setting.clock = "query" =>
           /\ p.weight = Credited(h, t - 1) /\ p.credits = [l \in Leaves |-> 0]
           /\ p.last = [l \in Leaves |-> IF l \in h.resident /\ h.credits[l] > 0 THEN t - 1
                                         ELSE h.last[l]]
    /\ HwNoted(p, LeafAt(t), d)

\* It is one.
LEMMA HwTurns ==
  ASSUME StreamTypes, SettingTypes, Access, HwKept
  PROVE  \E h, p : HwTurn(hw, h, p, hw')
  <1>0. t \in Nat /\ t \in 0 .. Length - 1 /\ LeafAt(t) \in Leaves /\ Length \in Nat \ {0}
    BY StreamStep, Sizes
  <1>1. PICK c \in HwRecords : c = hw
    BY DEF HwKept
  <1>2. (c.t_ctl = 0 \/ c.t_ctl < t) /\ QueueIs(c.queue, t) /\ c.t_ctl \in Nat
    BY <1>1 DEF HwKept, HwRecords
  <1>3. PICK h \in HwDigests(c) : hw' = HwAnswer(HwPoll(h), LeafAt(t))
    BY <1>1 DEF Access
  <1>4. c.t_ctl \in Times
    BY <1>0, <1>2 DEF Times
  <1>5. PICK q : q = c.queue
    OBVIOUS
  <1>6. q \in Seq(Digests) /\ QueueIs(q, t)
    BY <1>2, <1>5 DEF QueueIs, DigestSeqs
  <1>7. ASSUME q # <<>> PROVE Head(q).qid \in Nat /\ Head(q).qid < t
    <2>1. 1 \in 1 .. Len(q) /\ Head(q) = q[1]
      BY <1>6, <1>7, LenProperties, EmptySeq, HeadTailProperties
    <2>2. QED
      BY <1>6, <2>1 DEF QueueIs
  <1>8. q # <<>> => Head(q).qid \in Times
    BY <1>0, <1>7 DEF Times
  <1>9. /\ h \in HwRecords
        /\ ~Due(c) => h = c
        /\ Due(c) => LET now == IF c.t_ctl > Head(c.queue).qid THEN c.t_ctl ELSE Head(c.queue).qid
                     IN  HwTook(c, Head(c.queue).leaf, now, h)
    BY <1>4, <1>5, <1>8, HwDigestsIs
  <1>10. Due(c) <=> q # <<>> /\ Head(q).due <= t
    BY <1>5 DEF Due
  <1>11. CASE Due(c)
    <2>1. /\ Head(q).qid = t - Delay /\ Head(q).leaf = LeafAt(t - Delay) /\ t - Delay \in 0 .. t - 1
          /\ QueueIs(Tail(q), t)
          /\ \A i \in 1 .. Len(Tail(q)) : Tail(q)[i].qid + Delay >= t + 1
          /\ \A i \in 1 .. Len(q) : q[i].qid # t - Delay => \E j \in 1 .. Len(Tail(q)) : Tail(q)[j] = q[i]
      BY <1>0, <1>6, <1>10, <1>11, HeadLeaves
    <2>2. PICK now : now = IF c.t_ctl > Head(q).qid THEN c.t_ctl ELSE Head(q).qid
      OBVIOUS
    <2>3. HwTook(c, LeafAt(t - Delay), now, h)
      BY <1>5, <1>9, <1>11, <2>1, <2>2
    <2>4. now \in Times
      BY <1>4, <1>8, <1>10, <1>11, <2>2
    <2>5. now < t
      BY <1>0, <1>2, <2>1, <2>2
    <2>6. setting.lag = 0 => now = t - 1
      <3>1. ASSUME setting.lag = 0 PROVE now = t - 1
        <4>1. Head(q).qid = t - 1
          BY <2>1, <3>1, DelayIs
        <4>2. now \in Nat /\ now >= t - 1
          BY <1>0, <1>2, <2>1, <2>2, <4>1
        <4>3. QED
          BY <1>0, <2>5, <4>2
      <3>2. QED
        BY <3>1
    <2>7. h.queue = Tail(q) /\ h.t_ctl = now
      BY <1>5, <2>3 DEF HwTook
    <2>8. PICK p : p = HwPoll(h)
      OBVIOUS
    <2>9. /\ p \in HwRecords /\ p.hit = h.hit /\ p.resident = h.resident /\ p.queue = h.queue
          /\ p.t_ctl = h.t_ctl
          /\ ~Polls => p = h
          /\ Polls /\ setting.clock = "query" =>
               /\ p.weight = Credited(h, t - 1) /\ p.credits = [l \in Leaves |-> 0]
               /\ p.last = [l \in Leaves |-> IF l \in h.resident /\ h.credits[l] > 0 THEN t - 1
                                             ELSE h.last[l]]
      BY <1>0, <1>9, <2>4, <2>7, <2>8, HwPollIs
    <2>10. hw' \in HwRecords /\ HwNoted(p, LeafAt(t), hw')
      BY <1>0, <1>3, <2>8, <2>9, HwAnswerIs
    <2>11. HwTurn(c, h, p, hw')
      BY <1>5, <1>9, <1>11, <2>1, <2>3, <2>4, <2>5, <2>6, <2>7, <2>8, <2>9, <2>10 DEF HwTurn
    <2>12. QED
      BY <1>1, <2>11
  <1>12. CASE ~Due(c)
    <2>1. h = c
      BY <1>9, <1>12
    <2>2. \A i \in 1 .. Len(q) : q[i].qid + Delay >= t + 1
      BY <1>0, <1>6, <1>10, <1>12, HeadStays
    <2>3. PICK p : p = HwPoll(h)
      OBVIOUS
    <2>4. /\ p \in HwRecords /\ p.hit = h.hit /\ p.resident = h.resident /\ p.queue = h.queue
          /\ p.t_ctl = h.t_ctl
          /\ ~Polls => p = h
          /\ Polls /\ setting.clock = "query" =>
               /\ p.weight = Credited(h, t - 1) /\ p.credits = [l \in Leaves |-> 0]
               /\ p.last = [l \in Leaves |-> IF l \in h.resident /\ h.credits[l] > 0 THEN t - 1
                                             ELSE h.last[l]]
      BY <1>0, <1>4, <2>1, <2>3, HwPollIs
    <2>5. hw' \in HwRecords /\ HwNoted(p, LeafAt(t), hw')
      BY <1>0, <1>3, <2>3, <2>4, HwAnswerIs
    <2>6. HwTurn(c, h, p, hw')
      BY <1>2, <1>5, <1>12, <2>1, <2>2, <2>3, <2>4, <2>5 DEF HwTurn
    <2>7. QED
      BY <1>1, <2>6
  <1>13. QED
    BY <1>11, <1>12

\* An install keeps the table within its capacity.
LEMMA HwSetFits ==
  ASSUME SettingTypes, NEW c, NEW X \in SUBSET Leaves, NEW l \in Leaves, NEW D, HwSet(c, X, l, D),
         Cardinality(X) <= setting.k
  PROVE  Cardinality(D) <= setting.k
  <1>0. PICK k \in Nat : k = setting.k
    BY DEF SettingTypes
  <1>1. CASE k = 0 \/ l \in X
    BY <1>0, <1>1 DEF HwSet
  <1>2. CASE k # 0 /\ l \notin X /\ Cardinality(X) < k
    <2>1. D = X \cup {l}
      BY <1>0, <1>2 DEF HwSet
    <2>2. Cardinality(X \cup {l}) = Cardinality(X) + 1 /\ Cardinality(X) \in Nat
      BY <1>2, LeavesCount
    <2>3. QED
      BY <1>0, <1>2, <2>1, <2>2
  <1>3. CASE k # 0 /\ l \notin X /\ ~(Cardinality(X) < k)
    <2>1. PICK v \in X : D = (X \ {v}) \cup {l}
      BY <1>0, <1>3 DEF HwSet
    <2>2. PICK E \in SUBSET Leaves : E = X \ {v}
      OBVIOUS
    <2>3. Cardinality(E) = Cardinality(X) - 1 /\ Cardinality(X) \in Nat
      BY <2>2, LeavesCount
    <2>4. Cardinality(E \cup {l}) = Cardinality(E) + 1
      BY <1>3, <2>2, LeavesCount
    <2>5. Cardinality(D) = Cardinality(X)
      BY <2>1, <2>2, <2>3, <2>4
    <2>6. QED
      BY <2>5
  <1>4. QED
    BY <1>1, <1>2, <1>3

\* Queues do not change with the stream.
LEMMA QueueStays ==
  ASSUME seq' = seq, setting' = setting, NEW q, NEW n
  PROVE  QueueIs(q, n)' <=> QueueIs(q, n)
  BY DEF QueueIs, Delay, LeafAt

\* Each query keeps the queue in order and the table within its capacity.
LEMMA HwStep ==
  ASSUME StreamTypes, SettingTypes, Access, HwKept
  PROVE  HwKept'
  <1>0. /\ t' = t + 1 /\ seq' = seq /\ setting' = setting /\ t \in Nat /\ LeafAt(t) \in Leaves
    BY StreamStep DEF Access
  <1>1. PICK c \in HwRecords : c = hw
    BY DEF HwKept
  <1>2. PICK d : d = hw'
    OBVIOUS
  <1>3. PICK h : \E p : HwTurn(c, h, p, d)
    BY <1>1, <1>2, HwTurns
  <1>4. PICK p : HwTurn(c, h, p, d)
    BY <1>3
  <1>5. /\ d \in HwRecords /\ d.resident = h.resident /\ d.t_ctl = p.t_ctl /\ p.t_ctl = h.t_ctl
        /\ h.t_ctl \in Nat
    BY <1>4 DEF HwTurn, HwNoted, HwRecords
  <1>6. d.t_ctl = 0 \/ d.t_ctl < t + 1
    BY <1>0, <1>4, <1>5 DEF HwTurn
  <1>7. Cardinality(d.resident) <= setting.k
    <2>1. Cardinality(c.resident) <= setting.k /\ c.resident \in SUBSET Leaves
      BY <1>1 DEF HwKept, HwRecords, LeafSets
    <2>2. CASE ~Due(c)
      BY <1>4, <1>5, <2>1, <2>2 DEF HwTurn
    <2>3. CASE Due(c)
      <3>1. t - Delay \in 0 .. t - 1 /\ HwSet(h, c.resident, LeafAt(t - Delay), h.resident)
        BY <1>4, <2>3 DEF HwTurn, HwTook
      <3>2. LeafAt(t - Delay) \in Leaves
        <4>1. t - Delay \in 0 .. Length - 1
          BY <1>0, <3>1, StreamStep
        <4>2. QED
          BY <4>1, LeafIs
      <3>3. QED
        BY <1>5, <2>1, <3>1, <3>2, HwSetFits
    <2>4. QED
      BY <2>2, <2>3
  <1>8. QueueIs(d.queue, t + 1)
    <2>1. QueueIs(h.queue, t) /\ \A i \in 1 .. Len(h.queue) : h.queue[i].qid + Delay >= t + 1
      BY <1>4 DEF HwTurn
    <2>2. \/ d.queue = h.queue
          \/ d.queue = Append(h.queue, [due |-> t + setting.lag, leaf |-> LeafAt(t), qid |-> t])
      BY <1>4 DEF HwTurn, HwNoted
    <2>3. QED
      BY <1>0, <2>1, <2>2, QueueGrows
  <1>9. QED
    BY <1>0, <1>2, <1>5, <1>6, <1>7, <1>8, QueueStays DEF HwKept

-----------------------------------------------------------------------------
(* Misses within the lag.                                                  *)

\* The leaves of the queries up to n.
SeenBy(n) == {LeafAt(i) : i \in 0 .. n}

\* They are leaves, and only join.
LEMMA SeenByIs ==
  ASSUME StreamTypes, NEW n \in Int, n < Length
  PROVE  /\ SeenBy(n) \in SUBSET Leaves
         /\ \A m \in Int : m <= n => SeenBy(m) \subseteq SeenBy(n)
         /\ n < 0 => SeenBy(n) = {}
         /\ 0 <= n => SeenBy(n) = SeenBy(n - 1) \cup {LeafAt(n)}
  <1>0. Length \in Nat
    BY Sizes
  <1>1. \A i \in 0 .. n : LeafAt(i) \in Leaves
    <2>1. \A i \in 0 .. n : i \in 0 .. Length - 1
      BY <1>0
    <2>2. QED
      BY <2>1, LeafIs
  <1>2. ASSUME NEW m \in Int, m <= n PROVE SeenBy(m) \subseteq SeenBy(n)
    <2>1. \A i \in 0 .. m : i \in 0 .. n
      BY <1>2
    <2>2. QED
      BY <2>1 DEF SeenBy
  <1>3. n < 0 => SeenBy(n) = {}
    <2>1. n < 0 => 0 .. n = {}
      OBVIOUS
    <2>2. QED
      BY <2>1 DEF SeenBy
  <1>4. 0 <= n => SeenBy(n) = SeenBy(n - 1) \cup {LeafAt(n)}
    <2>1. 0 <= n => 0 .. n = (0 .. n - 1) \cup {n}
      OBVIOUS
    <2>2. QED
      BY <2>1 DEF SeenBy
  <1>5. QED
    BY <1>1, <1>2, <1>3, <1>4 DEF SeenBy

\* While the leaves seen fit, the table holds those whose digests have arrived.
HwServes ==
    Cardinality(SeenBy(t - 1)) <= setting.k =>
        /\ hw.resident = SeenBy((t - 1) - Delay)
        /\ \A q \in 0 .. t - 1 :
               q + Delay >= t /\ LeafAt(q) \notin SeenBy(q - Delay) =>
                   \E i \in 1 .. Len(hw.queue) : hw.queue[i].qid = q
        /\ t > 0 => (hw.hit <=> LeafAt(t - 1) \in SeenBy((t - 1) - Delay))

\* The digest due is that of the leaf which joins them.
LEMMA HwJoins ==
  ASSUME StreamTypes, SettingTypes, t \in 0 .. Length - 1, NEW c, NEW h, NEW p, NEW d,
         HwTurn(c, h, p, d), QueueIs(c.queue, t), Cardinality(SeenBy(t)) <= setting.k,
         c.resident = SeenBy((t - 1) - Delay),
         \A q \in 0 .. t - 1 :
             q + Delay >= t /\ LeafAt(q) \notin SeenBy(q - Delay) =>
                 \E i \in 1 .. Len(c.queue) : c.queue[i].qid = q
  PROVE  h.resident = SeenBy(t - Delay)
  <1>0. t \in Nat /\ Length \in Nat /\ Delay \in Nat \ {0} /\ t < Length
    BY Sizes, DelayIs
  <1>1. PICK m \in Int : m = t - Delay
    BY <1>0
  <1>2. PICK k \in Nat : k = setting.k
    BY DEF SettingTypes
  <1>3. m < t /\ m < Length /\ m - 1 \in Int /\ m - 1 < Length /\ (t - 1) - Delay = m - 1
    BY <1>0, <1>1
  <1>4. PICK X \in SUBSET Leaves : X = SeenBy(m - 1)
    BY <1>3, SeenByIs
  <1>5. c.resident = X
    BY <1>3, <1>4
  <1>6. CASE Due(c)
    <2>1. m \in 0 .. t - 1 /\ HwSet(h, X, LeafAt(m), h.resident)
      BY <1>1, <1>5, <1>6 DEF HwTurn, HwTook
    <2>2. PICK l \in Leaves : l = LeafAt(m)
      <3>1. m \in 0 .. Length - 1
        BY <1>0, <2>1
      <3>2. QED
        BY <3>1, LeafIs
    <2>3. SeenBy(m) = X \cup {l}
      BY <1>3, <1>4, <2>1, <2>2, SeenByIs
    <2>4. Cardinality(X \cup {l}) <= k
      <3>1. SeenBy(m) \in SUBSET SeenBy(t) /\ SeenBy(t) \in SUBSET Leaves
        BY <1>0, <1>3, SeenByIs
      <3>2. /\ Cardinality(SeenBy(m)) \in Nat /\ Cardinality(SeenBy(t)) \in Nat
            /\ Cardinality(SeenBy(m)) <= Cardinality(SeenBy(t))
        BY <3>1, LeavesCount
      <3>3. QED
        BY <1>2, <2>3, <3>2
    <2>5. CASE l \in X
      <3>1. h.resident = X
        BY <2>1, <2>2, <2>5 DEF HwSet
      <3>2. X \cup {l} = X
        BY <2>5
      <3>3. QED
        BY <1>1, <2>3, <3>1, <3>2
    <2>6. CASE l \notin X
      <3>1. Cardinality(X) < k /\ k # 0
        <4>1. Cardinality(X \cup {l}) = Cardinality(X) + 1 /\ Cardinality(X) \in Nat
          BY <2>6, LeavesCount
        <4>2. QED
          BY <2>4, <4>1
      <3>2. h.resident = X \cup {l}
        BY <1>2, <2>1, <2>2, <2>6, <3>1 DEF HwSet
      <3>3. QED
        BY <1>1, <2>3, <3>2
    <2>7. QED
      BY <2>5, <2>6
  <1>7. CASE ~Due(c)
    <2>1. h = c /\ \A i \in 1 .. Len(c.queue) : c.queue[i].qid + Delay >= t + 1
      BY <1>7 DEF HwTurn
    <2>2. CASE m < 0
      <3>1. SeenBy(m) = {} /\ X = {}
        BY <1>3, <1>4, <2>2, SeenByIs
      <3>2. QED
        BY <1>1, <1>5, <2>1, <3>1
    <2>3. CASE 0 <= m
      <3>1. SeenBy(m) = X \cup {LeafAt(m)}
        BY <1>3, <1>4, <2>3, SeenByIs
      <3>2. LeafAt(m) \in X
        <4>1. SUFFICES ASSUME LeafAt(m) \notin X PROVE FALSE
          OBVIOUS
        <4>2. LeafAt(m) \notin SeenBy(m - Delay)
          <5>1. m - Delay \in Int /\ m - Delay <= m - 1
            BY <1>0
          <5>2. QED
            BY <1>3, <1>4, <4>1, <5>1, SeenByIs
        <4>3. m \in 0 .. t - 1 /\ m + Delay >= t
          BY <1>0, <1>1, <1>3, <2>3
        <4>4. PICK i \in 1 .. Len(c.queue) : c.queue[i].qid = m
          BY <4>2, <4>3
        <4>5. m + Delay >= t + 1
          BY <2>1, <4>4
        <4>6. QED
          BY <1>0, <1>1, <4>5
      <3>3. QED
        BY <1>1, <1>5, <2>1, <3>1, <3>2
    <2>4. QED
      BY <2>2, <2>3
  <1>8. QED
    BY <1>6, <1>7

\* What has been seen stays so.
LEMMA SeenStays ==
  ASSUME seq' = seq, setting' = setting, NEW n
  PROVE  SeenBy(n)' = SeenBy(n) /\ Delay' = Delay /\ LeafAt(n)' = LeafAt(n)
  BY DEF SeenBy, LeafAt, Delay

\* Each query keeps it.
LEMMA HwServesStep ==
  ASSUME StreamTypes, SettingTypes, Access, HwKept, HwServes
  PROVE  HwServes'
  <1>0. /\ t' = t + 1 /\ seq' = seq /\ setting' = setting /\ t \in Nat /\ LeafAt(t) \in Leaves
        /\ t \in 0 .. Length - 1 /\ Length \in Nat /\ Delay \in Nat \ {0}
    BY StreamStep, DelayIs DEF Access
  <1>1. PICK c \in HwRecords : c = hw
    BY DEF HwKept
  <1>2. PICK d : d = hw'
    OBVIOUS
  <1>3. PICK h : \E p : HwTurn(c, h, p, d)
    BY <1>1, <1>2, HwTurns
  <1>4. PICK p : HwTurn(c, h, p, d)
    BY <1>3
  <1>5. SUFFICES ASSUME Cardinality(SeenBy(t)) <= setting.k
        PROVE  /\ d.resident = SeenBy(t - Delay)
               /\ \A q \in 0 .. t :
                      q + Delay >= t + 1 /\ LeafAt(q) \notin SeenBy(q - Delay) =>
                          \E i \in 1 .. Len(d.queue) : d.queue[i].qid = q
               /\ d.hit <=> LeafAt(t) \in SeenBy(t - Delay)
    <2>1. (t + 1) - 1 = t
      BY <1>0
    <2>2. PICK w : w = Delay
      OBVIOUS
    <2>3. /\ (Cardinality(SeenBy(t - 1)) <= setting.k)' <=> Cardinality(SeenBy(t)) <= setting.k
          /\ SeenBy((t - 1) - Delay)' = SeenBy(t - Delay) /\ LeafAt(t - 1)' = LeafAt(t)
          /\ Delay' = Delay
      BY <1>0, <2>1 DEF SeenBy, LeafAt, Delay
    <2>4. \A q : SeenBy(q - Delay)' = SeenBy(q - Delay) /\ LeafAt(q)' = LeafAt(q)
      BY <1>0 DEF SeenBy, LeafAt, Delay
    <2>5. QED
      BY <1>0, <1>2, <2>1, <2>3, <2>4 DEF HwServes
  <1>6. Cardinality(SeenBy(t - 1)) <= setting.k
    <2>1. t \in Int /\ t - 1 \in Int /\ t - 1 <= t /\ t < Length
      BY <1>0
    <2>2. SeenBy(t - 1) \in SUBSET SeenBy(t) /\ SeenBy(t) \in SUBSET Leaves
      BY <2>1, SeenByIs
    <2>3. /\ Cardinality(SeenBy(t - 1)) \in Nat /\ Cardinality(SeenBy(t)) \in Nat
          /\ Cardinality(SeenBy(t - 1)) <= Cardinality(SeenBy(t))
      BY <2>2, LeavesCount
    <2>4. setting.k \in Nat
      BY DEF SettingTypes
    <2>5. QED
      BY <1>5, <2>3, <2>4
  <1>7. /\ c.resident = SeenBy((t - 1) - Delay)
        /\ \A q \in 0 .. t - 1 :
               q + Delay >= t /\ LeafAt(q) \notin SeenBy(q - Delay) =>
                   \E i \in 1 .. Len(c.queue) : c.queue[i].qid = q
    BY <1>1, <1>6 DEF HwServes
  <1>8. QueueIs(c.queue, t)
    BY <1>1 DEF HwKept
  <1>9. PICK X : X = SeenBy(t - Delay)
    OBVIOUS
  <1>10. h.resident = X
    BY <1>0, <1>4, <1>5, <1>7, <1>8, <1>9, HwJoins
  <1>11. d.resident = X /\ (d.hit <=> LeafAt(t) \in X)
    BY <1>4, <1>10 DEF HwTurn, HwNoted
  <1>12. \A i \in 1 .. Len(h.queue) : i \in 1 .. Len(d.queue) /\ d.queue[i] = h.queue[i]
    <2>1. h.queue \in Seq(Digests) /\ p.queue = h.queue
      BY <1>4 DEF HwTurn, QueueIs, DigestSeqs
    <2>2. PICK e : e = [due |-> t + setting.lag, leaf |-> LeafAt(t), qid |-> t]
      OBVIOUS
    <2>3. d.queue = h.queue \/ d.queue = Append(h.queue, e)
      BY <1>4, <2>1, <2>2 DEF HwTurn, HwNoted
    <2>4. e \in Digests
      <3>1. t + setting.lag \in Nat
        BY <1>0, DelayIs
      <3>2. QED
        BY <1>0, <2>2, <3>1 DEF Digests
    <2>5. /\ Len(Append(h.queue, e)) = Len(h.queue) + 1 /\ Len(h.queue) \in Nat
          /\ \A i \in 1 .. Len(h.queue) : Append(h.queue, e)[i] = h.queue[i]
      BY <2>1, <2>4, AppendProperties, LenProperties
    <2>6. QED
      BY <2>3, <2>5
  <1>13. ASSUME NEW q \in 0 .. t, q + Delay >= t + 1, LeafAt(q) \notin SeenBy(q - Delay)
         PROVE  \E i \in 1 .. Len(d.queue) : d.queue[i].qid = q
    <2>1. CASE q = t
      <3>1. LeafAt(t) \notin p.resident /\ p.queue = h.queue
        BY <1>4, <1>9, <1>10, <1>13, <2>1 DEF HwTurn
      <3>2. PICK e : e = [due |-> t + setting.lag, leaf |-> LeafAt(t), qid |-> t]
        OBVIOUS
      <3>3. d.queue = Append(h.queue, e)
        BY <1>4, <3>1, <3>2 DEF HwTurn, HwNoted
      <3>4. h.queue \in Seq(Digests) /\ e \in Digests /\ e.qid = t
        <4>1. t + setting.lag \in Nat
          BY <1>0, DelayIs
        <4>2. h.queue \in Seq(Digests)
          BY <1>4 DEF HwTurn, QueueIs, DigestSeqs
        <4>3. QED
          BY <1>0, <3>2, <4>1, <4>2 DEF Digests
      <3>5. /\ Len(d.queue) = Len(h.queue) + 1 /\ Len(h.queue) \in Nat
            /\ d.queue[Len(h.queue) + 1] = e
        BY <3>3, <3>4, AppendProperties, LenProperties
      <3>6. QED
        BY <2>1, <3>4, <3>5
    <2>2. CASE q # t
      <3>1. q \in 0 .. t - 1 /\ q + Delay >= t /\ q # t - Delay
        BY <1>0, <1>13, <2>2
      <3>2. PICK i \in 1 .. Len(c.queue) : c.queue[i].qid = q
        BY <1>7, <1>13, <3>1
      <3>3. PICK j \in 1 .. Len(h.queue) : h.queue[j] = c.queue[i]
        BY <1>4, <3>1, <3>2 DEF HwTurn
      <3>4. QED
        BY <1>12, <3>2, <3>3
    <2>3. QED
      BY <2>1, <2>2
  <1>14. QED
    BY <1>9, <1>11, <1>13

\* So a miss is explained by the lag.
LEMMA LagExplains ==
  ASSUME StreamTypes, SettingTypes, HwServes
  PROVE  HwMissesOnlyWithinLag
  <1> SUFFICES ASSUME t > 0, Cardinality({LeafAt(i) : i \in 0 .. t - 1}) <= setting.k
      PROVE  LET first == Min({i \in 0 .. t - 1 : LeafAt(i) = LeafAt(t - 1)})
             IN  hw.hit <=> t - 1 - first >= Max({setting.lag, 1})
    BY DEF HwMissesOnlyWithinLag
  <1>0. t \in Nat /\ t - 1 \in Nat /\ setting.lag \in Nat /\ Delay \in Nat \ {0}
    BY Sizes, DelayIs DEF StreamTypes
  <1>1. hw.hit <=> LeafAt(t - 1) \in SeenBy((t - 1) - Delay)
    BY DEF HwServes, SeenBy
  <1>2. PICK S : S = {i \in 0 .. t - 1 : LeafAt(i) = LeafAt(t - 1)}
    OBVIOUS
  <1>3. PICK first : first = Min(S)
    OBVIOUS
  <1>4. S \in SUBSET (0 .. t - 1) /\ t - 1 \in S
    BY <1>0, <1>2
  <1>5. first \in S /\ \A y \in S : first <= y
    BY <1>0, <1>3, <1>4, MinIs
  <1>6. PICK m : m = Max({setting.lag, 1})
    OBVIOUS
  <1>7. m = Delay
    <2>1. {setting.lag, 1} \in SUBSET (0 .. setting.lag + 1) /\ {setting.lag, 1} # {}
          /\ 0 \in Int /\ setting.lag + 1 \in Int
      BY <1>0
    <2>2. m \in {setting.lag, 1} /\ \A y \in {setting.lag, 1} : m >= y
      BY <1>6, <2>1, MaxIs
    <2>3. m >= setting.lag /\ m >= 1 /\ m \in Nat
      BY <1>0, <2>2
    <2>4. CASE setting.lag = 0
      BY <2>2, <2>3, <2>4, DelayIs
    <2>5. CASE setting.lag # 0
      BY <1>0, <2>2, <2>3, <2>5, DelayIs
    <2>6. QED
      BY <2>4, <2>5
  <1>8. LeafAt(t - 1) \in SeenBy((t - 1) - Delay) <=> first <= (t - 1) - Delay
    <2>1. ASSUME LeafAt(t - 1) \in SeenBy((t - 1) - Delay) PROVE first <= (t - 1) - Delay
      <3>1. PICK i \in 0 .. (t - 1) - Delay : LeafAt(i) = LeafAt(t - 1)
        BY <2>1 DEF SeenBy
      <3>2. i \in 0 .. t - 1
        BY <1>0
      <3>3. first <= i /\ first \in Nat
        BY <1>2, <1>4, <1>5, <3>1, <3>2
      <3>4. QED
        BY <1>0, <3>3
    <2>2. ASSUME first <= (t - 1) - Delay PROVE LeafAt(t - 1) \in SeenBy((t - 1) - Delay)
      <3>1. first \in 0 .. (t - 1) - Delay /\ LeafAt(first) = LeafAt(t - 1)
        BY <1>0, <1>2, <1>5, <2>2
      <3>2. QED
        BY <3>1 DEF SeenBy
    <2>3. QED
      BY <2>1, <2>2
  <1>9. first <= (t - 1) - Delay <=> t - 1 - first >= m
    <2>1. first \in Nat
      BY <1>4, <1>5
    <2>2. QED
      BY <1>0, <1>7, <2>1
  <1>10. QED
    BY <1>1, <1>2, <1>3, <1>6, <1>8, <1>9

-----------------------------------------------------------------------------
(* Without delays the controller's variant is decayed LFU: what LFU did at *)
(* the last query it does before the next.                                 *)

Ideal == setting.lag = 0 /\ setting.poll = 1 /\ setting.clock = "query" /\ setting.k > 0

\* Nothing is left to do.
Settled(c, i) ==
    /\ c.weight = i.weight /\ c.last = i.last /\ c.resident = i.resident
    /\ c.queue = <<>> /\ c.credits = [l \in Leaves |-> 0]

\* The query for l, at now, is still to be scored.
QueryPending(c, i, l, now) ==
    /\ i.weight = [c.weight EXCEPT ![l] = c.weight[l] + 1 * setting.gain[now]]
    /\ i.last = [c.last EXCEPT ![l] = now]
    /\ ScoredSet(c, c.resident, setting.k, l, i.resident)
    /\ l \in c.resident => /\ c.queue = <<>>
                           /\ c.credits = [m \in Leaves |-> IF m = l THEN 1 ELSE 0]
    /\ l \notin c.resident => /\ c.queue # <<>> /\ Head(c.queue).due = now /\ Tail(c.queue) = <<>>
                              /\ c.credits = [m \in Leaves |-> 0]

HwIdeal ==
    Ideal =>
        /\ hw.hit = dlfu[setting.gain][setting.k].hit
        /\ t = 0 => Settled(hw, dlfu[setting.gain][setting.k])
        /\ t > 0 => QueryPending(hw, dlfu[setting.gain][setting.k], LeafAt(t - 1), t - 1)

\* An install replaces the leaf that decayed LFU replaces.
LEMMA SameVictim ==
  ASSUME SettingTypes, setting.k > 0, NEW c, NEW h, NEW X, NEW l, l \notin X, NEW D, NEW E,
         ScoredSet(c, X, setting.k, l, D), HwSet(h, X, l, E),
         Cardinality(X) \in Nat,
         \A u, v \in X : Lower(h, u, v) <=> Lower(c, u, v)
  PROVE  D = E
  <1>0. PICK k \in Nat : k = setting.k /\ k # 0
    BY DEF SettingTypes
  <1>1. CASE Cardinality(X) < k
    <2>1. D = X \cup {l} /\ E = X \cup {l}
      BY <1>0, <1>1 DEF ScoredSet, HwSet
    <2>2. QED
      BY <2>1
  <1>2. CASE ~(Cardinality(X) < k)
    <2>1. Cardinality(X) >= k
      BY <1>2
    <2>2. PICK v : Lowest(c, X, v) /\ D = (X \ {v}) \cup {l}
      BY <1>0, <2>1 DEF ScoredSet
    <2>3. PICK u \in X : (\A r \in X : ~Lower(h, r, u)) /\ E = (X \ {u}) \cup {l}
      BY <1>0, <1>2 DEF HwSet
    <2>4. v \in X /\ \A x \in X \ {v} : Lower(c, v, x)
      BY <2>2 DEF Lowest
    <2>5. u = v
      BY <2>3, <2>4
    <2>6. QED
      BY <2>2, <2>3, <2>5
  <1>3. QED
    BY <1>1, <1>2

\* The digest and the poll before a query settle the query before.
LEMMA HwSettles ==
  ASSUME StreamTypes, SettingTypes, Ideal, t \in 0 .. Length - 1, NEW c \in HwRecords,
         NEW h, NEW p, NEW d, HwTurn(c, h, p, d), QueueIs(c.queue, t), NEW i,
         t = 0 => Settled(c, i), t > 0 => QueryPending(c, i, LeafAt(t - 1), t - 1)
  PROVE  Settled(p, i)
  <1>0. t \in Nat /\ setting.lag = 0 /\ setting.k > 0 /\ setting.clock = "query" /\ Delay = 1
        /\ Length \in Nat
    BY Sizes, DelayIs DEF Ideal
  <1>1. Polls <=> t > 0
    <2>1. t % 1 = 0
      <3>1. t % 1 \in 0 .. 1 - 1 /\ 1 \in Nat \ {0}
        BY <1>0, NextRemainder
      <3>2. QED
        BY <3>1
    <2>2. QED
      BY <2>1 DEF Polls, Ideal
  <1>2. CASE t = 0
    <2>1. Settled(c, i)
      BY <1>2
    <2>2. ~Due(c)
      BY <2>1 DEF Settled, Due
    <2>3. h = c /\ p = h
      BY <1>0, <1>1, <1>2, <2>2 DEF HwTurn
    <2>4. QED
      BY <2>1, <2>3
  <1>3. CASE t > 0
    <2>1. PICK l \in Leaves : l = LeafAt(t - 1)
      <3>1. t - 1 \in 0 .. Length - 1
        BY <1>0, <1>3
      <3>2. QED
        BY <3>1, LeafIs
    <2>2. PICK now \in Nat : now = t - 1
      BY <1>0, <1>3
    <2>3. QueryPending(c, i, l, now)
      BY <1>3, <2>1, <2>2
    <2>4. PICK X \in SUBSET Leaves : X = c.resident
      BY DEF HwRecords, LeafSets
    <2>5. PICK w \in [Leaves -> Nat] : w = c.weight
      BY DEF HwRecords
    <2>6. PICK f \in [Leaves -> Int] : f = c.last
      BY DEF HwRecords
    <2>7. PICK n \in Nat : n = setting.gain[now]
      <3>1. now \in Times
        BY <1>0, <2>2 DEF Times
      <3>2. QED
        BY <3>1 DEF SettingTypes
    <2>8. /\ i.weight = [w EXCEPT ![l] = w[l] + 1 * n] /\ i.last = [f EXCEPT ![l] = now]
          /\ ScoredSet(c, X, setting.k, l, i.resident)
      BY <2>3, <2>4, <2>5, <2>6, <2>7 DEF QueryPending
    <2>9. PICK z : z = [m \in Leaves |-> 0]
      OBVIOUS
    <2>10. /\ p.weight = Credited(h, t - 1) /\ p.credits = z
           /\ p.last = [m \in Leaves |-> IF m \in h.resident /\ h.credits[m] > 0 THEN t - 1
                                         ELSE h.last[m]]
           /\ p.resident = h.resident /\ p.queue = h.queue
      BY <1>0, <1>1, <1>3, <2>9 DEF HwTurn
    <2>11. CASE l \in X
      <3>1. c.queue = <<>> /\ c.credits = [m \in Leaves |-> IF m = l THEN 1 ELSE 0]
            /\ i.resident = X
        BY <2>3, <2>4, <2>8, <2>11 DEF QueryPending, ScoredSet
      <3>2. h = c
        BY <3>1 DEF HwTurn, Due
      <3>3. \A m \in Leaves : (m \in X /\ c.credits[m] > 0) <=> m = l
        BY <2>11, <3>1
      <3>4. p.weight = [m \in Leaves |-> w[m] + IF m = l THEN c.credits[m] * n ELSE 0]
        BY <2>2, <2>4, <2>5, <2>7, <2>10, <3>2, <3>3 DEF Credited
      <3>5. p.weight = i.weight
        <4>1. \A m \in Leaves : w[m] + (IF m = l THEN c.credits[m] * n ELSE 0)
                                  = IF m = l THEN w[l] + 1 * n ELSE w[m]
          BY <3>1
        <4>2. i.weight = [m \in Leaves |-> IF m = l THEN w[l] + 1 * n ELSE w[m]]
          BY <2>8
        <4>3. QED
          BY <3>4, <4>1, <4>2
      <3>6. p.last = i.last
        <4>1. p.last = [m \in Leaves |-> IF m = l THEN now ELSE f[m]]
          BY <2>2, <2>4, <2>6, <2>10, <3>2, <3>3
        <4>2. i.last = [m \in Leaves |-> IF m = l THEN now ELSE f[m]]
          BY <2>8
        <4>3. QED
          BY <4>1, <4>2
      <3>7. p.resident = i.resident /\ p.queue = <<>>
        BY <2>4, <2>10, <3>1, <3>2
      <3>8. QED
        BY <2>9, <2>10, <3>5, <3>6, <3>7 DEF Settled
    <2>12. CASE l \notin X
      <3>1. /\ c.queue # <<>> /\ Head(c.queue).due = now /\ Tail(c.queue) = <<>> /\ c.credits = z
        BY <2>3, <2>4, <2>9, <2>12 DEF QueryPending
      <3>2. Due(c)
        BY <1>0, <2>2, <3>1 DEF Due
      <3>3. HwTook(c, l, now, h)
        <4>1. PICK u \in Times : (setting.lag = 0 => u = t - 1) /\ HwTook(c, LeafAt(t - Delay), u, h)
          BY <3>2 DEF HwTurn
        <4>2. u = now /\ t - Delay = t - 1
          BY <1>0, <2>2, <4>1
        <4>3. QED
          BY <2>1, <4>1, <4>2
      <3>4. /\ h.weight = i.weight /\ h.last = i.last /\ h.credits = z /\ h.queue = <<>>
            /\ HwSet(h, X, l, h.resident)
        BY <2>4, <2>5, <2>6, <2>7, <2>8, <3>1, <3>3 DEF HwTook
      <3>5. i.resident = h.resident
        <4>1. Cardinality(X) \in Nat
          BY LeavesCount
        <4>2. \A m \in X : h.weight[m] = c.weight[m] /\ h.last[m] = c.last[m]
          BY <2>5, <2>6, <2>8, <2>12, <3>4
        <4>3. \A u, v \in X : Lower(h, u, v) <=> Lower(c, u, v)
          BY <4>2 DEF Lower
        <4>4. QED
          BY <1>0, <2>8, <2>12, <3>4, <4>1, <4>3, SameVictim
      <3>6. i.weight \in [Leaves -> Nat] /\ i.last \in [Leaves -> Int]
        <4>1. w[l] + 1 * n \in Nat /\ now \in Int
          OBVIOUS
        <4>2. QED
          BY <2>8, <4>1
      <3>7. \A m \in Leaves : ~(h.credits[m] > 0)
        BY <2>9, <3>4
      <3>8. p.weight = h.weight
        <4>1. p.weight = [m \in Leaves |-> h.weight[m] + 0]
          BY <2>10, <3>7 DEF Credited
        <4>2. \A m \in Leaves : h.weight[m] + 0 = h.weight[m]
          BY <3>4, <3>6
        <4>3. QED
          BY <3>4, <3>6, <4>1, <4>2
      <3>9. p.last = h.last
        <4>1. p.last = [m \in Leaves |-> h.last[m]]
          BY <2>10, <3>7
        <4>2. QED
          BY <3>4, <3>6, <4>1
      <3>10. QED
        BY <2>9, <2>10, <3>4, <3>5, <3>8, <3>9 DEF Settled
    <2>13. QED
      BY <2>11, <2>12
  <1>4. QED
    BY <1>0, <1>2, <1>3

\* And the query leaves the same to be done.
LEMMA HwFallsBehind ==
  ASSUME SettingTypes, Ideal, t \in Nat, NEW p, NEW d \in HwRecords, NEW l \in Leaves, HwNoted(p, l, d),
         NEW i, NEW j, Settled(p, i), j.hit \in BOOLEAN,
         ScoredMove(i, i.resident, setting.gain, setting.k, l, j, j.resident)
  PROVE  d.hit = j.hit /\ QueryPending(d, j, l, t)
  <1>1. PICK X : X = i.resident
    OBVIOUS
  <1>2. /\ d.weight = i.weight /\ d.last = i.last /\ d.resident = X /\ p.resident = X
        /\ p.queue = <<>> /\ p.credits = [m \in Leaves |-> 0]
    BY <1>1 DEF HwNoted, Settled
  <1>3. /\ j.hit <=> l \in X
        /\ j.weight = [d.weight EXCEPT ![l] = d.weight[l] + 1 * setting.gain[t]]
        /\ j.last = [d.last EXCEPT ![l] = t]
        /\ ScoredSet(i, X, setting.k, l, j.resident)
    BY <1>1, <1>2 DEF ScoredMove
  <1>4. ScoredSet(d, X, setting.k, l, j.resident)
    BY <1>2, <1>3 DEF ScoredSet, Lowest, Lower
  <1>5. d.hit <=> l \in X
    BY <1>2 DEF HwNoted
  <1>6. d.hit = j.hit
    <2>1. PICK x \in BOOLEAN : x = d.hit
      BY DEF HwRecords
    <2>2. PICK y \in BOOLEAN : y = j.hit
      OBVIOUS
    <2>3. x <=> y
      BY <1>3, <1>5, <2>1, <2>2
    <2>4. x = y
      BY <2>3
    <2>5. QED
      BY <2>1, <2>2, <2>4, Zenon
  <1>7. l \in X => d.queue = <<>> /\ d.credits = [m \in Leaves |-> IF m = l THEN 1 ELSE 0]
    <2>1. ASSUME l \in X PROVE d.queue = <<>> /\ d.credits = [m \in Leaves |-> IF m = l THEN 1 ELSE 0]
      <3>1. d.queue = <<>> /\ d.credits = [p.credits EXCEPT ![l] = p.credits[l] + 1]
        BY <1>2, <2>1 DEF HwNoted
      <3>2. p.credits[l] + 1 = 1
        BY <1>2
      <3>3. QED
        BY <1>2, <3>1, <3>2
    <2>2. QED
      BY <2>1
  <1>8. l \notin X => /\ d.queue # <<>> /\ Head(d.queue).due = t /\ Tail(d.queue) = <<>>
                      /\ d.credits = [m \in Leaves |-> 0]
    <2>1. ASSUME l \notin X
          PROVE  /\ d.queue # <<>> /\ Head(d.queue).due = t /\ Tail(d.queue) = <<>>
                 /\ d.credits = [m \in Leaves |-> 0]
      <3>1. PICK e : e = [due |-> t + setting.lag, leaf |-> l, qid |-> t]
        OBVIOUS
      <3>2. d.queue = Append(<<>>, e) /\ d.credits = [m \in Leaves |-> 0]
        BY <1>2, <2>1, <3>1 DEF HwNoted
      <3>3. Append(<<>>, e) = <<e>>
        OBVIOUS
      <3>4. <<e>> # <<>> /\ Head(<<e>>) = e /\ Tail(<<e>>) = <<>>
        OBVIOUS
      <3>5. e.due = t
        BY <3>1 DEF Ideal
      <3>6. QED
        BY <3>2, <3>3, <3>4, <3>5
    <2>2. QED
      BY <2>1
  <1>9. QED
    BY <1>2, <1>3, <1>4, <1>6, <1>7, <1>8 DEF QueryPending

\* Each query keeps it.
LEMMA HwIdealStep ==
  ASSUME StreamTypes, SettingTypes, FenwickInv, Access, HwKept, HwIdeal,
         \A g \in Gains : \A k \in Caps : DlfuKept(dlfu[g][k], k)
  PROVE  HwIdeal'
  <1>0. /\ t' = t + 1 /\ seq' = seq /\ setting' = setting /\ t \in Nat /\ LeafAt(t) \in Leaves
        /\ t \in 0 .. Length - 1 /\ Length \in Nat
    BY StreamStep DEF Access
  <1>1. SUFFICES ASSUME Ideal
        PROVE  /\ hw'.hit = dlfu'[setting.gain][setting.k].hit
               /\ QueryPending(hw', dlfu'[setting.gain][setting.k], LeafAt(t), t)
    <2>1. (t + 1) - 1 = t /\ t + 1 # 0
      BY <1>0
    <2>2. LeafAt(t - 1)' = LeafAt(t) /\ Ideal' = Ideal /\ (t - 1)' = t
      BY <1>0, <2>1 DEF LeafAt, Ideal
    <2>3. QED
      BY <1>0, <2>1, <2>2 DEF HwIdeal, QueryPending, ScoredSet, Lowest, Lower
  <1>2. PICK g \in Gains : g = setting.gain
    BY DEF SettingTypes
  <1>3. PICK k \in Caps : k = setting.k
    BY <1>1, Sizes DEF SettingTypes, Ideal, Caps
  <1>4. PICK i : i = dlfu[g][k]
    OBVIOUS
  <1>5. PICK j : j = dlfu'[g][k]
    OBVIOUS
  <1>6. DlfuKept(dlfu[g][k], k)
    OBVIOUS
  <1>7. j.hit \in BOOLEAN /\ ScoredMove(i, i.resident, g, k, LeafAt(t), j, j.resident)
    <2>1. DlfuKept(dlfu[g][k], k)'
          /\ ScoredMove(dlfu[g][k], dlfu[g][k].resident, g, k, LeafAt(t), dlfu'[g][k], dlfu'[g][k].resident)
      BY <1>6, DlfuStep
    <2>2. j \in ScoredRecords(LeafSets)
      BY <1>5, <2>1 DEF DlfuKept
    <2>3. QED
      BY <1>4, <1>5, <2>1, <2>2 DEF ScoredRecords
  <1>8. PICK c \in HwRecords : c = hw
    BY DEF HwKept
  <1>9. PICK d : d = hw'
    OBVIOUS
  <1>10. PICK h : \E p : HwTurn(c, h, p, d)
    BY <1>8, <1>9, HwTurns
  <1>11. PICK p : HwTurn(c, h, p, d)
    BY <1>10
  <1>12. (t = 0 => Settled(c, i)) /\ (t > 0 => QueryPending(c, i, LeafAt(t - 1), t - 1))
    BY <1>1, <1>2, <1>3, <1>4, <1>8 DEF HwIdeal
  <1>13. QueueIs(c.queue, t)
    BY <1>8 DEF HwKept
  <1>14. Settled(p, i)
    BY <1>0, <1>1, <1>11, <1>12, <1>13, HwSettles
  <1>15. d \in HwRecords /\ HwNoted(p, LeafAt(t), d)
    BY <1>11 DEF HwTurn
  <1>16. d.hit = j.hit /\ QueryPending(d, j, LeafAt(t), t)
    BY <1>0, <1>1, <1>2, <1>3, <1>7, <1>14, <1>15, HwFallsBehind
  <1>17. QED
    BY <1>2, <1>3, <1>5, <1>9, <1>16

-----------------------------------------------------------------------------
(* The theorems.                                                           *)

\* The controller starts with nothing.
LEMMA HwStart == ASSUME Init PROVE SettingTypes /\ HwKept /\ HwServes /\ HwIdeal
  <1>0. t = 0 /\ Length \in Nat \ {0}
    BY Sizes DEF Init
  <1>1. SettingTypes
    BY SettingIs DEF Init
  <1>2. StreamTypes
    <2>1. seq \in [1 .. Length -> Leaves]
      BY StreamsAssumption DEF Init
    <2>2. QED
      BY <1>0, <2>1 DEF StreamTypes
  <1>3. PICK z, f : z = [l \in Leaves |-> 0] /\ f = [l \in Leaves |-> None]
    OBVIOUS
  <1>4. z \in [Leaves -> Nat] /\ f \in [Leaves -> Int]
    BY <1>3 DEF None
  <1>5. PICK c : c = hw
    OBVIOUS
  <1>6. c = [weight |-> z, last |-> f, hit |-> FALSE, resident |-> {}, credits |-> z,
             queue |-> <<>>, t_ctl |-> 0]
    BY <1>3, <1>5 DEF Init
  <1>7. /\ c.weight = z /\ c.last = f /\ c.hit = FALSE /\ c.resident = {} /\ c.credits = z
        /\ c.queue = <<>> /\ c.t_ctl = 0
    BY <1>6
  <1>8. c \in HwRecords
    <2>1. {} \in LeafSets /\ <<>> \in DigestSeqs
      BY DEF LeafSets, DigestSeqs
    <2>2. QED
      BY <1>4, <1>6, <2>1 DEF HwRecords
  <1>9. HwKept
    <2>1. Cardinality({}) <= setting.k
      BY <1>1, EmptyIs DEF SettingTypes
    <2>2. QueueIs(<<>>, t)
      <3>1. Len(<<>>) = 0 /\ 1 .. 0 = {} /\ <<>> \in DigestSeqs
        BY EmptyIs DEF DigestSeqs
      <3>2. QED
        BY <3>1 DEF QueueIs
    <2>3. QED
      BY <1>5, <1>7, <1>8, <2>1, <2>2 DEF HwKept
  <1>10. HwServes
    <2>1. (t - 1) - Delay \in Int /\ (t - 1) - Delay < 0 /\ (t - 1) - Delay < Length
      BY <1>0, <1>1, DelayIs
    <2>2. SeenBy((t - 1) - Delay) = {}
      BY <1>2, <2>1, SeenByIs
    <2>3. 0 .. t - 1 = {} /\ ~(t > 0)
      BY <1>0
    <2>4. QED
      BY <1>5, <1>7, <2>2, <2>3 DEF HwServes
  <1>11. HwIdeal
    <2>1. SUFFICES ASSUME Ideal
          PROVE  hw.hit = dlfu[setting.gain][setting.k].hit
                 /\ Settled(hw, dlfu[setting.gain][setting.k])
      BY <1>0 DEF HwIdeal
    <2>2. setting.gain \in Gains /\ setting.k \in Caps
      BY <1>1, <2>1, Sizes DEF SettingTypes, Ideal, Caps
    <2>3. PICK i : i = dlfu[setting.gain][setting.k]
      OBVIOUS
    <2>4. i = ColdScored({})
      BY <2>2, <2>3 DEF Init
    <2>5. i.hit = FALSE /\ i.resident = {} /\ i.weight = z /\ i.last = f
      BY <1>3, <2>4 DEF ColdScored
    <2>6. QED
      BY <1>3, <1>5, <1>7, <2>3, <2>5, Zenon DEF Settled
  <1>12. QED
    BY <1>1, <1>9, <1>10, <1>11

\* The inductive invariant.
CacheInv ==
    /\ seq \in Streams /\ ColdInv /\ \A k \in Caps : OracleKept(k)
    /\ SettingTypes /\ HwKept /\ HwServes /\ HwIdeal

\* It holds at the start.
LEMMA CacheStart == Init => CacheInv
  <1>1. Init => seq \in Streams
    BY DEF Init
  <1>2. QED
    BY <1>1, ColdStart, OracleStart, HwStart DEF CacheInv

\* It holds throughout.
LEMMA CacheNext == CacheInv /\ [Next]_vars => CacheInv'
  <1> SUFFICES ASSUME CacheInv, [Next]_vars PROVE CacheInv'
    OBVIOUS
  <1>1. ColdInv'
    BY ColdNext DEF CacheInv
  <1>2. /\ StreamTypes /\ FenwickInv /\ SettingTypes /\ HwKept /\ HwServes /\ HwIdeal
        /\ \A k \in Caps : OracleKept(k)
    BY DEF CacheInv, ColdInv
  <1>3. seq' \in Streams
    <2>1. seq' = seq
      BY DEF Next, Access, vars
    <2>2. QED
      BY <2>1 DEF CacheInv
  <1>4. CASE Next
    <2>1. Access
      BY <1>4 DEF Next
    <2>2. \A k \in Caps : OracleKept(k)'
      BY <1>2, <2>1, OracleStep
    <2>3. SettingTypes'
      BY <1>2, <2>1 DEF Access, SettingTypes
    <2>4. HwKept'
      BY <1>2, <2>1, HwStep
    <2>5. HwServes'
      BY <1>2, <2>1, HwServesStep
    <2>6. HwIdeal'
      <3>1. \A g \in Gains : \A k \in Caps : DlfuKept(dlfu[g][k], k)
        BY DEF CacheInv, ColdInv, DlfuInv
      <3>2. QED
        BY <1>2, <2>1, <3>1, HwIdealStep
    <2>7. QED
      BY <1>1, <1>3, <2>2, <2>3, <2>4, <2>5, <2>6 DEF CacheInv
  <1>5. CASE UNCHANGED vars
    <2>1. seq' = seq /\ t' = t /\ oracle' = oracle /\ setting' = setting /\ hw' = hw /\ dlfu' = dlfu
      BY <1>5 DEF vars
    <2>2. ASSUME NEW k \in Caps, OracleKept(k) PROVE OracleKept(k)'
      <3>1. WindowStart' = WindowStart
        BY <2>1 DEF WindowStart
      <3>2. QED
        BY <2>1, <2>2, <3>1, TablesStay DEF OracleKept
    <2>3. SettingTypes' = SettingTypes
      BY <2>1 DEF SettingTypes
    <2>4. HwKept' = HwKept
      BY <2>1 DEF HwKept, QueueIs, Delay, LeafAt
    <2>5. HwServes' = HwServes
      BY <2>1 DEF HwServes, SeenBy, Delay, LeafAt
    <2>6. HwIdeal' = HwIdeal
      BY <2>1 DEF HwIdeal, Ideal, Settled, QueryPending, ScoredSet, Lowest, Lower, LeafAt
    <2>7. QED
      BY <1>1, <1>2, <1>3, <2>2, <2>3, <2>4, <2>5, <2>6 DEF CacheInv
  <1>6. QED
    BY <1>4, <1>5

\* The values of the variables, and no cache beyond its capacity.
LEMMA CacheTypes == ASSUME CacheInv PROVE TypeOK
  <1>0. t \in Nat /\ ColdInv /\ StreamTypes
    BY Sizes DEF CacheInv, ColdInv, StreamTypes
  <1> DEFINE Sound(c, k, held) ==
                 /\ c.hits \in 0 .. t
                 /\ Cardinality(held) <= k
                 /\ c.inserts - c.evictions = Cardinality(held)
  <1>1. ASSUME NEW k \in Caps PROVE Sound(lru[k], k, ToSet(lru[k].resident))
    <2>1. PICK c : c = lru[k]
      OBVIOUS
    <2>2. LruHeld(c, k)
      BY <1>0, <2>1 DEF ColdInv, OneInv
    <2>3. /\ c \in LruRecords /\ LruSeq(c.resident, k, fenwick.last)
          /\ c.hits + c.inserts = t /\ c.inserts - c.evictions = Len(c.resident)
      BY <2>2 DEF LruHeld
    <2>4. c.hits \in Nat /\ c.inserts \in Nat /\ c.resident \in Seq(Leaves)
      BY <2>3 DEF LruRecords, PlainRecords
    <2>5. Distinct(c.resident) /\ Len(c.resident) <= k
      BY <2>3 DEF LruSeq
    <2>6. Cardinality(ToSet(c.resident)) = Len(c.resident)
      BY <2>4, <2>5, DistinctCard
    <2>7. c.hits \in 0 .. t
      BY <1>0, <2>3, <2>4
    <2>8. QED
      BY <2>1, <2>3, <2>5, <2>6, <2>7
  <1>2. ASSUME NEW k \in Caps, NEW c, BeladyKept(c, k) PROVE Sound(c, k, ToSet(c.resident))
    <2>1. /\ c \in BeladyRecords(Seq(Leaves)) /\ Distinct(c.resident) /\ Len(c.resident) <= k
          /\ c.hits <= t /\ c.inserts - c.evictions = Len(c.resident)
      BY <1>2 DEF BeladyKept
    <2>2. c.hits \in Nat /\ c.resident \in Seq(Leaves)
      BY <2>1 DEF BeladyRecords
    <2>3. Cardinality(ToSet(c.resident)) = Len(c.resident)
      BY <2>1, <2>2, DistinctCard
    <2>4. c.hits \in 0 .. t
      BY <1>0, <2>1, <2>2
    <2>5. QED
      BY <2>1, <2>3, <2>4
  <1>3. ASSUME NEW k \in Caps
        PROVE  /\ Sound(belady[k], k, ToSet(belady[k].resident))
               /\ Sound(beladyFast[k], k, ToSet(beladyFast[k].resident))
    <2>1. BeladyKept(belady[k], k) /\ BeladyKept(beladyFast[k], k)
      BY <1>0 DEF ColdInv, OneInv
    <2> HIDE DEF Sound
    <2>2. QED
      BY <1>2, <2>1
  <1>4. ASSUME NEW k \in Caps PROVE Sound(oracle[k], k, oracle[k].resident)
    <2>1. PICK c : c = oracle[k]
      OBVIOUS
    <2>2. OracleCounts(c, k, t)
      BY <2>1 DEF CacheInv, OracleKept
    <2>3. c.hits \in Nat
      BY <2>2 DEF OracleCounts, PlainRecords
    <2>4. c.hits \in 0 .. t
      BY <1>0, <2>2, <2>3 DEF OracleCounts
    <2>5. QED
      BY <2>1, <2>2, <2>4 DEF OracleCounts
  <1>5. ASSUME NEW k \in Caps, NEW g \in Gains
        PROVE  /\ Sound(dlfu[g][k], k, dlfu[g][k].resident)
               /\ Sound(dlfuFast[g][k], k, ToSet(dlfuFast[g][k].resident))
    <2>1. PICK c : c = dlfu[g][k]
      OBVIOUS
    <2>2. PICK d : d = dlfuFast[g][k]
      OBVIOUS
    <2>3. DlfuKept(c, k) /\ KernelKept(c, d)
      BY <1>0, <2>1, <2>2 DEF ColdInv, DlfuInv
    <2>4. c.hits \in Nat
      BY <2>3 DEF DlfuKept, ScoredRecords
    <2>5. c.hits \in 0 .. t
      BY <1>0, <2>3, <2>4 DEF DlfuKept
    <2>6. Sound(c, k, c.resident)
      BY <2>3, <2>5 DEF DlfuKept
    <2>7. /\ ToSet(d.resident) = c.resident /\ d.hits = c.hits
          /\ d.inserts = c.inserts /\ d.evictions = c.evictions
      BY <2>3 DEF KernelKept
    <2>8. Sound(d, k, ToSet(d.resident))
      BY <2>6, <2>7
    <2>9. QED
      BY <2>1, <2>2, <2>6, <2>8
  <1>6. ASSUME NEW i \in 2 .. Len(hw.queue) PROVE hw.queue[i].due > t
    <2>1. PICK q : q = hw.queue
      OBVIOUS
    <2>2. QueueIs(q, t) /\ SettingTypes
      BY <2>1 DEF CacheInv, HwKept
    <2>3. Len(q) \in Nat
      BY <2>2, LenProperties DEF QueueIs, DigestSeqs
    <2>4. i \in 1 .. Len(q) /\ 1 \in 1 .. Len(q) /\ 1 < i
      BY <2>1, <2>3
    <2>5. PICK a \in Nat : a = q[1].qid /\ a + Delay >= t
      BY <2>2, <2>4 DEF QueueIs
    <2>6. PICK b \in Nat : b = q[i].qid /\ b < t /\ a < b /\ q[i].due = b + setting.lag
      BY <2>2, <2>4, <2>5 DEF QueueIs
    <2>7. b + setting.lag > t
      BY <1>0, <2>2, <2>5, <2>6, DelayIs
    <2>8. QED
      BY <2>1, <2>6, <2>7
  <1>7. seq \in Streams /\ setting \in HwSettings /\ t \in 0 .. Length
    BY <1>0 DEF CacheInv, SettingTypes, StreamTypes
  <1>8. Cardinality(hw.resident) <= setting.k
    BY DEF CacheInv, HwKept
  <1>9. QED
    BY <1>1, <1>3, <1>4, <1>5, <1>6, <1>7, <1>8 DEF TypeOK

\* So it has every property of the policies.
LEMMA CacheHolds ==
  ASSUME CacheInv
  PROVE  /\ BeladyIsOptimal /\ HitsGrowWithCapacity /\ NoFixedTableBeatsOracle
         /\ TypeOK /\ KernelsAgree /\ LruHitsByReuseDistance
         /\ HwPolicyReducesToIdeal /\ HwMissesOnlyWithinLag
  <1>1. ColdInv /\ StreamTypes /\ \A k \in Caps : OracleKept(k)
    BY DEF CacheInv, ColdInv
  <1>2. BeladyIsOptimal /\ HitsGrowWithCapacity /\ KernelsAgree /\ LruHitsByReuseDistance
    BY <1>1, ColdOptimal, ColdGrows, ColdAgrees
  <1>3. NoFixedTableBeatsOracle
    BY <1>1, OracleBest
  <1>4. TypeOK
    BY CacheTypes
  <1>5. HwPolicyReducesToIdeal
    BY DEF CacheInv, HwIdeal, Ideal, HwPolicyReducesToIdeal
  <1>6. HwMissesOnlyWithinLag
    BY <1>1, LagExplains DEF CacheInv
  <1>7. QED
    BY <1>2, <1>3, <1>4, <1>5, <1>6

\* Belady with bypass, which looks only at next uses, ends with as many hits
\* as any cache that changes at most one entry per miss, and the sweep's
\* check_summary never fails.
THEOREM BeladyAlwaysOptimal == Spec => []BeladyIsOptimal
  <1>1. CacheInv => BeladyIsOptimal
    BY CacheHolds
  <1>2. QED
    BY <1>1, CacheStart, CacheNext, PTL DEF Spec

\* More capacity never costs a hit, of LRU or of Belady.
THEOREM HitsAlwaysGrow == Spec => []HitsGrowWithCapacity
  <1>1. CacheInv => HitsGrowWithCapacity
    BY CacheHolds
  <1>2. QED
    BY <1>1, CacheStart, CacheNext, PTL DEF Spec

\* No table fixed in advance has served more than the window oracle when a
\* window ends.
THEOREM OracleAlwaysBest == Spec => []NoFixedTableBeatsOracle
  <1>1. CacheInv => NoFixedTableBeatsOracle
    BY CacheHolds
  <1>2. QED
    BY <1>1, CacheStart, CacheNext, PTL DEF Spec

\* The kernels of decayed LFU and Belady answer and count as the policies they
\* stand for, and the reuse distances give the hits, inserts and evictions of
\* LRU of every capacity.
THEOREM KernelsAlwaysAgree == Spec => [](KernelsAgree /\ LruHitsByReuseDistance)
  <1>1. CacheInv => KernelsAgree /\ LruHitsByReuseDistance
    BY CacheHolds
  <1>2. QED
    BY <1>1, CacheStart, CacheNext, PTL DEF Spec

\* The controller's variant answers as decayed LFU does when nothing is
\* delayed; and while the leaves seen fit, it misses only within the lag.
THEOREM DelayAlwaysExplains == Spec => [](HwPolicyReducesToIdeal /\ HwMissesOnlyWithinLag)
  <1>1. CacheInv => HwPolicyReducesToIdeal /\ HwMissesOnlyWithinLag
    BY CacheHolds
  <1>2. QED
    BY <1>1, CacheStart, CacheNext, PTL DEF Spec
=============================================================================
