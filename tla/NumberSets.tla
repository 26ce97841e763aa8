----------------------------- MODULE NumberSets -----------------------------
(***************************************************************************)
(* Least and greatest members of sets of numbers, and remainders, which    *)
(* the proofs about tables, logs and streams need in place of induction.   *)
(***************************************************************************)
EXTENDS Integers, FiniteSets, FiniteSetTheorems, TLAPS

\* A set of numbers up to a bound has a least one.
LEMMA Least ==
  ASSUME NEW top \in Nat, NEW T \in SUBSET (0 .. top), T # {}
  PROVE  \E x \in T : \A y \in T : x <= y
<1> DEFINE Below(x) == {y \in T : y < x}
           W == {Below(x) : x \in T}
           R == StrictSubsetOrdering(0 .. top)
           F == FiniteSubsetsOf(0 .. top)
<1>0. T \subseteq Int
  OBVIOUS
<1>1. IsWellFoundedOn(R, F)
  BY FS_StrictSubsetOrderingWellFounded
<1>2. IsFiniteSet(0 .. top)
  BY FS_Interval
<1>3. W \subseteq F
  <2> SUFFICES ASSUME NEW x \in T PROVE Below(x) \in F
    OBVIOUS
  <2>1. Below(x) \subseteq 0 .. top
    OBVIOUS
  <2>2. IsFiniteSet(Below(x))
    <3> HIDE DEF Below
    <3> QED BY <1>2, <2>1, FS_Subset
  <2> QED BY <2>1, <2>2 DEF FiniteSubsetsOf
<1>4. W # {}
  OBVIOUS
<1>5. PICK D \in W : \A E \in W : ~ (<<E, D>> \in R)
  <2> HIDE DEF R, W, F
  <2> QED BY <1>1, <1>3, <1>4, WFMin
<1>6. PICK x \in T : D = Below(x)
  OBVIOUS
<1>7. ASSUME NEW y \in T, y < x PROVE FALSE
  <2>1. Below(y) \in W
    OBVIOUS
  <2>2. y \in Below(x) /\ y \notin Below(y)
    BY <1>0, <1>7
  <2>3. Below(y) \subseteq Below(x)
    <3> SUFFICES ASSUME NEW z \in T, z < y PROVE z < x
      OBVIOUS
    <3>1. x \in Int /\ y \in Int /\ z \in Int
      BY <1>0
    <3> QED BY <1>7, <3>1
  <2>4. Below(y) \subseteq 0 .. top /\ Below(x) \subseteq 0 .. top
    OBVIOUS
  <2>5. <<Below(y), Below(x)>> \in R
    <3> HIDE DEF Below
    <3> QED BY <2>2, <2>3, <2>4 DEF StrictSubsetOrdering
  <2> QED BY <1>5, <1>6, <2>1, <2>5
<1>8. \A y \in T : x <= y
  BY <1>0, <1>7
<1> QED BY <1>8

\* It has a greatest one.
LEMMA Greatest ==
    ASSUME NEW top \in Nat, NEW T \in SUBSET (0 .. top), T # {}
    PROVE  \E x \in T : \A y \in T : y <= x
<1> DEFINE M == {top - t : t \in T}
<1>1. M \in SUBSET (0 .. top) /\ M # {}
  <2>1. \A t \in T : top - t \in 0 .. top
    OBVIOUS
  <2> QED BY <2>1
<1>2. PICK x \in M : \A y \in M : x <= y
  <2> HIDE DEF M
  <2> QED BY <1>1, Least
<1>3. PICK t \in T : x = top - t
  OBVIOUS
<1>4. ASSUME NEW y \in T PROVE y <= t
  <2>1. top - t <= top - y
    BY <1>2, <1>3
  <2> QED BY <2>1
<1> QED BY <1>4

\* Division with a remainder.
LEMMA Quotient ==
  ASSUME NEW a \in Nat, NEW n \in Nat \ {0}
  PROVE  \E q \in Int, r \in 0 .. n - 1 : r = a % n /\ a = n * q + r
  <1>1. a % n \in 0 .. n - 1 /\ a % n \in Int /\ a \div n \in Int
    OBVIOUS
  <1>2. ASSUME NEW q \in Int, q = a \div n, NEW r \in Int, r = a % n PROVE a = n * q + r
    BY <1>2
  <1>3. a = n * (a \div n) + (a % n)
    BY <1>1, <1>2
  <1>4. PICK q \in Int : q = a \div n
    BY <1>1
  <1>5. PICK r \in 0 .. n - 1 : r = a % n
    BY <1>1
  <1>6. a = n * q + r
    BY <1>3, <1>4, <1>5
  <1>7. QED
    BY <1>5, <1>6

\* There is only one.
LEMMA OneQuotient ==
  ASSUME NEW n \in Nat \ {0}, NEW q \in Int, NEW p \in Int, NEW r \in 0 .. n - 1, NEW s \in 0 .. n - 1,
         n * q + r = n * p + s
  PROVE  r = s
  <1>1. ASSUME NEW x \in Int, NEW y \in Int, x > y PROVE n * x >= n * y + n
    <2>1. PICK z \in Nat : x = y + 1 + z
      <3>1. x - y - 1 \in Nat /\ x = y + 1 + (x - y - 1)
        BY <1>1
      <3>2. QED
        BY <3>1
    <2>2. n * z \in Nat
      OBVIOUS
    <2>3. n * x = n * y + n + n * z
      BY <2>1
    <2>4. n * y \in Int /\ n * x \in Int
      OBVIOUS
    <2>5. QED
      BY <2>2, <2>3, <2>4
  <1>2. n * q \in Int /\ n * p \in Int
    OBVIOUS
  <1>3. PICK u, v \in Int : u = n * q /\ v = n * p
    BY <1>2
  <1>4. ~ (q > p)
    <2>1. SUFFICES ASSUME q > p PROVE FALSE
      OBVIOUS
    <2>2. u >= v + n
      BY <1>1, <1>3, <2>1
    <2>3. QED
      BY <1>3, <2>2
  <1>5. ~ (p > q)
    <2>1. SUFFICES ASSUME p > q PROVE FALSE
      OBVIOUS
    <2>2. v >= u + n
      BY <1>1, <1>3, <2>1
    <2>3. QED
      BY <1>3, <2>2
  <1>6. p = q
    BY <1>4, <1>5
  <1>7. QED
    BY <1>2, <1>6

\* The remainder counts up, and starts again at n.
LEMMA NextRemainder ==
  ASSUME NEW a \in Nat, NEW n \in Nat \ {0}
  PROVE  /\ a % n \in 0 .. n - 1 /\ a % n <= a /\ 0 % n = 0
         /\ (a + 1) % n = IF (a % n) + 1 = n THEN 0 ELSE (a % n) + 1
  <1>0. a + 1 \in Nat /\ 0 \in Nat
    OBVIOUS
  <1>1. PICK q \in Int, r \in 0 .. n - 1 : r = a % n /\ a = n * q + r
    BY Quotient
  <1>2. PICK p \in Int, s \in 0 .. n - 1 : s = (a + 1) % n /\ a + 1 = n * p + s
    BY <1>0, Quotient
  <1>3. CASE r + 1 = n
    <2>1. n * (q + 1) + 0 = n * p + s
      BY <1>1, <1>2, <1>3
    <2>2. q + 1 \in Int /\ 0 \in 0 .. n - 1
      OBVIOUS
    <2>3. 0 = s
      BY <2>1, <2>2, OneQuotient
    <2>4. QED
      BY <1>1, <1>2, <1>3, <2>3
  <1>4. CASE r + 1 # n
    <2>1. n * q + (r + 1) = n * p + s
      BY <1>1, <1>2
    <2>2. r + 1 \in 0 .. n - 1
      BY <1>4
    <2>3. r + 1 = s
      BY <2>1, <2>2, OneQuotient
    <2>4. QED
      BY <1>1, <1>2, <1>4, <2>3
  <1>5. 0 % n = 0
    <2>1. PICK u \in Int, v \in 0 .. n - 1 : v = 0 % n /\ 0 = n * u + v
      BY <1>0, Quotient
    <2>2. n * 0 + 0 = n * u + v /\ 0 \in 0 .. n - 1
      BY <2>1
    <2>3. 0 = v
      BY <2>2, OneQuotient
    <2>4. QED
      BY <2>1, <2>3
  <1>6. a % n <= a
    <2>1. CASE q < 0
      <3>1. PICK z \in Nat : q = -1 - z
        <4>1. -1 - q \in Nat /\ q = -1 - (-1 - q)
          BY <2>1
        <4>2. QED
          BY <4>1
      <3>2. n * z \in Nat /\ n * q = -n - n * z
        BY <3>1
      <3>3. QED
        BY <1>1, <3>2
    <2>2. CASE ~(q < 0)
      <3>1. n * q \in Nat
        BY <2>2
      <3>2. QED
        BY <1>1, <3>1
    <2>3. QED
      BY <2>1, <2>2
  <1>7. QED
    BY <1>1, <1>3, <1>4, <1>5, <1>6

=============================================================================
