------------------------------ MODULE MvmProofs ------------------------------
(***************************************************************************)
(* Theorems about the parts of MVM-Lite that MCMvm runs, for every value   *)
(* of the constants of the parts: the range tables are exact and every     *)
(* tree survives its encoding, a controller is set up with the tables of   *)
(* one model and serves no other, an interrupted sweep ends whole, the     *)
(* policies compare as CacheProofs shows, the BMv2 prototype does what     *)
(* the simulator does as Bmv2ReplayProofs shows, and training and test     *)
(* rows stay apart.                                                        *)
(***************************************************************************)
EXTENDS MCMvm, CacheProofs, NumberSets, SequenceTheorems, TLAPS

-----------------------------------------------------------------------------
(* KeyTables: the two range tables give every key the code of the          *)
(* thermometer, for every set of boundaries and every width of the slices. *)

\* Every key up to the top lies in a segment, which starts in S.
LEMMA SegmentsCover ==
    ASSUME NEW top \in Nat, NEW S \in SUBSET (0 .. top), 0 \in S, NEW k \in 0 .. top
    PROVE  \E r \in Segments(S, top) : r[1] <= k /\ k <= r[2]
<1> DEFINE T == {s \in S : s <= k}
           U == {s \in S : k < s}
<1>1. PICK lo \in T : \A s \in T : s <= lo
  <2>1. T \in SUBSET (0 .. top)
    OBVIOUS
  <2>2. 0 \in T
    OBVIOUS
  <2> HIDE DEF T
  <2> QED BY <2>1, <2>2, Greatest
<1>2. PICK hi \in 0 .. top :
         k <= hi /\ (\A s \in U : hi < s) /\ (hi = top \/ hi + 1 \in S)
  <2>1. CASE U = {}
    BY <2>1
  <2>2. CASE U # {}
    <3>1. U \in SUBSET (0 .. top)
      OBVIOUS
    <3>2. PICK u \in U : \A s \in U : u <= s
      <4> HIDE DEF U
      <4> QED BY <2>2, <3>1, Least
    <3>3. u \in S /\ k < u /\ u \in 0 .. top
      OBVIOUS
    <3>4. u - 1 \in 0 .. top /\ k <= u - 1 /\ (u - 1) + 1 = u
      BY <3>3
    <3>5. \A s \in U : u - 1 < s
      BY <3>2, <3>3
    <3> HIDE DEF U
    <3> QED BY <3>3, <3>4, <3>5
  <2> QED BY <2>1, <2>2
<1>3. lo \in S /\ lo <= k /\ lo \in 0 .. top /\ hi \in 0 .. top
  OBVIOUS
<1>4. lo <= hi
  BY <1>2, <1>3
<1>5. ASSUME NEW m \in S, lo < m, m <= hi PROVE FALSE
  <2>1. m \in 0 .. top
    OBVIOUS
  <2>2. CASE m <= k
    <3>1. m <= lo
      BY <1>1, <2>2
    <3> QED BY <1>3, <1>5, <2>1, <3>1
  <2>3. CASE k < m
    <3>1. hi < m
      BY <1>2, <2>3
    <3> QED BY <1>3, <1>5, <2>1, <3>1
  <2> QED BY <2>1, <2>2, <2>3
<1>6. <<lo, hi>> \in Segments(S, top)
  BY <1>2, <1>3, <1>4, <1>5 DEF Segments
<1> QED BY <1>2, <1>3, <1>6

\* Cuts and starts are numbers of their slice.
LEMMA CutsAreKeys ==
    ASSUME NEW B \in SUBSET Key
    PROVE  /\ Starts(B) \in SUBSET (0 .. K20Max) /\ 0 \in Starts(B)
           /\ \A s : Cuts(B, s) \in SUBSET (0 .. K12Max) /\ 0 \in Cuts(B, s)
<1>1. \A b \in B : b.k20 \in 0 .. K20Max /\ b.k12 \in 0 .. K12Max
  BY DEF Key
<1>2. \A b \in B : CeilBucket(b) \in 0 .. K20Max
  BY <1>1, KeyAssumption DEF CeilBucket
<1>3. 0 \in 0 .. K20Max /\ 0 \in 0 .. K12Max
  BY KeyAssumption
<1> QED BY <1>1, <1>2, <1>3 DEF Starts, Cuts

\* In the coarse table: outside the straddled buckets no boundary separates a
\* key from the start of its segment.
LEMMA CoarseCode ==
    ASSUME NEW B \in SUBSET Key, NEW key \in Key, key.k20 \notin Straddled(B),
           NEW r \in Segments(Starts(B), K20Max), r[1] <= key.k20, key.k20 <= r[2]
    PROVE  CodeAt(B, Start(r[1])) = CodeAt(B, key)
<1>1. r[1] \in 0 .. K20Max /\ r[2] \in 0 .. K20Max /\ r[1] \in Starts(B)
  BY CutsAreKeys DEF Segments
<1>2. key.k20 \in 0 .. K20Max /\ key.k12 \in 0 .. K12Max
  BY DEF Key
<1>3. ASSUME NEW b \in B PROVE AtMost(b, Start(r[1])) <=> AtMost(b, key)
  <2>1. b.k20 \in 0 .. K20Max /\ b.k12 \in 0 .. K12Max
    BY DEF Key
  <2>2. AtMost(b, Start(r[1])) <=> b.k20 < r[1] \/ (b.k20 = r[1] /\ b.k12 <= 0)
    BY DEF AtMost, Start
  <2>3. AtMost(b, key) <=> b.k20 < key.k20 \/ (b.k20 = key.k20 /\ b.k12 <= key.k12)
    BY DEF AtMost
  <2>4. CeilBucket(b) \in Starts(B) /\ CeilBucket(b) \in 0 .. K20Max
    BY CutsAreKeys DEF Starts
  <2>5. ~ (r[1] < CeilBucket(b) /\ CeilBucket(b) <= r[2])
    <3>1. \A m \in Starts(B) : ~ (r[1] < m /\ m <= r[2])
      BY DEF Segments
    <3> QED BY <2>4, <3>1
  <2>6. b.k12 = 0 \/ b.k20 # key.k20
    BY DEF Straddled
  <2>7. CASE b.k12 = 0
    <3>1. CeilBucket(b) = b.k20
      BY <2>7 DEF CeilBucket
    <3> QED BY KeyAssumption, <1>1, <1>2, <2>1, <2>2, <2>3, <2>5, <2>7, <3>1
  <2>8. CASE b.k12 # 0 /\ b.k20 # K20Max
    <3>1. CeilBucket(b) = b.k20 + 1
      BY <2>8 DEF CeilBucket
    <3> QED BY KeyAssumption, <1>1, <1>2, <2>1, <2>2, <2>3, <2>5, <2>6, <2>8, <3>1
  <2>9. CASE b.k12 # 0 /\ b.k20 = K20Max
    BY KeyAssumption, <1>1, <1>2, <2>1, <2>2, <2>3, <2>6, <2>9
  <2> QED BY <2>7, <2>8, <2>9
<1> QED BY <1>3 DEF CodeAt

\* In the fine table: no boundary of the bucket separates a key from the start
\* of its segment.
LEMMA FineCode ==
    ASSUME NEW B \in SUBSET Key, NEW key \in Key,
           NEW r \in Segments(Cuts(B, key.k20), K12Max), r[1] <= key.k12, key.k12 <= r[2]
    PROVE  CodeAt(B, [k20 |-> key.k20, k12 |-> r[1]]) = CodeAt(B, key)
<1>1. r[1] \in 0 .. K12Max /\ r[2] \in 0 .. K12Max
  BY CutsAreKeys DEF Segments
<1>2. key.k20 \in 0 .. K20Max /\ key.k12 \in 0 .. K12Max
  BY DEF Key
<1> DEFINE start == [k20 |-> key.k20, k12 |-> r[1]]
<1>3. ASSUME NEW b \in B PROVE AtMost(b, start) <=> AtMost(b, key)
  <2>1. b.k20 \in 0 .. K20Max /\ b.k12 \in 0 .. K12Max
    BY DEF Key
  <2>2. AtMost(b, start) <=> b.k20 < key.k20 \/ (b.k20 = key.k20 /\ b.k12 <= r[1])
    BY DEF AtMost
  <2>3. AtMost(b, key) <=> b.k20 < key.k20 \/ (b.k20 = key.k20 /\ b.k12 <= key.k12)
    BY DEF AtMost
  <2>4. CASE b.k20 = key.k20
    <3>1. b.k12 \in Cuts(B, key.k20)
      BY <2>4 DEF Cuts
    <3>2. ~ (r[1] < b.k12 /\ b.k12 <= r[2])
      BY <3>1 DEF Segments
    <3> QED BY KeyAssumption, <1>1, <1>2, <2>1, <2>2, <2>3, <2>4, <3>2
  <2>5. CASE b.k20 # key.k20
    BY <2>2, <2>3, <2>5
  <2> QED BY <2>4, <2>5
<1> HIDE DEF start
<1>4. CodeAt(B, start) = CodeAt(B, key)
  BY <1>3 DEF CodeAt
<1> QED BY <1>4 DEF start

\* A key whose bucket is straddled finds a fine entry, every other a coarse one.
LEMMA SomeEntryHits ==
    ASSUME NEW B \in SUBSET Key, NEW key \in Key
    PROVE  /\ key.k20 \in Straddled(B) => FineHits(B, key) # {}
           /\ CoarseHits(B, key) # {}
<1>1. key.k20 \in 0 .. K20Max /\ key.k12 \in 0 .. K12Max
  BY DEF Key
<1>2. ASSUME key.k20 \in Straddled(B) PROVE FineHits(B, key) # {}
  <2>1. PICK r \in Segments(Cuts(B, key.k20), K12Max) : r[1] <= key.k12 /\ key.k12 <= r[2]
    BY KeyAssumption, <1>1, CutsAreKeys, SegmentsCover
  <2> DEFINE e == [bucket |-> key.k20, lo |-> r[1], hi |-> r[2],
                   code |-> CodeAt(B, [k20 |-> key.k20, k12 |-> r[1]])]
  <2>2. e \in {[bucket |-> key.k20, lo |-> q[1], hi |-> q[2],
                code |-> CodeAt(B, [k20 |-> key.k20, k12 |-> q[1]])] :
                q \in Segments(Cuts(B, key.k20), K12Max)}
    OBVIOUS
  <2>4. e \in Fine(B)
    <3> HIDE DEF e
    <3> QED BY <1>2, <2>2 DEF Fine
  <2>3. e.bucket = key.k20 /\ e.lo <= key.k12 /\ key.k12 <= e.hi
    BY <2>1
  <2> HIDE DEF e
  <2> QED BY <2>3, <2>4 DEF FineHits
<1>3. CoarseHits(B, key) # {}
  <2>1. PICK r \in Segments(Starts(B), K20Max) : r[1] <= key.k20 /\ key.k20 <= r[2]
    BY KeyAssumption, <1>1, CutsAreKeys, SegmentsCover
  <2> DEFINE e == [lo |-> r[1], hi |-> r[2], code |-> CodeAt(B, Start(r[1]))]
  <2>2. e \in Coarse(B)
    BY DEF Coarse
  <2>3. e.lo <= key.k20 /\ key.k20 <= e.hi
    BY <2>1
  <2> HIDE DEF e
  <2> QED BY <2>2, <2>3 DEF CoarseHits
<1> QED BY <1>2, <1>3

\* The lookup always finds an entry, and whichever it takes carries the code of
\* code_at: the tables are exact for every key, boundary keys included.
THEOREM TablesAreExact ==
    ASSUME NEW B \in SUBSET Key, NEW key \in Key
    PROVE  Hits(B, key) # {} /\ \A e \in Hits(B, key) : e.code = CodeAt(B, key)
<1>1. CASE FineHits(B, key) # {}
  <2>1. Hits(B, key) = FineHits(B, key)
    BY <1>1 DEF Hits
  <2>2. ASSUME NEW e \in FineHits(B, key) PROVE e.code = CodeAt(B, key)
    <3>1. PICK s \in Straddled(B) : \E r \in Segments(Cuts(B, s), K12Max) :
             e = [bucket |-> s, lo |-> r[1], hi |-> r[2],
                  code |-> CodeAt(B, [k20 |-> s, k12 |-> r[1]])]
      BY DEF FineHits, Fine
    <3>2. PICK r \in Segments(Cuts(B, s), K12Max) :
             e = [bucket |-> s, lo |-> r[1], hi |-> r[2],
                  code |-> CodeAt(B, [k20 |-> s, k12 |-> r[1]])]
      BY <3>1
    <3>3. s = key.k20 /\ r[1] <= key.k12 /\ key.k12 <= r[2]
      BY <3>2 DEF FineHits
    <3>4. e.code = CodeAt(B, [k20 |-> s, k12 |-> r[1]])
      BY <3>2
    <3> QED BY <3>3, <3>4, FineCode
  <2> QED BY <1>1, <2>1, <2>2
<1>2. CASE FineHits(B, key) = {}
  <2>1. Hits(B, key) = CoarseHits(B, key) /\ key.k20 \notin Straddled(B)
    BY <1>2, SomeEntryHits DEF Hits
  <2>2. ASSUME NEW e \in CoarseHits(B, key) PROVE e.code = CodeAt(B, key)
    <3>1. PICK r \in Segments(Starts(B), K20Max) :
             e = [lo |-> r[1], hi |-> r[2], code |-> CodeAt(B, Start(r[1]))]
      BY DEF CoarseHits, Coarse
    <3>2. r[1] <= key.k20 /\ key.k20 <= r[2] /\ e.code = CodeAt(B, Start(r[1]))
      BY <3>1 DEF CoarseHits
    <3> QED BY <2>1, <3>2, CoarseCode
  <2> QED BY <2>1, <2>2, SomeEntryHits
<1> QED BY <1>1, <1>2

\* codes_like_switch computes code_at.
THEOREM SwitchComputesCode ==
    ASSUME NEW B \in SUBSET Key, NEW key \in Key
    PROVE  CodeLikeSwitch(B, key) = CodeAt(B, key)
<1>1. (CHOOSE e \in Hits(B, key) : TRUE) \in Hits(B, key)
  BY TablesAreExact
<1> QED BY <1>1, TablesAreExact DEF CodeLikeSwitch

-----------------------------------------------------------------------------
(* LeafTables: keys, ranges and codes of a float32 are in the order of the *)
(* numbers, and a walk down the tree ends in the one box that contains the *)
(* sample.                                                                 *)

\* A word, and the patterns without a sign.
LEMMA WordIs == Word \in Nat /\ SignBit \in Nat \ {0} /\ Word = 2 * SignBit /\ Patterns = 0 .. Word - 1
  <1>1. PICK a, b \in Nat \ {0} : a = K20Max + 1 /\ b = K12Max + 1
    BY KeyAssumption
  <1>2. a * b \in Nat \ {0}
    <2>1. a * b >= a
      <3>1. PICK c \in Nat : b = c + 1
        <4>1. b - 1 \in Nat /\ b = (b - 1) + 1
          OBVIOUS
        <4>2. QED
          BY <4>1
      <3>2. a * c \in Nat /\ a * b = a * c + a
        BY <3>1
      <3>3. QED
        BY <3>2
    <2>2. QED
      BY <2>1
  <1>3. Word \in Nat \ {0}
    BY <1>1, <1>2 DEF Word
  <1>4. PICK w \in Nat \ {0} : w = Word
    BY <1>3
  <1>5. w % 2 = 0
    BY <1>4, WordAssumption
  <1>6. w \div 2 \in Nat \ {0} /\ w = 2 * (w \div 2)
    BY <1>5
  <1>7. QED
    BY <1>4, <1>6 DEF SignBit, Patterns

\* The remainder by the sign bit is the magnitude.
LEMMA Magnitude ==
  ASSUME NEW a \in Patterns
  PROVE  a % SignBit = IF a < SignBit THEN a ELSE a - SignBit
  <1>0. /\ SignBit \in Nat \ {0} /\ a \in Nat /\ a < 2 * SignBit
    BY WordIs
  <1>1. PICK q \in Int, r \in 0 .. SignBit - 1 : r = a % SignBit /\ a = SignBit * q + r
    BY <1>0, Quotient
  <1>2. CASE a < SignBit
    <2>1. SignBit * 0 + a = SignBit * q + r /\ a \in 0 .. SignBit - 1
      BY <1>0, <1>1, <1>2
    <2>2. a = r
      BY <1>0, <2>1, OneQuotient
    <2>3. QED
      BY <1>1, <1>2, <2>2
  <1>3. CASE ~ (a < SignBit)
    <2>1. SignBit * 1 + (a - SignBit) = SignBit * q + r /\ a - SignBit \in 0 .. SignBit - 1
      BY <1>0, <1>1, <1>3
    <2>2. a - SignBit = r
      BY <1>0, <2>1, OneQuotient
    <2>3. QED
      BY <1>1, <1>3, <2>2
  <1>4. QED
    BY <1>2, <1>3

\* The key of a float32.
LEMMA KeyIs ==
  ASSUME NEW a \in Patterns
  PROVE  /\ f32_key(a) \in 0 .. Word - 1 /\ Value(a) \in Int
         /\ -Word < Value(a) /\ Value(a) < Word
         /\ a < SignBit => f32_key(a) = a + SignBit /\ Value(a) = 2 * a
         /\ a = SignBit => f32_key(a) = SignBit /\ Value(a) = 0
         /\ SignBit < a => f32_key(a) = Word - 1 - a /\ Value(a) = 2 * (SignBit - a)
  <1>1. SignBit \in Nat \ {0} /\ a \in Nat /\ a < 2 * SignBit /\ Word = 2 * SignBit
    BY WordIs
  <1>2. PICK m \in Nat : m = a % SignBit
    BY <1>1, Magnitude
  <1>3. m = IF a < SignBit THEN a ELSE a - SignBit
    BY <1>2, Magnitude
  <1>4. f32_key(a) = IF Negative(a) /\ a # SignBit THEN Word - 1 - a ELSE m + SignBit
    BY <1>2 DEF f32_key
  <1>5. QED
    BY <1>1, <1>3, <1>4 DEF Value, Negative

\* Keys are in the order of the values; both zeros have one.
LEMMA KeysInOrder ==
  ASSUME NEW a \in Patterns, NEW b \in Patterns
  PROVE  Value(a) < Value(b) <=> f32_key(a) < f32_key(b)
  <1>1. SignBit \in Nat \ {0} /\ a \in Nat /\ a < 2 * SignBit /\ Word = 2 * SignBit
        /\ b \in Nat /\ b < 2 * SignBit
    BY WordIs
  <1>2. PICK u, v, x, y \in Int : u = Value(a) /\ v = Value(b) /\ x = f32_key(a) /\ y = f32_key(b)
    BY KeyIs
  <1>3. /\ a < SignBit => x = a + SignBit /\ u = 2 * a
        /\ a = SignBit => x = SignBit /\ u = 0
        /\ SignBit < a => x = Word - 1 - a /\ u = 2 * (SignBit - a)
    BY <1>2, KeyIs
  <1>4. /\ b < SignBit => y = b + SignBit /\ v = 2 * b
        /\ b = SignBit => y = SignBit /\ v = 0
        /\ SignBit < b => y = Word - 1 - b /\ v = 2 * (SignBit - b)
    BY <1>2, KeyIs
  <1>5. u < v <=> x < y
    BY <1>1, <1>3, <1>4
  <1>6. QED
    BY <1>2, <1>5

\* The thresholds of a tree.
Threshold(cut) == cut \in Int /\ 2 - Word <= cut /\ cut < Word - 2

\* The least key above a threshold.
LEMMA KeyAbove ==
  ASSUME NEW cut, Threshold(cut)
  PROVE  /\ SmallestKeyAbove(cut) \in 0 .. Word - 1
         /\ \A b \in Patterns : Value(b) > cut <=> SmallestKeyAbove(cut) <= f32_key(b)
  <1> DEFINE S == {f32_key(b) : b \in {p \in Patterns : Value(p) > cut}}
  <1>0. Word \in Nat /\ Word - 1 \in Nat /\ cut \in Int /\ SignBit \in Nat \ {0} /\ Word = 2 * SignBit
    BY WordIs DEF Threshold
  <1>1. S \in SUBSET (0 .. Word - 1)
    BY KeyIs
  <1>2. S # {}
    <2>1. SignBit - 1 \in Patterns /\ SignBit - 1 < SignBit
      BY <1>0, WordIs
    <2>2. Value(SignBit - 1) = 2 * (SignBit - 1)
      BY <2>1, KeyIs
    <2>3. Value(SignBit - 1) > cut
      BY <1>0, <2>2 DEF Threshold
    <2>4. QED
      BY <2>1, <2>3
  <1>3. \E m \in S : \A y \in S : m <= y
    <2> HIDE DEF S
    <2>1. QED
      BY <1>0, <1>1, <1>2, Least
  <1>4. SmallestKeyAbove(cut) \in S /\ \A y \in S : SmallestKeyAbove(cut) <= y
    BY <1>3 DEF SmallestKeyAbove, Min
  <1>5. ASSUME NEW b \in Patterns, SmallestKeyAbove(cut) <= f32_key(b) PROVE Value(b) > cut
    <2>1. PICK p \in Patterns : Value(p) > cut /\ f32_key(p) = SmallestKeyAbove(cut)
      BY <1>4
    <2>2. ~ (f32_key(b) < f32_key(p))
      BY <1>5, <2>1, KeyIs
    <2>3. ~ (Value(b) < Value(p))
      BY <2>2, KeysInOrder
    <2>4. Value(b) \in Int /\ Value(p) \in Int
      BY KeyIs
    <2>5. QED
      BY <1>0, <2>1, <2>3, <2>4
  <1>6. QED
    BY <1>1, <1>4, <1>5

\* The greatest key of a value at most a threshold.
LEMMA KeyAtMost ==
  ASSUME NEW cut, Threshold(cut)
  PROVE  /\ LargestKeyAtMost(cut) \in 0 .. Word - 1
         /\ \A b \in Patterns : Value(b) <= cut <=> f32_key(b) <= LargestKeyAtMost(cut)
  <1> DEFINE S == {f32_key(b) : b \in {p \in Patterns : Value(p) <= cut}}
  <1>0. Word \in Nat /\ Word - 1 \in Nat /\ cut \in Int /\ SignBit \in Nat \ {0} /\ Word = 2 * SignBit
    BY WordIs DEF Threshold
  <1>1. S \in SUBSET (0 .. Word - 1)
    BY KeyIs
  <1>2. S # {}
    <2>1. Word - 1 \in Patterns
      BY <1>0, WordIs
    <2>2. Value(Word - 1) <= 2 - Word
      <3>1. CASE SignBit < Word - 1
        BY <1>0, <2>1, <3>1, KeyIs
      <3>2. CASE ~ (SignBit < Word - 1)
        <4>1. SignBit = Word - 1 /\ Word = 2
          BY <1>0, <3>2
        <4>2. QED
          BY <1>0, <2>1, <4>1, KeyIs
      <3>3. QED
        BY <3>1, <3>2
    <2>3. Value(Word - 1) <= cut
      <3>1. Value(Word - 1) \in Int
        BY <2>1, KeyIs
      <3>2. QED
        BY <1>0, <2>2, <3>1 DEF Threshold
    <2>4. QED
      BY <2>1, <2>3
  <1>3. \E m \in S : \A y \in S : y <= m
    <2> HIDE DEF S
    <2>1. QED
      BY <1>0, <1>1, <1>2, Greatest
  <1>4. LargestKeyAtMost(cut) \in S /\ \A y \in S : y <= LargestKeyAtMost(cut)
    BY <1>3 DEF LargestKeyAtMost, Max
  <1>5. ASSUME NEW b \in Patterns, f32_key(b) <= LargestKeyAtMost(cut) PROVE Value(b) <= cut
    <2>1. PICK p \in Patterns : Value(p) <= cut /\ f32_key(p) = LargestKeyAtMost(cut)
      BY <1>4
    <2>2. ~ (f32_key(p) < f32_key(b))
      BY <1>5, <2>1, KeyIs
    <2>3. ~ (Value(p) < Value(b))
      BY <2>2, KeysInOrder
    <2>4. Value(b) \in Int /\ Value(p) \in Int
      BY KeyIs
    <2>5. QED
      BY <1>0, <2>1, <2>3, <2>4
  <1>6. QED
    BY <1>1, <1>4, <1>5

\* The slices of a key are a key of the tables, and in the same order.
LEMMA SlicesInOrder ==
  ASSUME NEW a \in 0 .. Word - 1, NEW b \in 0 .. Word - 1
  PROVE  Sliced(a) \in Key /\ (AtMost(Sliced(a), Sliced(b)) <=> a <= b)
  <1>1. PICK m, n \in Nat \ {0} : m = K20Max + 1 /\ n = K12Max + 1
    BY KeyAssumption
  <1>2. Word = n * m /\ Word \in Nat
    BY <1>1, WordIs DEF Word
  <1>3. ASSUME NEW c \in 0 .. Word - 1
        PROVE  \E q \in 0 .. m - 1, r \in 0 .. n - 1 :
                  c = n * q + r /\ Sliced(c) = [k20 |-> q, k12 |-> r]
    <2>1. c \in Nat /\ c < Word
      BY <1>2
    <2>2. c \div n \in Int /\ c % n \in 0 .. n - 1 /\ c % n \in Int
      BY <2>1
    <2>3. PICK q, r \in Int : q = c \div n /\ r = c % n
      BY <2>2
    <2>4. c = n * q + r /\ r \in 0 .. n - 1
      BY <2>1, <2>2, <2>3
    <2>5. q < m
      <3>1. SUFFICES ASSUME q >= m PROVE FALSE
        BY <1>1
      <3>2. PICK z \in Nat : q = m + z
        <4>1. q - m \in Nat /\ q = m + (q - m)
          BY <1>1, <3>1
        <4>2. QED
          BY <4>1
      <3>3. n * z \in Nat /\ n * q = n * m + n * z
        BY <3>2
      <3>4. PICK u, v \in Nat : u = n * m /\ v = n * z
        BY <3>3
      <3>5. QED
        BY <1>2, <2>1, <2>4, <3>3, <3>4
    <2>6. q >= 0
      <3>1. SUFFICES ASSUME q < 0 PROVE FALSE
        BY <2>3
      <3>2. PICK z \in Nat : q = -1 - z
        <4>1. -1 - q \in Nat /\ q = -1 - (-1 - q)
          BY <3>1
        <4>2. QED
          BY <4>1
      <3>3. n * z \in Nat /\ n * q = (-n) - n * z
        BY <3>2
      <3>4. PICK v \in Nat : v = n * z
        BY <3>3
      <3>5. QED
        BY <2>1, <2>4, <3>3, <3>4
    <2>7. Sliced(c) = [k20 |-> q, k12 |-> r]
      BY <1>1, <2>3 DEF Sliced
    <2>8. q \in 0 .. m - 1
      BY <1>1, <2>3, <2>5, <2>6
    <2>9. QED
      BY <2>4, <2>7, <2>8
  <1>4. PICK p \in 0 .. m - 1, r \in 0 .. n - 1 : a = n * p + r /\ Sliced(a) = [k20 |-> p, k12 |-> r]
    BY <1>3
  <1>5. PICK q \in 0 .. m - 1, s \in 0 .. n - 1 : b = n * q + s /\ Sliced(b) = [k20 |-> q, k12 |-> s]
    BY <1>3
  <1>6. ASSUME NEW x \in 0 .. m - 1, NEW y \in 0 .. m - 1, x < y PROVE n * x + n <= n * y
    <2>1. PICK z \in Nat : y = x + 1 + z
      <3>1. y - x - 1 \in Nat /\ y = x + 1 + (y - x - 1)
        BY <1>6
      <3>2. QED
        BY <3>1
    <2>2. x \in Nat /\ n * x \in Nat /\ n * z \in Nat
      OBVIOUS
    <2>3. n * y = n * x + n + n * z
      BY <2>1, <2>2
    <2>4. PICK u, v \in Nat : u = n * x /\ v = n * z
      BY <2>2
    <2>5. QED
      BY <2>3, <2>4
  <1>7. Sliced(a) \in Key
    <2>1. p \in 0 .. K20Max /\ r \in 0 .. K12Max
      BY <1>1, KeyAssumption
    <2>2. [k20 |-> p, k12 |-> r] \in Key
      BY <2>1 DEF Key
    <2>3. QED
      BY <1>4, <2>2
  <1>8. AtMost(Sliced(a), Sliced(b)) <=> p < q \/ (p = q /\ r <= s)
    BY <1>4, <1>5 DEF AtMost
  <1>9. PICK u, v \in Int : u = n * p /\ v = n * q
    OBVIOUS
  <1>10. (p < q => u + n <= v) /\ (q < p => v + n <= u) /\ (p = q => u = v)
    BY <1>6, <1>9
  <1>11. a = u + r /\ b = v + s
    BY <1>4, <1>5, <1>9
  <1>12. a <= b <=> p < q \/ (p = q /\ r <= s)
    BY <1>1, <1>10, <1>11
  <1>13. QED
    BY <1>7, <1>8, <1>12

-----------------------------------------------------------------------------
(* The loop of extract_leaf_boxes.                                         *)

\* A fitted tree.
IsTree(T, last) ==
    /\ last \in Nat /\ T \in [0 .. last -> [left : Int, right : Int, f : Features, thr : Int]]
    /\ \A n \in 0 .. last : T[n].left # -1 =>
          /\ T[n].left \in n + 1 .. last /\ T[n].right \in n + 1 .. last /\ Threshold(T[n].thr)

\* Every tree is one.
LEMMA TreeIs == ASSUME tree \in Trees PROVE \E last : IsTree(tree, last)
  <1>1. PICK last : /\ last = Cardinality(DOMAIN tree) - 1
                    /\ last \in Nat /\ tree \in [0 .. last -> [left : Int, right : Int, f : Features, thr : Int]]
                    /\ \A n \in 0 .. last : tree[n].left # -1 =>
                          /\ tree[n].left \in n + 1 .. last /\ tree[n].right \in n + 1 .. last
                          /\ 2 - Word <= tree[n].thr /\ tree[n].thr < Word - 2
    BY TreesAssumption
  <1>2. \A n \in 0 .. last : tree[n].thr \in Int
    BY <1>1
  <1>3. QED
    BY <1>1, <1>2 DEF IsTree, Threshold

\* One turn of tree.apply.
Turn(x, n) == IF Value(x[tree[n].f]) <= tree[n].thr THEN tree[n].left ELSE tree[n].right

\* The recursion of tree.apply.
IsWalk(g, x) ==
    g = [n \in DOMAIN tree |->
            IF IsLeaf(n) THEN n
            ELSE IF Value(x[tree[n].f]) <= tree[n].thr THEN g[tree[n].left] ELSE g[tree[n].right]]

\* It has a solution, since children come after their parent.
LEMMA WalkExists ==
  ASSUME tree \in Trees, NEW x \in Points
  PROVE  \E g : IsWalk(g, x)
  <1>1. PICK last : IsTree(tree, last)
    BY TreeIs
  <1>2. /\ last \in Nat /\ DOMAIN tree = 0 .. last
        /\ \A n \in 0 .. last : ~ IsLeaf(n) => Turn(x, n) \in n + 1 .. last
    BY <1>1 DEF IsTree, IsLeaf, Turn
  <1> DEFINE Goes(g, n) == g[n] = IF IsLeaf(n) THEN n ELSE g[Turn(x, n)]
             From(m, g) == g \in [m .. last -> 0 .. last] /\ \A n \in m .. last : Goes(g, n)
             Good == {m \in 0 .. last : \E g : From(m, g)}
  <1>3. last \in Good
    <2> DEFINE h == [n \in last .. last |-> last]
    <2>1. last \in last .. last /\ last \in 0 .. last /\ \A n \in last .. last : n = last
      BY <1>2
    <2>2. IsLeaf(last)
      BY <1>2
    <2>3. h \in [last .. last -> 0 .. last] /\ h[last] = last
      BY <2>1
    <2> HIDE DEF h
    <2>4. From(last, h)
      BY <2>1, <2>2, <2>3
    <2>5. QED
      BY <2>1, <2>4
  <1>4. ASSUME NEW m \in Good, m # 0 PROVE m - 1 \in Good
    <2>1. m \in 0 .. last /\ m - 1 \in 0 .. last /\ m \in Nat
      BY <1>2, <1>4
    <2>2. PICK g : From(m, g)
      BY <1>4
    <2> DEFINE h == [n \in m - 1 .. last |-> IF n # m - 1 THEN g[n]
                                             ELSE IF IsLeaf(n) THEN n ELSE g[Turn(x, n)]]
    <2>3. ASSUME NEW n \in m - 1 .. last, n # m - 1
          PROVE  n \in m .. last /\ h[n] = g[n] /\ h[n] \in 0 .. last
      BY <1>2, <2>1, <2>2, <2>3
    <2>4. m - 1 \in m - 1 .. last /\ h[m - 1] = IF IsLeaf(m - 1) THEN m - 1 ELSE g[Turn(x, m - 1)]
      BY <1>2, <2>1
    <2>5. ASSUME NEW n \in m - 1 .. last, ~ IsLeaf(n)
          PROVE  Turn(x, n) \in m .. last /\ h[Turn(x, n)] = g[Turn(x, n)]
      <3>1. n \in 0 .. last /\ Turn(x, n) \in n + 1 .. last
        BY <1>2, <2>1, <2>5
      <3>2. Turn(x, n) \in m .. last /\ Turn(x, n) # m - 1 /\ Turn(x, n) \in m - 1 .. last
        BY <1>2, <2>1, <3>1
      <3>3. QED
        BY <2>3, <3>2
    <2>6. h[m - 1] \in 0 .. last
      <3>1. CASE IsLeaf(m - 1)
        BY <2>1, <2>4, <3>1
      <3>2. CASE ~ IsLeaf(m - 1)
        <4>1. Turn(x, m - 1) \in m .. last
          BY <2>4, <2>5, <3>2
        <4>2. g[Turn(x, m - 1)] \in 0 .. last
          BY <2>2, <4>1
        <4>3. QED
          BY <2>4, <3>2, <4>2
      <3>3. QED
        BY <3>1, <3>2
    <2>7. h \in [m - 1 .. last -> 0 .. last]
      <3>1. \A n \in m - 1 .. last : h[n] \in 0 .. last
        BY <2>3, <2>6
      <3>2. h = [n \in m - 1 .. last |-> h[n]]
        OBVIOUS
      <3> HIDE DEF h
      <3>3. QED
        BY <3>1, <3>2
    <2>8. ASSUME NEW n \in m - 1 .. last PROVE Goes(h, n)
      <3>1. CASE n = m - 1
        BY <2>4, <2>5, <3>1
      <3>2. CASE n # m - 1
        <4>1. n \in m .. last /\ h[n] = g[n]
          BY <2>3, <3>2
        <4>2. Goes(g, n)
          BY <2>2, <4>1
        <4> HIDE DEF h
        <4>3. QED
          BY <2>5, <4>1, <4>2
      <3>3. QED
        BY <3>1, <3>2
    <2> HIDE DEF h, Goes
    <2>9. QED
      BY <2>1, <2>7, <2>8
  <1>5. 0 \in Good
    <2> Good \in SUBSET (0 .. last)
      OBVIOUS
    <2> HIDE DEF Good
    <2>1. PICK m \in Good : \A y \in Good : m <= y
      BY <1>2, <1>3, Least
    <2>2. m \in 0 .. last /\ ~ (m <= m - 1)
      BY <1>2
    <2>3. QED
      BY <1>4, <2>1, <2>2
  <1>6. PICK g : From(0, g)
    BY <1>5
  <1>7. \A n \in DOMAIN tree :
          g[n] = IF IsLeaf(n) THEN n
                 ELSE IF Value(x[tree[n].f]) <= tree[n].thr THEN g[tree[n].left] ELSE g[tree[n].right]
    BY <1>2, <1>6 DEF Turn
  <1>8. DOMAIN g = DOMAIN tree /\ g = [n \in DOMAIN g |-> g[n]]
    BY <1>2, <1>6
  <1>9. QED
    BY <1>7, <1>8 DEF IsWalk

\* tree.apply is the end of a walk from the root.
LEMMA ApplyWalks ==
  ASSUME tree \in Trees, NEW x \in Points
  PROVE  \E g : IsWalk(g, x) /\ apply(x) = g[Root]
  BY WalkExists DEF apply, IsWalk

-----------------------------------------------------------------------------
\* The regions of a tree, and the thresholds that bound them.
Regions == [leaf : DOMAIN tree, lo : [Features -> Int], hi : [Features -> Int]]
Bounds(f) == {tree[n].thr : n \in Splits(f)}

Drawn(r) ==
    \A f \in Features : /\ r.lo[f] = -Inf \/ r.lo[f] \in Bounds(f)
                        /\ r.hi[f] = Inf \/ r.hi[f] \in Bounds(f)

\* Walks that pass the node end where they do from the root.
Reaches(n, x) == \A g : IsWalk(g, x) => g[n] = g[Root]

\* A sample is in one place of the stack or in one box, and its walk goes there.
Placed(x) ==
    /\ \A i, j \in 1 .. Len(stack) : contains(stack[i], x) /\ contains(stack[j], x) => i = j
    /\ \A i \in 1 .. Len(stack), b \in boxes : ~ (contains(stack[i], x) /\ contains(b, x))
    /\ \A b, c \in boxes : contains(b, x) /\ contains(c, x) => b = c
    /\ (\E i \in 1 .. Len(stack) : contains(stack[i], x)) \/ (\E b \in boxes : contains(b, x))
    /\ \A i \in 1 .. Len(stack) : contains(stack[i], x) => Reaches(stack[i].leaf, x)
    /\ \A b \in boxes : contains(b, x) => Reaches(b.leaf, x)

LeafInv ==
    /\ tree \in Trees
    /\ stack \in Seq(Regions) /\ boxes \subseteq Regions
    /\ \A i \in 1 .. Len(stack) : Drawn(stack[i])
    /\ \A b \in boxes : Drawn(b) /\ IsLeaf(b.leaf)
    /\ \A x \in Points : Placed(x)

\* The lesser and the greater of two numbers.
LEMMA OfTwo ==
  ASSUME NEW p \in Int, NEW q \in Int
  PROVE  /\ Min({p, q}) \in {p, q} /\ Min({p, q}) <= p /\ Min({p, q}) <= q
         /\ Max({p, q}) \in {p, q} /\ Max({p, q}) >= p /\ Max({p, q}) >= q
  <1>1. \E m \in {p, q} : \A y \in {p, q} : m <= y
    <2>1. CASE p <= q
      BY <2>1
    <2>2. CASE q <= p
      BY <2>2
    <2>3. QED
      BY <2>1, <2>2
  <1>2. \E m \in {p, q} : \A y \in {p, q} : y <= m
    <2>1. CASE p <= q
      BY <2>1
    <2>2. CASE q <= p
      BY <2>2
    <2>3. QED
      BY <2>1, <2>2
  <1>3. Min({p, q}) \in {p, q} /\ \A y \in {p, q} : Min({p, q}) <= y
    BY <1>1 DEF Min
  <1>4. Max({p, q}) \in {p, q} /\ \A y \in {p, q} : Max({p, q}) >= y
    <2>1. Max({p, q}) \in {p, q} /\ \A y \in {p, q} : y <= Max({p, q})
      BY <1>2 DEF Max
    <2>2. QED
      BY <2>1
  <1>5. QED
    BY <1>3, <1>4

\* The two sides of a split, as PopSplit pushes them.
LeftOf(r) == [r EXCEPT !.leaf = tree[r.leaf].left, !.hi = Lowered(@, tree[r.leaf].f, tree[r.leaf].thr)]
RightOf(r) == [r EXCEPT !.leaf = tree[r.leaf].right, !.lo = Raised(@, tree[r.leaf].f, tree[r.leaf].thr)]

\* The left side is the part up to the threshold.
LEMMA LeftSide ==
  ASSUME tree \in Trees, NEW r \in Regions, Drawn(r), ~ IsLeaf(r.leaf)
  PROVE  /\ LeftOf(r) \in Regions /\ Drawn(LeftOf(r)) /\ LeftOf(r).leaf = tree[r.leaf].left
         /\ \A x \in Points :
               contains(LeftOf(r), x) <=> contains(r, x) /\ Value(x[tree[r.leaf].f]) <= tree[r.leaf].thr
  <1>1. PICK last : IsTree(tree, last)
    BY TreeIs
  <1>2. PICK n : n = r.leaf /\ n \in DOMAIN tree
    BY DEF Regions
  <1>3. PICK f \in Features, thr \in Int : f = tree[n].f /\ thr = tree[n].thr
    BY <1>1, <1>2 DEF IsTree
  <1>4. tree[n].left \in DOMAIN tree /\ last \in Nat
    BY <1>1, <1>2 DEF IsTree, IsLeaf
  <1>5. r.lo \in [Features -> Int] /\ r.hi \in [Features -> Int]
    BY DEF Regions
  <1>6. PICK m \in Int : m = Min({r.hi[f], thr}) /\ m \in {r.hi[f], thr} /\ m <= r.hi[f] /\ m <= thr
    <2>1. PICK p \in Int : p = r.hi[f]
      BY <1>5
    <2>2. Min({p, thr}) \in {p, thr} /\ Min({p, thr}) <= p /\ Min({p, thr}) <= thr
      BY OfTwo
    <2>3. Min({p, thr}) \in Int
      BY <2>2
    <2>4. QED
      BY <2>1, <2>2, <2>3
  <1>7. PICK h \in [Features -> Int] : h = [r.hi EXCEPT ![f] = m]
    BY <1>5
  <1>8. h[f] = m /\ \A e \in Features : e # f => h[e] = r.hi[e]
    BY <1>5, <1>7
  <1>9. LeftOf(r) = [r EXCEPT !.leaf = tree[n].left, !.hi = h]
    BY <1>2, <1>3, <1>6, <1>7 DEF LeftOf, Lowered
  <1>10. PICK a : a = LeftOf(r)
    OBVIOUS
  <1>11. a \in Regions /\ a.leaf = tree[n].left /\ a.lo = r.lo /\ a.hi = h
    BY <1>4, <1>9, <1>10 DEF Regions
  <1>12. thr \in Bounds(f)
    BY <1>2, <1>3 DEF Bounds, Splits
  <1>13. Drawn(a)
    <2>1. \A e \in Features : h[e] = Inf \/ h[e] \in Bounds(e)
      BY <1>6, <1>8, <1>12 DEF Drawn
    <2>2. QED
      BY <1>11, <2>1 DEF Drawn
  <1>14. ASSUME NEW x \in Points
         PROVE  contains(a, x) <=> contains(r, x) /\ Value(x[f]) <= thr
    <2>1. \A e \in Features : Value(x[e]) \in Int
      BY KeyIs DEF Points
    <2>2. Value(x[f]) <= m <=> Value(x[f]) <= r.hi[f] /\ Value(x[f]) <= thr
      BY <1>5, <1>6, <2>1
    <2>3. contains(a, x) <=> \A e \in Features : r.lo[e] < Value(x[e]) /\ Value(x[e]) <= h[e]
      BY <1>11 DEF contains
    <2>4. QED
      BY <1>8, <2>2, <2>3 DEF contains
  <1>15. QED
    BY <1>2, <1>3, <1>10, <1>11, <1>13, <1>14

\* The right side is the part above it.
LEMMA RightSide ==
  ASSUME tree \in Trees, NEW r \in Regions, Drawn(r), ~ IsLeaf(r.leaf)
  PROVE  /\ RightOf(r) \in Regions /\ Drawn(RightOf(r)) /\ RightOf(r).leaf = tree[r.leaf].right
         /\ \A x \in Points :
               contains(RightOf(r), x) <=> contains(r, x) /\ ~ (Value(x[tree[r.leaf].f]) <= tree[r.leaf].thr)
  <1>1. PICK last : IsTree(tree, last)
    BY TreeIs
  <1>2. PICK n : n = r.leaf /\ n \in DOMAIN tree
    BY DEF Regions
  <1>3. PICK f \in Features, thr \in Int : f = tree[n].f /\ thr = tree[n].thr
    BY <1>1, <1>2 DEF IsTree
  <1>4. tree[n].right \in DOMAIN tree /\ last \in Nat
    BY <1>1, <1>2 DEF IsTree, IsLeaf
  <1>5. r.lo \in [Features -> Int] /\ r.hi \in [Features -> Int]
    BY DEF Regions
  <1>6. PICK m \in Int : m = Max({r.lo[f], thr}) /\ m \in {r.lo[f], thr} /\ m >= r.lo[f] /\ m >= thr
    <2>1. PICK p \in Int : p = r.lo[f]
      BY <1>5
    <2>2. Max({p, thr}) \in {p, thr} /\ Max({p, thr}) >= p /\ Max({p, thr}) >= thr
      BY OfTwo
    <2>3. Max({p, thr}) \in Int
      BY <2>2
    <2>4. QED
      BY <2>1, <2>2, <2>3
  <1>7. PICK h \in [Features -> Int] : h = [r.lo EXCEPT ![f] = m]
    BY <1>5
  <1>8. h[f] = m /\ \A e \in Features : e # f => h[e] = r.lo[e]
    BY <1>5, <1>7
  <1>9. RightOf(r) = [r EXCEPT !.leaf = tree[n].right, !.lo = h]
    BY <1>2, <1>3, <1>6, <1>7 DEF RightOf, Raised
  <1>10. PICK a : a = RightOf(r)
    OBVIOUS
  <1>11. a \in Regions /\ a.leaf = tree[n].right /\ a.lo = h /\ a.hi = r.hi
    BY <1>4, <1>9, <1>10 DEF Regions
  <1>12. thr \in Bounds(f)
    BY <1>2, <1>3 DEF Bounds, Splits
  <1>13. Drawn(a)
    <2>1. \A e \in Features : h[e] = -Inf \/ h[e] \in Bounds(e)
      BY <1>6, <1>8, <1>12 DEF Drawn
    <2>2. QED
      BY <1>11, <2>1 DEF Drawn
  <1>14. ASSUME NEW x \in Points
         PROVE  contains(a, x) <=> contains(r, x) /\ ~ (Value(x[f]) <= thr)
    <2>1. \A e \in Features : Value(x[e]) \in Int
      BY KeyIs DEF Points
    <2>2. m < Value(x[f]) <=> r.lo[f] < Value(x[f]) /\ ~ (Value(x[f]) <= thr)
      BY <1>5, <1>6, <2>1
    <2>3. contains(a, x) <=> \A e \in Features : h[e] < Value(x[e]) /\ Value(x[e]) <= r.hi[e]
      BY <1>11 DEF contains
    <2>4. QED
      BY <1>8, <2>2, <2>3 DEF contains
  <1>15. QED
    BY <1>2, <1>3, <1>10, <1>11, <1>13, <1>14

\* The first region is everything.
LEMMA LeafInitInv == LeafInit => LeafInv
  <1> SUFFICES ASSUME LeafInit PROVE LeafInv
    OBVIOUS
  <1>1. PICK last : IsTree(tree, last)
    BY TreeIs DEF LeafInit
  <1>2. Root \in DOMAIN tree
    BY <1>1 DEF IsTree, Root
  <1>3. PICK r : r = [leaf |-> Root, lo |-> [f \in Features |-> -Inf], hi |-> [f \in Features |-> Inf]]
    OBVIOUS
  <1>4. Inf \in Int /\ -Inf \in Int
    BY WordIs DEF Inf
  <1>5. r \in Regions /\ r.leaf = Root /\ \A f \in Features : r.lo[f] = -Inf /\ r.hi[f] = Inf
    BY <1>2, <1>3, <1>4 DEF Regions
  <1>6. stack = <<r>> /\ boxes = {} /\ tree \in Trees
    BY <1>3 DEF LeafInit
  <1>7. stack \in Seq(Regions) /\ Len(stack) = 1 /\ stack[1] = r
    BY <1>5, <1>6
  <1>8. Drawn(r)
    BY <1>5 DEF Drawn
  <1>9. ASSUME NEW x \in Points PROVE contains(r, x)
    <2>1. ASSUME NEW f \in Features PROVE -Inf < Value(x[f]) /\ Value(x[f]) <= Inf
      <3>1. x[f] \in Patterns
        BY DEF Points
      <3>2. Word \in Nat /\ Value(x[f]) \in Int /\ -Word < Value(x[f]) /\ Value(x[f]) < Word
        BY <3>1, WordIs, KeyIs
      <3>3. QED
        BY <3>2 DEF Inf
    <2>2. QED
      BY <1>5, <2>1 DEF contains
  <1>10. \A i \in 1 .. Len(stack) : i = 1 /\ stack[i] = r
    BY <1>7
  <1>11. ASSUME NEW x \in Points PROVE Placed(x)
    BY <1>5, <1>6, <1>7, <1>9, <1>10 DEF Placed, Reaches
  <1>12. QED
    BY <1>6, <1>7, <1>8, <1>10, <1>11 DEF LeafInv

\* A stack without its topmost.
LEMMA PoppedIs ==
  ASSUME stack \in Seq(Regions), stack # <<>>
  PROVE  \E n \in Nat : /\ Len(stack) = n + 1 /\ Topmost = stack[n + 1] /\ Topmost \in Regions
                        /\ Popped \in Seq(Regions) /\ Len(Popped) = n
                        /\ \A i \in 1 .. n : Popped[i] = stack[i]
  <1>1. PICK k \in Nat \ {0} : k = Len(stack)
    BY EmptySeq
  <1>2. PICK n \in Nat : n = k - 1 /\ k = n + 1
    <2>1. k - 1 \in Nat /\ k = (k - 1) + 1
      OBVIOUS
    <2>2. QED
      BY <2>1
  <1>3. Topmost = stack[n + 1] /\ Topmost \in Regions /\ Popped = SubSeq(stack, 1, n)
    BY <1>1, <1>2, ElementOfSeq DEF Topmost, Popped
  <1>4. SubSeq(stack, 1, n) \in Seq(Regions) /\ Len(SubSeq(stack, 1, n)) = n
        /\ \A i \in 1 .. n : SubSeq(stack, 1, n)[i] = stack[i]
    BY <1>1, <1>2
  <1>5. QED
    BY <1>1, <1>2, <1>3, <1>4

\* What a step that keeps the tree does not change.
LEMMA SameTree ==
  ASSUME tree' = tree
  PROVE  /\ Regions' = Regions /\ \A r : Drawn(r)' <=> Drawn(r)
         /\ \A n : IsLeaf(n)' <=> IsLeaf(n)
         /\ \A n, x : Reaches(n, x)' <=> Reaches(n, x)
  BY DEF Regions, Drawn, Bounds, Splits, IsLeaf, Reaches, IsWalk

\* A leaf is boxed.
LEMMA PopLeafInv == LeafInv /\ PopLeaf => LeafInv'
  <1> SUFFICES ASSUME LeafInv, PopLeaf PROVE LeafInv'
    OBVIOUS
  <1>1. /\ tree \in Trees /\ stack \in Seq(Regions) /\ boxes \subseteq Regions
        /\ \A i \in 1 .. Len(stack) : Drawn(stack[i])
        /\ \A b \in boxes : Drawn(b) /\ IsLeaf(b.leaf)
    BY DEF LeafInv
  <1>2. stack # <<>> /\ IsLeaf(Topmost.leaf) /\ tree' = tree
    BY DEF PopLeaf
  <1>3. PICK n \in Nat : /\ Len(stack) = n + 1 /\ Topmost = stack[n + 1] /\ Topmost \in Regions
                         /\ Popped \in Seq(Regions) /\ Len(Popped) = n
                         /\ \A i \in 1 .. n : Popped[i] = stack[i]
    BY <1>1, <1>2, PoppedIs
  <1>4. PICK st, r : st = stack' /\ r = Topmost
    OBVIOUS
  <1>5. st \in Seq(Regions) /\ Len(st) = n /\ (\A i \in 1 .. n : st[i] = stack[i]) /\ boxes' = boxes \cup {r}
    BY <1>3, <1>4 DEF PopLeaf
  <1>6. r = stack[n + 1] /\ r \in Regions /\ IsLeaf(r.leaf) /\ n + 1 \in 1 .. Len(stack)
    BY <1>2, <1>3, <1>4
  <1>7. Drawn(r) /\ \A i \in 1 .. n : i \in 1 .. Len(stack) /\ i # n + 1
    BY <1>1, <1>3, <1>6
  <1>8. ASSUME NEW x \in Points PROVE Placed(x)'
    <2>1. Placed(x)
      BY DEF LeafInv
    <2>2. \A i, j \in 1 .. n : contains(st[i], x) /\ contains(st[j], x) => i = j
      BY <1>5, <1>7, <2>1 DEF Placed
    <2>3. \A i \in 1 .. n, b \in boxes' : ~ (contains(st[i], x) /\ contains(b, x))
      BY <1>5, <1>6, <1>7, <2>1 DEF Placed
    <2>4. \A b, c \in boxes' : contains(b, x) /\ contains(c, x) => b = c
      BY <1>5, <1>6, <2>1 DEF Placed
    <2>5. (\E i \in 1 .. n : contains(st[i], x)) \/ (\E b \in boxes' : contains(b, x))
      <3>1. CASE \E i \in 1 .. Len(stack) : contains(stack[i], x)
        <4>1. PICK i \in 1 .. Len(stack) : contains(stack[i], x)
          BY <3>1
        <4>2. i \in 1 .. n \/ i = n + 1
          BY <1>3
        <4>3. QED
          BY <1>5, <1>6, <4>1, <4>2
      <3>2. CASE \E b \in boxes : contains(b, x)
        BY <1>5, <3>2
      <3>3. QED
        BY <2>1, <3>1, <3>2 DEF Placed
    <2>6. \A i \in 1 .. n : contains(st[i], x) => Reaches(st[i].leaf, x)
      BY <1>5, <1>7, <2>1 DEF Placed
    <2>7. \A b \in boxes' : contains(b, x) => Reaches(b.leaf, x)
      BY <1>5, <1>6, <2>1 DEF Placed
    <2>8. contains(r, x)' <=> contains(r, x)
      OBVIOUS
    <2>9. QED
      BY <1>2, <1>4, <1>5, <2>2, <2>3, <2>4, <2>5, <2>6, <2>7, SameTree, ZenonT(30) DEF Placed
  <1>9. /\ \A i \in 1 .. Len(st) : Drawn(st[i])
        /\ \A b \in boxes' : Drawn(b) /\ IsLeaf(b.leaf)
        /\ boxes' \subseteq Regions
    BY <1>1, <1>5, <1>6, <1>7
  <1>10. QED
    BY <1>1, <1>2, <1>4, <1>5, <1>8, <1>9, SameTree DEF LeafInv

\* A walk that passes a node goes on to the side of its sample.
LEMMA ChildReached ==
  ASSUME tree \in Trees, NEW x \in Points, NEW n \in DOMAIN tree, ~ IsLeaf(n), Reaches(n, x)
  PROVE  /\ Value(x[tree[n].f]) <= tree[n].thr => Reaches(tree[n].left, x)
         /\ ~ (Value(x[tree[n].f]) <= tree[n].thr) => Reaches(tree[n].right, x)
  <1>1. ASSUME NEW g, IsWalk(g, x), Value(x[tree[n].f]) <= tree[n].thr PROVE g[tree[n].left] = g[Root]
    <2>1. g[n] = g[tree[n].left]
      BY <1>1 DEF IsWalk
    <2>2. QED
      BY <1>1, <2>1 DEF Reaches
  <1>2. ASSUME NEW g, IsWalk(g, x), ~ (Value(x[tree[n].f]) <= tree[n].thr) PROVE g[tree[n].right] = g[Root]
    <2>1. g[n] = g[tree[n].right]
      BY <1>2 DEF IsWalk
    <2>2. QED
      BY <1>2, <2>1 DEF Reaches
  <1>3. QED
    BY <1>1, <1>2 DEF Reaches

\* A region gives way to its two sides.
LEMMA PopSplitInv == LeafInv /\ PopSplit => LeafInv'
  <1> SUFFICES ASSUME LeafInv, PopSplit PROVE LeafInv'
    OBVIOUS
  <1>1. /\ tree \in Trees /\ stack \in Seq(Regions) /\ boxes \subseteq Regions
        /\ \A i \in 1 .. Len(stack) : Drawn(stack[i])
        /\ \A b \in boxes : Drawn(b) /\ IsLeaf(b.leaf)
    BY DEF LeafInv
  <1>2. stack # <<>> /\ ~ IsLeaf(Topmost.leaf) /\ tree' = tree /\ boxes' = boxes
    BY DEF PopSplit
  <1>3. PICK n \in Nat : /\ Len(stack) = n + 1 /\ Topmost = stack[n + 1] /\ Topmost \in Regions
                         /\ Popped \in Seq(Regions) /\ Len(Popped) = n
                         /\ \A i \in 1 .. n : Popped[i] = stack[i]
    BY <1>1, <1>2, PoppedIs
  <1>4. PICK st, r, u, v, p : st = stack' /\ r = Topmost /\ u = LeftOf(Topmost) /\ v = RightOf(Topmost) /\ p = Popped
    OBVIOUS
  <1>5. st = p \o <<u, v>>
    BY <1>4 DEF PopSplit, LeftOf, RightOf
  <1>6. r = stack[n + 1] /\ r \in Regions /\ ~ IsLeaf(r.leaf) /\ n + 1 \in 1 .. Len(stack) /\ Drawn(r)
    BY <1>1, <1>2, <1>3, <1>4
  <1>7. PICK low \in [Points -> BOOLEAN] :
           \A x \in Points : low[x] <=> Value(x[tree[r.leaf].f]) <= tree[r.leaf].thr
    <2>1. [x \in Points |-> Value(x[tree[r.leaf].f]) <= tree[r.leaf].thr] \in [Points -> BOOLEAN]
      BY DEF Value
    <2>2. QED
      BY <2>1
  <1>8. /\ u \in Regions /\ Drawn(u) /\ u.leaf = tree[r.leaf].left
        /\ \A x \in Points : contains(u, x) <=> contains(r, x) /\ low[x]
    BY <1>1, <1>4, <1>6, <1>7, LeftSide
  <1>9. /\ v \in Regions /\ Drawn(v) /\ v.leaf = tree[r.leaf].right
        /\ \A x \in Points : contains(v, x) <=> contains(r, x) /\ ~ low[x]
    BY <1>1, <1>4, <1>6, <1>7, RightSide
  <1>10. /\ st \in Seq(Regions) /\ Len(st) = n + 2 /\ st[n + 1] = u /\ st[n + 2] = v
         /\ \A i \in 1 .. n : st[i] = stack[i]
    <2>1. p \in Seq(Regions) /\ Len(p) = n /\ \A i \in 1 .. n : p[i] = stack[i]
      BY <1>3, <1>4
    <2>2. <<u, v>> \in Seq(Regions) /\ Len(<<u, v>>) = 2 /\ <<u, v>>[1] = u /\ <<u, v>>[2] = v
      BY <1>8, <1>9
    <2>3. PICK w \in Seq(Regions) : w = <<u, v>>
      BY <2>2
    <2>4. /\ p \o w \in Seq(Regions) /\ Len(p \o w) = n + 2
          /\ \A i \in 1 .. n : (p \o w)[i] = p[i]
          /\ (p \o w)[n + 1] = w[1] /\ (p \o w)[n + 2] = w[2]
      BY <2>1, <2>2, <2>3, ConcatProperties
    <2>5. QED
      BY <1>5, <2>1, <2>2, <2>3, <2>4
  <1>11. \A i \in 1 .. n : i \in 1 .. Len(stack) /\ i # n + 1 /\ i # n + 2
    BY <1>3
  <1>12. 1 .. n + 2 = (1 .. n) \cup {n + 1, n + 2} /\ n + 1 # n + 2
         /\ \A i \in 1 .. Len(stack) : i \in 1 .. n \/ i = n + 1
    BY <1>3
  <1>13. ASSUME NEW x \in Points PROVE Placed(x)'
    <2>1. Placed(x)
      BY DEF LeafInv
    <2>2. /\ contains(u, x) => contains(r, x) /\ low[x]
          /\ contains(v, x) => contains(r, x) /\ ~ low[x]
          /\ contains(r, x) => contains(u, x) \/ contains(v, x)
      BY <1>8, <1>9
    <2>3. /\ \A i, j \in 1 .. n : contains(st[i], x) /\ contains(st[j], x) => i = j
          /\ \A i \in 1 .. n : contains(st[i], x) => ~ contains(r, x)
      BY <1>6, <1>10, <1>11, <2>1 DEF Placed
    <2>4. \A i, j \in 1 .. n + 2 : contains(st[i], x) /\ contains(st[j], x) => i = j
      BY <1>10, <1>12, <2>2, <2>3
    <2>5. \A b \in boxes : ~ (contains(r, x) /\ contains(b, x))
      BY <1>6, <2>1 DEF Placed
    <2>6. \A i \in 1 .. n, b \in boxes : ~ (contains(st[i], x) /\ contains(b, x))
      BY <1>10, <1>11, <2>1 DEF Placed
    <2>7. \A i \in 1 .. n + 2, b \in boxes : ~ (contains(st[i], x) /\ contains(b, x))
      BY <1>10, <1>12, <2>2, <2>5, <2>6
    <2>8. (\E i \in 1 .. n + 2 : contains(st[i], x)) \/ (\E b \in boxes : contains(b, x))
      <3>1. CASE \E i \in 1 .. Len(stack) : contains(stack[i], x)
        <4>1. PICK i \in 1 .. Len(stack) : contains(stack[i], x)
          BY <3>1
        <4>2. CASE i \in 1 .. n
          BY <1>10, <1>12, <4>1, <4>2
        <4>3. CASE i = n + 1
          BY <1>6, <1>10, <1>12, <2>2, <4>1, <4>3
        <4>4. QED
          BY <1>12, <4>2, <4>3
      <3>2. QED
        BY <2>1, <3>1 DEF Placed
    <2>9. \A i \in 1 .. n : contains(st[i], x) => Reaches(st[i].leaf, x)
      BY <1>10, <1>11, <2>1 DEF Placed
    <2>10. contains(r, x) => Reaches(r.leaf, x)
      BY <1>6, <2>1 DEF Placed
    <2>11. r.leaf \in DOMAIN tree
      BY <1>6 DEF Regions
    <2>12. (contains(u, x) => Reaches(u.leaf, x)) /\ (contains(v, x) => Reaches(v.leaf, x))
      BY <1>1, <1>6, <1>7, <1>8, <1>9, <2>2, <2>10, <2>11, ChildReached
    <2>13. \A i \in 1 .. n + 2 : contains(st[i], x) => Reaches(st[i].leaf, x)
      BY <1>10, <1>12, <2>9, <2>12
    <2>14. /\ \A b, c \in boxes : contains(b, x) /\ contains(c, x) => b = c
           /\ \A b \in boxes : contains(b, x) => Reaches(b.leaf, x)
      BY <2>1 DEF Placed
    <2>15. Len(stack') = n + 2
      BY <1>4, <1>10
    <2>16. QED
      BY <1>2, <1>4, <2>15, <2>4, <2>7, <2>8, <2>13, <2>14, SameTree, ZenonT(30) DEF Placed
  <1>14. \A i \in 1 .. Len(st) : Drawn(st[i])
    BY <1>1, <1>8, <1>9, <1>10, <1>11, <1>12
  <1>15. QED
    BY <1>1, <1>2, <1>4, <1>10, <1>13, <1>14, SameTree DEF LeafInv

\* The loop keeps the invariant.
LEMMA LeafInvHolds ==
  /\ LeafInit => LeafInv
  /\ LeafInv /\ [LeafNext]_leafVars => LeafInv'
  <1>1. ASSUME LeafInv, UNCHANGED leafVars PROVE LeafInv'
    <2>1. tree' = tree /\ stack' = stack /\ boxes' = boxes
      BY <1>1 DEF leafVars
    <2>2. ASSUME NEW x \in Points PROVE Placed(x)'
      <3>1. Placed(x)
        BY <1>1 DEF LeafInv
      <3>2. QED
        BY <2>1, <3>1, SameTree DEF Placed
    <2>3. QED
      BY <1>1, <2>1, <2>2, SameTree DEF LeafInv
  <1>2. QED
    BY <1>1, LeafInitInv, PopLeafInv, PopSplitInv DEF LeafNext

\* Of the boxes and the pending regions, one contains each sample.
LEMMA OneRegion == LeafInv => RegionsPartition
  <1> SUFFICES ASSUME LeafInv, NEW x \in Points
               PROVE  Cardinality({r \in boxes \cup Pending : contains(r, x)}) = 1
    BY DEF RegionsPartition
  <1>1. Placed(x)
    BY DEF LeafInv
  <1>2. \E r \in boxes \cup Pending : contains(r, x)
    BY <1>1 DEF Placed, Pending
  <1>3. \A r, s \in boxes \cup Pending : contains(r, x) /\ contains(s, x) => r = s
    <2>1. SUFFICES ASSUME NEW r \in boxes \cup Pending, NEW s \in boxes \cup Pending,
                          contains(r, x), contains(s, x)
                   PROVE  r = s
      OBVIOUS
    <2>2. r \in boxes \/ \E i \in 1 .. Len(stack) : r = stack[i]
      BY DEF Pending
    <2>3. s \in boxes \/ \E i \in 1 .. Len(stack) : s = stack[i]
      BY DEF Pending
    <2>4. QED
      BY <1>1, <2>1, <2>2, <2>3 DEF Placed
  <1>4. PICK r : {s \in boxes \cup Pending : contains(s, x)} = {r}
    <2>1. PICK r \in boxes \cup Pending : contains(r, x)
      BY <1>2
    <2>2. {s \in boxes \cup Pending : contains(s, x)} = {r}
      BY <1>3, <2>1
    <2>3. QED
      BY <2>2
  <1>5. QED
    BY <1>4, FS_Singleton

-----------------------------------------------------------------------------
(* The finished boxes, as key ranges and as codes.                         *)

\* The thresholds that bound a region, and their keys.
LEMMA BoundsAre ==
  ASSUME tree \in Trees, NEW f \in Features
  PROVE  /\ \A cut \in Bounds(f) : Threshold(cut) /\ BoundaryKey(cut) \in bkeys(f) /\ cut # Inf /\ cut # -Inf
         /\ bkeys(f) \subseteq Key
  <1>1. PICK last : IsTree(tree, last)
    BY TreeIs
  <1>2. \A n \in Splits(f) : Threshold(tree[n].thr)
    BY <1>1 DEF Splits, IsLeaf, IsTree
  <1>3. \A cut : Threshold(cut) => cut # Inf /\ cut # -Inf /\ BoundaryKey(cut) \in Key
    <2>1. SUFFICES ASSUME NEW cut, Threshold(cut) PROVE cut # Inf /\ cut # -Inf /\ BoundaryKey(cut) \in Key
      OBVIOUS
    <2>2. cut # Inf /\ cut # -Inf
      BY <2>1, WordIs DEF Threshold, Inf
    <2>3. BoundaryKey(cut) \in Key
      BY <2>1, KeyAbove, SlicesInOrder DEF BoundaryKey
    <2>4. QED
      BY <2>2, <2>3
  <1>4. QED
    BY <1>2, <1>3 DEF Bounds, bkeys

\* A lower bound of a region, in the three encodings.
LEMMA LowerBound ==
  ASSUME tree \in Trees, NEW r \in Regions, Drawn(r), NEW f \in Features, NEW a \in Patterns
  PROVE  /\ r.lo[f] < Value(a) <=> RangeLow(r.lo[f]) <= f32_key(a)
         /\ r.lo[f] < Value(a) <=> MustBeSet(r, f) \subseteq CodeLikeSwitch(bkeys(f), Sliced(f32_key(a)))
  <1>1. PICK cut \in Int : cut = r.lo[f]
    BY DEF Regions
  <1>2. PICK k \in 0 .. Word - 1 : k = f32_key(a) /\ Sliced(k) \in Key
    BY KeyIs, SlicesInOrder
  <1>3. PICK C : C = CodeLikeSwitch(bkeys(f), Sliced(k)) /\ C = CodeAt(bkeys(f), Sliced(k))
    BY <1>2, BoundsAre, SwitchComputesCode
  <1>4. CASE cut = -Inf
    <2>1. Value(a) \in Int /\ -Word < Value(a) /\ Word \in Nat
      BY KeyIs, WordIs
    <2>2. cut < Value(a)
      BY <1>4, <2>1 DEF Inf
    <2>3. RangeLow(cut) = 0 /\ MustBeSet(r, f) = {} /\ 0 <= k
      BY <1>1, <1>2, <1>4 DEF RangeLow, MustBeSet
    <2>4. QED
      BY <1>1, <1>2, <1>3, <2>2, <2>3
  <1>5. CASE cut # -Inf
    <2>1. cut \in Bounds(f)
      BY <1>1, <1>5 DEF Drawn
    <2>2. Threshold(cut) /\ BoundaryKey(cut) \in bkeys(f)
      BY <2>1, BoundsAre
    <2>3. PICK s \in 0 .. Word - 1 : s = SmallestKeyAbove(cut) /\ (Value(a) > cut <=> s <= k)
      BY <1>2, <2>2, KeyAbove
    <2>4. RangeLow(cut) = s /\ MustBeSet(r, f) = {Sliced(s)} /\ Sliced(s) \in bkeys(f)
      BY <1>1, <1>5, <2>2, <2>3 DEF RangeLow, MustBeSet, BoundaryKey
    <2>5. Sliced(s) \in C <=> s <= k
      BY <1>3, <2>4, SlicesInOrder DEF CodeAt
    <2>6. cut < Value(a) <=> Value(a) > cut
      BY KeyIs
    <2>7. QED
      BY <1>1, <1>2, <1>3, <2>3, <2>4, <2>5, <2>6
  <1>6. QED
    BY <1>4, <1>5

\* An upper bound.
LEMMA UpperBound ==
  ASSUME tree \in Trees, NEW r \in Regions, Drawn(r), NEW f \in Features, NEW a \in Patterns
  PROVE  /\ Value(a) <= r.hi[f] <=> f32_key(a) <= RangeHigh(r.hi[f])
         /\ Value(a) <= r.hi[f] <=> MustBeClear(r, f) \cap CodeLikeSwitch(bkeys(f), Sliced(f32_key(a))) = {}
  <1>1. PICK cut \in Int : cut = r.hi[f]
    BY DEF Regions
  <1>2. PICK k \in 0 .. Word - 1 : k = f32_key(a) /\ Sliced(k) \in Key
    BY KeyIs, SlicesInOrder
  <1>3. PICK C : C = CodeLikeSwitch(bkeys(f), Sliced(k)) /\ C = CodeAt(bkeys(f), Sliced(k))
    BY <1>2, BoundsAre, SwitchComputesCode
  <1>4. CASE cut = Inf
    <2>1. Value(a) \in Int /\ Value(a) < Word /\ Word \in Nat
      BY KeyIs, WordIs
    <2>2. Value(a) <= cut
      BY <1>4, <2>1 DEF Inf
    <2>3. RangeHigh(cut) = Word - 1 /\ MustBeClear(r, f) = {} /\ k <= Word - 1
      BY <1>1, <1>2, <1>4, WordIs DEF RangeHigh, MustBeClear
    <2>4. QED
      BY <1>1, <1>2, <1>3, <2>2, <2>3
  <1>5. CASE cut # Inf
    <2>1. cut \in Bounds(f)
      BY <1>1, <1>5 DEF Drawn
    <2>2. Threshold(cut) /\ BoundaryKey(cut) \in bkeys(f)
      BY <2>1, BoundsAre
    <2>3. PICK s \in 0 .. Word - 1 : s = SmallestKeyAbove(cut) /\ (Value(a) > cut <=> s <= k)
      BY <1>2, <2>2, KeyAbove
    <2>4. MustBeClear(r, f) = {Sliced(s)} /\ Sliced(s) \in bkeys(f)
      BY <1>1, <1>5, <2>2, <2>3 DEF MustBeClear, BoundaryKey
    <2>5. Sliced(s) \in C <=> s <= k
      BY <1>3, <2>4, SlicesInOrder DEF CodeAt
    <2>6. Value(a) <= cut <=> ~ (Value(a) > cut)
      BY KeyIs
    <2>7. Value(a) <= cut <=> k <= RangeHigh(cut)
      BY <1>2, <1>5, <2>2, KeyAtMost DEF RangeHigh
    <2>8. QED
      BY <1>1, <1>2, <1>3, <2>3, <2>4, <2>5, <2>6, <2>7
  <1>6. QED
    BY <1>4, <1>5

\* The codes of a sample, as the switch computes them.
CodesOf(x) == [f \in Features |-> CodesLikeSwitch[f][x[f]]]

\* Key ranges and codes contain the samples that the region does.
LEMMA EncodedAlike ==
  ASSUME tree \in Trees, NEW r \in Regions, Drawn(r), NEW x \in Points
  PROVE  (contains(r, x) <=> InRanges(r, x)) /\ (contains(r, x) <=> TernaryHit(r, CodesOf(x)))
  <1>1. \A f \in Features : x[f] \in Patterns
    BY DEF Points
  <1>2. \A f \in Features : CodesOf(x)[f] = CodeLikeSwitch(bkeys(f), Sliced(f32_key(x[f])))
    BY <1>1 DEF CodesOf, CodesLikeSwitch
  <1>3. contains(r, x) <=> InRanges(r, x)
    BY <1>1, LowerBound, UpperBound DEF contains, InRanges
  <1>4. contains(r, x) <=> TernaryHit(r, CodesOf(x))
    BY <1>1, <1>2, LowerBound, UpperBound DEF contains, TernaryHit
  <1>5. QED
    BY <1>3, <1>4

\* The box that contains a sample is of the leaf that the tree finds.
LEMMA LeafFound ==
  ASSUME LeafInv, stack = <<>>, NEW x \in Points
  PROVE  /\ \E b \in boxes : contains(b, x)
         /\ \A b \in boxes : contains(b, x) => b.leaf = apply(x)
  <1>1. Placed(x) /\ tree \in Trees /\ boxes \subseteq Regions /\ \A b \in boxes : IsLeaf(b.leaf)
    BY DEF LeafInv
  <1>2. Len(stack) = 0
    OBVIOUS
  <1>3. \E b \in boxes : contains(b, x)
    <2>1. \A i \in 1 .. Len(stack) : FALSE
      BY <1>2
    <2>2. QED
      BY <1>1, <2>1 DEF Placed
  <1>4. PICK g : IsWalk(g, x) /\ apply(x) = g[Root]
    BY <1>1, ApplyWalks
  <1>5. ASSUME NEW b \in boxes, contains(b, x) PROVE b.leaf = apply(x)
    <2>1. g[b.leaf] = g[Root]
      BY <1>1, <1>4, <1>5 DEF Placed, Reaches
    <2>2. b.leaf \in DOMAIN tree /\ IsLeaf(b.leaf)
      BY <1>1, <1>5 DEF Regions
    <2>3. g[b.leaf] = b.leaf
      BY <1>4, <2>2 DEF IsWalk
    <2>4. QED
      BY <1>4, <2>1, <2>3
  <1>6. QED
    BY <1>3, <1>5

\* All three encodings find that leaf and no other.
LEMMA EncodingsFind == LeafInv => EncodingsEqualTree
  <1> SUFFICES ASSUME LeafInv, stack = <<>>, NEW x \in Points
               PROVE  /\ lookup(x) = {apply(x)} /\ leaf_of(x) = {apply(x)}
                      /\ Emulated(CodesLikeSwitch, x) = {apply(x)}
    BY DEF EncodingsEqualTree
  <1>1. tree \in Trees /\ boxes \subseteq Regions /\ \A b \in boxes : Drawn(b)
    BY DEF LeafInv
  <1>2. \A b \in boxes : /\ contains(b, x) <=> InRanges(b, x)
                         /\ contains(b, x) <=> TernaryHit(b, CodesOf(x))
    BY <1>1, EncodedAlike
  <1>3. PICK l : l = apply(x)
    OBVIOUS
  <1>4. (\E b \in boxes : contains(b, x)) /\ \A b \in boxes : contains(b, x) => b.leaf = l
    BY <1>3, LeafFound
  <1>5. lookup(x) = {l}
    BY <1>4 DEF lookup
  <1>6. leaf_of(x) = {l}
    BY <1>2, <1>4 DEF leaf_of
  <1>7. Emulated(CodesLikeSwitch, x) = {l}
    BY <1>2, <1>4 DEF Emulated, CodesOf
  <1>8. QED
    BY <1>3, <1>5, <1>6, <1>7

\* Every tree whose tables are built keeps the partition on the way, and is
\* found in each encoding at the end.
THEOREM TreesAlwaysSurvive == LeafSpec => [](RegionsPartition /\ EncodingsEqualTree)
  <1>1. LeafSpec => []LeafInv
    BY LeafInvHolds, PTL DEF LeafSpec
  <1>2. LeafInv => RegionsPartition /\ EncodingsEqualTree
    BY OneRegion, EncodingsFind
  <1>3. QED
    BY <1>1, <1>2, PTL

-----------------------------------------------------------------------------
(* TableSetup: setup lays the tables of one model, for any models,         *)
(* features, boundaries and K, whatever redeploys, failed compiles and     *)
(* kills came before.                                                      *)

NumCalls == 3 + 4 * Len(FeatureOrder)
CallSet == {Calls[p] : p \in 1 .. NumCalls}

\* What the switch holds after the first d calls of setup.
Laid(d) ==
    /\ d >= 1 => ports = {Hulk, Vision}
    /\ d = 2 => port_fwd = {}
    /\ d >= 3 => port_fwd = {<<Hulk, Vision>>, <<Vision, Hulk>>}
    /\ \A j \in 1 .. Len(FeatureOrder) :
          LET f == FeatureOrder[j] IN
          /\ d \in {4 * j, 4 * j + 1} => fine[f] = {}
          /\ d \in {4 * j + 1, 4 * j + 2} => coarse[f] = {}
          /\ d >= 4 * j + 2 => fine[f] = Fine(Boundaries[file][f])
          /\ d >= 4 * j + 3 => coarse[f] = Coarse(Boundaries[file][f])

TablesAreFunctions ==
    /\ fine = [f \in Feats |-> fine[f]]
    /\ coarse = [f \in Feats |-> coarse[f]]

\* A setup that runs has the last of its calls before it, and the switch holds
\* what the first have laid.
RunsInOrder ==
    /\ todo \in Seq(CallSet) /\ Len(todo) <= NumCalls
    /\ caller = "off" <=> todo = <<>>
    /\ \A i \in 1 .. Len(todo) : todo[i] = Calls[NumCalls - Len(todo) + i]
    /\ caller # "off" => Laid(NumCalls - Len(todo))

\* No setup runs on the tables of a model that is installed.
WholeIsLaid ==
    whole # "none" =>
        /\ whole \in Models /\ caller = "off"
        /\ \A f \in Feats : fine[f] = Fine(Boundaries[whole][f]) /\ coarse[f] = Coarse(Boundaries[whole][f])
        /\ ports = {Hulk, Vision} /\ port_fwd = {<<Hulk, Vision>>, <<Vision, Hulk>>}

\* A controller finds only its own entries in leaf_tbl.
LeavesOfServed ==
    serving # "off" => serving \in Models /\ leaf_tbl \subseteq {Entry(serving, x) : x \in Queries}

SetupInv ==
    /\ file \in Models /\ TablesAreFunctions /\ RunsInOrder /\ WholeIsLaid /\ LeavesOfServed

\* The calls of setup: three for the ports, four for each feature.
LEMMA CallsAre ==
    /\ Len(FeatureOrder) \in Nat /\ NumCalls \in Nat
    /\ Calls \in Seq(CallSet) /\ Len(Calls) = NumCalls /\ Calls # <<>>
    /\ Feats = {FeatureOrder[j] : j \in 1 .. Len(FeatureOrder)}
<1>1. Len(FeatureOrder) \in Nat /\ DOMAIN FeatureOrder = 1 .. Len(FeatureOrder)
  BY LenProperties, SetupAssumption
<1>2. NumCalls \in Nat /\ NumCalls >= 3
  BY <1>1 DEF NumCalls
<1>3. Calls = [p \in 1 .. NumCalls |-> Calls[p]]
  BY DEF Calls, NumCalls
<1>4. Calls \in [1 .. NumCalls -> CallSet]
  BY <1>3 DEF CallSet
<1>5. Calls \in Seq(CallSet)
  BY <1>2, <1>4, SeqDef
<1>6. Len(Calls) = NumCalls
  BY <1>2, <1>4, <1>5, LenProperties
<1>7. Calls # <<>>
  BY <1>2, <1>6, LenProperties
<1>8. Feats = {FeatureOrder[j] : j \in 1 .. Len(FeatureOrder)}
  BY <1>1 DEF Feats
<1>9. QED
  BY <1>1, <1>2, <1>5, <1>6, <1>7, <1>8

\* A call lays what the invariant expects after it.
LEMMA EffectLays ==
    ASSUME TablesAreFunctions, NEW d \in 0 .. NumCalls - 1, Laid(d),
           Effect(Calls[d + 1]), file' = file
    PROVE  TablesAreFunctions' /\ Laid(d + 1)'
<1> DEFINE n == Len(FeatureOrder)
<1>0. n \in Nat /\ d \in 0 .. 2 + 4 * n /\ d \in Nat
  BY CallsAre DEF NumCalls
<1>1. Calls[d + 1] = IF d + 1 <= 3 THEN [op |-> Fixed[d + 1]]
                     ELSE [op |-> PerFeature[((d + 1) % 4) + 1], f |-> FeatureOrder[(d + 1) \div 4]]
  BY <1>0 DEF Calls
<1>2. CASE d + 1 <= 3
  <2>1. d \in {0, 1, 2}
    BY <1>0, <1>2
  <2>2. UNCHANGED <<fine, coarse>>
    BY <1>1, <1>2, <2>1 DEF Effect, Fixed
  <2>3. (d + 1 >= 1 => ports' = {Hulk, Vision})
        /\ (d + 1 = 2 => port_fwd' = {})
        /\ (d + 1 >= 3 => port_fwd' = {<<Hulk, Vision>>, <<Vision, Hulk>>})
    BY <1>1, <1>2, <2>1 DEF Effect, Fixed, Laid
  <2>4. \A j \in 1 .. n : d + 1 < 4 * j
    BY <1>0, <1>2
  <2>5. QED
    BY <1>0, <2>1, <2>2, <2>3, <2>4 DEF Laid, TablesAreFunctions
<1>3. CASE d + 1 > 3
  <2> DEFINE quot == (d + 1) \div 4
             k == (d + 1) % 4
  <2>1. quot \in 1 .. n /\ k \in 0 .. 3 /\ d + 1 = 4 * quot + k
    BY <1>0, <1>3
  <2>2. PICK j0 \in 1 .. n, k0 \in 0 .. 3 :
           d + 1 = 4 * j0 + k0 /\ Calls[d + 1] = [op |-> PerFeature[k0 + 1], f |-> FeatureOrder[j0]]
    <3>1. Calls[d + 1] = [op |-> PerFeature[k + 1], f |-> FeatureOrder[quot]]
      BY <1>0, <1>1, <1>3
    <3> HIDE DEF quot, k
    <3>2. QED
      BY <2>1, <3>1
  <2> DEFINE f0 == FeatureOrder[j0]
  <2>3. f0 \in Feats
    BY CallsAre
  <2>4. \A j \in 1 .. n : FeatureOrder[j] \in Feats /\ (FeatureOrder[j] = f0 => j = j0)
    <3>1. DOMAIN FeatureOrder = 1 .. n
      BY LenProperties, SetupAssumption
    <3>2. QED
      BY CallsAre, <3>1, SetupAssumption
  <2>5. ports = {Hulk, Vision} /\ port_fwd = {<<Hulk, Vision>>, <<Vision, Hulk>>}
    BY <1>0, <1>3 DEF Laid
  <2>6. UNCHANGED <<ports, port_fwd>>
    BY <2>2 DEF Effect, PerFeature
  <2> DEFINE F(f) == Fine(Boundaries[file][f])
             C(f) == Coarse(Boundaries[file][f])
  <2>7. /\ k0 = 0 => fine' = [fine EXCEPT ![f0] = {}] /\ coarse' = coarse
        /\ k0 = 1 => coarse' = [coarse EXCEPT ![f0] = {}] /\ fine' = fine
        /\ k0 = 2 => fine' = [fine EXCEPT ![f0] = @ \cup F(f0)] /\ coarse' = coarse
        /\ k0 = 3 => coarse' = [coarse EXCEPT ![f0] = @ \cup C(f0)] /\ fine' = fine
    <3> HIDE DEF F, C
    <3>1. CASE k0 = 0
      BY <2>2, <3>1 DEF Effect, PerFeature, Emptied
    <3>2. CASE k0 = 1
      BY <2>2, <3>2 DEF Effect, PerFeature, Emptied
    <3>3. CASE k0 = 2
      BY <2>2, <3>3 DEF Effect, PerFeature, F
    <3>4. CASE k0 = 3
      BY <2>2, <3>4 DEF Effect, PerFeature, C
    <3>5. QED
      BY <3>1, <3>2, <3>3, <3>4
  <2> HIDE DEF F, C
  <2>8. TablesAreFunctions'
    BY <2>3, <2>7 DEF TablesAreFunctions
  <2>9. ASSUME NEW f \in Feats, f # f0 PROVE fine'[f] = fine[f] /\ coarse'[f] = coarse[f]
    BY <2>7, <2>9 DEF TablesAreFunctions
  <2>10. /\ k0 = 0 => fine'[f0] = {}
         /\ k0 = 1 => fine'[f0] = fine[f0] /\ coarse'[f0] = {}
         /\ k0 = 2 => fine'[f0] = fine[f0] \cup F(f0) /\ coarse'[f0] = coarse[f0]
         /\ k0 = 3 => fine'[f0] = fine[f0] /\ coarse'[f0] = coarse[f0] \cup C(f0)
    BY <2>3, <2>7 DEF TablesAreFunctions
  <2>11. ASSUME NEW j \in 1 .. n
         PROVE  LET f == FeatureOrder[j] IN
                /\ d + 1 \in {4 * j, 4 * j + 1} => fine'[f] = {}
                /\ d + 1 \in {4 * j + 1, 4 * j + 2} => coarse'[f] = {}
                /\ d + 1 >= 4 * j + 2 => fine'[f] = F(f)
                /\ d + 1 >= 4 * j + 3 => coarse'[f] = C(f)
    <3> DEFINE f == FeatureOrder[j]
    <3>1. /\ d \in {4 * j, 4 * j + 1} => fine[f] = {}
          /\ d \in {4 * j + 1, 4 * j + 2} => coarse[f] = {}
          /\ d >= 4 * j + 2 => fine[f] = F(f)
          /\ d >= 4 * j + 3 => coarse[f] = C(f)
      BY DEF Laid, F, C
    <3>2. CASE j = j0
      <4>1. f = f0
        BY <3>2
      <4> HIDE DEF f, f0
      <4>2. d = 4 * j + k0 - 1
        BY <1>0, <2>2, <3>2
      <4>3. CASE k0 = 0
        BY <2>10, <4>1, <4>2, <4>3 DEF f
      <4>4. CASE k0 = 1
        BY <2>10, <3>1, <4>1, <4>2, <4>4 DEF f
      <4>5. CASE k0 = 2
        <5>1. fine[f0] = {} /\ coarse[f0] = {}
          BY <3>1, <4>1, <4>2, <4>5
        <5>2. fine'[f0] = F(f0) /\ coarse'[f0] = {}
          BY <2>10, <4>5, <5>1
        <5>3. QED
          BY <1>0, <4>1, <4>2, <4>5, <5>2 DEF f
      <4>6. CASE k0 = 3
        <5>1. fine[f0] = F(f0) /\ coarse[f0] = {}
          BY <3>1, <4>1, <4>2, <4>6
        <5>2. fine'[f0] = F(f0) /\ coarse'[f0] = C(f0)
          BY <2>10, <4>6, <5>1
        <5>3. QED
          BY <1>0, <4>1, <4>2, <4>6, <5>2 DEF f
      <4>7. k0 = 0 \/ k0 = 1 \/ k0 = 2 \/ k0 = 3
        OBVIOUS
      <4>8. QED
        BY <4>3, <4>4, <4>5, <4>6, <4>7, Zenon
    <3>3. CASE j # j0
      <4>1. f \in Feats /\ f # f0
        BY <2>4, <3>3
      <4>2. fine'[f] = fine[f] /\ coarse'[f] = coarse[f]
        BY <2>9, <4>1
      <4>3. j < j0 \/ j > j0
        BY <3>3
      <4>4. CASE j < j0
        <5>1. d >= 4 * j + 3 /\ d + 1 >= 4 * j + 4
          BY <1>0, <2>2, <4>4
        <5> HIDE DEF f, f0
        <5>2. QED
          BY <1>0, <3>1, <4>2, <5>1 DEF f
      <4>5. CASE j > j0
        <5>1. d + 1 < 4 * j
          BY <1>0, <2>2, <4>5
        <5>2. QED
          BY <1>0, <5>1
      <4>6. QED
        BY <4>3, <4>4, <4>5
    <3>4. QED
      BY <3>2, <3>3
  <2>12. /\ d + 1 >= 1 => ports' = {Hulk, Vision}
         /\ d + 1 = 2 => port_fwd' = {}
         /\ d + 1 >= 3 => port_fwd' = {<<Hulk, Vision>>, <<Vision, Hulk>>}
    BY <1>0, <1>3, <2>5, <2>6
  <2>13. Laid(d + 1)'
    BY <2>11, <2>12 DEF Laid, F, C
  <2>14. QED
    BY <2>8, <2>13
<1>4. QED
  BY <1>0, <1>2, <1>3

\* Nothing is laid before the first call.
LEMMA NothingLaid == Laid(0)
  BY CallsAre DEF Laid

\* Setup starts with all of its calls before it.
LEMMA AllBefore ==
    ASSUME NEW s, s = Calls
    PROVE  /\ s \in Seq(CallSet) /\ Len(s) <= NumCalls /\ s # <<>> /\ NumCalls - Len(s) = 0
           /\ \A i \in 1 .. Len(s) : s[i] = Calls[NumCalls - Len(s) + i]
  BY CallsAre

\* The switch is empty and nothing runs at first.
LEMMA SetupInitInv == SetupInit => SetupInv
<1> SUFFICES ASSUME SetupInit PROVE SetupInv
  OBVIOUS
<1>1. todo \in Seq(CallSet) /\ Len(todo) = 0
  BY EmptySeq DEF SetupInit
<1>2. QED
  BY CallsAre, <1>1 DEF SetupInit, SetupInv, RunsInOrder, WholeIsLaid, LeavesOfServed, TablesAreFunctions, Nothing

\* A call of setup that runs.
LEMMA SetupCallInv == ASSUME SetupInv, SetupCall PROVE SetupInv'
<1>1. todo \in Seq(CallSet) /\ todo # <<>> /\ caller # "off" /\ Len(todo) <= NumCalls
  BY DEF SetupCall, SetupInv, RunsInOrder
<1>2. Len(todo) \in Nat /\ Len(todo) >= 1 /\ NumCalls \in Nat
  BY <1>1, CallsAre, LenProperties, EmptySeq
<1>3. PICK d \in 0 .. NumCalls - 1 : d = NumCalls - Len(todo)
  BY <1>1, <1>2
<1>4. Head(todo) = Calls[d + 1]
  <2>1. Head(todo) = todo[1]
    BY <1>1, HeadTailProperties
  <2>2. QED
    BY <1>2, <1>3, <2>1 DEF SetupInv, RunsInOrder
<1>5. /\ todo' \in Seq(CallSet) /\ Len(todo') = Len(todo) - 1
      /\ \A i \in 1 .. Len(todo') : todo'[i] = todo[i + 1]
  <2>1. todo' = Tail(todo)
    BY DEF SetupCall
  <2>2. QED
    BY <1>1, <2>1, HeadTailProperties
<1>6. UNCHANGED <<file, serving, leaf_tbl>>
  BY DEF SetupCall
<1>7. TablesAreFunctions' /\ Laid(d + 1)'
  <2>1. Effect(Calls[d + 1])
    BY <1>4 DEF SetupCall
  <2>2. Laid(d)
    BY <1>1, <1>3 DEF SetupInv, RunsInOrder
  <2>3. TablesAreFunctions
    BY DEF SetupInv
  <2>4. QED
    BY <1>6, <2>1, <2>2, <2>3, EffectLays
<1>8. NumCalls - Len(todo') = d + 1
  BY <1>2, <1>3, <1>5
<1>9. CallSet' = CallSet /\ NumCalls' = NumCalls /\ Calls' = Calls
  BY DEF CallSet, NumCalls, Calls, PerFeature, Fixed
<1>10. \A i \in 1 .. Len(todo') : todo'[i] = Calls[NumCalls - Len(todo') + i]
  <2> SUFFICES ASSUME NEW i \in 1 .. Len(todo') PROVE todo'[i] = Calls[NumCalls - Len(todo') + i]
    OBVIOUS
  <2>1. todo[i + 1] = Calls[NumCalls - Len(todo) + (i + 1)]
    BY <1>2, <1>5 DEF SetupInv, RunsInOrder
  <2>2. NumCalls - Len(todo) + (i + 1) = NumCalls - Len(todo') + i
    BY <1>2, <1>5
  <2>3. QED
    BY <1>5, <2>1, <2>2
<1>11. caller' = "off" <=> todo' = <<>>
  BY <1>1 DEF SetupCall
<1>12. Laid(NumCalls - Len(todo))'
  BY <1>7, <1>8 DEF Laid
<1>13. RunsInOrder'
  BY <1>1, <1>2, <1>5, <1>9, <1>10, <1>11, <1>12 DEF RunsInOrder
<1>14. WholeIsLaid'
  <2>1. CASE todo' # <<>>
    BY <1>1, <2>1 DEF SetupCall, SetupInv, WholeIsLaid
  <2>2. CASE todo' = <<>>
    <3>1. d + 1 = NumCalls /\ d + 1 >= 3
      <4>1. Len(FeatureOrder) \in Nat
        BY CallsAre
      <4>2. Len(todo') = 0
        BY <2>2
      <4>3. QED
        BY <1>2, <1>8, <4>1, <4>2 DEF NumCalls
    <3>2. whole' = file /\ caller' = "off" /\ file \in Models
      BY <2>2 DEF SetupCall, SetupInv
    <3>3. ports' = {Hulk, Vision} /\ port_fwd' = {<<Hulk, Vision>>, <<Vision, Hulk>>}
      BY <1>7, <3>1 DEF Laid
    <3>4. ASSUME NEW f \in Feats
          PROVE  fine'[f] = Fine(Boundaries[file][f]) /\ coarse'[f] = Coarse(Boundaries[file][f])
      <4>1. PICK j \in 1 .. Len(FeatureOrder) : f = FeatureOrder[j]
        BY CallsAre
      <4>2. d + 1 >= 4 * j + 3
        <5>1. Len(FeatureOrder) \in Nat
          BY CallsAre
        <5>2. QED
          BY <3>1, <5>1 DEF NumCalls
      <4>3. d + 1 >= 4 * j + 2 /\ d + 1 >= 4 * j + 3
        BY <4>2
      <4>4. /\ fine'[FeatureOrder[j]] = Fine(Boundaries[file][FeatureOrder[j]])
            /\ coarse'[FeatureOrder[j]] = Coarse(Boundaries[file][FeatureOrder[j]])
        <5>1. /\ fine'[FeatureOrder[j]] = Fine(Boundaries[file'][FeatureOrder[j]])
              /\ coarse'[FeatureOrder[j]] = Coarse(Boundaries[file'][FeatureOrder[j]])
          <6> HIDE DEF Fine, Coarse
          <6>1. QED
            BY <1>7, <4>3, Zenon DEF Laid
        <5>2. QED
          BY <1>6, <5>1
      <4>5. QED
        BY <4>1, <4>4
    <3>5. QED
      BY <3>2, <3>3, <3>4 DEF WholeIsLaid
  <2>3. QED
    BY <2>1, <2>2
<1>15. QED
  BY <1>6, <1>7, <1>13, <1>14 DEF SetupInv, LeavesOfServed

\* Every step keeps the invariant.
LEMMA SetupNextInv == SetupInv /\ [SetupNext]_setupVars => SetupInv'
<1> SUFFICES ASSUME SetupInv, [SetupNext]_setupVars PROVE SetupInv'
  OBVIOUS
<1>0. todo \in Seq(CallSet) /\ Calls # <<>> /\ Len(<<>>) = 0 /\ <<>> \in Seq(CallSet) /\ NumCalls \in Nat
  BY CallsAre, EmptySeq DEF SetupInv, RunsInOrder
<1> DEFINE Untouched == UNCHANGED <<file, ports, port_fwd, fine, coarse>>
           Halted == caller' = "off" /\ todo' = <<>>
           Starts0 == caller' # "off" /\ todo' = Calls
           Same == UNCHANGED <<caller, todo>>
<1>1. ASSUME Halted PROVE RunsInOrder'
  BY <1>0, <1>1 DEF RunsInOrder
<1>2. ASSUME Starts0 PROVE RunsInOrder'
  <2>1. CallSet' = CallSet /\ NumCalls' = NumCalls
    BY DEF CallSet, NumCalls, Calls, PerFeature, Fixed
  <2>2. /\ todo' \in Seq(CallSet) /\ Len(todo') <= NumCalls /\ todo' # <<>> /\ NumCalls - Len(todo') = 0
        /\ \A i \in 1 .. Len(todo') : todo'[i] = Calls[NumCalls - Len(todo') + i]
    BY <1>2, AllBefore
  <2>3. \A j \in 1 .. Len(FeatureOrder) : ~ (0 >= 4 * j + 2) /\ ~ (0 >= 4 * j + 3) /\ 0 \notin 4 * j .. 4 * j + 2
    BY CallsAre
  <2>4. Laid(0)'
    BY <2>3 DEF Laid
  <2>5. Laid(NumCalls - Len(todo))'
    BY <2>2, <2>4 DEF Laid
  <2>6. QED
    BY <1>2, <2>1, <2>2, <2>5 DEF RunsInOrder
<1>3. ASSUME Same, Untouched PROVE RunsInOrder'
  <2>1. Laid(NumCalls - Len(todo)) => Laid(NumCalls - Len(todo))'
    BY <1>3 DEF Laid
  <2>2. QED
    BY <1>3, <2>1 DEF SetupInv, RunsInOrder
<1>4. CASE CompileFails
  BY <1>1, <1>4 DEF CompileFails, switchVars, SetupInv, TablesAreFunctions, RunsInOrder, WholeIsLaid, LeavesOfServed
<1>5. CASE Relaunch
  <2>1. RunsInOrder'
    BY <1>2, <1>5 DEF Relaunch
  <2>2. QED
    BY <1>5, <2>1 DEF Relaunch, SetupInv, TablesAreFunctions, WholeIsLaid, LeavesOfServed, Nothing
<1>6. CASE SetUpByHand
  <2>1. RunsInOrder'
    BY <1>2, <1>6 DEF SetUpByHand
  <2>2. QED
    BY <1>6, <2>1 DEF SetUpByHand, switchVars, SetupInv, TablesAreFunctions, WholeIsLaid, LeavesOfServed
<1>7. CASE NotRegistered
  <2>1. RunsInOrder'
    BY <1>1, <1>2, <1>7 DEF NotRegistered
  <2>2. QED
    BY <1>7, <2>1 DEF NotRegistered, switchVars, SetupInv, TablesAreFunctions, WholeIsLaid, LeavesOfServed
<1>8. CASE Killed
  <2>1. RunsInOrder'
    BY <1>1, <1>8 DEF Killed
  <2>2. QED
    BY <1>8, <2>1 DEF Killed, switchVars, SetupInv, TablesAreFunctions, WholeIsLaid, LeavesOfServed
<1>9. CASE SetupCall
  BY <1>9, SetupCallInv
<1>10. CASE Run
  <2>1. RunsInOrder'
    BY <1>3, <1>10 DEF Run
  <2>2. QED
    BY <1>10, <2>1 DEF Run, Cleared, SetupInv, TablesAreFunctions, WholeIsLaid, LeavesOfServed
<1>11. CASE Install
  <2>1. RunsInOrder'
    BY <1>3, <1>11 DEF Install
  <2>2. LeavesOfServed'
    BY <1>11 DEF Install, SetupInv, LeavesOfServed, Queries, Entry, LeafOf
  <2>3. QED
    BY <1>11, <2>1, <2>2 DEF Install, SetupInv, TablesAreFunctions, WholeIsLaid
<1>12. CASE Stopped
  <2>1. RunsInOrder'
    BY <1>3, <1>12 DEF Stopped, switchVars
  <2>2. QED
    BY <1>12, <2>1 DEF Stopped, switchVars, SetupInv, TablesAreFunctions, WholeIsLaid, LeavesOfServed
<1>13. CASE UNCHANGED setupVars
  <2>1. RunsInOrder'
    BY <1>3, <1>13 DEF setupVars, switchVars
  <2>2. QED
    BY <1>13, <2>1 DEF setupVars, switchVars, SetupInv, TablesAreFunctions, WholeIsLaid, LeavesOfServed
<1>14. QED
  BY <1>4, <1>5, <1>6, <1>7, <1>8, <1>9, <1>10, <1>11, <1>12, <1>13 DEF SetupNext

\* From the tables of a model the switch computes the code of every query.
LEMMA SwitchCodeIsCode ==
    ASSUME SetupInv, whole # "none", NEW x \in Queries, NEW f \in Feats
    PROVE  SwitchCode(f, x[f]) = {Cardinality(CodeAt(Boundaries[whole][f], x[f]))}
<1> DEFINE B == Boundaries[whole][f]
           key == x[f]
<1>1. B \in SUBSET Key /\ key \in Key
  BY SetupAssumption DEF SetupInv, WholeIsLaid, Queries
<1>2. fine[f] = Fine(B) /\ coarse[f] = Coarse(B)
  BY DEF SetupInv, WholeIsLaid
<1> HIDE DEF B, key
<1>3. /\ {e \in fine[f] : e.bucket = key.k20 /\ e.lo <= key.k12 /\ key.k12 <= e.hi} = FineHits(B, key)
      /\ {e \in coarse[f] : e.lo <= key.k20 /\ key.k20 <= e.hi} = CoarseHits(B, key)
  BY <1>2 DEF FineHits, CoarseHits
<1>4. SwitchCode(f, key) = {Cardinality(e.code) : e \in Hits(B, key)}
  BY <1>3 DEF SwitchCode, Hits
<1>5. Hits(B, key) # {} /\ \A e \in Hits(B, key) : e.code = CodeAt(B, key)
  BY <1>1, TablesAreExact
<1>6. {Cardinality(e.code) : e \in Hits(B, key)} = {Cardinality(CodeAt(B, key))}
  BY <1>5
<1>7. QED
  BY <1>4, <1>6 DEF B, key

\* The invariant is what the switch needs.
LEMMA InvServesOneModel == SetupInv => ServesOneModel
<1> SUFFICES ASSUME SetupInv PROVE ServesOneModel
  OBVIOUS
<1>1. ASSUME serving # "off", serving = whole, NEW x \in Queries, NEW e \in SwitchHits(x)
      PROVE  e.answer = <<whole, LeafOf(whole, x)>>
  <2>1. whole # "none"
    BY <1>1, SetupAssumption DEF SetupInv, LeavesOfServed
  <2>2. PICK y \in Queries : e = Entry(whole, y)
    BY <1>1 DEF SetupInv, LeavesOfServed, SwitchHits
  <2>3. ASSUME NEW f \in Feats PROVE LeafOf(whole, y)[f] = LeafOf(whole, x)[f]
    <3>1. SwitchCode(f, x[f]) = {LeafOf(whole, x)[f]}
      BY <2>1, SwitchCodeIsCode DEF LeafOf
    <3>2. e.codes[f] \in SwitchCode(f, x[f])
      BY <3>1 DEF SwitchHits
    <3>3. QED
      BY <2>2, <3>1, <3>2 DEF Entry
  <2>4. LeafOf(whole, y) = LeafOf(whole, x)
    BY <2>3 DEF LeafOf
  <2>5. QED
    BY <2>2, <2>4 DEF Entry
<1>2. QED
  BY <1>1 DEF ServesOneModel, SetupInv, WholeIsLaid

\* Whatever earlier attempts, failed redeploys, kills and earlier runs left
\* behind, setup that reports its tables installed has installed those of one
\* model, and a controller of that model lets the switch answer no query with
\* another leaf than the model's: for any models, boundaries, features, K and
\* widths of the key's slices.
THEOREM OneModelServed == SetupSpec => []ServesOneModel
<1>1. SetupInv => ServesOneModel
  BY InvServesOneModel
<1>2. QED
  BY <1>1, SetupInitInv, SetupNextInv, PTL DEF SetupSpec

\* In the run of all parts the switch is set up as alone.
LEMMA SetupRuns ==
  /\ MvmInit /\ running = "setup" => SetupInit
  /\ [MvmNext]_MvmVars => running' = running /\ (running = "setup" => [SetupNext]_setupVars)
<1>1. MvmInit /\ running = "setup" => SetupInit
  BY DEF MvmInit
<1>2. [MvmNext]_MvmVars => running' = running /\ (running = "setup" => [SetupNext]_setupVars)
  BY DEF MvmNext, MvmVars, Others2
<1>3. QED
  BY <1>1, <1>2

\* The controller's tables are those of one model while it serves, whatever
\* redeploys, failed compiles, kills and earlier runs left behind.
THEOREM TablesAlwaysOfOneModel == MvmSpec => []TablesOfOneModel
<1> DEFINE Inv == running = "setup" => SetupInv
<1>1. MvmInit => Inv
  BY SetupRuns, SetupInitInv
<1>2. Inv /\ [MvmNext]_MvmVars => Inv'
  BY SetupRuns, SetupNextInv
<1>3. Inv => TablesOfOneModel
  BY InvServesOneModel DEF TablesOfOneModel
<1> HIDE DEF Inv
<1>4. QED
  BY <1>1, <1>2, <1>3, PTL DEF MvmSpec

-----------------------------------------------------------------------------
(* BatchParts: a part file of the sweeps exists only when it and the file  *)
(* beside it are whole, for every set of units, number of jobs and of      *)
(* attempts, and however often processes die and the machine goes down.    *)

BatchTypeOK ==
    /\ part \in [Units -> {"none", "half", "whole"}]
    /\ side \in [Units -> {"none", "half", "whole"}]
    /\ tmp \in [Units -> {"none", "half", "whole"}]
    /\ at \in [Units -> Process \cup {"queued", "shell", "ok", "lost"}]
    /\ tried \in [Units -> Nat]
    /\ sweep \in {"units", "merged", "failed"}

\* A unit whose process is past its side has left it whole, and the process
\* that renames has closed the .tmp file.
StepsInOrder ==
    \A u \in Units :
       /\ at[u] \in {"sided", "tmp", "written"} /\ u \in WithSide => side[u] = "whole"
       /\ at[u] = "side" => u \in WithSide
       /\ at[u] = "written" => tmp[u] = "whole"

\* Only a unit without a part has a process that opens files.
NoPartWhileBusy == \A u \in Units : at[u] \in Process => part[u] = "none"

\* A unit that leaves no file beside its part has none.
NoSideWithout == \A u \in Units \ WithSide : side[u] = "none"

\* Once the parts are merged, or were found missing, no unit runs.
UnitsAreOver == sweep # "units" => \A u \in Units : at[u] \in {"ok", "lost"}

BatchInv ==
    /\ BatchTypeOK /\ StepsInOrder /\ NoPartWhileBusy /\ PartsAreWhole
    /\ NoSideWithout /\ UnitsAreOver /\ MergedIsComplete

\* The invariant holds at the start of the script.
LEMMA BatchInitInv == BatchInit => BatchInv
  BY DEF BatchInit, BatchInv, BatchTypeOK, StepsInOrder, NoPartWhileBusy, PartsAreWhole, Process,
        NoSideWithout, UnitsAreOver, MergedIsComplete

\* One unit's step keeps the invariant of that unit and of the others.
LEMMA UnitStepInv ==
    ASSUME BatchInv, NEW u \in Units,
           \/ Takes(u) \/ Has(u) \/ Attempt(u) \/ Exhausted(u) \/ Dies(u)
           \/ OpensSide(u) \/ ClosesSide(u) \/ OpensTmp(u) \/ ClosesTmp(u) \/ Renames(u)
    PROVE  BatchInv'
<1> USE DEF BatchInv, BatchTypeOK, StepsInOrder, NoPartWhileBusy, PartsAreWhole, NoSideWithout,
            UnitsAreOver, MergedIsComplete, Process, Moves, fileVars
<1>1. CASE Takes(u)
  BY <1>1 DEF Takes
<1>2. CASE Has(u)
  BY <1>2 DEF Has
<1>3. CASE Attempt(u)
  BY <1>3 DEF Attempt
<1>4. CASE Exhausted(u)
  BY <1>4 DEF Exhausted
<1>5. CASE Dies(u)
  BY <1>5 DEF Dies
<1>6. CASE OpensSide(u)
  BY <1>6 DEF OpensSide
<1>7. CASE ClosesSide(u)
  BY <1>7 DEF ClosesSide
<1>8. CASE OpensTmp(u)
  BY <1>8 DEF OpensTmp, MayWriteTmp
<1>9. CASE ClosesTmp(u)
  BY <1>9 DEF ClosesTmp
<1>10. CASE Renames(u)
  BY <1>10 DEF Renames
<1> QED BY <1>1, <1>2, <1>3, <1>4, <1>5, <1>6, <1>7, <1>8, <1>9, <1>10

\* Every step keeps the invariant; a reboot leaves the files and no process.
LEMMA BatchNextInv == BatchInv /\ [BatchNext]_batchVars => BatchInv'
<1> SUFFICES ASSUME BatchInv, [BatchNext]_batchVars PROVE BatchInv'
  OBVIOUS
<1>1. ASSUME NEW u \in Units,
             \/ Takes(u) \/ Has(u) \/ Attempt(u) \/ Exhausted(u) \/ Dies(u)
             \/ OpensSide(u) \/ ClosesSide(u) \/ OpensTmp(u) \/ ClosesTmp(u) \/ Renames(u)
      PROVE  BatchInv'
  BY <1>1, UnitStepInv
<1> USE DEF BatchInv, BatchTypeOK, StepsInOrder, NoPartWhileBusy, PartsAreWhole, NoSideWithout,
            UnitsAreOver, Process, fileVars
<1>2. CASE Merge
  <2>1. BatchTypeOK' /\ StepsInOrder' /\ NoPartWhileBusy' /\ PartsAreWhole'
        /\ NoSideWithout' /\ UnitsAreOver'
    BY <1>2 DEF Merge
  <2>2. CASE AllParts
    <3>1. {v \in Units : part[v] # "none"} = Units
      BY <2>2 DEF AllParts
    <3>2. \A u \in Units : <<u, part[u], side[u]>> =
             <<u, "whole", IF u \in WithSide THEN "whole" ELSE "none">>
      BY <3>1
    <3>3. merged' = {<<u, "whole", IF u \in WithSide THEN "whole" ELSE "none">> : u \in Units}
      BY <1>2, <2>2, <3>1, <3>2 DEF Merge
    <3> QED BY <2>1, <3>3 DEF MergedIsComplete
  <2>3. CASE ~ AllParts
    BY <1>2, <2>1, <2>3 DEF Merge, MergedIsComplete
  <2> QED BY <2>2, <2>3
<1>3. CASE Reruns
  BY <1>3 DEF Reruns, MergedIsComplete
<1>4. CASE UNCHANGED batchVars
  BY <1>4 DEF batchVars, MergedIsComplete
<1> HIDE DEF BatchInv
<1> QED BY <1>1, <1>2, <1>3, <1>4 DEF BatchNext

\* "Atomic: a part file exists only when complete" (overnight.sh), whatever
\* dies when.
THEOREM PartsAlwaysWhole == BatchSpec => []PartsAreWhole
<1>1. BatchInv => PartsAreWhole
  BY DEF BatchInv
<1> QED BY <1>1, BatchInitInv, BatchNextInv, PTL DEF BatchSpec

\* "--merge combines the parts (fails if any is missing)": what is merged is
\* every unit with what was left beside it, even if units were lost in one run
\* of the script and found in the next.
THEOREM MergedAlwaysComplete == BatchSpec => []MergedIsComplete
<1>1. BatchInv => MergedIsComplete
  BY DEF BatchInv
<1> QED BY <1>1, BatchInitInv, BatchNextInv, PTL DEF BatchSpec

\* In the run of all parts the sweep behaves as alone.
LEMMA SweepRuns ==
  /\ MvmInit /\ running = "batch" => BatchInit
  /\ [MvmNext]_MvmVars => running' = running /\ (running = "batch" => [BatchNext]_batchVars)
<1>1. MvmInit /\ running = "batch" => BatchInit
  BY DEF MvmInit
<1>2. [MvmNext]_MvmVars => running' = running /\ (running = "batch" => [BatchNext]_batchVars)
  BY DEF MvmNext, MvmVars, Others1
<1>3. QED
  BY <1>1, <1>2

\* "Re-running this script resumes where it stopped", "a part file exists only
\* when complete", "--merge combines the parts": an overnight sweep leaves whole
\* parts and merges all of them, whatever dies when.
THEOREM SweepsAlwaysEndWhole == MvmSpec => []SweepsEndWhole
<1> DEFINE Inv == running = "batch" => BatchInv
<1>1. MvmInit => Inv
  BY SweepRuns, BatchInitInv
<1>2. Inv /\ [MvmNext]_MvmVars => Inv'
  BY SweepRuns, BatchNextInv
<1>3. Inv => SweepsEndWhole
  BY DEF SweepsEndWhole, BatchInv
<1> HIDE DEF Inv
<1>4. QED
  BY <1>1, <1>2, <1>3, PTL DEF MvmSpec

-----------------------------------------------------------------------------
(* CachePolicies in the run of all parts: what CacheProofs shows of its    *)
(* steps holds of the run.                                                 *)

\* In the run of all parts the policies behave as alone.
LEMMA PolicyRuns ==
  /\ MvmInit /\ running = "cache" => Init
  /\ [MvmNext]_MvmVars => running' = running /\ (running = "cache" => [Next]_vars)
<1>1. MvmInit /\ running = "cache" => Init
  BY DEF MvmInit
<1>2. [MvmNext]_MvmVars => running' = running /\ (running = "cache" => [Next]_vars)
  BY DEF MvmNext, MvmVars
<1>3. QED
  BY <1>1, <1>2

\* And keep what they keep alone.
LEMMA PoliciesKept ==
  /\ MvmInit => (running = "cache" => CacheInv)
  /\ (running = "cache" => CacheInv) /\ [MvmNext]_MvmVars => (running = "cache" => CacheInv)'
<1>1. MvmInit => (running = "cache" => CacheInv)
  BY PolicyRuns, CacheStart
<1>2. (running = "cache" => CacheInv) /\ [MvmNext]_MvmVars => (running = "cache" => CacheInv)'
  BY PolicyRuns, CacheNext
<1>3. QED
  BY <1>1, <1>2

\* The sweep's check_summary never fails: Belady with bypass is optimal,
\* capacity never costs a hit, and no table fixed in advance beats the window
\* oracle.
THEOREM BoundsAlwaysBound == MvmSpec => []BoundsAreBounds
<1> DEFINE Inv == running = "cache" => CacheInv
<1>1. MvmInit => Inv
  BY PoliciesKept
<1>2. Inv /\ [MvmNext]_MvmVars => Inv'
  BY PoliciesKept
<1>3. Inv => BoundsAreBounds
  BY CacheHolds DEF BoundsAreBounds
<1> HIDE DEF Inv
<1>4. QED
  BY <1>1, <1>2, <1>3, PTL DEF MvmSpec

\* The fast kernels answer, insert and evict as the reference policies; LRU's
\* counters of every capacity follow from the reuse distances; no cache holds
\* more than its capacity or loses count.
THEOREM FastPoliciesAlwaysAgree == MvmSpec => []FastPoliciesAgree
<1> DEFINE Inv == running = "cache" => CacheInv
<1>1. MvmInit => Inv
  BY PoliciesKept
<1>2. Inv /\ [MvmNext]_MvmVars => Inv'
  BY PoliciesKept
<1>3. Inv => FastPoliciesAgree
  BY CacheHolds DEF FastPoliciesAgree
<1> HIDE DEF Inv
<1>4. QED
  BY <1>1, <1>2, <1>3, PTL DEF MvmSpec

\* The controller's variant of decayed LFU differs from it by its delays only.
THEOREM DelayedPolicyAlwaysAgrees == MvmSpec => []DelayedPolicyAgrees
<1> DEFINE Inv == running = "cache" => CacheInv
<1>1. MvmInit => Inv
  BY PoliciesKept
<1>2. Inv /\ [MvmNext]_MvmVars => Inv'
  BY PoliciesKept
<1>3. Inv => DelayedPolicyAgrees
  BY CacheHolds DEF DelayedPolicyAgrees
<1> HIDE DEF Inv
<1>4. QED
  BY <1>1, <1>2, <1>3, PTL DEF MvmSpec
-----------------------------------------------------------------------------
(* LeafTables in the run of all parts.                                     *)

\* In the run of all parts the boxes are drawn as alone.
LEMMA LeafRuns ==
  /\ MvmInit /\ running = "leaves" => LeafInit
  /\ [MvmNext]_MvmVars => running' = running /\ (running = "leaves" => [LeafNext]_leafVars)
<1>1. MvmInit /\ running = "leaves" => LeafInit
  BY DEF MvmInit
<1>2. [MvmNext]_MvmVars => running' = running /\ (running = "leaves" => [LeafNext]_leafVars)
  BY DEF MvmNext, MvmVars, Others1
<1>3. QED
  BY <1>1, <1>2

\* "Leaves of one tree are disjoint and cover the feature space", "the result
\* equals tree.apply exactly": boxes, key ranges and ternary codes find the leaf
\* of the tree for every float, also on the threshold and for both zeros.
THEOREM TreesAlwaysSurviveEncoding == MvmSpec => []TreeSurvivesEncoding
<1> DEFINE Inv == running = "leaves" => LeafInv
<1>1. MvmInit => Inv
  BY LeafRuns, LeafInvHolds
<1>2. Inv /\ [MvmNext]_MvmVars => Inv'
  BY LeafRuns, LeafInvHolds
<1>3. Inv => TreeSurvivesEncoding
  BY OneRegion, EncodingsFind DEF TreeSurvivesEncoding
<1> HIDE DEF Inv
<1>4. QED
  BY <1>1, <1>2, <1>3, PTL DEF MvmSpec
-----------------------------------------------------------------------------
(* Bmv2Replay in the run of all parts.                                     *)

Bmv2P == INSTANCE Bmv2ReplayProofs WITH leaf_tbl <- bmv_tbl

\* The instance the proofs are about says the same as the one that is checked,
\* operator by operator.
LEMMA SameCard == \A S : Bmv2!Cardinality(S) = Bmv2P!Cardinality(S)
  BY Zenon DEF Bmv2!Cardinality, Bmv2P!Cardinality, Bmv2!IsFiniteSet, Bmv2P!IsFiniteSet

\* The policy.
LEMMA SamePolicy ==
  ASSUME NEW c, NEW l, NEW i
  PROVE  Bmv2!PolicyAccess(c, i, l) = Bmv2P!PolicyAccess(c, i, l)
  <1>1. Bmv2!Victims(c) = Bmv2P!Victims(c)
    BY SameCard, Zenon DEF Bmv2!Victims, Bmv2P!Victims, Bmv2!Worse, Bmv2P!Worse
  <1>2. \A r : Bmv2!Credited(c, l, i, r) = Bmv2P!Credited(c, l, i, r)
    BY Zenon DEF Bmv2!Credited, Bmv2P!Credited, Bmv2!Known, Bmv2P!Known
  <1>3. QED
    BY <1>1, <1>2, Zenon DEF Bmv2!PolicyAccess, Bmv2P!PolicyAccess

\* What the switch accepts.
LEMMA SameAccepted ==
  ASSUME NEW w
  PROVE  Bmv2!Accepted(w) <=> Bmv2P!Accepted(w)
  BY SameCard DEF Bmv2!Accepted, Bmv2P!Accepted

\* The record of a query.
LEMMA SameRec ==
  ASSUME NEW s, NEW p, NEW v, NEW l
  PROVE  Bmv2!Rec(s, p, v, l) = Bmv2P!Rec(s, p, v, l)
  BY SameCard, Zenon DEF Bmv2!Rec, Bmv2P!Rec

\* The policy after a query.
LEMMA SameAfter ==
  ASSUME NEW sw, NEW l
  PROVE  Bmv2!AfterQuery(sw, l) = Bmv2P!AfterQuery(sw, l)
  BY SamePolicy, Zenon DEF Bmv2!AfterQuery, Bmv2P!AfterQuery

\* The simulator.
LEMMA SameSimulated ==
  ASSUME NEW s
  PROVE  Bmv2!Simulated(s) = Bmv2P!Simulated(s)
  <1>1. Bmv2!NewPolicy = Bmv2P!NewPolicy
    BY Zenon DEF Bmv2!NewPolicy, Bmv2P!NewPolicy
  <1>2. QED
    BY SamePolicy, <1>1, Zenon DEF Bmv2!Simulated, Bmv2P!Simulated

\* The property.
LEMMA SameProperty == Bmv2!ReplayMatchesSimulator <=> Bmv2P!ReplayMatchesSimulator
  <1>1. Bmv2!checks <=> Bmv2P!checks
    BY SameSimulated, Zenon DEF Bmv2!checks, Bmv2P!checks
  <1>2. QED
    BY <1>1, SameAccepted, SameCard DEF Bmv2!ReplayMatchesSimulator, Bmv2P!ReplayMatchesSimulator

\* The assumption, the state and the initial states.
LEMMA SameStart ==
  /\ Bmv2!BmvAssumption <=> Bmv2P!BmvAssumption
  /\ Bmv2P!bmvVars = BmvState
  /\ Bmv2!BmvInit <=> Bmv2P!BmvInit
  <1>1. Bmv2!BmvAssumption <=> Bmv2P!BmvAssumption
    BY Zenon DEF Bmv2!BmvAssumption, Bmv2P!BmvAssumption
  <1>2. Bmv2P!bmvVars = BmvState
    BY Zenon DEF Bmv2P!bmvVars, BmvState
  <1>3. Bmv2!BmvInit <=> Bmv2P!BmvInit
    BY Zenon DEF Bmv2!BmvInit, Bmv2P!BmvInit, Bmv2!Arbitration, Bmv2P!Arbitration,
                 Bmv2!NewPolicy, Bmv2P!NewPolicy
  <1>4. QED
    BY <1>1, <1>2, <1>3

\* And the steps.
LEMMA SameNext == Bmv2!BmvNext <=> Bmv2P!BmvNext
  <1>1. Bmv2!Connected <=> Bmv2P!Connected
    BY Zenon DEF Bmv2!Connected, Bmv2P!Connected
  <1>2. Bmv2!PacketOut <=> Bmv2P!PacketOut
    BY Zenon DEF Bmv2!PacketOut, Bmv2P!PacketOut
  <1>3. Bmv2!SwitchAnswers <=> Bmv2P!SwitchAnswers
    BY Zenon DEF Bmv2!SwitchAnswers, Bmv2P!SwitchAnswers,
                Bmv2!Arbitration, Bmv2P!Arbitration
  <1>4. Bmv2!Read <=> Bmv2P!Read
    BY Zenon DEF Bmv2!Read, Bmv2P!Read, Bmv2!Arbitration, Bmv2P!Arbitration
  <1>5. Bmv2!GetAnswer <=> Bmv2P!GetAnswer
    BY SameAfter, SameRec DEF Bmv2!GetAnswer, Bmv2P!GetAnswer
  <1>6. Bmv2!GivesUp <=> Bmv2P!GivesUp
    BY Zenon DEF Bmv2!GivesUp, Bmv2P!GivesUp,
                Bmv2!channelVars, Bmv2P!channelVars
  <1>7. Bmv2!WriteDeletes <=> Bmv2P!WriteDeletes
    BY Zenon DEF Bmv2!WriteDeletes, Bmv2P!WriteDeletes,
                Bmv2!channelVars, Bmv2P!channelVars
  <1>8. Bmv2!WriteInserts <=> Bmv2P!WriteInserts
    BY Zenon DEF Bmv2!WriteInserts, Bmv2P!WriteInserts,
                Bmv2!channelVars, Bmv2P!channelVars
  <1>9. Bmv2!ClearSlice <=> Bmv2P!ClearSlice
    BY Zenon DEF Bmv2!ClearSlice, Bmv2P!ClearSlice,
                Bmv2!SliceDone, Bmv2P!SliceDone,
                Bmv2!NewPolicy, Bmv2P!NewPolicy,
                Bmv2!channelVars, Bmv2P!channelVars
  <1>10. Bmv2!StartBenchmark <=> Bmv2P!StartBenchmark
    BY Zenon DEF Bmv2!StartBenchmark, Bmv2P!StartBenchmark,
                Bmv2!channelVars, Bmv2P!channelVars,
                Bmv2!EntryIds, Bmv2P!EntryIds,
                Bmv2!OneByOne, Bmv2P!OneByOne,
                Bmv2!InBatches, Bmv2P!InBatches
  <1>11. Bmv2!BenchmarkWrite <=> Bmv2P!BenchmarkWrite
    BY SameAccepted DEF Bmv2!BenchmarkWrite, Bmv2P!BenchmarkWrite,
                Bmv2!channelVars, Bmv2P!channelVars
  <1>12. QED
    BY <1>1, <1>2, <1>3, <1>4, <1>5, <1>6, <1>7, <1>8, <1>9, <1>10, <1>11
       DEF Bmv2!BmvNext, Bmv2P!BmvNext

\* In the run of all parts the prototype behaves as alone.
LEMMA BmvRuns ==
  /\ MvmInit /\ running = "bmv2" => Bmv2!BmvInit
  /\ [MvmNext]_MvmVars => running' = running /\ (running = "bmv2" => [Bmv2!BmvNext]_BmvState)
<1>1. MvmInit /\ running = "bmv2" => Bmv2!BmvInit
  BY DEF MvmInit
<1>2. [MvmNext]_MvmVars => running' = running /\ (running = "bmv2" => [Bmv2!BmvNext]_BmvState)
  BY DEF MvmNext, MvmVars, Others2
<1>3. QED
  BY <1>1, <1>2

\* The BMv2 prototype never fails its checks: switch, policy and simulator hit
\* alike, the table holds what the client believes, no write of the benchmark is
\* refused.
THEOREM PrototypeAlwaysMatches == MvmSpec => []PrototypeMatchesSimulator
<1> DEFINE Inv == running = "bmv2" => Bmv2P!BmvInv
<1>1. /\ Bmv2!BmvInit => Bmv2P!BmvInv
      /\ Bmv2P!BmvInv /\ [Bmv2!BmvNext]_BmvState => Bmv2P!BmvInv'
      /\ Bmv2P!BmvInv => Bmv2!ReplayMatchesSimulator
  <2>1. Bmv2P!BmvAssumption
    BY BmvFits, SameStart
  <2>2. [Bmv2!BmvNext]_BmvState => [Bmv2P!BmvNext]_Bmv2P!bmvVars
    BY SameNext, Zenon DEF Bmv2P!bmvVars, BmvState
  <2>3. QED
    BY <2>1, <2>2, SameStart, SameProperty, Bmv2P!BmvInvHolds
<1>2. MvmInit => Inv
  BY <1>1, BmvRuns
<1>3. Inv /\ [MvmNext]_MvmVars => Inv'
  BY <1>1, BmvRuns
<1>4. Inv => PrototypeMatchesSimulator
  BY <1>1 DEF PrototypeMatchesSimulator
<1> HIDE DEF Inv
<1>5. QED
  BY <1>2, <1>3, <1>4, PTL DEF MvmSpec

-----------------------------------------------------------------------------
(* ReplaySplits in the run of all parts, for any rows, vectors, mixes and  *)
(* modes: who is pooled where, how many are, and what is left to replay.   *)

\* The instance counts as FiniteSets does.
LEMMA SplitCard == \A S : Splitter!Cardinality(S) = Cardinality(S)
  BY Zenon DEF Splitter!Cardinality, Cardinality, Splitter!IsFiniteSet, IsFiniteSet

\* The smaller of two numbers is at most the first.
LEMMA AtMostFirst ==
  ASSUME NEW a \in Nat, NEW b \in Nat
  PROVE  Splitter!Min({a, b}) \in Nat /\ Splitter!Min({a, b}) <= a
  <1>1. \E x \in {a, b} : \A y \in {a, b} : x <= y
    <2>1. CASE a <= b
      BY <2>1
    <2>2. CASE b <= a
      BY <2>2
    <2> QED BY <2>1, <2>2
  <1>2. Splitter!Min({a, b}) \in {a, b} /\ \A y \in {a, b} : Splitter!Min({a, b}) <= y
    BY <1>1, Zenon DEF Splitter!Min
  <1> QED BY <1>2

\* A scaled share, rounded down.
LEMMA ShareIs ==
  ASSUME NEW v \in Nat, NEW total \in Nat \ {0}
  PROVE  \E a \in Nat : a = v \div total /\ total * a <= v
  <1>1. v \div total \in Nat /\ v = total * (v \div total) + (v % total) /\ v % total \in Nat
    OBVIOUS
  <1>2. PICK a \in Nat, b \in Nat : a = v \div total /\ v = total * a + b
    BY <1>1
  <1>3. total * a \in Nat
    OBVIOUS
  <1> QED BY <1>2, <1>3

\* Shares in proportion add up to the cap at most.
LEMMA SharesFit ==
  ASSUME NEW u \in Nat, NEW v \in Nat, NEW w \in Nat, NEW cap \in Nat, (u + v) + w > cap
  PROVE  \E a, b, c \in Nat :
            /\ a = (u * cap) \div ((u + v) + w) /\ b = (v * cap) \div ((u + v) + w)
            /\ c = (w * cap) \div ((u + v) + w) /\ (a + b) + c <= cap
  <1>1. PICK total \in Nat \ {0} : total = (u + v) + w
    OBVIOUS
  <1>2. PICK x \in Nat, y \in Nat, z \in Nat : x = u * cap /\ y = v * cap /\ z = w * cap
    <2>1. u * cap \in Nat /\ v * cap \in Nat /\ w * cap \in Nat
      OBVIOUS
    <2> QED BY <2>1
  <1>3. (x + y) + z = total * cap
    BY <1>1, <1>2
  <1>4. PICK a \in Nat : a = x \div total /\ total * a <= x
    BY ShareIs
  <1>5. PICK b \in Nat : b = y \div total /\ total * b <= y
    BY ShareIs
  <1>6. PICK c \in Nat : c = z \div total /\ total * c <= z
    BY ShareIs
  <1>7. PICK e \in Nat : e = (a + b) + c
    OBVIOUS
  <1>8. total * e <= total * cap
    <2>1. total * e = ((total * a) + (total * b)) + (total * c)
      BY <1>7
    <2>2. total * a \in Nat /\ total * b \in Nat /\ total * c \in Nat
      OBVIOUS
    <2> QED BY <1>3, <1>4, <1>5, <1>6, <2>1, <2>2
  <1>9. e <= cap
    <2> SUFFICES ASSUME e > cap PROVE FALSE
      OBVIOUS
    <2>1. PICK m \in Nat : e = (cap + m) + 1
      <3>1. (e - cap) - 1 \in Nat /\ e = (cap + ((e - cap) - 1)) + 1
        OBVIOUS
      <3> QED BY <3>1
    <2>2. total * e = ((total * cap) + (total * m)) + total
      BY <2>1
    <2>3. total * m \in Nat /\ total * cap \in Nat
      OBVIOUS
    <2> QED BY <1>8, <2>2, <2>3
  <1> QED BY <1>1, <1>2, <1>4, <1>5, <1>6, <1>7, <1>9

-----------------------------------------------------------------------------
(* What is kept.                                                           *)

SplitRows == [type : DOMAIN TrainMix, vkey : Vectors, malformed : BOOLEAN, day : Int, ts : Int, file : Int]

RowsOf(ty) == {i \in Splitter!Pooled : keys[i].type = ty}

SplitTypes ==
    /\ keys \in Seq(SplitRows) /\ mode \in Modes /\ types \subseteq DOMAIN TrainMix

\* A pooled row was a candidate of a type that is done, and of its vector's pool.
PoolsKept ==
    \A i \in Splitter!Pooled :
        /\ i \in Splitter!RowIds /\ Splitter!Candidate(i) /\ keys[i].type \notin types
        /\ mode # "random" => group_pool[keys[i].vkey] = pool[i]

HalvesKept ==
    \A ty \in DOMAIN TrainMix : 2 * Cardinality(RowsOf(ty)) <= Cardinality(Splitter!OfType(ty))

\* The mask is made when all types are done.
MaskKept ==
    replay # Splitter!NoMask =>
        /\ types = {}
        /\ \A i \in replay :
              i \in Splitter!RowIds /\ i \notin Splitter!Pooled /\ (mode = "forward" => ~ Splitter!FirstHalf(i))

SplitInv == SplitTypes /\ PoolsKept /\ HalvesKept /\ MaskKept

\* There are finitely many rows of a type.
LEMMA RowsAreFinite ==
  ASSUME keys \in Seq(SplitRows), NEW ty
  PROVE  /\ IsFiniteSet(Splitter!RowIds) /\ IsFiniteSet(Splitter!OfType(ty))
         /\ Cardinality(Splitter!OfType(ty)) \in Nat
  <1>1. Splitter!RowIds = 1 .. Len(keys) /\ Len(keys) \in Nat
    BY DEF Splitter!RowIds
  <1>2. IsFiniteSet(Splitter!RowIds)
    BY <1>1, FS_Interval
  <1>3. Splitter!OfType(ty) \subseteq Splitter!RowIds
    BY DEF Splitter!OfType
  <1> QED BY <1>2, <1>3, FS_Subset, FS_CardinalityType

\* How many a union has.
LEMMA UnionCounts ==
  ASSUME NEW A, NEW B, IsFiniteSet(A), IsFiniteSet(B)
  PROVE  /\ IsFiniteSet(A \cup B) /\ Cardinality(A) \in Nat /\ Cardinality(B) \in Nat
         /\ Cardinality(A \cup B) \in Nat /\ Cardinality(A \cup B) <= Cardinality(A) + Cardinality(B)
         /\ A \cap B = {} => Cardinality(A \cup B) = Cardinality(A) + Cardinality(B)
  <1>1. IsFiniteSet(A \cup B) /\ IsFiniteSet(A \cap B)
    BY FS_Union, FS_Intersection
  <1>2. PICK a \in Nat, b \in Nat, c \in Nat, n \in Nat :
           a = Cardinality(A) /\ b = Cardinality(B) /\ c = Cardinality(A \cap B) /\ n = Cardinality(A \cup B)
    <2>1. /\ Cardinality(A) \in Nat /\ Cardinality(B) \in Nat
          /\ Cardinality(A \cap B) \in Nat /\ Cardinality(A \cup B) \in Nat
      BY <1>1, FS_CardinalityType
    <2> QED BY <2>1, Zenon
  <1>3. Cardinality(A \cup B) = Cardinality(A) + Cardinality(B) - Cardinality(A \cap B)
    BY FS_Union
  <1>4. n = a + b - c
    BY <1>2, <1>3, Zenon
  <1>5. n <= a + b /\ (c = 0 => n = a + b)
    BY <1>4
  <1>6. A \cap B = {} => c = 0
    BY <1>2, FS_EmptySet, Zenon
  <1>7. n <= a + b /\ (A \cap B = {} => n = a + b)
    BY <1>5, <1>6
  <1> QED BY <1>1, <1>2, <1>7, Zenon

\* Three parts of a set that share nothing are no more than it.
LEMMA ApartFits ==
  ASSUME NEW S, IsFiniteSet(S), NEW A \in SUBSET S, NEW B \in SUBSET S, NEW C \in SUBSET S,
         A \cap B = {}, A \cap C = {}, B \cap C = {}
  PROVE  /\ Cardinality(A) \in Nat /\ Cardinality(B) \in Nat /\ Cardinality(C) \in Nat
         /\ (Cardinality(A) + Cardinality(B)) + Cardinality(C) <= Cardinality(S)
  <1>1. IsFiniteSet(A) /\ IsFiniteSet(B) /\ IsFiniteSet(C)
    BY FS_Subset
  <1>2. PICK U : U = A \cup B
    OBVIOUS
  <1>3. U \cap C = {} /\ U \cup C \in SUBSET S
    BY <1>2
  <1>4. IsFiniteSet(U) /\ Cardinality(U) = Cardinality(A) + Cardinality(B)
    BY <1>1, <1>2, UnionCounts, Zenon
  <1>5. Cardinality(U \cup C) = Cardinality(U) + Cardinality(C)
    BY <1>1, <1>3, <1>4, UnionCounts, Zenon
  <1>6. Cardinality(U \cup C) <= Cardinality(S)
    BY <1>3, FS_Subset, Zenon
  <1>7. Cardinality(A) \in Nat /\ Cardinality(B) \in Nat /\ Cardinality(C) \in Nat
    BY <1>1, FS_CardinalityType, Zenon
  <1>8. (Cardinality(A) + Cardinality(B)) + Cardinality(C) <= Cardinality(S)
    BY <1>4, <1>5, <1>6, Zenon
  <1> QED BY <1>7, <1>8

\* The union of three sets has no more members than they have.
LEMMA UnionFits ==
  ASSUME NEW S, IsFiniteSet(S), NEW A \in SUBSET S, NEW B \in SUBSET S, NEW C \in SUBSET S
  PROVE  /\ Cardinality(A) \in Nat /\ Cardinality(B) \in Nat /\ Cardinality(C) \in Nat
         /\ Cardinality((A \cup B) \cup C) \in Nat
         /\ Cardinality((A \cup B) \cup C) <= (Cardinality(A) + Cardinality(B)) + Cardinality(C)
  <1>1. IsFiniteSet(A) /\ IsFiniteSet(B) /\ IsFiniteSet(C)
    BY FS_Subset
  <1>2. PICK U : U = A \cup B
    OBVIOUS
  <1>3. IsFiniteSet(U) /\ Cardinality(U) <= Cardinality(A) + Cardinality(B)
    BY <1>1, <1>2, UnionCounts, Zenon
  <1>4. Cardinality(U \cup C) \in Nat /\ Cardinality(U \cup C) <= Cardinality(U) + Cardinality(C)
    BY <1>1, <1>3, UnionCounts, Zenon
  <1>5. PICK a \in Nat, b \in Nat, c \in Nat, n \in Nat, v \in Nat :
           /\ a = Cardinality(A) /\ b = Cardinality(B) /\ c = Cardinality(C) /\ n = Cardinality(U)
           /\ v = Cardinality(U \cup C)
    <2>1. /\ Cardinality(A) \in Nat /\ Cardinality(B) \in Nat /\ Cardinality(C) \in Nat /\ Cardinality(U) \in Nat
      BY <1>1, <1>3, FS_CardinalityType, Zenon
    <2> QED BY <1>4, <2>1, Zenon
  <1>6. n <= a + b /\ v <= n + c
    BY <1>3, <1>4, <1>5, Zenon
  <1>7. v <= (a + b) + c
    BY <1>6
  <1> QED BY <1>2, <1>5, <1>7, Zenon

\* What there is for the pools is no more than the rows of the type.
LEMMA AvailableFits ==
  ASSUME SplitTypes, NEW ty, NEW n, n = Splitter!Available(ty)
  PROVE  /\ n["train"] \in Nat /\ n["val"] \in Nat /\ n["test"] \in Nat
         /\ (n["train"] + n["val"]) + n["test"] <= Cardinality(Splitter!OfType(ty))
  <1>1. PICK top \in Nat : top = Cardinality(Splitter!OfType(ty)) /\ top = Splitter!Cardinality(Splitter!OfType(ty))
    BY RowsAreFinite, SplitCard DEF SplitTypes
  <1>2. CASE mode = "random"
    <2>1. n = [p \in Splitter!Pools |-> IF p = "train" THEN (3 * top) \div 5 ELSE top \div 5]
      BY <1>1, <1>2, Zenon DEF Splitter!Available
    <2>2. n["train"] = (3 * top) \div 5 /\ n["val"] = top \div 5 /\ n["test"] = top \div 5
      BY <2>1 DEF Splitter!Pools
    <2>3. /\ (3 * top) \div 5 \in Nat /\ top \div 5 \in Nat
          /\ ((3 * top) \div 5 + top \div 5) + top \div 5 <= top
      OBVIOUS
    <2> QED BY <1>1, <2>2, <2>3
  <1>3. CASE mode # "random"
    <2>1. PICK A, B, C : A = Splitter!EligibleFor(ty, "train") /\ B = Splitter!EligibleFor(ty, "val")
                         /\ C = Splitter!EligibleFor(ty, "test")
      OBVIOUS
    <2>2. PICK S : S = Splitter!OfType(ty) /\ IsFiniteSet(S)
      BY RowsAreFinite DEF SplitTypes
    <2>3. /\ A \in SUBSET S /\ B \in SUBSET S /\ C \in SUBSET S
          /\ A \cap B = {} /\ A \cap C = {} /\ B \cap C = {}
      BY <2>1, <2>2 DEF Splitter!EligibleFor
    <2>4. n = [p \in Splitter!Pools |-> Splitter!Cardinality(Splitter!EligibleFor(ty, p))]
      BY <1>3, Zenon DEF Splitter!Available
    <2>5. n["train"] = Cardinality(A) /\ n["val"] = Cardinality(B) /\ n["test"] = Cardinality(C)
      BY <2>1, <2>4, SplitCard DEF Splitter!Pools
    <2>6. /\ Cardinality(A) \in Nat /\ Cardinality(B) \in Nat /\ Cardinality(C) \in Nat
          /\ (Cardinality(A) + Cardinality(B)) + Cardinality(C) <= Cardinality(S)
      BY <2>2, <2>3, ApartFits, Zenon
    <2> QED BY <2>2, <2>5, <2>6, Zenon
  <1> QED BY <1>2, <1>3

\* What is wanted is a number for each pool.
LEMMA WantedIs ==
  ASSUME Splitter!SplitAssumption, NEW ty \in DOMAIN TrainMix, NEW w,
         w = [p \in Splitter!Pools |-> IF p = "train" THEN TrainMix[ty] ELSE TrainMix[ty] \div EvalScale]
  PROVE  w["train"] \in Nat /\ w["val"] \in Nat /\ w["test"] \in Nat
  <1>1. PICK m \in Nat : m = TrainMix[ty]
    BY DEF Splitter!SplitAssumption
  <1>2. PICK e \in Nat \ {0} : e = EvalScale
    BY DEF Splitter!SplitAssumption
  <1>3. m \div e \in Nat
    BY ShareIs
  <1>4. w["train"] = m /\ w["val"] = m \div e /\ w["test"] = m \div e
    BY <1>1, <1>2 DEF Splitter!Pools
  <1> QED BY <1>1, <1>3, <1>4

\* Scaled down, it is no more than the cap.
LEMMA ScaledFits ==
  ASSUME NEW w, w = [p \in Splitter!Pools |-> w[p]],
         w["train"] \in Nat, w["val"] \in Nat, w["test"] \in Nat, NEW cap \in Nat,
         NEW q, q = Splitter!Scaled(w, cap)
  PROVE  /\ q["train"] \in Nat /\ q["val"] \in Nat /\ q["test"] \in Nat
         /\ (q["train"] + q["val"]) + q["test"] <= cap
  <1>1. PICK u \in Nat, v \in Nat, x \in Nat : u = w["train"] /\ v = w["val"] /\ x = w["test"]
    OBVIOUS
  <1>2. Splitter!Total(w) = (u + v) + x
    BY <1>1 DEF Splitter!Total
  <1>3. CASE (u + v) + x > cap
    <2>1. q = [p \in Splitter!Pools |-> (w[p] * cap) \div ((u + v) + x)]
      BY <1>2, <1>3, Zenon DEF Splitter!Scaled
    <2>2. /\ q["train"] = (u * cap) \div ((u + v) + x) /\ q["val"] = (v * cap) \div ((u + v) + x)
          /\ q["test"] = (x * cap) \div ((u + v) + x)
      <3>1. /\ q["train"] = (w["train"] * cap) \div ((u + v) + x)
            /\ q["val"] = (w["val"] * cap) \div ((u + v) + x)
            /\ q["test"] = (w["test"] * cap) \div ((u + v) + x)
        BY <2>1, Zenon DEF Splitter!Pools
      <3> QED BY <1>1, <3>1, Zenon
    <2>3. PICK a \in Nat, b \in Nat, c \in Nat :
             /\ a = (u * cap) \div ((u + v) + x) /\ b = (v * cap) \div ((u + v) + x)
             /\ c = (x * cap) \div ((u + v) + x) /\ (a + b) + c <= cap
      BY <1>3, SharesFit
    <2> QED BY <2>2, <2>3, Zenon
  <1>4. CASE ~ ((u + v) + x > cap)
    <2>1. q = w
      BY <1>2, <1>4, Zenon DEF Splitter!Scaled
    <2> QED BY <1>1, <1>4, <2>1
  <1> QED BY <1>3, <1>4

\* A type gives at most half of its rows.
LEMMA QuotaFits ==
  ASSUME Splitter!SplitAssumption, SplitTypes, NEW ty \in DOMAIN TrainMix, NEW d, d = Splitter!Quota(ty)
  PROVE  /\ d["train"] \in Nat /\ d["val"] \in Nat /\ d["test"] \in Nat
         /\ 2 * ((d["train"] + d["val"]) + d["test"]) <= Cardinality(Splitter!OfType(ty))
  <1>1. PICK top \in Nat : top = Cardinality(Splitter!OfType(ty))
    BY RowsAreFinite DEF SplitTypes
  <1>2. PICK n : n = Splitter!Available(ty)
    OBVIOUS
  <1>3. PICK x \in Nat, y \in Nat, z \in Nat :
           x = n["train"] /\ y = n["val"] /\ z = n["test"] /\ (x + y) + z <= top
    BY <1>1, <1>2, AvailableFits
  <1>4. PICK w : w = [p \in Splitter!Pools |-> IF p = "train" THEN TrainMix[ty] ELSE TrainMix[ty] \div EvalScale]
    OBVIOUS
  <1>5. w["train"] \in Nat /\ w["val"] \in Nat /\ w["test"] \in Nat /\ w = [p \in Splitter!Pools |-> w[p]]
    BY <1>4, WantedIs
  <1>6. PICK cap \in Nat : cap = ((x + y) + z) \div 2 /\ 2 * cap <= top
    <2>1. ((x + y) + z) \div 2 \in Nat /\ 2 * (((x + y) + z) \div 2) <= top
      BY <1>3
    <2> QED BY <2>1, Zenon
  <1>7. PICK q : q = Splitter!Scaled(w, cap)
    OBVIOUS
  <1>8. PICK a \in Nat, b \in Nat, c \in Nat :
           a = q["train"] /\ b = q["val"] /\ c = q["test"] /\ (a + b) + c <= cap
    BY <1>5, <1>7, ScaledFits
  <1>9. d = [p \in Splitter!Pools |-> Splitter!Min({q[p], n[p]})]
    <2>1. Splitter!Total(n) = (x + y) + z
      BY <1>3 DEF Splitter!Total
    <2> QED BY <1>2, <1>4, <1>6, <1>7, <2>1, Zenon DEF Splitter!Quota
  <1>10. d["train"] = Splitter!Min({a, x}) /\ d["val"] = Splitter!Min({b, y}) /\ d["test"] = Splitter!Min({c, z})
    <2>1. /\ d["train"] = Splitter!Min({q["train"], n["train"]}) /\ d["val"] = Splitter!Min({q["val"], n["val"]})
          /\ d["test"] = Splitter!Min({q["test"], n["test"]})
      BY <1>9, Zenon DEF Splitter!Pools
    <2> QED BY <1>3, <1>8, <2>1, Zenon
  <1>11. PICK e \in Nat, f \in Nat, g \in Nat :
            e = d["train"] /\ f = d["val"] /\ g = d["test"] /\ e <= a /\ f <= b /\ g <= c
    BY <1>10, AtMostFirst
  <1>12. 2 * ((e + f) + g) <= top
    BY <1>6, <1>8, <1>11
  <1> QED BY <1>1, <1>11, <1>12, Zenon

\* Rows stay what they are.
LEMMA SameRows ==
  ASSUME UNCHANGED <<keys, group_pool, mode>>
  PROVE  /\ Splitter!RowIds' = Splitter!RowIds
         /\ \A i : (Splitter!FirstHalf(i)' <=> Splitter!FirstHalf(i)) /\ (Splitter!Candidate(i)' <=> Splitter!Candidate(i))
         /\ \A ty : Splitter!OfType(ty)' = Splitter!OfType(ty)
  BY DEF Splitter!RowIds, Splitter!FirstHalf, Splitter!Candidate, Splitter!OfType, Splitter!Sooner

\* What is drawn for the pools, from rows of the type and from the pool's vectors.
Drawing(ty, picked) ==
    /\ \A p \in Splitter!Pools : picked[p] \subseteq Splitter!OfType(ty)
    /\ mode # "random" => \A p \in Splitter!Pools : picked[p] \subseteq Splitter!EligibleFor(ty, p)
    /\ \E N : N = UNION {picked[p] : p \in Splitter!Pools} /\ 2 * Cardinality(N) <= Cardinality(Splitter!OfType(ty))

\* Nothing is pooled, nothing is replayed.
LEMMA SplitInitInv == Splitter!SplitAssumption /\ Splitter!SplitInit => SplitInv
  <1> SUFFICES ASSUME Splitter!SplitAssumption, Splitter!SplitInit PROVE SplitInv
    OBVIOUS
  <1>1. SplitTypes
    <2>1. keys \in Seq(SplitRows) /\ mode \in Modes
      BY DEF Splitter!SplitAssumption, Splitter!SplitInit, SplitRows
    <2>2. \A i \in DOMAIN keys : keys[i].type \in DOMAIN TrainMix
      <3>1. \A i \in DOMAIN keys : keys[i] \in SplitRows
        BY <2>1
      <3> QED BY <3>1 DEF SplitRows
    <2>3. types \subseteq DOMAIN TrainMix
      BY <2>2 DEF Splitter!SplitInit
    <2> QED BY <2>1, <2>3 DEF SplitTypes
  <1>2. Splitter!Pooled = {}
    <2>1. pool = <<>>
      BY DEF Splitter!SplitInit
    <2> QED BY <2>1 DEF Splitter!Pooled
  <1>3. HalvesKept
    <2> SUFFICES ASSUME NEW ty \in DOMAIN TrainMix
                 PROVE  2 * Cardinality(RowsOf(ty)) <= Cardinality(Splitter!OfType(ty))
      BY DEF HalvesKept
    <2>1. RowsOf(ty) = {}
      BY <1>2 DEF RowsOf
    <2>2. Cardinality(RowsOf(ty)) = 0
      BY <2>1, FS_EmptySet
    <2> QED BY <1>1, <2>2, RowsAreFinite DEF SplitTypes
  <1>4. PoolsKept /\ MaskKept
    BY <1>2 DEF PoolsKept, MaskKept, Splitter!SplitInit
  <1> QED BY <1>1, <1>3, <1>4 DEF SplitInv

\* A type is sampled.
LEMMA SampleInv ==
  ASSUME SplitInv, NEW ty \in types, NEW picked, Drawing(ty, picked), Splitter!Sample(ty, picked)
  PROVE  SplitInv'
  <1>1. PICK N : /\ N = UNION {picked[p] : p \in Splitter!Pools}
                 /\ 2 * Cardinality(N) <= Cardinality(Splitter!OfType(ty))
    BY DEF Drawing
  <1>2. UNCHANGED <<keys, group_pool, mode, replay>> /\ types' = types \ {ty}
    BY DEF Splitter!Sample
  <1>3. pool' = [i \in Splitter!Pooled \cup N |->
                    IF i \in Splitter!Pooled THEN pool[i] ELSE CHOOSE p \in Splitter!Pools : i \in picked[p]]
    BY <1>1, Zenon DEF Splitter!Sample
  <1>4. Splitter!Pooled' = Splitter!Pooled \cup N
    BY <1>3 DEF Splitter!Pooled
  <1>5. /\ \A i \in Splitter!Pooled : pool'[i] = pool[i]
        /\ \A i \in N : i \notin Splitter!Pooled => pool'[i] \in Splitter!Pools /\ i \in picked[pool'[i]]
    <2>1. ASSUME NEW i \in N, i \notin Splitter!Pooled
          PROVE  pool'[i] \in Splitter!Pools /\ i \in picked[pool'[i]]
      <3>1. pool'[i] = CHOOSE p \in Splitter!Pools : i \in picked[p]
        BY <1>3, <2>1
      <3>2. \E p \in Splitter!Pools : i \in picked[p]
        BY <1>1
      <3> QED BY <3>1, <3>2, Zenon
    <2> QED BY <1>3, <2>1
  <1>6. N \subseteq Splitter!OfType(ty)
    BY <1>1 DEF Drawing
  <1>7. \A i \in N : i \in Splitter!RowIds /\ Splitter!Candidate(i) /\ keys[i].type = ty
    BY <1>6 DEF Splitter!OfType
  <1>8. SplitTypes'
    BY <1>2 DEF SplitInv, SplitTypes
  <1>9. PoolsKept'
    <2> SUFFICES ASSUME NEW i \in Splitter!Pooled'
                 PROVE  /\ i \in Splitter!RowIds /\ Splitter!Candidate(i) /\ keys[i].type \notin types'
                        /\ mode # "random" => group_pool[keys[i].vkey] = pool'[i]
      BY <1>2, SameRows DEF PoolsKept
    <2>1. CASE i \in Splitter!Pooled
      BY <1>2, <1>5, <2>1 DEF SplitInv, PoolsKept
    <2>2. CASE i \in N /\ i \notin Splitter!Pooled
      <3>1. mode # "random" => i \in Splitter!EligibleFor(ty, pool'[i])
        BY <1>5, <2>2 DEF Drawing
      <3>2. mode # "random" => group_pool[keys[i].vkey] = pool'[i]
        BY <3>1 DEF Splitter!EligibleFor
      <3> QED BY <1>2, <1>7, <2>2, <3>2
    <2> QED BY <1>4, <2>1, <2>2
  <1>10. HalvesKept'
    <2> SUFFICES ASSUME NEW x \in DOMAIN TrainMix
                 PROVE  2 * Cardinality(RowsOf(x)') <= Cardinality(Splitter!OfType(x))
      BY <1>2, SameRows DEF HalvesKept
    <2>1. RowsOf(x)' = {i \in Splitter!Pooled \cup N : keys[i].type = x}
      BY <1>2, <1>4 DEF RowsOf
    <2>2. CASE x = ty
      <3>1. \A i \in Splitter!Pooled : keys[i].type # ty
        BY DEF SplitInv, PoolsKept
      <3>2. RowsOf(x)' = N
        BY <1>7, <2>1, <2>2, <3>1
      <3> QED BY <1>1, <2>2, <3>2
    <2>3. CASE x # ty
      <3>1. RowsOf(x)' = RowsOf(x)
        BY <1>7, <2>1, <2>3 DEF RowsOf
      <3> QED BY <3>1 DEF SplitInv, HalvesKept
    <2> QED BY <2>2, <2>3
  <1>11. MaskKept'
    <2>1. types # {}
      OBVIOUS
    <2>2. replay = Splitter!NoMask
      BY <2>1 DEF SplitInv, MaskKept
    <2> QED BY <1>2, <2>2 DEF MaskKept, Splitter!NoMask
  <1> QED BY <1>8, <1>9, <1>10, <1>11 DEF SplitInv

\* Three draws within the quotas are a drawing.
LEMMA DrawnWithinQuota ==
  ASSUME Splitter!SplitAssumption, SplitTypes, NEW ty \in DOMAIN TrainMix, NEW A, NEW B, NEW C, NEW picked,
         A \subseteq Splitter!OfType(ty), B \subseteq Splitter!OfType(ty), C \subseteq Splitter!OfType(ty),
         Splitter!Cardinality(A) = Splitter!Quota(ty)["train"], Splitter!Cardinality(B) = Splitter!Quota(ty)["val"],
         Splitter!Cardinality(C) = Splitter!Quota(ty)["test"],
         mode # "random" => /\ A \subseteq Splitter!EligibleFor(ty, "train") /\ B \subseteq Splitter!EligibleFor(ty, "val")
                            /\ C \subseteq Splitter!EligibleFor(ty, "test"),
         picked = [p \in Splitter!Pools |-> IF p = "train" THEN A ELSE IF p = "val" THEN B ELSE C]
  PROVE  Drawing(ty, picked)
  <1>1. picked["train"] = A /\ picked["val"] = B /\ picked["test"] = C
    BY DEF Splitter!Pools
  <1>2. UNION {picked[p] : p \in Splitter!Pools} = (A \cup B) \cup C
    BY <1>1 DEF Splitter!Pools
  <1>3. PICK d, S : d = Splitter!Quota(ty) /\ S = Splitter!OfType(ty)
    OBVIOUS
  <1>4. PICK a \in Nat, b \in Nat, c \in Nat, top \in Nat :
           /\ a = d["train"] /\ b = d["val"] /\ c = d["test"] /\ top = Cardinality(S)
           /\ 2 * ((a + b) + c) <= top
    BY <1>3, QuotaFits, RowsAreFinite DEF SplitTypes
  <1>5. a = Cardinality(A) /\ b = Cardinality(B) /\ c = Cardinality(C)
    BY <1>3, <1>4, SplitCard
  <1>6. IsFiniteSet(S)
    BY <1>3, RowsAreFinite DEF SplitTypes
  <1>7. PICK n \in Nat : n = Cardinality((A \cup B) \cup C) /\ n <= (a + b) + c
    <2>1. A \in SUBSET S /\ B \in SUBSET S /\ C \in SUBSET S
      BY <1>3
    <2> QED BY <1>5, <1>6, <2>1, UnionFits
  <1>8. 2 * n <= top
    BY <1>4, <1>7
  <1>9. \A p \in Splitter!Pools : p = "train" \/ p = "val" \/ p = "test"
    BY DEF Splitter!Pools
  <1>10. \A p \in Splitter!Pools : picked[p] \subseteq Splitter!OfType(ty)
    BY <1>1, <1>9, Zenon
  <1>11. mode # "random" => \A p \in Splitter!Pools : picked[p] \subseteq Splitter!EligibleFor(ty, p)
    BY <1>1, <1>9, Zenon
  <1>12. \E N : N = UNION {picked[p] : p \in Splitter!Pools} /\ 2 * Cardinality(N) <= Cardinality(Splitter!OfType(ty))
    BY <1>2, <1>3, <1>4, <1>7, <1>8, Zenon
  <1> QED BY <1>10, <1>11, <1>12, Zenon DEF Drawing

\* The two ways of sampling.
LEMMA SampleRandomInv ==
  ASSUME Splitter!SplitAssumption, SplitInv, NEW ty \in types, Splitter!SampleRandom(ty)
  PROVE  SplitInv'
  <1>1. ty \in DOMAIN TrainMix /\ SplitTypes
    BY DEF SplitInv, SplitTypes
  <1>2. PICK A : /\ A \in Splitter!Picks(Splitter!OfType(ty), Splitter!Quota(ty)["train"])
                 /\ mode = "random"
                 /\ \E val \in Splitter!Picks(Splitter!OfType(ty) \ A, Splitter!Quota(ty)["val"]) :
                    \E test \in Splitter!Picks(Splitter!OfType(ty) \ (A \cup val), Splitter!Quota(ty)["test"]) :
                       Splitter!Sample(ty, [p \in Splitter!Pools |->
                                               IF p = "train" THEN A ELSE IF p = "val" THEN val ELSE test])
    BY DEF Splitter!SampleRandom
  <1>3. PICK B, C : /\ B \in Splitter!Picks(Splitter!OfType(ty) \ A, Splitter!Quota(ty)["val"])
                     /\ C \in Splitter!Picks(Splitter!OfType(ty) \ (A \cup B), Splitter!Quota(ty)["test"])
                     /\ Splitter!Sample(ty, [p \in Splitter!Pools |->
                                                IF p = "train" THEN A ELSE IF p = "val" THEN B ELSE C])
    BY <1>2
  <1>4. PICK picked : picked = [p \in Splitter!Pools |-> IF p = "train" THEN A ELSE IF p = "val" THEN B ELSE C]
    OBVIOUS
  <1>5. /\ A \subseteq Splitter!OfType(ty) /\ B \subseteq Splitter!OfType(ty) /\ C \subseteq Splitter!OfType(ty)
        /\ Splitter!Cardinality(A) = Splitter!Quota(ty)["train"]
        /\ Splitter!Cardinality(B) = Splitter!Quota(ty)["val"] /\ Splitter!Cardinality(C) = Splitter!Quota(ty)["test"]
    BY <1>2, <1>3 DEF Splitter!Picks
  <1>6. Drawing(ty, picked)
    BY <1>1, <1>2, <1>3, <1>4, <1>5, DrawnWithinQuota
  <1> QED BY <1>3, <1>4, <1>6, SampleInv

\* Each pool from its own vectors.
LEMMA SampleGroupsInv ==
  ASSUME Splitter!SplitAssumption, SplitInv, NEW ty \in types, Splitter!SampleGroups(ty)
  PROVE  SplitInv'
  <1>1. ty \in DOMAIN TrainMix /\ SplitTypes
    BY DEF SplitInv, SplitTypes
  <1>2. PICK A : /\ A \in Splitter!Picks(Splitter!EligibleFor(ty, "train"), Splitter!Quota(ty)["train"])
                 /\ \E val \in Splitter!Picks(Splitter!EligibleFor(ty, "val"), Splitter!Quota(ty)["val"]),
                       test \in Splitter!Picks(Splitter!EligibleFor(ty, "test"), Splitter!Quota(ty)["test"]) :
                       Splitter!Sample(ty, [p \in Splitter!Pools |->
                                               IF p = "train" THEN A ELSE IF p = "val" THEN val ELSE test])
    BY DEF Splitter!SampleGroups
  <1>3. PICK B, C : /\ B \in Splitter!Picks(Splitter!EligibleFor(ty, "val"), Splitter!Quota(ty)["val"])
                    /\ C \in Splitter!Picks(Splitter!EligibleFor(ty, "test"), Splitter!Quota(ty)["test"])
                    /\ Splitter!Sample(ty, [p \in Splitter!Pools |->
                                               IF p = "train" THEN A ELSE IF p = "val" THEN B ELSE C])
    BY <1>2
  <1>4. PICK picked : picked = [p \in Splitter!Pools |-> IF p = "train" THEN A ELSE IF p = "val" THEN B ELSE C]
    OBVIOUS
  <1>5. /\ A \subseteq Splitter!EligibleFor(ty, "train") /\ B \subseteq Splitter!EligibleFor(ty, "val")
        /\ C \subseteq Splitter!EligibleFor(ty, "test")
        /\ Splitter!Cardinality(A) = Splitter!Quota(ty)["train"]
        /\ Splitter!Cardinality(B) = Splitter!Quota(ty)["val"] /\ Splitter!Cardinality(C) = Splitter!Quota(ty)["test"]
    BY <1>2, <1>3 DEF Splitter!Picks
  <1>6. A \subseteq Splitter!OfType(ty) /\ B \subseteq Splitter!OfType(ty) /\ C \subseteq Splitter!OfType(ty)
    BY <1>5 DEF Splitter!EligibleFor
  <1>7. Drawing(ty, picked)
    BY <1>1, <1>4, <1>5, <1>6, DrawnWithinQuota
  <1> QED BY <1>3, <1>4, <1>7, SampleInv

\* Everything the replay does leaves the pools alone.
LEMMA SplitNextInv ==
  Splitter!SplitAssumption /\ SplitInv /\ [Splitter!SplitNext]_(Splitter!splitVars) => SplitInv'
  <1> SUFFICES ASSUME Splitter!SplitAssumption, SplitInv, [Splitter!SplitNext]_(Splitter!splitVars) PROVE SplitInv'
    OBVIOUS
  <1>1. ASSUME UNCHANGED <<keys, group_pool, mode, types, pool>>, MaskKept' PROVE SplitInv'
    <2>1. Splitter!Pooled' = Splitter!Pooled /\ \A ty : RowsOf(ty)' = RowsOf(ty)
      BY <1>1 DEF Splitter!Pooled, RowsOf
    <2>2. SplitTypes'
      BY <1>1 DEF SplitInv, SplitTypes
    <2>3. PoolsKept'
      BY <1>1, <2>1, SameRows DEF SplitInv, PoolsKept
    <2>4. HalvesKept'
      BY <1>1, <2>1, SameRows DEF SplitInv, HalvesKept
    <2> QED BY <1>1, <2>2, <2>3, <2>4 DEF SplitInv
  <1>2. ASSUME UNCHANGED <<keys, group_pool, mode, types, pool, replay>> PROVE SplitInv'
    <2>1. Splitter!Pooled' = Splitter!Pooled
      BY <1>2 DEF Splitter!Pooled
    <2>2. MaskKept'
      BY <1>2, <2>1, SameRows DEF SplitInv, MaskKept, Splitter!NoMask
    <2> QED BY <1>1, <1>2, <2>2
  <1>3. CASE Splitter!MakeMask
    <2>1. UNCHANGED <<keys, group_pool, mode, types, pool>> /\ types = {}
      BY <1>3 DEF Splitter!MakeMask
    <2>2. Splitter!Pooled' = Splitter!Pooled
      BY <2>1 DEF Splitter!Pooled
    <2>3. \A i \in replay' :
             i \in Splitter!RowIds /\ i \notin Splitter!Pooled /\ (mode = "forward" => ~ Splitter!FirstHalf(i))
      BY <1>3 DEF Splitter!MakeMask
    <2>4. MaskKept'
      BY <2>1, <2>2, <2>3, SameRows DEF MaskKept
    <2> QED BY <1>1, <2>1, <2>4
  <1>4. ASSUME NEW f, Splitter!YieldFile(f) PROVE SplitInv'
    BY <1>2, <1>4 DEF Splitter!YieldFile
  <1>5. CASE UNCHANGED Splitter!splitVars
    BY <1>2, <1>5 DEF Splitter!splitVars
  <1> QED BY <1>3, <1>4, <1>5, SampleRandomInv, SampleGroupsInv DEF Splitter!SplitNext

\* Vectors tell the pools apart, and half of a type is kept.
LEMMA SplitApart == SplitInv => Splitter!PoolsAreApart
  <1> SUFFICES ASSUME SplitInv PROVE Splitter!PoolsAreApart
    OBVIOUS
  <1>1. ASSUME mode # "random", NEW i \in Splitter!Pooled, NEW j \in Splitter!Pooled, pool[i] # pool[j]
        PROVE  keys[i].vkey # keys[j].vkey
    BY <1>1 DEF SplitInv, PoolsKept
  <1>2. ASSUME NEW ty \in {keys[i].type : i \in Splitter!Pooled}
        PROVE  2 * Splitter!Cardinality({i \in Splitter!Pooled : keys[i].type = ty})
                 <= Splitter!Cardinality(Splitter!OfType(ty))
    <2>1. PICK i \in Splitter!Pooled : ty = keys[i].type
      OBVIOUS
    <2>2. i \in DOMAIN keys
      BY DEF SplitInv, PoolsKept, Splitter!RowIds
    <2>3. keys[i] \in SplitRows
      BY <2>2 DEF SplitInv, SplitTypes
    <2>4. ty \in DOMAIN TrainMix
      BY <2>1, <2>3 DEF SplitRows
    <2>5. 2 * Cardinality({k1 \in Splitter!Pooled : keys[k1].type = ty}) <= Cardinality(Splitter!OfType(ty))
      BY <2>4 DEF SplitInv, HalvesKept, RowsOf
    <2> QED BY <2>5, SplitCard
  <1> QED BY <1>1, <1>2, Zenon DEF Splitter!PoolsAreApart

\* A row of the first half of its day comes before one that is not.
LEMMA HalvesInOrder ==
  ASSUME SplitTypes, NEW i \in Splitter!RowIds, NEW j \in Splitter!RowIds, i # j, keys[i].day = keys[j].day,
         ~ Splitter!FirstHalf(i), Splitter!FirstHalf(j)
  PROVE  Splitter!Sooner(j, i)
  <1> DEFINE Day == {x \in Splitter!RowIds : keys[x].day = keys[i].day}
             Rank(y) == {x \in Day : Splitter!Sooner(x, y)}
  <1>1. \A x \in Splitter!RowIds : x \in Int /\ keys[x].ts \in Int
    <2>1. Splitter!RowIds = 1 .. Len(keys) /\ Len(keys) \in Nat
      BY DEF Splitter!RowIds, SplitTypes
    <2>2. \A x \in Splitter!RowIds : keys[x] \in SplitRows
      BY DEF Splitter!RowIds, SplitTypes
    <2> QED BY <2>1, <2>2 DEF SplitRows
  <1>2. SUFFICES ASSUME Splitter!Sooner(i, j) PROVE FALSE
    BY <1>1 DEF Splitter!Sooner
  <1>3. Rank(i) \subseteq Rank(j)
    <2> SUFFICES ASSUME NEW x \in Day, Splitter!Sooner(x, i) PROVE Splitter!Sooner(x, j)
      OBVIOUS
    <2>1. x \in Splitter!RowIds
      OBVIOUS
    <2> QED BY <1>1, <1>2, <2>1 DEF Splitter!Sooner
  <1>4. IsFiniteSet(Day) /\ Rank(j) \subseteq Day
    <2>1. Day \subseteq Splitter!RowIds
      OBVIOUS
    <2> HIDE DEF Day
    <2> QED BY <2>1, RowsAreFinite, FS_Subset DEF SplitTypes
  <1>5. ~ (2 * Cardinality(Rank(i)) < Cardinality(Day))
    BY SplitCard, Zenon DEF Splitter!FirstHalf
  <1>6. 2 * Cardinality(Rank(j)) < Cardinality(Day)
    <2>1. Day = {x \in Splitter!RowIds : keys[x].day = keys[j].day}
      OBVIOUS
    <2> QED BY <2>1, SplitCard, Zenon DEF Splitter!FirstHalf
  <1> HIDE DEF Day, Rank
  <1>7. Cardinality(Rank(i)) <= Cardinality(Rank(j)) /\ Cardinality(Rank(i)) \in Nat
        /\ Cardinality(Rank(j)) \in Nat /\ Cardinality(Day) \in Nat
    <2>1. IsFiniteSet(Rank(j))
      BY <1>4, FS_Subset
    <2>2. IsFiniteSet(Rank(i))
      BY <1>3, <2>1, FS_Subset
    <2> QED BY <1>3, <1>4, <2>1, <2>2, FS_Subset, FS_CardinalityType
  <1> QED BY <1>5, <1>6, <1>7

\* What is replayed was not pooled, and comes later in its day.
LEMMA SplitUnseen == SplitInv => Splitter!ReplayIsUnseen
  <1> SUFFICES ASSUME SplitInv, replay # Splitter!NoMask PROVE Splitter!ReplayIsUnseen
    BY DEF Splitter!ReplayIsUnseen
  <1>1. replay \cap Splitter!Pooled = {}
    BY DEF SplitInv, MaskKept
  <1>2. ASSUME mode = "forward", NEW i \in replay, NEW j \in Splitter!Pooled, keys[i].day = keys[j].day
        PROVE  Splitter!Sooner(j, i)
    <2>1. i \in Splitter!RowIds /\ ~ Splitter!FirstHalf(i) /\ i # j
      BY <1>2 DEF SplitInv, MaskKept
    <2>2. j \in Splitter!RowIds /\ Splitter!FirstHalf(j)
      BY <1>2 DEF SplitInv, PoolsKept, Splitter!Candidate
    <2>3. SplitTypes
      BY DEF SplitInv
    <2> QED BY <1>2, <2>1, <2>2, <2>3, HalvesInOrder
  <1> QED BY <1>1, <1>2 DEF Splitter!ReplayIsUnseen

\* What the run of all parts does when it is about them.
LEMMA SplitRuns ==
  /\ MvmInit /\ running = "splits" => Splitter!SplitInit
  /\ [MvmNext]_MvmVars => running' = running /\ (running = "splits" => [Splitter!SplitNext]_(Splitter!splitVars))
<1>1. MvmInit /\ running = "splits" => Splitter!SplitInit
  BY DEF MvmInit
<1>2. [MvmNext]_MvmVars => running' = running /\ (running = "splits" => [Splitter!SplitNext]_(Splitter!splitVars))
  BY DEF MvmNext, MvmVars, Others1, SplitState, Splitter!splitVars
<1>3. QED
  BY <1>1, <1>2

\* In the run of all parts: the pools share no vector and leave half of a type, and
\* what is replayed was not pooled and is not followed by what was, within its day.
RowsAreApart == running = "splits" => Splitter!PoolsAreApart /\ Splitter!ReplayIsUnseen

\* "No test vector was seen in training and val groups never reach test", "the
\* total pooled per type is capped at 50% of its eligible rows", "every pooled
\* row is removed from the replay", "no within-day future is used for training".
THEOREM RowsAlwaysApart == MvmSpec => []RowsAreApart
<1> DEFINE Inv == running = "splits" => SplitInv
<1>0. Splitter!SplitAssumption
  BY SplitsFit
<1>1. MvmInit => Inv
  BY <1>0, SplitRuns, SplitInitInv
<1>2. Inv /\ [MvmNext]_MvmVars => Inv'
  BY <1>0, SplitRuns, SplitNextInv
<1>3. Inv => RowsAreApart
  BY SplitApart, SplitUnseen DEF RowsAreApart
<1> HIDE DEF Inv
<1>4. QED
  BY <1>1, <1>2, <1>3, PTL DEF MvmSpec
=============================================================================
