------------------------------ MODULE KeyTables ------------------------------
(***************************************************************************)
(* The two range tables that give a feature's thermometer code on the      *)
(* switch (FeatureTables in mvm/tofino_encode.py).  A 32-bit key is the    *)
(* pair of its slices key[31:12] and key[11:0], which are all that the     *)
(* tables look at; bit j of a code is set iff boundary j is at most the    *)
(* key, so a code is the set of those boundaries.                          *)
(***************************************************************************)
EXTENDS Integers

CONSTANTS
    K20Max,         \* the largest key[31:12]
    K12Max          \* the largest key[11:0]: BUCKET - 1

ASSUME KeyAssumption == K20Max \in Nat /\ K12Max \in Nat

Key == [k20 : 0 .. K20Max, k12 : 0 .. K12Max]
Start(k20) == [k20 |-> k20, k12 |-> 0]

AtMost(a, b) == a.k20 < b.k20 \/ (a.k20 = b.k20 /\ a.k12 <= b.k12)

\* code_at: the boundaries at or below the key.
CodeAt(B, key) == {b \in B : AtMost(b, key)}

\* 0 .. top, cut before every member of S.
Segments(S, top) ==
    {r \in S \X (0 .. top) :
        /\ r[1] <= r[2]
        /\ \A t \in S : ~ (r[1] < t /\ t <= r[2])
        /\ r[2] = top \/ r[2] + 1 \in S}

-----------------------------------------------------------------------------
\* The buckets with a boundary inside.
Straddled(B) == {b.k20 : b \in {c \in B : c.k12 # 0}}

\* Slip: the bucket that a boundary falls into.
FloorBucket(b) == b.k20

\* The first bucket at or above a boundary, if there is one.
CeilBucket(b) == IF b.k12 = 0 \/ b.k20 = K20Max THEN b.k20 ELSE b.k20 + 1

Starts(B) == {0} \cup {CeilBucket(b) : b \in B}

\* coarse: the code is constant between consecutive starts.
Coarse(B) ==
    {[lo |-> r[1], hi |-> r[2], code |-> CodeAt(B, Start(r[1]))] : r \in Segments(Starts(B), K20Max)}

Cuts(B, bucket) == {0} \cup {b.k12 : b \in {c \in B : c.k20 = bucket}}

\* fine: exact inside the straddled buckets.
Fine(B) ==
    UNION {{[bucket |-> s, lo |-> r[1], hi |-> r[2],
             code |-> CodeAt(B, [k20 |-> s, k12 |-> r[1]])] : r \in Segments(Cuts(B, s), K12Max)} :
           s \in Straddled(B)}

FineHits(B, key) == {e \in Fine(B) : e.bucket = key.k20 /\ e.lo <= key.k12 /\ key.k12 <= e.hi}
CoarseHits(B, key) == {e \in Coarse(B) : e.lo <= key.k20 /\ key.k20 <= e.hi}

\* codes_like_switch: the fine table first, else the coarse one.
Hits(B, key) == IF FineHits(B, key) # {} THEN FineHits(B, key) ELSE CoarseHits(B, key)

CodeLikeSwitch(B, key) == (CHOOSE e \in Hits(B, key) : TRUE).code
=============================================================================
