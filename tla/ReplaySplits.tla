---------------------------- MODULE ReplaySplits ----------------------------
(***************************************************************************)
(* Training, validation and test pools and the replay stream               *)
(* (mvm/splits.py).  Rows are numbered by their place in the files; the    *)
(* seed's draws and its hash of feature vectors are inputs.  Numbers are   *)
(* scaled down; a scaled quota is exact here and a float in the code.      *)
(***************************************************************************)
EXTENDS Integers, SequencesExt

CONSTANTS
    Datasets,       \* sequences of rows [type, vkey, malformed, day, ts, file]
    Vectors,        \* the data-plane feature vectors, by their hash
    TrainMix,       \* type -> rows wanted for training
    EvalScale,      \* validation and test want one EvalScale-th of that
    Modes           \* SPLIT_MODES

Pools == {"train", "val", "test"}

\* Every type has a number of rows that are wanted, its own or the default.
SplitAssumption ==
    /\ EvalScale \in Nat \ {0} /\ Modes \subseteq {"random", "grouped", "forward"}
    /\ TrainMix \in [DOMAIN TrainMix -> Nat]
    /\ Datasets \subseteq Seq([type : DOMAIN TrainMix, vkey : Vectors, malformed : BOOLEAN,
                             day : Int, ts : Int, file : Int])

VARIABLES
    keys,           \* the rows of the dataset
    group_pool,     \* vector -> the pool it is eligible for, by the seed
    mode,
    types,          \* types that are still to be sampled
    pool,           \* row -> its pool, of the rows pooled so far
    replay,         \* the replay mask, once made
    yielded         \* rows that iter_replay has yielded, in order

splitVars == <<keys, group_pool, mode, types, pool, replay, yielded>>

RowIds == DOMAIN keys
Pooled == DOMAIN pool

\* Stable sort by ts.
Sooner(i, j) == keys[i].ts < keys[j].ts \/ (keys[i].ts = keys[j].ts /\ i < j)

-----------------------------------------------------------------------------
(* build_keys and sample_pools.                                            *)

\* The first half of its local day, by rank.
FirstHalf(i) ==
    LET day == {j \in RowIds : keys[j].day = keys[i].day}
    IN 2 * Cardinality({j \in day : Sooner(j, i)}) < Cardinality(day)

Candidate(i) == ~ keys[i].malformed /\ (mode = "forward" => FirstHalf(i))

OfType(t) == {i \in RowIds : Candidate(i) /\ keys[i].type = t}

\* Slip: validation and test rows are drawn from all vectors.
EligibleAnywhere(t, p) == IF p = "train" THEN {i \in OfType(t) : group_pool[keys[i].vkey] = p} ELSE OfType(t)

\* Each distinct feature vector is eligible for exactly one pool.
EligibleFor(t, p) == {i \in OfType(t) : group_pool[keys[i].vkey] = p}

\* How many rows are eligible for each pool.
Available(t) ==
    IF mode = "random"
    THEN LET n == Cardinality(OfType(t)) IN [p \in Pools |-> IF p = "train" THEN (3 * n) \div 5 ELSE n \div 5]
    ELSE [p \in Pools |-> Cardinality(EligibleFor(t, p))]

Total(q) == q["train"] + q["val"] + q["test"]

\* Slip: a rare class is not scaled down.
ScaledNever(q, cap) == q

Scaled(q, cap) == IF Total(q) > cap THEN [p \in Pools |-> (q[p] * cap) \div Total(q)] ELSE q

\* _quota: at most half of what is available, and no more than there is.
Quota(t) ==
    LET n == Available(t)
        wanted == [p \in Pools |-> IF p = "train" THEN TrainMix[t] ELSE TrainMix[t] \div EvalScale]
        q == Scaled(wanted, Total(n) \div 2)
    IN [p \in Pools |-> Min({q[p], n[p]})]

Picks(S, n) == {P \in SUBSET S : Cardinality(P) = n}

Sample(t, picked) ==
    /\ types' = types \ {t}
    /\ pool' = [i \in Pooled \cup UNION {picked[p] : p \in Pools} |->
                   IF i \in Pooled THEN pool[i] ELSE CHOOSE p \in Pools : i \in picked[p]]
    /\ UNCHANGED <<keys, group_pool, mode, replay, yielded>>

\* random: a permutation of the rows, cut into the three pools.
SampleRandom(t) ==
    /\ mode = "random"
    /\ \E train \in Picks(OfType(t), Quota(t)["train"]) :
       \E val \in Picks(OfType(t) \ train, Quota(t)["val"]) :
       \E test \in Picks(OfType(t) \ (train \cup val), Quota(t)["test"]) :
          Sample(t, [p \in Pools |-> IF p = "train" THEN train ELSE IF p = "val" THEN val ELSE test])

\* grouped, forward: each pool draws from its own vectors.
SampleGroups(t) ==
    /\ mode # "random"
    /\ \E train \in Picks(EligibleFor(t, "train"), Quota(t)["train"]),
          val \in Picks(EligibleFor(t, "val"), Quota(t)["val"]),
          test \in Picks(EligibleFor(t, "test"), Quota(t)["test"]) :
          Sample(t, [p \in Pools |-> IF p = "train" THEN train ELSE IF p = "val" THEN val ELSE test])

-----------------------------------------------------------------------------
(* The replay.                                                             *)

NoMask == {0}

\* Every pooled row is removed; forward keeps the second halves only.
MakeMask ==
    /\ types = {} /\ replay = NoMask
    /\ replay' = {i \in RowIds \ Pooled : ~ keys[i].malformed /\ (mode = "forward" => ~ FirstHalf(i))}
    /\ UNCHANGED <<keys, group_pool, mode, types, pool, yielded>>

Files == {keys[i].file : i \in RowIds}
Yielded == {keys[yielded[i]].file : i \in DOMAIN yielded}

\* iter_replay: the next file with rows to replay, sorted by time.
YieldFile(f) ==
    /\ replay # NoMask
    /\ f \notin Yielded
    /\ \E i \in replay : keys[i].file = f
    /\ \A i \in replay : keys[i].file < f => keys[i].file \in Yielded
    /\ yielded' = yielded \o SetToSortSeq({i \in replay : keys[i].file = f}, Sooner)
    /\ UNCHANGED <<keys, group_pool, mode, types, pool, replay>>

\* replay_order: all rows at once, by file and then by time.
replay_order ==
    SetToSortSeq(replay, LAMBDA i, j : keys[i].file < keys[j].file
                                       \/ (keys[i].file = keys[j].file /\ Sooner(i, j)))

SplitInit ==
    /\ keys \in Datasets
    /\ group_pool \in [Vectors -> Pools]
    /\ mode \in Modes
    /\ types = {keys[i].type : i \in {j \in DOMAIN keys : ~ keys[j].malformed}}
    /\ pool = <<>>
    /\ replay = NoMask
    /\ yielded = <<>>

SplitNext ==
    \/ \E t \in types : SampleRandom(t) \/ SampleGroups(t)
    \/ MakeMask
    \/ \E f \in Files : YieldFile(f)

SplitSpec == SplitInit /\ [][SplitNext]_splitVars
-----------------------------------------------------------------------------
(* Properties.                                                             *)

\* "No test vector was seen in training and val groups never reach test", and
\* "the total pooled per type is capped at 50% of its eligible rows".
PoolsAreApart ==
    /\ mode # "random" =>
          \A i, j \in Pooled : pool[i] # pool[j] => keys[i].vkey # keys[j].vkey
    /\ \A t \in {keys[i].type : i \in Pooled} :
          2 * Cardinality({i \in Pooled : keys[i].type = t}) <= Cardinality(OfType(t))

\* "Every pooled row is removed from the replay", and in forward mode "no
\* within-day future is used for training": what is replayed comes after all
\* that was pooled on its day.
ReplayIsUnseen ==
    /\ replay # NoMask => replay \cap Pooled = {}
    /\ mode = "forward" /\ replay # NoMask =>
          \A i \in replay, j \in Pooled : keys[i].day = keys[j].day => Sooner(j, i)

\* The chunks follow each other as replay_order says, which the caches and
\* their ground truth rely on.
ChunksInOrder == replay # NoMask => IsPrefix(yielded, replay_order)
=============================================================================
