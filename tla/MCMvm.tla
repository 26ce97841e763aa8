------------------------------- MODULE MCMvm -------------------------------
(***************************************************************************)
(* One run for the parts of MVM-Lite that share no state: `running` says   *)
(* which of them a behaviour is about, the variables of the others are 0.  *)
(* A property of a part is checked in the behaviours of that part.         *)
(***************************************************************************)
EXTENDS CachePolicies, LeafTables, BatchParts, TableSetup, TLC

\* Of Bmv2Replay, with the capacity K of TableSetup.
CONSTANTS SliceLists, Gain, Entries, Batch

\* Of ReplaySplits.
CONSTANTS Datasets, Vectors, TrainMix, EvalScale, Modes

VARIABLES
    running,
    attack, benign, maps,                                               \* CategoryCodes
    keys, group_pool, mode, types, pool, replay, yielded,               \* ReplaySplits
    slices, stage, query, requests, responses, mastership, packet_in,   \* Bmv2Replay
    bmv_tbl, installed, cache, dels, ins, recs, writes,
    flows, ordering, perm, todoSweep, rows, summary, recovery,          \* SweepUnits
    scoreKeys, draw, seeds, scoreStage, choice, fitted, records,        \* ReplayScores
    scoreFile, streams, counts, saved

-----------------------------------------------------------------------------
(* CachePolicies: every stream of Length queries over NumLeaves leaves, up *)
(* to the names of the leaves; gamma is 1 or 1/2.                          *)

MCStreams ==
    {s \in [1 .. Length -> 0 .. NumLeaves - 1] :
        \A i \in 1 .. Length : s[i] <= Cardinality({s[j] : j \in 1 .. i - 1})}

Lfu == [i \in 0 .. Length - 1 |-> 1]
Halving == [i \in 0 .. Length - 1 |-> 2 ^ i]
MCGains == {Lfu, Halving}

Args(k, gain, lag, poll, clock) ==
    [k |-> k, gain |-> gain, lag |-> lag, poll |-> poll, clock |-> clock]

MCHwSettings ==
    {Args(k, g, 0, 1, "query") : k \in 1 .. 2, g \in MCGains}
    \cup {Args(k, Halving, lag, 2, clock) :
              k \in {0, 2}, lag \in {1, 2}, clock \in {"miss", "query"}}
    \cup {Args(3, Halving, 2, 0, "miss"), Args(2, Lfu, 1, 2, "miss")}

\* LeafTables: trees of depth 2 over two features, floats of four bits.
LeafNode == [left |-> -1, right |-> -1, f |-> 0, thr |-> 0]
SplitNode(s, l, r) == [left |-> l, right |-> r, f |-> s.f, thr |-> s.thr]
LeafSplits == [f : Features, thr : {-8, -3, 5}]

MCTrees ==
    {0 :> LeafNode}
    \cup {0 :> SplitNode(a, 1, 2) @@ 1 :> LeafNode @@ 2 :> LeafNode : a \in LeafSplits}
    \cup {0 :> SplitNode(a, 1, 4) @@ 1 :> SplitNode(b, 2, 3) @@ 2 :> LeafNode @@ 3 :> LeafNode @@ 4 :> LeafNode :
             a, b \in LeafSplits}
    \cup {0 :> SplitNode(a, 1, 2) @@ 1 :> LeafNode @@ 2 :> SplitNode(b, 3, 4) @@ 3 :> LeafNode @@ 4 :> LeafNode :
             a, b \in LeafSplits}

-----------------------------------------------------------------------------
(* CategoryCodes and ReplaySplits.                                         *)

Codes == INSTANCE CategoryCodes WITH Categories <- {1, 2, 3}, MaxRows <- 2, MinFreq <- 2

\* Seven rows in two files, attack rows of one or two types.
SplitRow(i, v, bad, ts, two) ==
    [type |-> IF i = 6 /\ two THEN 2 ELSE 1, vkey |-> v, malformed |-> i = 2 /\ bad,
     day |-> IF two /\ i > 4 THEN 2 ELSE 1, ts |-> ts[i], file |-> IF i < 4 THEN 1 ELSE 2]

SplitDatasets ==
    {[i \in 1 .. 7 |-> SplitRow(i, v[i], two, <<2, 1, 2, 1, 3, 1, 1>>, two)] :
        v \in {<<1, 1, 2, 2, 3, 3, 1>>, <<1, 2, 1, 3, 1, 2, 1>>}, two \in BOOLEAN}

SplitMix == <<1, 1>>

Splitter == INSTANCE ReplaySplits

-----------------------------------------------------------------------------
(* Bmv2Replay, TableSetup.                                                 *)

BmvSlices ==
    {<<s, u>> : s \in {s \in [1 .. 5 -> 0 .. 2] : s[1] = 0}, u \in {<<0, 1>>, <<2, 2>>}}

BmvGain == [i \in 0 .. 4 |-> 2 ^ i]

Bmv2 == INSTANCE Bmv2Replay WITH leaf_tbl <- bmv_tbl

ASSUME BmvFits == Bmv2!BmvAssumption

Boundary(a, b) == [k20 |-> a, k12 |-> b]
ModelBoundaries ==
    "A" :> ("f0" :> {Boundary(0, 1)} @@ "f1" :> {Boundary(1, 0)})
    @@ "B" :> ("f0" :> {Boundary(1, 1)} @@ "f1" :> {Boundary(0, 1)})

MCFeatureOrder == <<"f0", "f1">>

-----------------------------------------------------------------------------
(* SweepUnits: five flows in two or three days of two hours; ReplayScores: *)
(* eight rows in three files.                                              *)

SweepFlow(l, ty, ts, dur) == [leaf |-> l, type |-> ty, hour |-> ts, ts |-> ts, end |-> ts + dur]

SweepReplays ==
    {[i \in 1 .. 5 |-> SweepFlow(l[i], ty[i], ts[i], IF i \in {1, 3} THEN 2 ELSE 0)] :
        l \in {l \in [1 .. 5 -> 0 .. 2] : l[1] = 0 /\ l[2] = 1},
        ty \in {<<0, 0, 1, 0, 1>>, <<1, 0, 0, 2, 0>>}, ts \in {<<0, 0, 1, 1, 1>>, <<0, 1, 2, 2, 3>>}}

SweepPhases ==
    {[i \in 1 .. n |-> SweepFlow(0, IF i \in attacks THEN 1 ELSE 0, IF i = 1 THEN 0 ELSE 2, 0)] :
        n \in {6, 9, 10}, attacks \in {{}, {4}, 3 .. 5}}

Sweeper == INSTANCE SweepUnits WITH
    Replays <- SweepReplays, PhaseReplays <- SweepPhases, HoursPerDay <- 2, KS <- {1, 2}, Bin <- 2,
    Horizon <- 4, MinShare <- 4, todo <- todoSweep

ScoreRow(f, ts, y, h, v) ==
    [file |-> f, ts |-> ts, label |-> y, type |-> y, hour |-> h, x |-> [dp |-> v, full |-> 1 + ((v + y) % 3)]]

ScoreDatasets ==
    {[i \in 1 .. 8 |->
        ScoreRow(IF i < 4 THEN 1 ELSE IF i < 7 THEN 2 ELSE 3, <<1, 1, 2, 3, 2, 3, 1, 2>>[i], y[i],
                 IF i < 5 THEN 1 ELSE 2, <<1, 2, 1, 2, 3, 1, 2, 3>>[i])] :
        y \in {<<0, 1, 0, 1, 0, 0, 1, 0>>, <<1, 0, 0, 0, 1, 1, 0, 1>>}}

FittedTree(leaf) == [leaf |-> leaf, klass |-> <<0, 1, 0, 1>>]

\* Trees of depth 4 and 6, two settings of the other model, one pruned tree.
ScoreFits ==
    LET flat == FittedTree(<<1, 2, 2>>)
        deep == FittedTree(<<3, 2, 1>>)
        settings == {<<"DT", d, w>> : d \in {4, 6}, w \in {"None", "balanced"}}
                    \cup {<<"LR", g, "None">> : g \in 1 .. 2} \cup {<<"ccp", 7, "None">>}
    IN  {[c \in settings |->
            IF c[1] = "DT" /\ c[2] = 4 THEN (IF c[3] = "None" THEN a ELSE b)
            ELSE IF c = <<"LR", 1, "None">> THEN flat ELSE deep] :
            a, b \in {flat, deep, FittedTree(<<1, 4, 2>>)}}

ScoreDraws ==
    {<<"replay", "train", "replay", "val", "test", "replay", "replay", "val">>,
     <<"train", "val", "test", "replay", "replay", "val", "test", "replay">>,
     <<"test", "val", "test", "train", "replay", "replay", "replay", "replay">>}

Scorer == INSTANCE ReplayScores WITH
    Datasets <- ScoreDatasets, Draws <- ScoreDraws, SeedLists <- {<<0>>, <<0, 1>>, <<1, 0>>},
    FeatureSets <- {"dp", "full"}, Depths <- {4, 6}, Alphas <- {7}, Grids <- [LR |-> 2], Fits <- ScoreFits,
    Int16Max <- 4, NSide <- 2, keys <- scoreKeys, stage <- scoreStage, file <- scoreFile

ASSUME SplitsFit == Splitter!SplitAssumption

ASSUME Codes!CategoryAssumption /\ Sweeper!SweepAssumption /\ Scorer!ScoresAssumption

-----------------------------------------------------------------------------
(* The behaviours.                                                         *)

CacheOff ==
    /\ seq = 0 /\ t = 0 /\ lru = 0 /\ dlfu = 0 /\ dlfuFast = 0 /\ belady = 0 /\ beladyFast = 0
    /\ oracle = 0 /\ fenwick = 0 /\ setting = 0 /\ hw = 0 /\ best = 0
LeafOff == tree = 0 /\ stack = 0 /\ boxes = 0
BatchOff == part = 0 /\ side = 0 /\ tmp = 0 /\ at = 0 /\ tried = 0 /\ sweep = 0 /\ merged = 0 /\ reboots = 0
CodesOff == attack = 0 /\ benign = 0 /\ maps = 0
SplitOff == keys = 0 /\ group_pool = 0 /\ mode = 0 /\ types = 0 /\ pool = 0 /\ replay = 0 /\ yielded = 0
BmvOff ==
    /\ slices = 0 /\ stage = 0 /\ query = 0 /\ requests = 0 /\ responses = 0 /\ mastership = 0 /\ packet_in = 0
    /\ bmv_tbl = 0 /\ installed = 0 /\ cache = 0 /\ dels = 0 /\ ins = 0 /\ recs = 0 /\ writes = 0
SetupOff ==
    /\ file = 0 /\ todo = 0 /\ caller = 0 /\ tries = 0 /\ ports = 0 /\ port_fwd = 0 /\ fine = 0 /\ coarse = 0
    /\ leaf_tbl = 0 /\ serving = 0 /\ whole = 0 /\ changes = 0
SweepOff == flows = 0 /\ ordering = 0 /\ perm = 0 /\ todoSweep = 0 /\ rows = 0 /\ summary = 0 /\ recovery = 0
ScoresOff ==
    /\ scoreKeys = 0 /\ draw = 0 /\ seeds = 0 /\ scoreStage = 0 /\ choice = 0 /\ fitted = 0 /\ records = 0
    /\ scoreFile = 0 /\ streams = 0 /\ counts = 0 /\ saved = 0

MvmInit ==
    /\ running \in {"cache", "leaves", "batch", "codes", "splits", "bmv2", "setup", "sweeps", "scores"}
    /\ IF running = "cache" THEN Init ELSE CacheOff
    /\ IF running = "leaves" THEN LeafInit ELSE LeafOff
    /\ IF running = "batch" THEN BatchInit ELSE BatchOff
    /\ IF running = "codes" THEN Codes!CodesInit ELSE CodesOff
    /\ IF running = "splits" THEN Splitter!SplitInit ELSE SplitOff
    /\ IF running = "bmv2" THEN Bmv2!BmvInit ELSE BmvOff
    /\ IF running = "setup" THEN SetupInit ELSE SetupOff
    /\ IF running = "sweeps" THEN Sweeper!SweepInit ELSE SweepOff
    /\ IF running = "scores" THEN Scorer!ScoresInit ELSE ScoresOff

\* The variables of the parts that are instances.
CodesState == <<attack, benign, maps>>
SplitState == <<keys, group_pool, mode, types, pool, replay, yielded>>
BmvState ==
    <<slices, stage, query, requests, responses, mastership, packet_in, bmv_tbl, installed, cache, dels,
      ins, recs, writes>>
SweepState == <<flows, ordering, perm, todoSweep, rows, summary, recovery>>
ScoresState ==
    <<scoreKeys, draw, seeds, scoreStage, choice, fitted, records, scoreFile, streams, counts, saved>>

Others1 == <<leafVars, batchVars, CodesState, SplitState>>
Others2 == <<BmvState, setupVars, SweepState, ScoresState>>

MvmNext ==
    \/ /\ running = "cache" /\ Next
       /\ UNCHANGED <<running, Others1, Others2>>
    \/ /\ running = "leaves" /\ LeafNext
       /\ UNCHANGED <<running, vars, batchVars, CodesState, SplitState, Others2>>
    \/ /\ running = "batch" /\ BatchNext
       /\ UNCHANGED <<running, vars, leafVars, CodesState, SplitState, Others2>>
    \/ /\ running = "codes" /\ Codes!Fit
       /\ UNCHANGED <<running, vars, leafVars, batchVars, SplitState, Others2>>
    \/ /\ running = "splits" /\ Splitter!SplitNext
       /\ UNCHANGED <<running, vars, leafVars, batchVars, CodesState, Others2>>
    \/ /\ running = "bmv2" /\ Bmv2!BmvNext
       /\ UNCHANGED <<running, vars, Others1, setupVars, SweepState, ScoresState>>
    \/ /\ running = "setup" /\ SetupNext
       /\ UNCHANGED <<running, vars, Others1, BmvState, SweepState, ScoresState>>
    \/ /\ running = "sweeps" /\ Sweeper!SweepNext
       /\ UNCHANGED <<running, vars, Others1, BmvState, setupVars, ScoresState>>
    \/ /\ running = "scores" /\ Scorer!ScoresNext
       /\ UNCHANGED <<running, vars, Others1, BmvState, setupVars, SweepState>>

MvmVars == <<running, vars, Others1, Others2>>

MvmSpec == MvmInit /\ [][MvmNext]_MvmVars

-----------------------------------------------------------------------------
(* Properties.                                                             *)

\* The offline bounds are bounds: Belady is optimal, capacity never hurts, no
\* fixed table beats the window oracle (CachePolicies).
BoundsAreBounds ==
    running = "cache" => BeladyIsOptimal /\ HitsGrowWithCapacity /\ NoFixedTableBeatsOracle

\* The fast kernels answer and count as the reference policies (CachePolicies).
FastPoliciesAgree ==
    running = "cache" => TypeOK /\ KernelsAgree /\ LruHitsByReuseDistance

\* The controller's variant loses to decayed LFU only what its delays explain
\* (CachePolicies).
DelayedPolicyAgrees ==
    running = "cache" => HwPolicyReducesToIdeal /\ HwMissesOnlyWithinLag

\* A tree's leaves are found by boxes, ranges and codes alike (LeafTables).
TreeSurvivesEncoding ==
    running = "leaves" => RegionsPartition /\ EncodingsEqualTree

\* An overnight sweep leaves whole parts and merges all of them, whatever dies
\* when (BatchParts).
SweepsEndWhole ==
    running = "batch" => PartsAreWhole /\ MergedIsComplete

\* Training, validation, test and replay rows are apart, and the codes of a
\* column lose no split (ReplaySplits, CategoryCodes).
TrainingIsSound ==
    /\ running = "splits" => Splitter!PoolsAreApart /\ Splitter!ReplayIsUnseen /\ Splitter!ChunksInOrder
    /\ running = "codes" => Codes!ThresholdSplitIsBest

\* The BMv2 prototype does what the simulator does (Bmv2Replay).
PrototypeMatchesSimulator ==
    running = "bmv2" => Bmv2!ReplayMatchesSimulator

\* The controller's tables are those of one model while it serves (TableSetup).
TablesOfOneModel ==
    running = "setup" => ServesOneModel

\* What the experiments write compares what it says (SweepUnits, ReplayScores).
ResultsAreComparable ==
    /\ running = "sweeps" => Sweeper!SweepsAreSound
    /\ running = "scores" => Scorer!ScoresAreSound
=============================================================================
