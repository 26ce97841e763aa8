------------------------------ MODULE CrossFit ------------------------------
(***************************************************************************)
(* The retrained models (scripts/iscx_build.py, iscx_models.py and         *)
(* iscx_diag.py): captures merged into one stream, their flows split into  *)
(* two folds, a model trained per fold on the flows of the other, every    *)
(* packet scored by the model that did not see it, and the table size      *)
(* chosen from the flows alive together.  A flow is its address here; a    *)
(* model is the set of flows it was trained on.                            *)
(***************************************************************************)
EXTENDS Integers, SequencesExt, FiniteSetsExt, BitWords

CONSTANTS
    Archives,       \* sequences of captures [cls, grp, pk], pk a sequence of [addr, ts]
    Block,          \* 2^20: the addresses of a capture lie in one block
    Step,           \* ten seconds: the flows alive are counted at multiples
    MinSlots,       \* 512
    MaxSlots,       \* 65536
    Percent         \* the load that the table may have, 7 %

CrossAssumption ==
    /\ {Block, Step, MinSlots, MaxSlots, Percent} \subseteq Nat \ {0}
    /\ \A a \in Archives : \A c \in Range(a) : c.pk # <<>> /\ \A p \in Range(c.pk) : p.addr \in 0 .. Block - 1

VARIABLES
    archive,    \* the captures, in the order of their names
    stage,      \* "build", "folds", "train", "score", "size", "done"
    stream,     \* the packets: [cap, addr, ts]
    fold,       \* flow -> 0 or 1
    straddle,   \* flows across the midpoint of a class with one group
    train,      \* fold -> the flows its model was trained on
    scored,     \* the fold whose model gave the result of each packet
    took,       \* flows that took a slot in the isolated run
    slots       \* the table size

crossVars == <<archive, stage, stream, fold, straddle, train, scored, took, slots>>

-----------------------------------------------------------------------------
(* iscx_build: each capture starts at 0 and has addresses of its own.      *)

remapped(cap, addr) == addr ^^ (cap * Block)

Shifted(cap) ==
    LET pk == archive[cap].pk
        t0 == Min({pk[i].ts : i \in DOMAIN pk})
    IN [i \in DOMAIN pk |-> [cap |-> cap, n |-> i, addr |-> remapped(cap, pk[i].addr), ts |-> pk[i].ts - t0]]

Before(p, q) == p.ts < q.ts \/ (p.ts = q.ts /\ (p.cap < q.cap \/ (p.cap = q.cap /\ p.n < q.n)))

Build ==
    /\ stage = "build" /\ stage' = "folds"
    /\ stream' = SortSeq(FlattenSeq([cap \in DOMAIN archive |-> Shifted(cap)]), Before)
    /\ UNCHANGED <<archive, fold, straddle, train, scored, took, slots>>

-----------------------------------------------------------------------------
(* iscx_models: folds, training, scoring.                                  *)

StreamFlows == {p.addr : p \in Range(stream)}
PacketsOf(f) == {i \in DOMAIN stream : stream[i].addr = f}
FirstOf(f) == Min(PacketsOf(f))
Start(f) == stream[FirstOf(f)].ts
End(f) == Max({stream[i].ts : i \in PacketsOf(f)})
ClassOf(f) == archive[stream[FirstOf(f)].cap].cls
GroupOf(f) == archive[stream[FirstOf(f)].cap].grp

OfClass(c) == {f \in StreamFlows : ClassOf(f) = c}
Groups(c) == {GroupOf(f) : f \in OfClass(c)}

\* Twice np.median of v over a set: between the two values in the middle.
Median2(xs, v) ==
    LET Less(x, y) == v[x] < v[y] \/ (v[x] = v[y] /\ x < y)
        Nth(k) == CHOOSE x \in xs : Cardinality({y \in xs : Less(y, x)}) = k - 1
        n == Cardinality(xs)
    IN v[Nth((n + 1) \div 2)] + v[Nth(n \div 2 + 1)]

\* Twice the median time of the first packets of a class.
Mid2(c) == Median2(OfClass(c), [f \in OfClass(c) |-> Start(f)])

Late(f) == 2 * Start(f) >= Mid2(ClassOf(f))

\* Groups alternate, in order; a class of one group is split by time.
FoldOf(f) ==
    LET groups == Groups(ClassOf(f)) IN
    IF Cardinality(groups) > 1 THEN Cardinality({g \in groups : g < GroupOf(f)}) % 2
    ELSE IF Late(f) THEN 1 ELSE 0

Straddles(f) ==
    /\ Cardinality(Groups(ClassOf(f))) = 1
    /\ ~ Late(f) /\ 2 * End(f) >= Mid2(ClassOf(f))

AssignFolds ==
    /\ stage = "folds" /\ stage' = "train"
    /\ fold' = [f \in StreamFlows |-> FoldOf(f)]
    /\ straddle' = {f \in StreamFlows : Straddles(f)}
    /\ UNCHANGED <<archive, stream, train, scored, took, slots>>

\* Slip: flows across the midpoint are not purged.
Unpurged(k) == {f \in StreamFlows : fold[f] # k}

TrainFlows(k) == {f \in StreamFlows : fold[f] # k /\ f \notin straddle}

Train ==
    /\ stage = "train" /\ stage' = "score"
    /\ train' = [k \in 0 .. 1 |-> TrainFlows(k)]
    /\ UNCHANGED <<archive, stream, fold, straddle, scored, took, slots>>

\* Each model replays the whole stream; its own fold's packets are kept.
Score ==
    /\ stage = "score" /\ stage' = "size"
    /\ scored' = [i \in DOMAIN stream |-> fold[stream[i].addr]]
    /\ took' \in SUBSET StreamFlows
    /\ UNCHANGED <<archive, stream, fold, straddle, train, slots>>

-----------------------------------------------------------------------------
(* The table-size rule.                                                    *)

\* np.arange(Step, last, Step).
Samples == {t \in Step .. Max({p.ts : p \in Range(stream)}) - 1 : t % Step = 0}
Alive(t) == Cardinality({f \in took : Start(f) <= t /\ t <= End(f)})

\* Twice the median of the samples; nan, which is never above the load, if none.
MedianAlive2 == IF Samples = {} THEN 0 ELSE Median2(Samples, [t \in Samples |-> Alive(t)])

Fits(n) == 100 * MedianAlive2 <= 2 * Percent * n

TableSize ==
    LET grown[n \in MinSlots .. MaxSlots] == IF ~ Fits(n) /\ n < MaxSlots THEN grown[2 * n] ELSE n
    IN grown[MinSlots]

ChooseSize ==
    /\ stage = "size" /\ stage' = "done"
    /\ slots' = TableSize
    /\ UNCHANGED <<archive, stream, fold, straddle, train, scored, took>>

CrossInit ==
    /\ archive \in Archives /\ stage = "build"
    /\ stream = <<>> /\ fold = <<>> /\ straddle = {} /\ train = <<>> /\ scored = <<>> /\ took = {} /\ slots = 0

CrossNext == Build \/ AssignFolds \/ Train \/ Score \/ ChooseSize

CrossSpec == CrossInit /\ [][CrossNext]_crossVars

\* iscx_diag: the flows on which a model is said to be evaluated in-sample.
InSample(k) == {f \in StreamFlows : fold[f] = 1 - k}

-----------------------------------------------------------------------------
(* Properties.                                                             *)

\* "Cross-fit": no packet is scored by a model that was trained on its flow, on
\* another flow of its group or, where one group is split by time, on a flow
\* alive at the same time, but for the flows across the midpoint, which are
\* scored and never trained on.
ScoredHeldOut ==
    stage \in {"size", "done"} =>
       \A i \in DOMAIN stream : \A t \in train[scored[i]] :
          LET f == stream[i].addr IN
          /\ f # t
          /\ ClassOf(f) = ClassOf(t) =>
                \/ GroupOf(f) # GroupOf(t)
                \/ Cardinality(Groups(ClassOf(f))) = 1 /\ (f \in straddle \/ End(f) < Start(t) \/ End(t) < Start(f))

\* A flow is of one capture, so that it has one class and one group, and what
\* iscx_diag calls in-sample is what was trained on and the purged flows.
FlowsHaveOneLabel ==
    /\ \A i, j \in DOMAIN stream : stream[i].addr = stream[j].addr => stream[i].cap = stream[j].cap
    /\ train # <<>> => \A k \in 0 .. 1 : train[k] \subseteq InSample(k) /\ InSample(k) \ train[k] \subseteq straddle

\* The smallest of the sizes under the load, unless even the largest is above.
SizeFollowsLoad ==
    stage = "done" =>
       /\ \E k \in 0 .. 16 : slots = MinSlots * 2 ^ k
       /\ slots > MinSlots => ~ Fits(slots \div 2)
       /\ slots < MaxSlots => Fits(slots)

CrossFitIsSound == ScoredHeldOut /\ FlowsHaveOneLabel /\ SizeFollowsLoad
=============================================================================
