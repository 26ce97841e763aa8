---------------------------- MODULE VerdictReports ----------------------------
(***************************************************************************)
(* How the PeerRush runs are turned into numbers: g1b_report.py reads the  *)
(* runs of every hash arm, each against the isolated reference of its own  *)
(* clock start (the report of g1_netbeacon.py had one reference for all,   *)
(* which its erratum corrects), and v2_agreement.py replaces the verdicts  *)
(* of the flows on which the full model and its fallback agree.            *)
(*                                                                         *)
(* F1 scores are fractions <<numerator, denominator>>.                     *)
(***************************************************************************)
EXTENDS Integers, SequencesExt, FiniteSetsExt

CONSTANTS
    PacketStreams,  \* sequences of packets [flow, truth, sec], truth in 0 .. NClass - 1
    References,     \* what the verdicts of an isolated run may be: sequences of codes
    Runs,           \* what another run may be: [result, flag], flag the downgraded flows
    RunFiles,       \* the files of results/g1 by name: [kind, seed, grid, defence]
    NClass,
    Keyed           \* the kinds of hash with an arm of many seeds

ReportAssumption == NClass \in Nat \ {0} /\ [kind |-> "iso", seed |-> -1, grid |-> 0, defence |-> ""] \in ToSet(RunFiles)

VARIABLES
    pk,             \* the packets that were kept
    reference,      \* by clock start, the verdicts of the isolated run
    unread,         \* files that main has not come to, by name
    iso_cache,      \* by clock start, [cls, f1, ok]
    perm,           \* the class of the labels for each class of the tables
    rows, outs      \* one row for each run, and the runs by row

reportVars == <<pk, reference, unread, iso_cache, perm, rows, outs>>

Packets == DOMAIN pk
FlowsOf == {pk[i].flow : i \in Packets}
PktsOf(f) == {i \in Packets : pk[i].flow = f}

-----------------------------------------------------------------------------

\* The class of a verdict: determined verdicts are 50 higher, 0 is no verdict.
class_of(result) == [i \in DOMAIN result |-> IF result[i] = 0 THEN -1 ELSE (result[i] - 1) % 50]

Perms == {p \in [0 .. NClass - 1 -> 0 .. NClass - 1] : \A a, b \in DOMAIN p : p[a] = p[b] => a = b}

\* Slip: a packet without a verdict counts as one of class 0.
ColumnOfClipped(c, p) == p[Max({0, Min({c, NClass - 1})})]

ColumnOf(c, p) == IF c < 0 THEN NClass ELSE p[Min({c, NClass - 1})]

confusion(is, cls, p) ==
    [t \in 0 .. NClass - 1, c \in 0 .. NClass |->
        Cardinality({i \in is : pk[i].truth = t /\ ColumnOf(cls[i], p) = c})]

\* The sum of the F1 of all classes; a class without a hit has F1 0.
macro_f1(cm) ==
    LET column(c) == MapThenSumSet(LAMBDA t : cm[t, c], 0 .. NClass - 1)
        row(c) == MapThenSumSet(LAMBDA d : cm[c, d], 0 .. NClass)
        f[c \in -1 .. NClass - 1] ==
            IF c = -1 THEN <<0, 1>>
            ELSE LET n == 2 * cm[c, c]  d == row(c) + column(c) IN
                 IF n = 0 THEN f[c - 1] ELSE <<f[c - 1][1] * d + n * f[c - 1][2], f[c - 1][2] * d>>
    IN f[NClass - 1]

NoBetter(a, b) == a[1] * b[2] <= b[1] * a[2]

\* max over the permutations, by the isolated run at clock start 0.
BestPerm(cls) ==
    CHOOSE p \in Perms : \A q \in Perms : NoBetter(macro_f1(confusion(Packets, cls, q)), macro_f1(confusion(Packets, cls, p)))

cls_ok(cls, p) == {i \in Packets : cls[i] >= 0 /\ ColumnOf(cls[i], p) = pk[i].truth}

per_flow_sum(is) == [f \in FlowsOf |-> Cardinality(is \cap PktsOf(f))]

-----------------------------------------------------------------------------

ReportInit ==
    /\ pk \in PacketStreams
    /\ reference \in [{r.grid : r \in {q \in ToSet(RunFiles) : q.kind = "iso"}} -> References]
    /\ unread = SelectSeq(RunFiles, LAMBDA r : r.kind # "iso" /\ r.defence = "")
    /\ iso_cache = <<>> /\ rows = {} /\ outs = <<>>
    /\ perm = BestPerm(class_of(reference[0]))

\* Slip: one reference for all clock starts.
RefOfFirst(g) ==
    LET cls == class_of(reference[0]) IN
    [cls |-> cls, f1 |-> macro_f1(confusion(Packets, cls, perm)), ok |-> per_flow_sum(cls_ok(cls, perm))]

iso(g) ==
    LET cls == class_of(reference[g]) IN
    [cls |-> cls, f1 |-> macro_f1(confusion(Packets, cls, perm)), ok |-> per_flow_sum(cls_ok(cls, perm))]

\* One run: its verdicts, and the flows that downgraded_flows flags.
ReadRun ==
    /\ unread # <<>>
    /\ \E run \in Runs :
       LET r == Head(unread)
           ref == IF r.grid \in DOMAIN iso_cache THEN iso_cache[r.grid] ELSE iso(r.grid)
           con == class_of(run.result)
           down == {i \in Packets : pk[i].flow \in run.flag}
           served == per_flow_sum(cls_ok(con, perm))
       IN /\ unread' = Tail(unread)
          /\ iso_cache' = [g \in DOMAIN iso_cache \cup {r.grid} |->
                              IF g = r.grid THEN ref ELSE iso_cache[g]]
          /\ rows' = rows \cup {[kind |-> r.kind, seed |-> r.seed, grid |-> r.grid, isolated |-> ref.f1,
                                 contended |-> macro_f1(confusion(Packets, con, perm)),
                                 down_flows |-> Cardinality(run.flag \cap FlowsOf), down_pkts |-> Cardinality(down),
                                 lost |-> [f \in FlowsOf |-> ref.ok[f] - served[f]],
                                 gap |-> <<macro_f1(confusion(down, ref.cls, perm)), macro_f1(confusion(down, con, perm))>>]}
          /\ outs' = [k \in DOMAIN outs \cup {r} |-> IF k = r THEN [result |-> run.result, down |-> down] ELSE outs[k]]
          /\ UNCHANGED <<pk, reference, perm>>

ReportNext == ReadRun

ReportSpec == ReportInit /\ [][ReportNext]_reportVars

\* The rows of an arm: one seed for each clock start, or many at clock start 0.
arm(kind, mode) ==
    {r \in rows : /\ r.kind = kind
                  /\ kind = "crc" \/ IF mode = "varied" THEN r.seed = r.grid \/ r.seed = -1 ELSE r.grid = 0}

\* The unkeyed runs that the rows of an arm are compared with: the one at clock
\* start 0 for the arms at a fixed clock; rows without one are dropped.
Unkeyed(r, mode) == {q \in arm("crc", "varied") : q.grid = IF mode = "fixed" THEN 0 ELSE r.grid}
Compared(kind, mode) == {r \in arm(kind, mode) : Unkeyed(r, mode) # {}}

\* An interval against a bound; the two intervals and the overlap of a third make
\* the verdict of an arm.
rule_status(lo, hi, bound) ==
    IF -bound <= lo /\ hi <= bound THEN "pass" ELSE IF lo > bound \/ hi < -bound THEN "fail" ELSE "inconclusive"

ArmVerdict(a, b, overlap) ==
    LET s == {a, b, IF overlap THEN "pass" ELSE "fail"} IN
    IF "fail" \in s THEN "changed distribution" ELSE IF s = {"pass"} THEN "neutral" ELSE "not shown neutral"

\* The counts that a resample of flows adds up.
per_flow_conf(f, cls) == confusion(PktsOf(f), cls, perm)

\* g1_netbeacon: the blocks of one second that the bootstrap draws from.
BlockSum(is, cls) ==
    [k \in (0 .. NClass - 1) \X (0 .. NClass) |->
        MapThenSumSet(LAMBDA b : confusion({i \in is : pk[i].sec = b}, cls, perm)[k],
                      {pk[i].sec : i \in is})]

\* v2_agreement: the full verdicts with those of the agreeing flows replaced;
\* num / den is the threshold.
Agreeing(full, fb, num, den) ==
    {f \in FlowsOf : Cardinality({i \in PktsOf(f) : full[i] = fb[i]}) * den >= num * Cardinality(PktsOf(f))}

Mixed(full, fb, num, den) ==
    [i \in Packets |-> IF pk[i].flow \in Agreeing(full, fb, num, den) THEN fb[i] ELSE full[i]]

-----------------------------------------------------------------------------
(* Properties.                                                             *)

\* "Every run is paired with the isolated reference at the same clock start": two
\* rows of one clock start have the same isolated score; the packets a run lost
\* are, over all flows, those that the reference of its clock start answered
\* correctly less those that the run did.
RowsUseOwnReference ==
    /\ \A r, q \in rows : r.grid = q.grid => r.isolated = q.isolated
    /\ \A r \in rows : \E k \in DOMAIN outs :
          /\ k.kind = r.kind /\ k.seed = r.seed /\ k.grid = r.grid
          /\ MapThenSumSet(LAMBDA f : r.lost[f], FlowsOf) =
                LET hits(cm) == MapThenSumSet(LAMBDA c : cm[c, c], 0 .. NClass - 1) IN
                hits(confusion(Packets, class_of(reference[r.grid]), perm))
                   - hits(confusion(Packets, class_of(outs[k].result), perm))

\* The blocks and the flows add up to the whole, so a resample that draws each of
\* them once gives the scores of the row; a run that gives every packet its isolated class has lost nothing.
BlocksAddUp ==
    \A k \in DOMAIN outs :
       LET con == class_of(outs[k].result)
           cm == confusion(outs[k].down, con, perm)
       IN /\ \A t \in 0 .. NClass - 1, c \in 0 .. NClass : /\ BlockSum(outs[k].down, con)[<<t, c>>] = cm[t, c]
                /\ MapThenSumSet(LAMBDA f : per_flow_conf(f, con)[t, c], FlowsOf) = confusion(Packets, con, perm)[t, c]
          /\ \A r \in rows :
                /\ r.kind = k.kind /\ r.seed = k.seed /\ r.grid = k.grid
                /\ con = class_of(reference[k.grid])
                => r.isolated = r.contended /\ r.gap[1] = r.gap[2] /\ \A f \in FlowsOf : r.lost[f] = 0

\* A verdict that is not given is never right: what is right in a row is no more
\* than the packets that have a verdict.
OnlyVerdictsScore ==
    \A k \in DOMAIN outs :
       LET cm == confusion(Packets, class_of(outs[k].result), perm) IN
       MapThenSumSet(LAMBDA c : cm[c, c], 0 .. NClass - 1)
          <= Cardinality({i \in Packets : outs[k].result[i] # 0})

\* The two arms of a keyed hash have one run in common, seed 0 at clock start 0;
\* an arm has one run for a clock start, or one for a seed.
ArmsOverlapInOneRun ==
    /\ \A kind \in Keyed :
          \A r \in arm(kind, "varied") \cap arm(kind, "fixed") : r.seed = 0 /\ r.grid = 0
    /\ \A kind \in Keyed \cup {"crc"} : \A r, q \in arm(kind, "varied") : r.grid = q.grid => r = q
    /\ \A kind \in Keyed : \A r, q \in arm(kind, "fixed") : r.seed = q.seed => r = q

\* At threshold 1 the replacement changes no verdict, and a lower threshold
\* replaces the verdicts of no fewer flows.
FullAgreementChangesNothing ==
    \A g, h \in DOMAIN reference :
       LET full == class_of(reference[g])  fb == class_of(reference[h]) IN
       /\ Mixed(full, fb, 1, 1) = full
       /\ Agreeing(full, fb, 1, 1) \subseteq Agreeing(full, fb, 1, 2)

\* "Rules (a) and (b) compare with the unkeyed run at the same clock": the unkeyed
\* run that a row is compared with is one run, with the same isolated score; only
\* an arm of varied clock can lose rows. A verdict that is neutral or changed
\* stays so when its intervals become narrower.
ComparedAtOneClock ==
    /\ \A kind \in Keyed, mode \in {"varied", "fixed"} :
          /\ \A r \in Compared(kind, mode) :
                \A q \in Unkeyed(r, mode) : q.grid = r.grid /\ Cardinality(Unkeyed(r, mode)) = 1
          /\ mode = "fixed" /\ arm("crc", "varied") # {} /\ Compared(kind, mode) # arm(kind, mode) =>
                \A q \in arm("crc", "varied") : q.grid # 0
    /\ \A lo \in -2 .. 1, hi \in -1 .. 2, b \in {0, 1}, o \in BOOLEAN :
          lo < hi /\ ArmVerdict(rule_status(lo, hi, b), "pass", o) # "not shown neutral" =>
             ArmVerdict(rule_status(lo, hi - 1, b), "pass", o) = ArmVerdict(rule_status(lo, hi, b), "pass", o)

ReportsAreSound ==
    /\ RowsUseOwnReference /\ BlocksAddUp /\ OnlyVerdictsScore /\ ArmsOverlapInOneRun /\ FullAgreementChangesNothing
    /\ ComparedAtOneClock
=============================================================================
