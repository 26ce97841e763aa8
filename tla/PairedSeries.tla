----------------------------- MODULE PairedSeries -----------------------------
(***************************************************************************)
(* The reports over draws (clock starts) that are read while jobs of the   *)
(* grid still finish: g6_mawi_report.py pairs the four runs of a draw for  *)
(* every arm and load, with an interval over draws and one over flows, and *)
(* g4_diagnose.py splits the excess of an arm into refused and displaced   *)
(* flows. A result file appears whole, by the rename at the end of a job.  *)
(***************************************************************************)
EXTENDS Integers, SequencesExt, FiniteSetsExt

CONSTANTS
    Clocks,         \* the draws
    Arms,           \* defended arms, in the order of the report
    Loads,          \* loads of the fill, in order
    KeepFlows,      \* loads whose flags are kept for the interval over flows
    Flows,
    Outcomes,       \* what the runs may be: functions from runs to [flag, first]
    MaxLate         \* bound on the runs that are missing when the report starts

SeriesAssumption == 0 \notin ToSet(Loads) /\ "" \notin ToSet(Arms) /\ KeepFlows \subseteq ToSet(Loads)

VARIABLES
    report,         \* "mawi" or "diagnose"
    result, done,   \* the outcome of each run, the runs whose files are there
    early,          \* those that were there when the report started
    memo, perflow,  \* what stats has returned, flags kept by it
    todo,           \* what is left to compute: [f, arm, g], and at g = 0 the row of the arm
    rows            \* by load and arm, the rows of series with their draws

seriesVars == <<report, result, done, early, memo, perflow, todo, rows>>

Runs == {[f |-> f, arm |-> a, g |-> g] : f \in ToSet(Loads) \cup {0}, a \in ToSet(Arms) \cup {""}, g \in 1 .. Clocks}
At(f, a, g) == [f |-> f, arm |-> a, g |-> g]

\* The runs of a draw: undefended with and without fill, defended with and without.
Needed(f, a, g) == <<At(f, "", g), At(0, "", g), At(f, a, g), At(0, a, g)>>

Missing == [found |-> FALSE, flag |-> {}]

\* Slip: a run that was missing is looked for again.
StatsAgain(k) ==
    IF k \in DOMAIN memo /\ memo[k].found THEN memo[k]
    ELSE IF k \in done THEN [found |-> TRUE, flag |-> result[k].flag] ELSE Missing

stats(k) ==
    IF k \in DOMAIN memo THEN memo[k]
    ELSE IF k \in done THEN [found |-> TRUE, flag |-> result[k].flag] ELSE Missing

\* By load, arm and draw; a step for each run of a draw, and one for the arm.
Steps ==
    LET draws(f, a) == FlattenSeq([g \in 1 .. Clocks |-> [n \in 1 .. 4 |-> [f |-> f, arm |-> a, run |-> Needed(f, a, g)[n]]]])
                       \o <<[f |-> f, arm |-> a, run |-> Missing]>>
    IN FlattenSeq([l \in DOMAIN Loads |-> FlattenSeq([n \in DOMAIN Arms |-> draws(Loads[l], Arms[n])])])

SeriesInit ==
    /\ report \in {"mawi", "diagnose"}
    /\ result \in Outcomes
    /\ \E late \in UNION {kSubset(n, Runs) : n \in 0 .. MaxLate} : done = Runs \ late
    /\ early = done
    /\ memo = <<>> /\ perflow = <<>> /\ rows = <<>>
    /\ todo = IF report = "mawi" THEN Steps
              ELSE FlattenSeq([g \in 1 .. Clocks |-> [n \in DOMAIN (<<"">> \o Arms) |->
                                  [f |-> Loads[1], arm |-> (<<"">> \o Arms)[n], run |-> At(Loads[1], (<<"">> \o Arms)[n], g)]]])

JobDone ==
    /\ \E k \in Runs \ done : done' = done \cup {k}
    /\ UNCHANGED <<report, result, early, memo, perflow, todo, rows>>

\* stats of one run; the outcome array is freed.
ReadStats ==
    /\ report = "mawi" /\ todo # <<>> /\ Head(todo).run # Missing
    /\ LET k == Head(todo).run IN
       /\ memo' = [j \in DOMAIN memo \cup {k} |-> IF j = k THEN stats(k) ELSE memo[j]]
       /\ perflow' = IF k \notin DOMAIN memo /\ stats(k).found /\ k.f \in KeepFlows \cup {0}
                     THEN [j \in DOMAIN perflow \cup {k} |-> IF j = k THEN stats(k).flag ELSE perflow[j]]
                     ELSE perflow
    /\ todo' = Tail(todo)
    /\ UNCHANGED <<report, result, done, early, rows>>

Count(k) == Cardinality(stats(k).flag)

\* The draws that have every run, with their excess under both arms, the benign
\* gain and the excess against the undefended run.
series(f, a) ==
    LET whole == SetToSortSeq({g \in 1 .. Clocks : \A n \in 1 .. 4 : stats(Needed(f, a, g)[n]).found}, <)
        row(g) == LET v == [n \in 1 .. 4 |-> Count(Needed(f, a, g)[n])] IN
                  [g |-> g, und |-> v[1] - v[2], arm |-> v[3] - v[4], gain |-> v[2] - v[4], g4 |-> v[3] - v[2]]
    IN [n \in DOMAIN whole |-> row(whole[n])]

\* For each draw with every run, the change of each flow; a run whose flags were
\* not kept would raise.
flow_cluster(f, a) ==
    LET whole == SetToSortSeq({g \in 1 .. Clocks : \A n \in 1 .. 4 : stats(Needed(f, a, g)[n]).found}, <)
        diff(x, y) == [w \in Flows |-> (IF w \in perflow[x] THEN 1 ELSE 0) - (IF w \in perflow[y] THEN 1 ELSE 0)]
        kept(g) == \A n \in 1 .. 4 : Needed(f, a, g)[n] \in DOMAIN perflow
    IN [n \in DOMAIN whole |->
           LET need == Needed(f, a, whole[n]) IN
           [g |-> whole[n], raises |-> ~kept(whole[n]),
            und |-> IF kept(whole[n]) THEN diff(need[1], need[2]) ELSE <<>>,
            arm |-> IF kept(whole[n]) THEN diff(need[3], need[4]) ELSE <<>>]]

ReportArm ==
    /\ report = "mawi" /\ todo # <<>> /\ Head(todo).run = Missing
    /\ LET f == Head(todo).f  a == Head(todo).arm IN
       rows' = [k \in DOMAIN rows \cup {<<f, a>>} |->
                   IF k = <<f, a>> THEN [series |-> series(f, a),
                                         flows |-> IF f \in KeepFlows THEN flow_cluster(f, a) ELSE <<>>]
                   ELSE rows[k]]
    /\ todo' = Tail(todo)
    /\ UNCHANGED <<report, result, done, early, memo, perflow>>

\* g4_diagnose: the flows that are downgraded and were not without fill, by the
\* outcome of their first packet; the undefended run is the first arm of a draw,
\* and its files decide whether the draw is read at all.
Excess(k) ==
    LET ex == result[k].flag \ result[At(0, "", k.g)].flag IN
    [g |-> k.g, excess |-> ex, refused |-> {w \in ex : result[k].first[w] = 3},
     displaced |-> {w \in ex : result[k].first[w] \in {1, 2}}]

Diagnose ==
    /\ report = "diagnose" /\ todo # <<>>
    /\ LET k == Head(todo).run
           und == IF <<k.f, "">> \in DOMAIN rows THEN rows[<<k.f, "">>] ELSE <<>>
           old == IF <<k.f, k.arm>> \in DOMAIN rows THEN rows[<<k.f, k.arm>>] ELSE <<>>
           read == IF k.arm = "" THEN {k, At(0, "", k.g)} \subseteq done
                   ELSE k \in done /\ \E n \in DOMAIN und : und[n].g = k.g
       IN rows' = IF ~read THEN rows
                  ELSE [j \in DOMAIN rows \cup {<<k.f, k.arm>>} |->
                           IF j = <<k.f, k.arm>> THEN Append(old, Excess(k)) ELSE rows[j]]
    /\ todo' = Tail(todo)
    /\ UNCHANGED <<report, result, done, early, memo, perflow>>

SeriesNext == JobDone \/ ReadStats \/ ReportArm \/ Diagnose

SeriesSpec == SeriesInit /\ [][SeriesNext]_seriesVars
-----------------------------------------------------------------------------
(* Properties.                                                             *)

\* "Paired by draw": whatever finishes meanwhile, the interval over flows is over
\* the draws of the row, it finds the flags of all their runs, and the changes of
\* the flows add up to the excess of the row; all arms that have a draw measure it
\* against one undefended excess.
ArmsArePaired ==
    report = "mawi" =>
       /\ \A k \in DOMAIN rows : k[1] \in KeepFlows =>
             /\ [n \in DOMAIN rows[k].series |-> rows[k].series[n].g] = [n \in DOMAIN rows[k].flows |-> rows[k].flows[n].g]
             /\ \A n \in DOMAIN rows[k].flows :
                   /\ ~rows[k].flows[n].raises
                   /\ MapThenSumSet(LAMBDA w : rows[k].flows[n].und[w], Flows) = rows[k].series[n].und
                   /\ MapThenSumSet(LAMBDA w : rows[k].flows[n].arm[w], Flows) = rows[k].series[n].arm
       /\ \A k, j \in DOMAIN rows : k[1] = j[1] =>
             \A n \in DOMAIN rows[k].series, m \in DOMAIN rows[j].series :
                rows[k].series[n].g = rows[j].series[m].g => rows[k].series[n].und = rows[j].series[m].und

\* The rows of two arms, which the equivalence test compares by position, are of
\* one draw at one position if all runs were done when the report started.
PositionsArePaired ==
    report = "mawi" /\ early = Runs =>
       \A k, j \in DOMAIN rows : k[1] = j[1] =>
          \A n \in DOMAIN rows[k].series \cap DOMAIN rows[j].series : rows[k].series[n].g = rows[j].series[n].g

\* g4_diagnose compares by position the arms that have as many draws as the
\* undefended run: these are its draws; a flow is refused or displaced, not both.
ExcessIsSplit ==
    report = "diagnose" /\ todo = <<>> =>
       \A k \in DOMAIN rows :
          /\ <<k[1], "">> \in DOMAIN rows
          /\ Len(rows[k]) = Len(rows[<<k[1], "">>]) => \A n \in DOMAIN rows[k] : rows[k][n].g = rows[<<k[1], "">>][n].g
          /\ \A n \in DOMAIN rows[k] : rows[k][n].refused \cap rows[k][n].displaced = {}

PairsAreSound == ArmsArePaired /\ PositionsArePaired /\ ExcessIsSplit
=============================================================================
