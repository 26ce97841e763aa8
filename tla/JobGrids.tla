------------------------------ MODULE JobGrids ------------------------------
(***************************************************************************)
(* The grid of runs behind the G6 and G8 reports: the job lists and their  *)
(* pairing check (scripts/g6_jobs.py, run_g6.sh), the settings that the    *)
(* runners give the emulator for a job (g2_mawi.py, g2b_mawi.py,           *)
(* g5_peerrush.py, g8_*.py, dgrade/defences.py), and the rows that the     *)
(* reports make of the results (g6_mawi_report.py, g6_pr_report.py).       *)
(*                                                                         *)
(* A job is the record of what its name says; a result file is the job     *)
(* that wrote it.  arm "und" is the undefended table, f = 0 no holders.    *)
(***************************************************************************)
EXTENDS Integers, FiniteSets

CONSTANTS
    C3,             \* the clock starts of the primary tests: range(30)
    C10,            \* those of the secondary tests: range(10)
    C10x3,          \* every third of C3
    C25             \* the clock starts that G5 has run at f = 25

ASSUME GridAssumption == C10 \subseteq C3 /\ C10x3 \subseteq C3 /\ C25 \subseteq C3 /\ C3 \subseteq 0 .. 999

VARIABLES
    have,           \* the result files
    ran,            \* the lists that have been run
    failed          \* jobs whose last attempt failed (g6_failed.txt)

gridVars == <<have, ran, failed>>

Job(day, gate, f, g, arm, n) == [day |-> day, gate |-> gate, f |-> f, g |-> g, arm |-> arm, n |-> n]

\* base and atk of each clock start in C, without holders and with f percent.
Pair(day, f, C, arm, n) == {Job(day, "oracle", x, g, arm, n) : x \in {0, f}, g \in C}

Full == 65536
FixedBudget == {<<32768, 20>>, <<16384, 40>>, <<8192, 80>>}

MawiJobs ==
    Pair("p", 10, C3, "d4", Full)
    \cup {Job("p", "oracle", f, g, "d4", Full) : f \in {25, 50}, g \in C10}
    \cup Pair("r", 10, C10, "d4", Full) \cup Pair("r", 25, C10, "d4", Full)
    \cup (UNION {Pair("p", 10, C3, arm, Full) : arm \in {"d5", "d4s"}})
    \cup (UNION {Pair("p", 10, C10, arm, n) : arm \in {"und", "d4"}, n \in {32768, 16384, 8192}})

Mawi2Jobs ==
    {Job("p", "oracle", b[2], g, arm, b[1]) : b \in FixedBudget, g \in C10, arm \in {"und", "d4"}}
    \cup {Job("p", "model", 10, g, arm, Full) : g \in C10, arm \in {"und", "d4"}}
    \cup {Job("p", "model", 0, g, "d4", Full) : g \in C10}
    \cup Pair("r", 10, C10, "d4s", Full)
    \cup Pair("p", 5, C3 \ C10, "und", 131072) \cup Pair("r", 5, C10, "und", 131072)
    \cup Pair("p", 10, C3, "d4a", Full)

Mawi3Jobs == Pair("p", 10, C3, "d4c", Full) \cup Pair("r", 10, C10, "d4c", Full)

Mawi4Jobs ==
    UNION {Pair("p", 10, C10, arm, Full) \cup (UNION {Pair("p", b[2], C10, arm, b[1]) : b \in FixedBudget})
           : arm \in {"d4d1", "d4age"}}

Mawi5Jobs == UNION {Pair("p", b[2], C10, "d4c", b[1]) : b \in FixedBudget}

PrJob(f, arm, g) == Job("pr", "model", f, g, arm, 8192)

PrJobs ==
    {PrJob(25, "und", g) : g \in C3 \ (C10 \cup C25)}
    \cup {PrJob(f, "d4", g) : f \in {0, 10, 25}, g \in C3}
    \cup {PrJob(f, "d4s", g) : f \in {0, 10, 25}, g \in C10x3}
    \cup {PrJob(f, "d5", g) : f \in {0, 10}, g \in C10x3}

Lists == [mawi |-> MawiJobs, mawi2 |-> Mawi2Jobs, mawi3 |-> Mawi3Jobs, mawi4 |-> Mawi4Jobs,
          mawi5 |-> Mawi5Jobs, pr |-> PrJobs]

\* Results of the gates before: G2, G2b, the doubled table, G5 on PeerRush.
EarlierResults ==
    {Job(day, "oracle", f, g, "und", Full) : day \in {"p", "r"}, f \in {0, 10, 50}, g \in C3}
    \cup {Job(day, "oracle", 25, g, "und", Full) : day \in {"p", "r"}, g \in C10}
    \cup {Job("p", "model", 0, g, "und", Full) : g \in C10}
    \cup Pair("p", 5, C10, "und", 131072)
    \cup {PrJob(f, "und", g) : f \in {0, 10}, g \in C3} \cup {PrJob(25, "und", g) : g \in C10 \cup C25}

-----------------------------------------------------------------------------
(* The pairing check and the workers.                                      *)

Defended(jobs) == {x \in jobs : x.arm # "und" /\ x.f > 0}

Undefended(x) == [x EXCEPT !.arm = "und"]
NoHolders(x) == [x EXCEPT !.f = 0]

\* Slip: only the run without holders is asked for.
WithoutHolders(x) == {NoHolders(x)}

\* "An undefended partner and a no-attack partner of the same arm"; the check
\* of the PeerRush list asks for the undefended one without holders as well.
Partners(x) ==
    {Undefended(x), NoHolders(x)} \cup (IF x.day = "pr" THEN {NoHolders(Undefended(x))} ELSE {})

Check(jobs) == \A x \in Defended(jobs) : Partners(x) \subseteq have \cup jobs

\* One list: its check, then every job that has no result yet; one may fail.
RunList(kind) ==
    /\ Check(Lists[kind])
    /\ \E lost \in {{}} \cup {{x} : x \in Lists[kind] \ have} :
          /\ Cardinality(lost \cup (failed \ Lists[kind])) <= 1
          /\ have' = have \cup (Lists[kind] \ lost)
          /\ failed' = (failed \ Lists[kind]) \cup lost
    /\ ran' = ran \cup {kind}

GridInit == have = EarlierResults /\ ran = {} /\ failed = {}

GridSpec == GridInit /\ [][\E kind \in DOMAIN Lists : RunList(kind)]_gridVars

-----------------------------------------------------------------------------
(* The settings of a run; draw is the seed of its holders, if it has any.  *)

\* defence_kwargs: the keyword arguments that the shipped design lacks.
DefenceKwargs(arm) ==
    LET fixed == arm \in {"d4d1", "d4age"} IN
    [two_way |-> arm # "und",
     policy |-> IF fixed \/ arm = "d4c" THEN "unclaimed_first" ELSE IF arm = "d4a" THEN "a_first" ELSE "idle",
     wrap_window |-> ~ fixed,
     rent |-> IF arm = "d4age" THEN "age" ELSE "none"]

\* What run refuses before it starts.
Accepted(kw, n, two) ==
    /\ kw.two_way => /\ n % 2 = 0 /\ two
                     /\ kw.rent # "none" => ~ kw.wrap_window
                     /\ kw.policy \in {"idle", "a_first", "unclaimed_first"}

\* Slip: the arms of addendum 3 are not in the list.
TwoBeforeAddendum(arm) == arm \in {"d4", "d5", "d4s", "d4a", "d4c"}

Two(arm) == arm \in {"d4", "d5", "d4s", "d4a", "d4c", "d4d1", "d4age"}

\* Slip: the fill is not part of the seed of the second hash's generator.
DrawByClock(f, g) == g

Draw(f, g) == 1000 * f + g

\* The seed of the second hash of a draw.
DrawSeed(g) == 900000 + g

SecondHash(arm, g) == IF arm = "d4" THEN 7919 ELSE DrawSeed(g)

\* The second hash of D5 when it is redrawn, in epoch e of the capture.
RekeyedHash(e, g) == 900000 + 1000 * e + g

\* g2_mawi.py: a job without holders.
RunWithoutHolders(x) == [two |-> Two(x.arm), clock |-> x.g, hash2 |-> SecondHash(x.arm, x.g), draw |-> {}]

\* g2b_mawi.py, g5_peerrush.py: a job with holders.
RunWithHolders(x) == [RunWithoutHolders(x) EXCEPT !.draw = {Draw(x.f, x.g)}]
RunPeerRush(x) == IF x.f > 0 THEN RunWithHolders(x) ELSE RunWithoutHolders(x)

Settings(x) ==
    IF x.day = "pr" THEN RunPeerRush(x) ELSE IF x.f > 0 THEN RunWithHolders(x) ELSE RunWithoutHolders(x)

\* g8_mawi.py, g8_peerrush.py: a job on the compiled program.
RunCompiled(x) ==
    LET common == [two |-> x.arm = "d4c", clock |-> x.g, hash2 |-> DrawSeed(x.g), draw |-> {}]
    IN IF x.f > 0 THEN [common EXCEPT !.draw = {Draw(x.f, x.g)}] ELSE common

RunCompiledPeerRush(x) == [RunCompiled(x) EXCEPT !.hash2 = SecondHash(x.arm, x.g)]

Compiled(x) == IF x.day = "pr" THEN RunCompiledPeerRush(x) ELSE RunCompiled(x)

-----------------------------------------------------------------------------
(* Properties.                                                             *)

\* The four runs of a row of series and of avail.
RowNeeds(x) == {x, Undefended(x), NoHolders(x), NoHolders(Undefended(x))}

Draws(day, f, arm) == {g \in C3 : RowNeeds(Job(day, "oracle", f, g, arm, Full)) \subseteq have}

\* In whatever order the lists are run and run again, no row of a report lacks
\* a run that no worker was asked for, and the arms that are compared by
\* position (D4, D5, D4s) have the same draws when nothing failed.
RowsAreComplete ==
    /\ \A kind \in ran : \A x \in Defended(Lists[kind]) : RowNeeds(x) \ have \subseteq failed
    /\ failed = {} => Draws("p", 10, "d5") = Draws("p", 10, "d4s")
    /\ failed = {} /\ "mawi" \in ran => Draws("p", 10, "d5") = Draws("p", 10, "d4")

\* The runs of a row differ in what is compared and in nothing else: the clock,
\* the draw of the holders and the second hash of an arm are the same, also on
\* the compiled program.  Two draws are never the same; nor is a key of D5, from
\* draw to draw and epoch to epoch.
RowsArePaired ==
    \A kind \in ran : \A x \in Defended(Lists[kind]) :
       /\ \A y \in RowNeeds(x) : Settings(y).clock = Settings(x).clock
       /\ Settings(Undefended(x)).draw = Settings(x).draw
       /\ Settings(NoHolders(x)).hash2 = Settings(x).hash2
       /\ \A y \in Defended(Lists[kind]) : Settings(x).draw = Settings(y).draw => x.f = y.f /\ x.g = y.g
       /\ \A y \in {[x EXCEPT !.arm = "d4c"], Undefended(x)} : Compiled(y) = Settings(y)
       /\ x.arm = "d5" =>
             /\ SecondHash(x.arm, x.g) = RekeyedHash(0, x.g)
             /\ \A g \in C3, e \in 0 .. 24 : RekeyedHash(e, g) = RekeyedHash(0, x.g) => g = x.g /\ e = 0

\* The emulator takes every job of every list, and with the number of tables
\* that the runner has computed slots for.
RunnersAreAccepted ==
    \A kind \in ran : \A x \in Lists[kind] :
       /\ Accepted(DefenceKwargs(x.arm), x.n, Settings(x).two)
       /\ Settings(x).two <=> DefenceKwargs(x.arm).two_way
=============================================================================
