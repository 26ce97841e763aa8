----------------------------- MODULE BatchParts -----------------------------
(***************************************************************************)
(* The overnight sweeps: experiments/overnight.sh runs one process per     *)
(* unit (split mode and seed), several at a time, each with a timeout and  *)
(* three attempts; a unit's process (w3_locality.py, w4_cache.py) leaves a *)
(* part file with another beside it (.drift or .hourly), and --merge puts  *)
(* the parts together.  A process may die between any two steps and the    *)
(* machine may go down; "re-running this script resumes where it stopped". *)
(* One driver runs at a time: two would share the names of the .tmp files. *)
(***************************************************************************)
EXTENDS Naturals, FiniteSets

CONSTANTS
    Units,          \* the units of the sweep
    WithSide,       \* those that leave a file beside the part
    Jobs,           \* JOBS, the processes at a time
    Attempts,       \* attempts per unit
    MaxReboots      \* bound on how often the machine goes down

ASSUME BatchAssumption ==
    WithSide \subseteq Units /\ Jobs \in Nat \ {0} /\ Attempts \in Nat \ {0}

VARIABLES
    part, side, tmp,        \* files: "none", "half" (being written) or "whole"
    at,                     \* where the shell or the process of a unit is
    tried,                  \* attempts made
    sweep,                  \* "units", then "merged" or "failed"
    merged,                 \* the units and sides in the merged files
    reboots

fileVars == <<part, side, tmp>>
batchVars == <<fileVars, at, tried, sweep, merged, reboots>>

Process == {"started", "side", "sided", "tmp", "written"}
Busy == {u \in Units : at[u] \in Process \cup {"shell"}}

BatchInit ==
    /\ part = [u \in Units |-> "none"] /\ side = part /\ tmp = part
    /\ at = [u \in Units |-> "queued"] /\ tried = [u \in Units |-> 0]
    /\ sweep = "units" /\ merged = {} /\ reboots = 0

Moves(u, from, to) == at[u] = from /\ at' = [at EXCEPT ![u] = to]

-----------------------------------------------------------------------------
(* overnight.sh: xargs and run_unit.                                       *)

Takes(u) ==
    /\ sweep = "units" /\ Cardinality(Busy) < Jobs /\ Moves(u, "queued", "shell")
    /\ UNCHANGED <<fileVars, tried, sweep, merged, reboots>>

\* The part exists: nothing to do.
Has(u) ==
    /\ part[u] # "none" /\ Moves(u, "shell", "ok")
    /\ UNCHANGED <<fileVars, tried, sweep, merged, reboots>>

Attempt(u) ==
    /\ part[u] = "none" /\ tried[u] < Attempts /\ Moves(u, "shell", "started")
    /\ tried' = [tried EXCEPT ![u] = @ + 1]
    /\ UNCHANGED <<fileVars, sweep, merged, reboots>>

Exhausted(u) ==
    /\ part[u] = "none" /\ tried[u] = Attempts /\ Moves(u, "shell", "lost")
    /\ UNCHANGED <<fileVars, tried, sweep, merged, reboots>>

\* A crash, the OOM killer, a failed check or the timeout ends the process.
Dies(u) ==
    /\ at[u] \in Process /\ at' = [at EXCEPT ![u] = "shell"]
    /\ UNCHANGED <<fileVars, tried, sweep, merged, reboots>>

-----------------------------------------------------------------------------
(* The process of a unit: the file beside the part, then the .tmp file,    *)
(* then the rename.                                                        *)

\* Slip: the .tmp file is written first, and the rename follows it.
TmpFirst(u) == at[u] \in {"started", "sided"}

MayWriteTmp(u) == at[u] = "sided" \/ (at[u] = "started" /\ u \notin WithSide)

OpensSide(u) ==
    /\ u \in WithSide /\ Moves(u, "started", "side") /\ side' = [side EXCEPT ![u] = "half"]
    /\ UNCHANGED <<part, tmp, tried, sweep, merged, reboots>>

ClosesSide(u) ==
    /\ Moves(u, "side", "sided") /\ side' = [side EXCEPT ![u] = "whole"]
    /\ UNCHANGED <<part, tmp, tried, sweep, merged, reboots>>

OpensTmp(u) ==
    /\ MayWriteTmp(u) /\ at' = [at EXCEPT ![u] = "tmp"] /\ tmp' = [tmp EXCEPT ![u] = "half"]
    /\ UNCHANGED <<part, side, tried, sweep, merged, reboots>>

ClosesTmp(u) ==
    /\ Moves(u, "tmp", "written") /\ tmp' = [tmp EXCEPT ![u] = "whole"]
    /\ UNCHANGED <<part, side, tried, sweep, merged, reboots>>

Renames(u) ==
    /\ Moves(u, "written", "shell")
    /\ part' = [part EXCEPT ![u] = tmp[u]] /\ tmp' = [tmp EXCEPT ![u] = "none"]
    /\ UNCHANGED <<side, tried, sweep, merged, reboots>>

-----------------------------------------------------------------------------
\* Slip: the parts that are there are merged.
AnyPart == \E u \in Units : part[u] # "none"

AllParts == \A u \in Units : part[u] # "none"

\* --merge fails if a part is missing; it takes the sides that exist.
Merge ==
    /\ sweep = "units" /\ \A u \in Units : at[u] \in {"ok", "lost"}
    /\ IF AllParts
       THEN /\ sweep' = "merged"
            /\ merged' = {<<u, part[u], side[u]>> : u \in {v \in Units : part[v] # "none"}}
       ELSE sweep' = "failed" /\ merged' = merged
    /\ UNCHANGED <<fileVars, at, tried, reboots>>

\* The machine goes down, and the script is run again.
Reruns ==
    /\ reboots < MaxReboots /\ reboots' = reboots + 1
    /\ at' = [u \in Units |-> "queued"] /\ tried' = [u \in Units |-> 0]
    /\ sweep' = "units"
    /\ UNCHANGED <<fileVars, merged>>

BatchNext ==
    \/ \E u \in Units :
          \/ Takes(u) \/ Has(u) \/ Attempt(u) \/ Exhausted(u) \/ Dies(u)
          \/ OpensSide(u) \/ ClosesSide(u) \/ OpensTmp(u) \/ ClosesTmp(u) \/ Renames(u)
    \/ Merge
    \/ Reruns

BatchSpec == BatchInit /\ [][BatchNext]_batchVars
-----------------------------------------------------------------------------
(* Properties.                                                             *)

\* "Atomic: a part file exists only when complete", and so is the file beside
\* it, whatever dies when; a unit that is skipped has therefore left both.
PartsAreWhole ==
    \A u \in Units : part[u] # "none" => part[u] = "whole" /\ (u \in WithSide => side[u] = "whole")

\* "--merge combines the parts (fails if any is missing)": a sweep that is done
\* has merged every unit, with what was left beside it, even if units were lost
\* in one run of the script and found in the next.
MergedIsComplete ==
    sweep = "merged" => merged = {<<u, "whole", IF u \in WithSide THEN "whole" ELSE "none">> : u \in Units}
=============================================================================
