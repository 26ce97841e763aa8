----------------------------- MODULE TableSetup -----------------------------
(***************************************************************************)
(* Bringing a model to the switch: redeploy_switch.sh copies model.json,   *)
(* compiles, relaunches the switch and runs `controller.py setup`;         *)
(* `controller.py run` then clears leaf_tbl and fills it.  A compile may   *)
(* fail after the copy, setup may be killed between any two calls, and it  *)
(* is also run by hand, with leaf entries of an earlier run in place.      *)
(***************************************************************************)
EXTENDS KeyTables, FiniteSets, Sequences

CONSTANTS
    Models,         \* contents of model.json
    Boundaries,     \* of a model: feature -> its boundaries
    FeatureOrder,   \* the features of nonzero width, in the order of model.json
    K,              \* leaf entries of a run
    MaxTries,       \* attempts of setup in one redeploy; 12 in the script
    MaxChanges      \* bound: redeploys and setups by hand

VARIABLES
    file,           \* model.json on the switch's CPU
    todo,           \* calls that the running setup still has to make
    caller,         \* "script" or "hand" while setup runs, else "off"
    tries,          \* of the redeploy
    ports, port_fwd, fine, coarse, leaf_tbl,    \* the switch
    serving,        \* the model of the running controller, or "off"
    whole,          \* the model that setup reported installed, or "none"
    changes

switchVars == <<ports, port_fwd, fine, coarse, leaf_tbl>>
setupVars == <<file, todo, caller, tries, switchVars, serving, whole, changes>>

Feats == {FeatureOrder[i] : i \in DOMAIN FeatureOrder}
Hulk == "hulk"
Vision == "vision"
Nothing == [f \in Feats |-> {}]

ASSUME SetupAssumption ==
    /\ FeatureOrder \in Seq(Feats)
    /\ \A i, j \in DOMAIN FeatureOrder : FeatureOrder[i] = FeatureOrder[j] => i = j
    /\ Boundaries \in [Models -> [Feats -> SUBSET Key]] /\ "none" \notin Models

Fixed == <<"port_add", "port_fwd_del", "port_fwd_add">>
PerFeature == <<"fine_del", "coarse_del", "fine_add", "coarse_add">>

\* What setup asks of the switch, in order.
Calls ==
    [p \in 1 .. 3 + 4 * Len(FeatureOrder) |->
        IF p <= 3 THEN [op |-> Fixed[p]]
        ELSE [op |-> PerFeature[(p % 4) + 1], f |-> FeatureOrder[p \div 4]]]

SetupInit ==
    /\ file \in Models /\ todo = <<>> /\ caller = "off" /\ tries = 0
    /\ ports = {} /\ port_fwd = {} /\ fine = Nothing /\ coarse = Nothing /\ leaf_tbl = {}
    /\ serving = "off" /\ whole = "none" /\ changes = 0

Changed == changes < MaxChanges /\ changes' = changes + 1

\* model.json is copied before the compiler rejects the program.
CompileFails ==
    /\ caller = "off" /\ Changed /\ file' \in Models
    /\ UNCHANGED <<todo, caller, tries, switchVars, serving, whole>>

\* The switch restarts with empty tables; a controller that serves loses it.
Relaunch ==
    /\ caller = "off" /\ Changed /\ file' \in Models
    /\ ports' = {} /\ port_fwd' = {} /\ fine' = Nothing /\ coarse' = Nothing /\ leaf_tbl' = {}
    /\ serving' = "off" /\ whole' = "none"
    /\ caller' = "script" /\ todo' = Calls /\ tries' = 0

SetUpByHand ==
    /\ caller = "off" /\ serving = "off" /\ Changed
    /\ caller' = "hand" /\ todo' = Calls /\ whole' = "none"
    /\ UNCHANGED <<file, tries, switchVars, serving>>

\* "Object not found": the program is not registered yet.
NotRegistered ==
    /\ caller = "script" /\ todo = Calls
    /\ tries' = tries + 1
    /\ caller' = IF tries' = MaxTries THEN "off" ELSE "script"
    /\ todo' = IF tries' = MaxTries THEN <<>> ELSE Calls
    /\ UNCHANGED <<file, switchVars, serving, whole, changes>>

\* timeout 300, or an interrupt: the script sees no "static tables installed".
Killed ==
    /\ caller # "off"
    /\ caller' = "off" /\ todo' = <<>>
    /\ UNCHANGED <<file, tries, switchVars, serving, whole, changes>>

\* Slip: the entries are added to those of an earlier setup.
Kept(table, f) == table[f]

Emptied(table, f) == {}

Effect(call) ==
    \/ /\ call.op = "port_add" /\ ports' = {Hulk, Vision}
       /\ UNCHANGED <<port_fwd, fine, coarse>>
    \/ /\ call.op = "port_fwd_del" /\ port_fwd' = {}
       /\ UNCHANGED <<ports, fine, coarse>>
    \/ /\ call.op = "port_fwd_add" /\ port_fwd' = port_fwd \cup {<<Hulk, Vision>>, <<Vision, Hulk>>}
       /\ UNCHANGED <<ports, fine, coarse>>
    \/ /\ call.op = "fine_del" /\ fine' = [fine EXCEPT ![call.f] = Emptied(fine, call.f)]
       /\ UNCHANGED <<ports, port_fwd, coarse>>
    \/ /\ call.op = "coarse_del" /\ coarse' = [coarse EXCEPT ![call.f] = Emptied(coarse, call.f)]
       /\ UNCHANGED <<ports, port_fwd, fine>>
    \/ /\ call.op = "fine_add" /\ fine' = [fine EXCEPT ![call.f] = @ \cup Fine(Boundaries[file][call.f])]
       /\ UNCHANGED <<ports, port_fwd, coarse>>
    \/ /\ call.op = "coarse_add" /\ coarse' = [coarse EXCEPT ![call.f] = @ \cup Coarse(Boundaries[file][call.f])]
       /\ UNCHANGED <<ports, port_fwd, fine>>

\* The last call is followed by "static tables installed".
SetupCall ==
    /\ todo # <<>> /\ Effect(Head(todo))
    /\ todo' = Tail(todo)
    /\ IF todo' = <<>> THEN caller' = "off" /\ whole' = file ELSE UNCHANGED <<caller, whole>>
    /\ UNCHANGED <<file, tries, leaf_tbl, serving, changes>>

-----------------------------------------------------------------------------
(* The controller: leaf_tbl.entry_del, then what LeafPaging models in full. *)

Queries == [Feats -> Key]

\* A leaf of the tree is a cell of its boundaries: the number of set bits of
\* each thermometer code.
LeafOf(model, x) == [f \in Feats |-> Cardinality(CodeAt(Boundaries[model][f], x[f]))]
Entry(model, x) == [codes |-> LeafOf(model, x), answer |-> <<model, LeafOf(model, x)>>]

\* Slip: run takes the leaf table as it finds it.
LeftAlone == leaf_tbl

Cleared == {}

Run ==
    /\ caller = "off" /\ serving = "off"
    /\ serving' = file /\ leaf_tbl' = Cleared
    /\ UNCHANGED <<file, todo, caller, tries, ports, port_fwd, fine, coarse, whole, changes>>

\* A miss: the leaf of the query enters, and one leaves if there are K.
Install ==
    /\ serving # "off"
    /\ \E entry \in {Entry(serving, x) : x \in Queries}, out \in SUBSET leaf_tbl :
          /\ Cardinality(out) = (IF Cardinality(leaf_tbl) < K THEN 0 ELSE 1)
          /\ leaf_tbl' = (leaf_tbl \ out) \cup {entry}
    /\ UNCHANGED <<file, todo, caller, tries, ports, port_fwd, fine, coarse, serving, whole, changes>>

\* kill -TERM: what is installed stays.
Stopped ==
    /\ serving # "off" /\ serving' = "off"
    /\ UNCHANGED <<file, todo, caller, tries, switchVars, whole, changes>>

SetupNext ==
    \/ CompileFails \/ Relaunch \/ SetUpByHand \/ NotRegistered \/ Killed \/ SetupCall
    \/ Run \/ Install \/ Stopped

SetupSpec == SetupInit /\ [][SetupNext]_setupVars
-----------------------------------------------------------------------------
(* The switch: fine table, else coarse table, else no bit of the code.     *)

SwitchCode(f, key) ==
    LET near == {e \in fine[f] : e.bucket = key.k20 /\ e.lo <= key.k12 /\ key.k12 <= e.hi}
        far == {e \in coarse[f] : e.lo <= key.k20 /\ key.k20 <= e.hi}
    IN {Cardinality(e.code) : e \in IF near # {} THEN near ELSE far}

\* Every entry that may answer a query.
SwitchHits(x) == {e \in leaf_tbl : \A f \in Feats : e.codes[f] \in SwitchCode(f, x[f]) \cup
                                         (IF SwitchCode(f, x[f]) = {} THEN {0} ELSE {})}

\* Once setup has reported its tables installed, whatever earlier attempts,
\* failed redeploys and earlier runs left behind, they are the tables of one
\* model and the two hosts reach each other; and the controller of that model
\* never lets the switch answer a query with another leaf than the model's.
ServesOneModel ==
    /\ whole # "none" =>
          /\ \A f \in Feats : fine[f] = Fine(Boundaries[whole][f]) /\ coarse[f] = Coarse(Boundaries[whole][f])
          /\ ports = {Hulk, Vision} /\ port_fwd = {<<Hulk, Vision>>, <<Vision, Hulk>>}
    /\ serving # "off" /\ serving = whole =>
          \A x \in Queries : \A e \in SwitchHits(x) : e.answer = <<whole, LeafOf(whole, x)>>
=============================================================================
