---------------------------- MODULE SlotOutcomes ----------------------------
(***************************************************************************)
(* What a stream of packets may be told by the slots of NetBeacon, clocks, *)
(* registers and rent left out: the abstract specification that            *)
(* SlotAdmission implements, and that FlowAccounting counts the outcomes   *)
(* of.  A flow that holds a slot is served from it until another flow      *)
(* takes the slot over; nothing else takes it away.                        *)
(***************************************************************************)
EXTENDS Naturals

CONSTANTS
    Flows,          \* flows
    Places          \* flow -> its candidate slots

VARIABLES
    holder,         \* slot -> {} if never claimed, else the set of the one flow it holds
    known,          \* the flows in the controller's memo
    packet          \* the packet just handled: [flow, slot, outcome]

outcomeVars == <<holder, known, packet>>

Silence == [outcome |-> "none"]
Told(f, s, o) == [flow |-> f, slot |-> s, outcome |-> o]

Holds(f, s) == holder[s] = {f}
Homeless(f) == f \notin known /\ \A s \in Places[f] : ~ Holds(f, s)

Rejected(f, s) == packet' = Told(f, s, "rejected") /\ UNCHANGED <<holder, known>>

FromMemo(f, s) ==
    /\ f \in known
    /\ packet' = Told(f, s, "memo")
    /\ UNCHANGED <<holder, known>>

FromSlot(f, s) ==
    /\ f \notin known /\ Holds(f, s)
    /\ packet' = Told(f, s, "owner")
    /\ UNCHANGED <<holder, known>>

Refused(f, s, o) ==
    /\ Homeless(f)
    /\ o = "collision" => holder[s] # {}
    /\ o = "empty" => \A t \in Places[f] : holder[t] = {}
    /\ packet' = Told(f, s, o)
    /\ UNCHANGED <<holder, known>>

TakesOver(f, s) ==
    /\ Homeless(f)
    /\ holder' = [holder EXCEPT ![s] = {f}]
    /\ packet' = Told(f, s, "new_owner")
    /\ UNCHANGED known

\* Between packets the memo learns a flow and may forget others.
Learns ==
    /\ \E f \in Flows : \E kept \in SUBSET known : known' = kept \cup {f}
    /\ packet' = Silence
    /\ UNCHANGED holder

Waits == packet' = Silence /\ UNCHANGED <<holder, known>>

Answers(f, s) ==
    \/ Rejected(f, s) \/ FromMemo(f, s) \/ FromSlot(f, s) \/ TakesOver(f, s)
    \/ \E o \in {"short", "collision", "empty"} : Refused(f, s, o)

OutcomesInit ==
    /\ holder = [s \in UNION {Places[f] : f \in Flows} |-> {}]
    /\ known = {}
    /\ packet = Silence

OutcomesNext == Learns \/ Waits \/ \E f \in Flows : \E s \in Places[f] : Answers(f, s)

OutcomesSpec == OutcomesInit /\ [][OutcomesNext]_outcomeVars
=============================================================================
