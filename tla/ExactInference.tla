--------------------------- MODULE ExactInference ---------------------------
(***************************************************************************)
(* What MVM-Lite promises to the host that asks: a query is answered at    *)
(* most once, and its answer is the decision of the one tree of the        *)
(* deployment, whoever computed it (a leaf entry in the switch or the CPU  *)
(* backend).  Nothing here speaks of tables, digests or threads.           *)
(***************************************************************************)
CONSTANTS
    Qids,       \* query identifiers
    LeafOf,     \* the leaf of the tree that each query reaches
    Klass       \* the class of each leaf

VARIABLES
    asked,      \* the queries the host has sent
    answer      \* the record it keeps for each query, NoAnswer until then

vars == <<asked, answer>>

NoAnswer == [leaf |-> "none", klass |-> "none"]
TreeAnswer(q) == [leaf |-> LeafOf[q], klass |-> Klass[LeafOf[q]]]

Init ==
    /\ asked = {}
    /\ answer = [q \in Qids |-> NoAnswer]

Ask(q) ==
    /\ q \notin asked
    /\ asked' = asked \cup {q}
    /\ UNCHANGED answer

Answer(q) ==
    /\ q \in asked
    /\ answer[q] = NoAnswer
    /\ answer' = [answer EXCEPT ![q] = TreeAnswer(q)]
    /\ UNCHANGED asked

Next == \E q \in Qids : Ask(q) \/ Answer(q)

Spec == Init /\ [][Next]_vars

\* With no frame lost, every query that was asked is answered.
FairSpec == Spec /\ \A q \in Qids : WF_vars(Answer(q))
=============================================================================
