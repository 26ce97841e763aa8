----------------------------- MODULE MCTofinoSim -----------------------------
(* Instances of TofinoSim for TLC.                                           *)
EXTENDS TofinoSim, TLC

CONSTANTS f1, f2, f3, a1, b1, b2

MCHashOf == Restrict(f1 :> 1 @@ f2 :> 2 @@ f3 :> 3, Flows)
OneSlot == [f \in Flows |-> a1]
OneSlotB == [f \in Flows |-> b1]
SharedB == Restrict(f1 :> b1 @@ f2 :> b1 @@ f3 :> b2, Flows)
=============================================================================
