--------------------------- MODULE MCSlotAdmission ---------------------------
(* Instances of SlotAdmission for TLC: three flows, scaled-down clock.       *)
EXTENDS SlotAdmission, TLC

CONSTANTS f1, f2, f3, a1, a2, b1, b2

MCHashOf == Restrict(f1 :> 1 @@ f2 :> 2 @@ f3 :> 3, Flows)

\* One slot for all flows, or one slot each.
OneSlot == [f \in Flows |-> a1]
OwnSlots == Restrict(f1 :> a1 @@ f2 :> a2, Flows)

\* Two tables: all flows share slot a1; in table B all of them share b1, or
\* the third has b2 to itself.
OneSlotB == [f \in Flows |-> b1]
SharedB == Restrict(f1 :> b1 @@ f2 :> b1 @@ f3 :> b2, Flows)
=============================================================================
