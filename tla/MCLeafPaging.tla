---------------------------- MODULE MCLeafPaging ----------------------------
(* Instances of LeafPaging for TLC: two leaves, two classes, gamma = 1/2. *)
EXTENDS LeafPaging, TLC

CONSTANTS l1, l2, c1, c2

MCKlass == (l1 :> c1 @@ l2 :> c2)

\* Workloads.  A leaf is hit, evicted and installed again.
Returning == [q \in 0 .. NumQueries - 1 |-> <<l1, l1, l2, l1>>[q + 1]]
\* Two leaves take the one place in turn.
Alternating == [q \in 0 .. NumQueries - 1 |-> <<l1, l2, l1>>[q + 1]]
\* The last leaf installed stays and is hit.
Staying == [q \in 0 .. NumQueries - 1 |-> <<l2, l1, l1>>[q + 1]]

MCGain == [q \in 0 .. NumQueries - 1 |-> 2 ^ q]
=============================================================================
