----------------------------- MODULE MCArmRuns -----------------------------
(***************************************************************************)
(* One capture of three packets that spans two rotations.                  *)
(***************************************************************************)
EXTENDS ArmRuns

MCCaptures == {<<[ts |-> 0, flow |-> 0], [ts |-> 2, flow |-> 1], [ts |-> 11, flow |-> 0]>>}

MCWords == {[i \in 1 .. 40 |-> (a * i * i + i) % 7] : a \in {0, 3}}

HoldersOnly == {"fill"}
=============================================================================
