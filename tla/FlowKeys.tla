------------------------------ MODULE FlowKeys ------------------------------
(***************************************************************************)
(* The keys by which the emulators recognise the packets of a flow         *)
(* (dgrade/netbeacon_sim.py): the tuple that is hashed into a slot, the    *)
(* memo's key and its two directions, and the key of flow_ids, by which    *)
(* results are counted.  They must agree on what one flow is, as far as    *)
(* the switch can tell.                                                    *)
(***************************************************************************)
EXTENDS Integers

CONSTANTS
    Addresses,      \* IPv4 addresses
    Ports,          \* ports
    Protos          \* protocols

ASSUME KeysAssumption == Addresses \subseteq Nat /\ Ports \subseteq Nat

\* The directional 5-tuple d5 of a packet.
FiveTuple == [src : Addresses, dst : Addresses, sp : Ports, dp : Ports, proto : Protos]

Reversed(d) == [src |-> d.dst, dst |-> d.src, sp |-> d.dp, dp |-> d.sp, proto |-> d.proto]

Lesser(m, n) == IF m < n THEN m ELSE n
Greater(m, n) == IF m < n THEN n ELSE m

\* tuple_table: each symmetric pair sorted on its own.
TupleKey(d) ==
    [a |-> Lesser(d.src, d.dst), b |-> Greater(d.src, d.dst),
     p |-> Lesser(d.sp, d.dp), q |-> Greater(d.sp, d.dp), proto |-> d.proto]

\* The two endpoints of a packet are in order, by address and then by port.
Before(m, n) == m[1] < n[1] \/ (m[1] = n[1] /\ m[2] < n[2])

\* Slip: endpoints are ordered by their addresses alone.
InOrderByAddress(d) == ~ d.dst < d.src

InOrder(d) == ~ Before(<<d.dst, d.dp>>, <<d.src, d.sp>>)

\* _canon and the key of flow_ids: the endpoints in order.
CanonKey(d) ==
    IF InOrder(d) THEN <<<<d.src, d.sp>>, <<d.dst, d.dp>>, d.proto>>
    ELSE <<<<d.dst, d.dp>>, <<d.src, d.sp>>, d.proto>>

\* The directional keys under which the memo stores a verdict.
MemoDirs(d) == {d, Reversed(d)}

\* The flow with the addresses of d and its ports exchanged.
Crossed(d) == [src |-> d.src, dst |-> d.dst, sp |-> d.dp, dp |-> d.sp, proto |-> d.proto]

-----------------------------------------------------------------------------
\* The memo answers exactly the packets that flow_ids counts to the flow, and
\* those have one slot; packets of another flow share the tuple key only if
\* they pair the same addresses and ports the other way round.
KeysAgree ==
    \A d, e \in FiveTuple :
       /\ e \in MemoDirs(d) <=> CanonKey(e) = CanonKey(d)
       /\ TupleKey(e) = TupleKey(d) <=> e \in MemoDirs(d) \cup MemoDirs(Crossed(d))
=============================================================================
