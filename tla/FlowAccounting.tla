--------------------------- MODULE FlowAccounting ---------------------------
(***************************************************************************)
(* How the outcomes of a run are counted per flow: flow_ids and summarize  *)
(* (dgrade/netbeacon_sim.py) and the vectorised downgraded_flows           *)
(* (dgrade/flowstats.py), on the log of what SlotOutcomes tells each       *)
(* packet.  A flow of the results is a stretch of packets of one key with  *)
(* no pause longer than idle_ns, while a slot knows nothing of pauses.     *)
(***************************************************************************)
EXTENDS SlotOutcomes, Sequences, FiniteSetsExt

CONSTANTS
    IdleNs,         \* idle_ns
    Pauses,         \* the times that pass between two packets of the stream
    MaxLog          \* bound on the length of the log

ASSUME AccountAssumption == IdleNs \in Nat /\ Pauses \subseteq Nat

VARIABLE log        \* the packets handled: [flow, slot, outcome, ts, long]

accountVars == <<outcomeVars, log>>

-----------------------------------------------------------------------------
(* flow_ids.                                                               *)

Earlier(i) == {j \in 1 .. i - 1 : log[j].flow = log[i].flow}

\* A packet starts a flow if its key is new or after a pause.
StartsFlow(i) == Earlier(i) = {} \/ log[i].ts - log[Max(Earlier(i))].ts > IdleNs

\* The flow of a packet, named by the packet that starts it.
flow_ids ==
    LET fid[i \in DOMAIN log] == IF StartsFlow(i) THEN i ELSE fid[Max(Earlier(i))] IN fid

PacketsOf(fid) == LET ids == flow_ids IN {i \in DOMAIN log : ids[i] = fid}
FlowIds == LET ids == flow_ids IN {ids[i] : i \in DOMAIN log}

-----------------------------------------------------------------------------
(* summarize.                                                              *)

Outcome(is, os) == {i \in is : log[i].outcome \in os}

Owned(is) == Outcome(is, {"new_owner", "owner"})

\* Rejected packets are left out, after the flow ids are given.
Counted(fid) == {i \in PacketsOf(fid) : log[i].outcome # "rejected"}

Collisions(fid) == Outcome(Counted(fid), {"collision"})

\* Packets that retook a slot, or were answered short, after the first owned.
Resets(fid) ==
    {i \in Outcome(Counted(fid), {"new_owner", "short"}) :
        \E j \in Owned(Counted(fid)) : j < i}

Eligible(fid) == \E i \in Counted(fid) : log[i].long

SummaryDowngraded(fid) == Eligible(fid) /\ (Collisions(fid) # {} \/ Resets(fid) # {})

-----------------------------------------------------------------------------
(* downgraded_flows.                                                       *)

\* Slip: the packet itself is counted among those that came earlier.
SeenIncluding(i) == Cardinality(Owned({j \in PacketsOf(flow_ids[i]) : j <= i}))

\* Owned packets earlier in the same flow, from cumulative sums.
Seen(i) == Cardinality(Owned({j \in PacketsOf(flow_ids[i]) : j < i}))

\* Slip: a flow that is answered short after it held a slot is not lost.
LostIfRetaken(i) == log[i].outcome = "new_owner" /\ Seen(i) > 0

Lost(i) == log[i].outcome \in {"new_owner", "short"} /\ Seen(i) > 0

IndexDowngraded(fid) ==
    \E i \in PacketsOf(fid) : log[i].outcome = "collision" \/ Lost(i)

-----------------------------------------------------------------------------
(* The report of the first PeerRush runs has a third definition.           *)

ReportLost(i) == log[i].outcome = "new_owner" /\ Cardinality(Owned({j \in Counted(flow_ids[i]) : j < i})) > 0

ReportDowngraded(fid) == \E i \in Counted(fid) : log[i].outcome = "collision" \/ ReportLost(i)

-----------------------------------------------------------------------------
AccountInit == OutcomesInit /\ log = <<>>

Ts(pause) == IF log = <<>> THEN 0 ELSE log[Len(log)].ts + pause

\* The flow-size tree's verdict on the packet: only a packet predicted long
\* takes a slot or is refused one.
MayBeLong(o) == o # "short"
MayBeShort(o) == o \notin {"collision", "empty", "new_owner"}

AccountPacket ==
    /\ Len(log) < MaxLog
    /\ \E f \in Flows : \E s \in Places[f] : Answers(f, s)
    /\ \E pause \in Pauses, long \in BOOLEAN :
          /\ IF long THEN MayBeLong(packet'.outcome) ELSE MayBeShort(packet'.outcome)
          /\ log' = Append(log, [flow |-> packet'.flow, slot |-> packet'.slot,
                                 outcome |-> packet'.outcome, ts |-> Ts(pause), long |-> long])

\* The memo learns a flow that its slot has just determined.
AccountLearns ==
    /\ packet.outcome = "owner" /\ Len(log) < MaxLog
    /\ Learns /\ packet.flow \in known'
    /\ UNCHANGED log

AccountNext == AccountPacket \/ AccountLearns

AccountSpec == AccountInit /\ [][AccountNext]_accountVars
-----------------------------------------------------------------------------
(* Properties.                                                             *)

\* The definitions of a downgraded flow agree: summarize asks in addition for a
\* packet predicted long, and the early report misses no flow but those that
\* were answered short after they lost their slot and were never refused one.
DefinitionsAgree ==
    \A fid \in FlowIds :
       /\ SummaryDowngraded(fid) <=> IndexDowngraded(fid) /\ Eligible(fid)
       /\ ReportDowngraded(fid) => IndexDowngraded(fid)
       /\ IndexDowngraded(fid) =>
             ReportDowngraded(fid) \/ \E i \in PacketsOf(fid) : log[i].outcome = "short" /\ Lost(i)

\* Another flow took the slot of packet i before packet j of the same flow.
TakenBetween(i, j) ==
    \E k \in i + 1 .. j - 1 :
       log[k].outcome = "new_owner" /\ log[k].slot = log[i].slot /\ log[k].flow # log[i].flow

\* A flow counts as downgraded exactly if it was refused at a slot that
\* another flow held, or lost its slot to another between two of its own
\* packets and was then not in the memo: never for pauses of its own, for
\* empty slots or for starting short.
DowngradedByContention ==
    \A fid \in FlowIds :
       IndexDowngraded(fid) <=>
          \/ \E j \in PacketsOf(fid) : log[j].outcome = "collision"
          \/ \E i, j \in PacketsOf(fid) :
                /\ i < j /\ TakenBetween(i, j)
                /\ log[i].outcome \in {"new_owner", "owner"}
                /\ log[j].outcome \in {"new_owner", "short"}
=============================================================================
