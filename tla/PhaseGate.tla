------------------------------ MODULE PhaseGate ------------------------------
(***************************************************************************)
(* What a packet was answered, put together after the replay, and the G5   *)
(* gate that is computed from it.  The emulator notes for each packet how  *)
(* its verdict is to be found and evaluates the phase trees when the       *)
(* stream has ended (NetBeaconSim._evaluate_events, _resolve); the switch  *)
(* answers at once, from reg.  g5_gate.py recovers the phase events from   *)
(* the sources of the answers.                                             *)
(*                                                                         *)
(* Whether a flow may take its slot over is SlotAdmission's business: here *)
(* any flow may, or be answered without one.                               *)
(***************************************************************************)
EXTENDS Integers, SequencesExt, FiniteSetsExt

CONSTANTS
    Flows, Layouts,     \* flows; functions from flows to slots
    Verdicts,           \* sequences: the code of the per-packet tree for each packet
    PhaseList,          \* PHASES, ascending; the last determines
    PhaseCodes,         \* codes of a phase before the last; 0 is a miss
    FinalCodes,         \* codes of the last phase
    ForceAfter,         \* the phases after which the gate forces the fallback
    Hold                \* HOLD_NS

GateAssumption == ToSet(PhaseList) \subseteq Nat \ {0, 1} /\ Hold \in Nat \ {0}

VARIABLES
    slot,       \* the slot of each flow
    pc,         \* the codes of the per-packet tree
    reg,        \* the switch, per slot: owner, total_pkts, res, where res is from, epoch
    memo,       \* determined flows that the controller has entered
    pending,    \* and those it has not
    inits,      \* epoch_init: the packet that took the slot over, by epoch
    events,     \* ev_phase, ev_pkt and the code of the tree, by event
    epoch_events,       \* the events of an epoch, in order
    stream      \* per packet: flow, vkind, vepoch, vevent, memo_val; and what the switch answered

gateVars == <<slot, pc, reg, memo, pending, inits, events, epoch_events, stream>>

Decided == 50
Final == Last(PhaseList)
Now == Len(stream) + 1

\* Sources: "pkt", "memo", and "phase-N" as N.
Pkt == 0
Memo == -1

-----------------------------------------------------------------------------
(* The replay.                                                             *)

Answered(v, src, i) == IF v = 0 THEN [res |-> pc[i], src |-> Pkt] ELSE [res |-> v, src |-> src]

Note(f, kind, epoch, event, val, answer) ==
    stream' = Append(stream, [flow |-> f, vkind |-> kind, vepoch |-> epoch, vevent |-> event,
                              memo_val |-> val, answer |-> answer])

GateInit ==
    /\ slot \in Layouts /\ pc \in Verdicts
    /\ reg = [s \in {slot[f] : f \in Flows} |->
                [owner |-> {}, pk |-> 0, res |-> 0, src |-> Pkt, epoch |-> 0]]
    /\ memo = {} /\ pending = {} /\ inits = <<>> /\ events = <<>> /\ epoch_events = <<>> /\ stream = <<>>

Arrives(f) == Now \in DOMAIN pc

FromMemo(f) ==
    /\ Arrives(f)
    /\ \E d \in memo : d.flow = f /\ Note(f, "memo", 0, 0, d.res, [res |-> d.res, src |-> Memo])
    /\ UNCHANGED <<slot, pc, reg, memo, pending, inits, events, epoch_events>>

NotRemembered(f) == Arrives(f) /\ \A d \in memo : d.flow # f

WithoutSlot(f) ==
    /\ NotRemembered(f) /\ reg[slot[f]].owner # {f}
    /\ Note(f, "pkt", 0, 0, 0, Answered(0, Pkt, Now))
    /\ UNCHANGED <<slot, pc, reg, memo, pending, inits, events, epoch_events>>

\* The recirculated copy stores the packet's own verdict; an epoch begins.
TakesSlot(f) ==
    /\ NotRemembered(f) /\ reg[slot[f]].owner # {f}
    /\ reg' = [reg EXCEPT ![slot[f]] =
                  [owner |-> {f}, pk |-> 1, res |-> pc[Now], src |-> Pkt, epoch |-> Len(inits) + 1]]
    /\ inits' = Append(inits, Now) /\ epoch_events' = Append(epoch_events, <<>>)
    /\ Note(f, "pkt", 0, 0, 0, Answered(0, Pkt, Now))
    /\ UNCHANGED <<slot, pc, memo, pending, events>>

\* The switch, on a phase packet: a miss keeps what is stored, and what is
\* stored is the packet's own verdict if it was nothing.
Renewed(r, n, code) ==
    IF code # 0 THEN [r EXCEPT !.pk = n, !.res = code, !.src = n]
    ELSE IF r.res = 0 THEN [r EXCEPT !.pk = n, !.res = pc[Now], !.src = Pkt]
    ELSE [r EXCEPT !.pk = n]

CodesOf(n) == IF n = Final THEN FinalCodes ELSE PhaseCodes

OwnerPacket(f) ==
    LET r == reg[slot[f]]
        n == r.pk + 1
        Phase(code) ==
            LET after == Renewed(r, n, code) IN
            /\ reg' = [reg EXCEPT ![slot[f]] = after]
            /\ events' = Append(events, [phase |-> n, pkt |-> Now, code |-> code])
            /\ epoch_events' = [epoch_events EXCEPT ![r.epoch] = Append(@, Len(events) + 1)]
            /\ Note(f, "slot", r.epoch, Len(epoch_events[r.epoch]) + 1, 0, Answered(after.res, after.src, Now))
            /\ pending' = pending \cup {d \in {[flow |-> f, res |-> code]} : d.res > Decided}
        Between(after) ==
            /\ reg' = [reg EXCEPT ![slot[f]] = after]
            /\ Note(f, "slot", r.epoch, Len(epoch_events[r.epoch]), 0, Answered(r.res, r.src, Now))
            /\ UNCHANGED <<events, epoch_events, pending>>
    IN  /\ NotRemembered(f) /\ r.owner = {f}
        /\ IF r.res > Decided THEN Between(r)
           ELSE IF n \in ToSet(PhaseList) THEN \E code \in CodesOf(n) : Phase(code)
           ELSE Between([r EXCEPT !.pk = n])
        /\ UNCHANGED <<slot, pc, memo, inits>>

\* The controller enters a digest, or drops its oldest entries for another.
MemoEnters ==
    /\ \E d \in pending : memo' = memo \cup {d} /\ pending' = pending \ {d}
    /\ UNCHANGED <<slot, pc, reg, inits, events, epoch_events, stream>>

MemoDrops ==
    /\ memo # {} /\ memo' = {}
    /\ UNCHANGED <<slot, pc, reg, pending, inits, events, epoch_events, stream>>

GateNext ==
    \/ \E f \in Flows : FromMemo(f) \/ WithoutSlot(f) \/ TakesSlot(f) \/ OwnerPacket(f)
    \/ MemoEnters \/ MemoDrops

GateSpec == GateInit /\ [][GateNext]_gateVars
-----------------------------------------------------------------------------
(* _resolve, after the stream: the stored value of an epoch by the number  *)
(* of its events so far.                                                   *)

\* Slip: a miss on a stored 0 leaves it.
MissKeeps(codes, v, ev) == IF ev.code # 0 THEN [res |-> ev.code, src |-> ev.phase] ELSE v

\* A miss keeps what is stored, and the verdict of the phase packet replaces a 0.
Sticky(codes, v, ev) ==
    IF ev.code # 0 THEN [res |-> ev.code, src |-> ev.phase]
    ELSE IF v.res = 0 THEN [res |-> codes[ev.pkt], src |-> Pkt]
    ELSE v

StateAfter(codes, first, evs, n) ==
    LET state[k \in 0 .. n] == IF k = 0 THEN first ELSE Sticky(codes, state[k - 1], evs[k])
    IN state[n]

StateAt(e, n) ==
    StateAfter(pc, [res |-> pc[inits[e]], src |-> Pkt],
               [k \in DOMAIN epoch_events[e] |-> events[epoch_events[e][k]]], n)

\* What the results say of packet i; a stored 0 lets the per-packet tree run.
Resolved(i) ==
    LET p == stream[i] IN
    IF p.vkind = "memo" THEN [res |-> p.memo_val, src |-> Memo]
    ELSE IF p.vkind = "slot"
    THEN LET v == StateAt(p.vepoch, p.vevent) IN Answered(v.res, v.src, i)
    ELSE Answered(0, Pkt, i)

-----------------------------------------------------------------------------
(* The gate, on the results of an isolated run; a packet's time is its     *)
(* number.                                                                 *)

cls(code) == IF code = 0 THEN -1 ELSE (code - 1) % 50

source(i) == Resolved(i).src
full(i) == cls(Resolved(i).res)
fb(i) == cls(pc[i])

OfFlow(f) == {i \in DOMAIN stream : stream[i].flow = f}
\* Slip: the packet before is that of any flow.
AnyPrevious(i) == 1 .. i - 1

Previous(i) == {j \in OfFlow(stream[i].flow) : j < i}

\* A phase source that the flow's packet before did not have.
IsEvent(i) == source(i) > 0 /\ (Previous(i) = {} \/ source(Max(Previous(i))) # source(i))

\* seqs[f]: the flow's events, in order.
seqs(f) == SetToSortSeq({i \in OfFlow(f) : IsEvent(i)}, <)

AgreeSoFar(s, k) == \A j \in 1 .. k : full(s[j]) = fb(s[j])

TNext(f, s, k) == IF k < Len(s) THEN s[k + 1] ELSE Max(OfFlow(f))

agree_s(f) ==
    LET s == seqs(f) IN
    MapThenSumSet(LAMBDA k : TNext(f, s, k) - s[k], {k \in 2 .. Len(s) : AgreeSoFar(s, k)})

total(f) == Max(OfFlow(f)) - Min(OfFlow(f)) + Hold

\* The packets that forcing after phase ph puts onto the fallback.
ForcedBy(f, ph) ==
    LET s == seqs(f)
        at == {k \in DOMAIN s : source(s[k]) = ph}
    IN IF at = {} THEN {}
       ELSE LET k == Min(at) IN
            IF k >= 2 /\ AgreeSoFar(s, k) THEN {i \in OfFlow(f) : i > s[k]} ELSE {}

-----------------------------------------------------------------------------
(* Properties.                                                             *)

\* Evaluating the phase trees after the stream gives every packet the verdict,
\* and the source, that the switch answered it with: through misses, stored
\* zeros, takeovers in between and answers from the memo.
ResolveEqualsSwitch == \A i \in DOMAIN stream : Resolved(i) = stream[i].answer

\* In an isolated run the gate's events are the phase packets on which the tree
\* hit, and the packets with which a determined flow returns from the memo to
\* its slot, which it takes for one more event.  As long as no tree misses, a
\* later phase to force after changes no packet that an earlier one does not;
\* the slot-seconds it counts are at most the flow's own.
GateReadsEvents ==
    IsInjective(slot) =>
       /\ {i \in DOMAIN stream : IsEvent(i)} =
             {events[n].pkt : n \in {m \in DOMAIN events : events[m].code # 0}}
             \cup {i \in DOMAIN stream : stream[i].vkind = "slot" /\ Previous(i) # {}
                                          /\ stream[Max(Previous(i))].vkind = "memo"}
       /\ \A f \in {stream[i].flow : i \in DOMAIN stream} :
             /\ agree_s(f) <= total(f) - Hold
             /\ (\A n \in DOMAIN events : events[n].code # 0) =>
                   \A p, q \in ForceAfter : p < q => ForcedBy(f, q) \subseteq ForcedBy(f, p)

VerdictsAreRead == ResolveEqualsSwitch /\ GateReadsEvents
=============================================================================
