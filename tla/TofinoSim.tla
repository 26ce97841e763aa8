------------------------------ MODULE TofinoSim ------------------------------
(***************************************************************************)
(* TofinoSim (src/dgrade/netbeacon_tofino.py), the emulator of the program *)
(* that is compiled for the switch.  It is a subclass of the emulator of   *)
(* SlotAdmission, whose clock, memo and registers it inherits.  What is    *)
(* new: a takeover initialises the features at once, but its tag and       *)
(* result are written by a recirculated copy, delay clock units later.     *)
(* Until then the slot shows its old owner, who may still send packets.    *)
(*                                                                         *)
(* r_hash is r_tag; r_res is the result register and r_ver the verdict     *)
(* that _resolve finds for the features in the slot; owner is the flow     *)
(* whose Init last reset them (f_tag).                                     *)
(***************************************************************************)
EXTENDS SlotAdmission, SequencesExt

CONSTANTS
    Delays,         \* the values of claim_delay_ns, in clock units
    MaxClaims       \* bound on the claims in flight

ASSUME TofinoAssumption ==
    /\ WrapWindow /\ ~ TakeoverRefresh /\ ~ Isolated /\ Rent = "none"
    /\ Policy = "unclaimed_first"
    /\ Delays \subseteq Nat /\ MaxClaims \in Nat \ {0}

VARIABLES
    delay,      \* claim_delay_ns
    claims,     \* in-flight pass-2 writes, oldest first
    listed,     \* pend_by_slot: the tags of claims still in flight
    r_ver,      \* the verdict of the features in each slot
    raised,     \* the emulator has stopped with an exception
    \* history
    since,      \* when the claim was sent that gave the slot its present tag
    retaken     \* that was the claim of a phase, not of a takeover

compiled == <<delay, claims, listed, r_ver, raised, since, retaken>>
tvars == <<vars, compiled>>

-----------------------------------------------------------------------------
(* Pass 2: the claims that have landed.                                    *)

\* A claim lands delay after it was sent; as the time within a clock unit is
\* not modelled, that is in the last unit of the delay or in the next.
MayLand == claims # <<>> /\ clock + 1 >= Head(claims).sent + delay
MustLand == claims # <<>> /\ clock >= Head(claims).sent + delay

\* A packet is handled when every digest and claim that is due has landed.
Quiet == ~ raised /\ ~ Due /\ (delay = 0 => claims = <<>>)

Claim(s, f, res, kind) ==
    [sent |-> clock, slot |-> s, tag |-> HashOf[f], res |-> res, kind |-> kind]

\* Slip: the heap hands out the newest claim first.
NewestFirst(c) == <<c>> \o claims

Pushed(c) == Append(claims, c)

\* lst.remove(tag), if there is a list; it raises if the tag is not in it.
Unlist(c) ==
    IF listed[c.slot] = <<>> \/ c.tag \in Range(listed[c.slot])
    THEN /\ listed' = [listed EXCEPT ![c.slot] = RemoveFirst(@, c.tag)]
         /\ UNCHANGED raised
    ELSE /\ raised' = TRUE
         /\ UNCHANGED listed

Land ==
    /\ MayLand /\ ~ Due /\ ~ raised
    /\ LET c == Head(claims) IN
       /\ r_hash' = [r_hash EXCEPT ![c.slot] = c.tag]
       /\ r_res' = [r_res EXCEPT ![c.slot] = c.res]
       /\ claimed' = [claimed EXCEPT ![c.slot] = TRUE]
       /\ Unlist(c)
       /\ IF c.tag = r_hash[c.slot] THEN UNCHANGED <<since, retaken>>
          ELSE /\ since' = [since EXCEPT ![c.slot] = c.sent]
               /\ retaken' = [retaken EXCEPT ![c.slot] = c.kind = "phase"]
    /\ claims' = Tail(claims)
    /\ UNCHANGED <<clock, r_lastc, r_t0, r_v, r_pk, controller, last, history, delay, r_ver>>

-----------------------------------------------------------------------------
(* Pass 1: newcomers.                                                      *)

Own(f, s) == r_hash[s] = HashOf[f]

\* Slip: only way A is probed.
ProbedInA(f) == {s \in {SlotA[f]} : Own(f, s)}

\* The probe; it refreshes the last-seen time of every way it finds.
Probed(f) == {s \in Candidates(f) : Own(f, s)}

\* Slip: zeroed registers are never busy.
BusyIfClaimed(s) == r_res[s] < Decided /\ Age(s) < Timeout /\ claimed[s]

Busy(s) == r_res[s] < Decided /\ Age(s) < Timeout

\* Way B: way A is busy, or neither is and only way B was never claimed.  If
\* both are, the newcomer is refused, and at the one that was claimed.
PrefersB(a, b) ==
    \/ Busy(a) /\ ~ Busy(b)
    \/ ~ Busy(a) /\ ~ Busy(b) /\ claimed[a] /\ ~ claimed[b]
    \/ Busy(a) /\ Busy(b) /\ ~ claimed[a] /\ claimed[b]

\* The way of a packet: one that it owns, way A first, or one to take over.
Way(f) ==
    IF /\ TwoWay
       /\ SlotA[f] \notin Probed(f)
       /\ SlotB[f] \in Probed(f) \/ PrefersB(SlotA[f], SlotB[f])
    THEN SlotB[f] ELSE SlotA[f]

Newcomer(f) ==
    /\ Quiet
    /\ f \notin Remembered
    /\ Probed(f) = {}

TofinoShort(f, pc) ==
    /\ Newcomer(f)
    /\ last' = Handled(f, Way(f), "short", pc)
    /\ UNCHANGED <<clock, registers, controller, history, compiled>>

TofinoRefuse(f, pc) ==
    /\ Newcomer(f)
    /\ \A s \in Candidates(f) : Busy(s)
    /\ last' = Handled(f, Way(f),
                       IF \E s \in Candidates(f) : claimed[s] THEN "collision" ELSE "empty", pc)
    /\ UNCHANGED <<clock, registers, controller, history, compiled>>

\* Init of the features now; tag and result in pass 2.
TofinoTakeOver(f, s, pc) ==
    /\ Newcomer(f)
    /\ s = Way(f) /\ ~ Busy(s)
    /\ Len(claims) < MaxClaims
    /\ listed' = [listed EXCEPT ![s] = Append(@, HashOf[f])]
    /\ claims' = Pushed(Claim(s, f, pc, "takeover"))
    /\ r_pk' = [r_pk EXCEPT ![s] = 1]
    /\ r_ver' = [r_ver EXCEPT ![s] = pc]
    /\ last' = Handled(f, s, "new_owner", pc)
    /\ owner' = [owner EXCEPT ![s] = {f}]
    /\ took' = [took EXCEPT ![s] = clock]
    /\ seen' = [seen EXCEPT ![s] = clock]
    /\ wrote' = [wrote EXCEPT ![s] = FALSE]
    /\ steady' = [steady EXCEPT ![s] = TRUE]
    /\ UNCHANGED <<clock, r_hash, r_res, r_lastc, claimed, r_t0, r_v, controller,
                   delay, raised, since, retaken>>

-----------------------------------------------------------------------------
(* Pass 1: packets of an owner.                                            *)

\* A packet of f on its slot s, and what every such packet does.
TofinoOwner(f, s) ==
    /\ Quiet
    /\ f \notin Remembered
    /\ s = Way(f) /\ s \in Probed(f)
    /\ r_lastc' = [x \in Slots |-> IF x \in Probed(f) THEN now ELSE r_lastc[x]]
    /\ seen' = [seen EXCEPT ![s] = clock]
    /\ wrote' = [wrote EXCEPT ![s] = TRUE]
    /\ steady' = [steady EXCEPT ![s] = @ /\ clock - seen[s] <= CreditUnit]
    /\ UNCHANGED <<clock, r_hash, r_res, claimed, r_t0, r_v, memo, owner, took,
                   delay, listed, raised, since, retaken>>

TofinoDetermined(f, s, pc) ==
    /\ TofinoOwner(f, s)
    /\ ~ Counting(s)
    /\ last' = Handled(f, s, "owner", Verdict(r_ver[s], pc))
    /\ UNCHANGED <<r_pk, r_ver, claims, pending>>

TofinoBetween(f, s, pc) ==
    /\ TofinoOwner(f, s)
    /\ Counting(s)
    /\ Count(s) \notin Phases \cup {FinalPhase}
    /\ r_pk' = [r_pk EXCEPT ![s] = Count(s)]
    /\ last' = Handled(f, s, "owner", Verdict(r_ver[s], pc))
    /\ UNCHANGED <<r_ver, claims, pending>>

\* A phase: the verdict that _resolve finds from now on.
Renewed(s, code, pc) == IF code # 0 THEN code ELSE Verdict(r_ver[s], pc)

Renew(f, s, pc, code) ==
    /\ TofinoOwner(f, s)
    /\ Counting(s)
    /\ r_pk' = [r_pk EXCEPT ![s] = Count(s)]
    /\ r_ver' = [r_ver EXCEPT ![s] = Renewed(s, code, pc)]
    /\ last' = Handled(f, s, "owner", Verdict(Renewed(s, code, pc), pc))

\* The recirculated copy rewrites tag and result, and is not listed.
TofinoPhase(f, s, pc, code) ==
    /\ Count(s) \in Phases
    /\ Len(claims) < MaxClaims
    /\ Renew(f, s, pc, code)
    /\ claims' = Pushed(Claim(s, f, r_res[s], "phase"))
    /\ UNCHANGED pending

TofinoFinal(f, s, pc, code) ==
    /\ Count(s) = FinalPhase
    /\ Len(claims) < MaxClaims
    /\ Renew(f, s, pc, code)
    /\ claims' = IF code # 0 THEN Pushed(Claim(s, f, code, "phase")) ELSE claims
    /\ pending' = IF code > Decided
                  THEN Append(pending, [due |-> clock + MemoDelay, flow |-> f, res |-> code])
                  ELSE pending

-----------------------------------------------------------------------------
TofinoInit ==
    /\ Init
    /\ delay \in Delays
    /\ claims = <<>>
    /\ listed = [s \in Slots |-> <<>>]
    /\ r_ver = [s \in Slots |-> 0]
    /\ raised = FALSE
    /\ since = [s \in Slots |-> 0]
    /\ retaken = [s \in Slots |-> FALSE]

\* What it inherits unchanged.
Inherited ==
    /\ ~ raised
    /\ \/ MemoInsert
       \/ ~ MustLand /\ Tick
       \/ Quiet /\ \E f \in Flows : Reject(f) \/ MemoHit(f)
    /\ UNCHANGED compiled

TofinoPacket(f) ==
    \E pc \in PktCodes :
       \/ TofinoShort(f, pc)
       \/ TofinoRefuse(f, pc)
       \/ \E s \in Candidates(f) :
             \/ TofinoTakeOver(f, s, pc)
             \/ TofinoDetermined(f, s, pc)
             \/ TofinoBetween(f, s, pc)
             \/ \E code \in PhaseCodes : TofinoPhase(f, s, pc, code)
             \/ \E code \in FinalCodes : TofinoFinal(f, s, pc, code)

TofinoNext == Inherited \/ Land \/ \E f \in Flows : TofinoPacket(f)

TofinoSpec == TofinoInit /\ [][TofinoNext]_tvars
-----------------------------------------------------------------------------
(* Properties.                                                             *)

\* The positions of the claims in flight to a slot.
InFlight(s) == {i \in DOMAIN claims : claims[i].slot = s}

\* The registers once every claim has landed.
TagSettled(s) == IF InFlight(s) = {} THEN r_hash[s] ELSE claims[Max(InFlight(s))].tag
ClaimedSettled(s) == claimed[s] \/ InFlight(s) # {}

NetBeacon == INSTANCE SlotAdmission WITH
    r_hash <- [s \in Slots |-> TagSettled(s)],
    r_res <- r_ver,
    claimed <- [s \in Slots |-> ClaimedSettled(s)],
    r_t0 <- [s \in Slots |-> took[s] % ClockMod],
    r_v <- [s \in Slots |-> IF ClaimedSettled(s) THEN (took[s] % ClockMod) + Grace ELSE 0]

\* "With claim_delay_ns = 0 ... the results equal NetBeaconSim (two_way, policy
\* unclaimed_first, or one table) bit for bit": without delay every step is a
\* step of the emulator without recirculation, or changes nothing of it.
ZeroDelayIsNetBeaconSim ==
    /\ delay = 0 => NetBeacon!Init
    /\ [][delay = 0 => NetBeacon!Next]_(NetBeacon!vars)

\* "The last claim wins while the features hold the later Init": in a slot
\* without claims in flight the tag is that of the flow whose Init last reset
\* the features, whatever raced, unless a phase of the former owner retook it.
SettledSlotIsClean ==
    \A s \in Slots :
       claimed[s] /\ InFlight(s) = {} /\ ~ retaken[s] =>
          \E f \in owner[s] : HashOf[f] = r_hash[s]

\* A flow ends up owning both ways only by a race: two of its claims were in
\* flight together when it did, or the one was lost and retaken by a phase.
OwnsBoth(f) == TwoWay /\ Own(f, SlotA[f]) /\ Own(f, SlotB[f])

Apart(s, t) == IF since[s] < since[t] THEN since[t] - since[s] ELSE since[s] - since[t]

BothWaysOnlyByRace ==
    \A f \in Flows :
       OwnsBoth(f) =>
          \/ Apart(SlotA[f], SlotB[f]) <= delay
          \/ retaken[SlotA[f]] \/ retaken[SlotB[f]]

\* "slot -> tags of claims still in flight": a claim that lands finds its tag
\* in the list of its slot, or no list.
ListedUntilLanded == ~ raised
=============================================================================
