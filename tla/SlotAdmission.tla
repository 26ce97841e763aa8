---------------------------- MODULE SlotAdmission ----------------------------
(***************************************************************************)
(* The per-flow state machine of the NetBeacon emulator                    *)
(* (src/dgrade/netbeacon_sim.py): a table of slots that flows take over,   *)
(* are refused, refresh and lose, the phases at which a stored flow's      *)
(* verdict is renewed, and the controller's memo of determined flows.      *)
(*                                                                         *)
(* Time is counted in clock units of 2^20 ns.  Tick lets one unit pass,    *)
(* MemoInsert is the controller's answer to a digest that has become due,  *)
(* and a packet is handled once every due digest is in the memo, as the    *)
(* replay loop does.  Packet features (lengths, gaps, bins) only reach the *)
(* tables, whose codes are inputs here.                                    *)
(*                                                                         *)
(* A definition marked "Slip" is never used by Spec: it is a mistake the   *)
(* code could have made in the definition that follows it, kept to show    *)
(* that the properties below notice.                                       *)
(***************************************************************************)
EXTENDS Integers, Sequences, FiniteSets, Functions

CONSTANTS
    Flows,              \* the symmetric 5-tuples of the stream
    HashOf,             \* the 32-bit identity hash of each
    SlotsA, SlotsB,     \* table A and table B (two_way); one table if B is empty
    SlotA, SlotB,       \* the slot of each flow in either table
    Policy,             \* two_way_policy: "idle", "a_first", "unclaimed_first"
    Timeout,            \* timeout_units
    Isolated,           \* isolate: every flow has a slot of its own
    WrapWindow,         \* wrap_window: the clock wraps at ClockMod
    ClockMod, Word,     \* 2^12 clock units in 2^32 ns; the width of registers, 2^32
    TakeoverRefresh,    \* takeover_refresh
    Rent,               \* rent: "none", "credit", "age", "rate"
    Grace, Cap,         \* grace_u, cap_u
    CreditUnit,         \* credit_u = upsec / rent_rmin
    Phases, FinalPhase, \* the packet counts at which Flow_Tree runs; the last, 2048
    PkMod,              \* total_pkts is 16 bits wide
    PktCodes,           \* codes of the per-packet tree (0 is a miss)
    PhaseCodes,         \* codes of a phase before the last
    FinalCodes,         \* codes of the last phase
    MemoSize, MemoDrop, \* memo_size; how many entries a full memo drops, 10
    MemoDelay,          \* memo_delay_ns, in clock units
    Starts, MaxClock    \* when the stream may start; bound on the clock

Slots == SlotsA \cup SlotsB
TwoWay == SlotsB # {} /\ ~ Isolated
Decided == 50           \* codes above mark a flow determined

ASSUME SlotsAssumption ==
    /\ SlotsA \cap SlotsB = {}
    /\ SlotA \in [Flows -> SlotsA]
    /\ TwoWay => SlotB \in [Flows -> SlotsB]
ASSUME HashAssumption == HashOf \in [Flows -> Nat \ {0}]
ASSUME ClockAssumption ==
    /\ Timeout \in Nat \ {0} /\ ClockMod \in Nat \ {0} /\ MaxClock \in Nat
    /\ Starts \subseteq Nat /\ MemoDelay \in Nat
    /\ Word \in Nat /\ Word >= ClockMod + Timeout
ASSUME SwitchesAssumption ==
    /\ WrapWindow \in BOOLEAN /\ TakeoverRefresh \in BOOLEAN /\ Isolated \in BOOLEAN
    /\ Isolated => \A f, g \in Flows : f # g => SlotA[f] # SlotA[g]
    /\ Rent \in {"none", "credit", "age", "rate"}
    /\ Rent # "none" => ~ WrapWindow
    /\ Policy \in {"idle", "a_first", "unclaimed_first"}
ASSUME RentAssumption == Grace \in Nat /\ Cap \in Nat /\ CreditUnit \in Nat
ASSUME PhaseAssumption ==
    /\ FinalPhase \in Nat /\ FinalPhase > 1
    /\ Phases \subseteq 2 .. FinalPhase - 1
    /\ PkMod \in Nat /\ PkMod > FinalPhase
ASSUME CodesAssumption ==
    /\ PktCodes \subseteq 0 .. Decided - 1
    /\ PhaseCodes \subseteq 0 .. Decided - 1
    /\ FinalCodes \subseteq {c \in Nat : c = 0 \/ c > Decided}
ASSUME MemoAssumption == MemoSize \in Nat /\ MemoDrop \in Nat \ {0}

VARIABLES
    clock,          \* the clock before it is cut to its width
    \* the registers of each slot
    r_hash, r_res, r_lastc, claimed, r_t0, r_v, r_pk,
    \* the controller
    memo,           \* the memo's entries, oldest first
    pending,        \* digests on their way to it, with the time they are due
    \* history
    last,           \* what became of the packet just handled
    owner,          \* the flow that took the slot over last, if any
    took, seen,     \* when it did so and when it was last seen
    wrote,          \* its packets have written r_lastc
    steady          \* its packets have never been more than CreditUnit apart

registers == <<r_hash, r_res, r_lastc, claimed, r_t0, r_v, r_pk>>
controller == <<memo, pending>>
history == <<owner, took, seen, wrote, steady>>
vars == <<clock, registers, controller, last, history>>

NoPacket == [outcome |-> "none"]
Handled(f, s, o, c) == [outcome |-> o, flow |-> f, slot |-> s, result |-> c]

-----------------------------------------------------------------------------
(* The clock of the switch and what it makes of the slots.                 *)

now == IF WrapWindow THEN clock % ClockMod ELSE clock

\* last_classified = now - stored, in 32-bit arithmetic on the wrapped clock.
Age(s) == IF WrapWindow THEN (now - r_lastc[s]) % Word ELSE now - r_lastc[s]

\* Slip: zeroed registers refuse a flow even where it has the slot to itself.
EmptyAlwaysHolds == WrapWindow

\* Zeroed registers look active while the clock is young.
EmptyHolds == WrapWindow /\ ~ Isolated

\* The slot's flow is active and undetermined.
Held(s) ==
    /\ r_res[s] < Decided
    /\ Age(s) < Timeout
    /\ claimed[s] \/ EmptyHolds

\* Rent admission: an active flow past its grace that does not pay its rent.
Evictable(s) ==
    /\ Rent # "none"
    /\ claimed[s]
    /\ now - r_t0[s] >= Grace
    /\ \/ Rent = "age"
       \/ Rent = "credit" /\ now > r_v[s]
       \/ Rent = "rate" /\ r_pk[s] * CreditUnit < now - r_t0[s]

\* Both candidates are held: the older evictable one, or the one to report.
BothHeldTakesB(a, b) ==
    \/ Evictable(a) /\ Evictable(b) /\ r_t0[b] < r_t0[a]
    \/ ~ Evictable(a) /\ Evictable(b)
    \/ ~ Evictable(a) /\ ~ Evictable(b) /\ claimed[b] /\ ~ claimed[a]

\* Neither is: never claimed first, then, by policy, the longest idle.
NeitherHeldTakesB(a, b) ==
    /\ Policy # "a_first"
    /\ \/ claimed[a] /\ ~ claimed[b]
       \/ Policy = "idle" /\ (claimed[a] <=> claimed[b]) /\ Age(b) > Age(a)

\* Slip: the policy decides, whether the candidates are held or not.
TakesBByPolicy(a, b) == NeitherHeldTakesB(a, b)

\* Where a newcomer goes: table B instead of table A.
TakesB(a, b) ==
    \/ Held(a) /\ ~ Held(b)
    \/ Held(a) /\ Held(b) /\ BothHeldTakesB(a, b)
    \/ ~ Held(a) /\ ~ Held(b) /\ NeitherHeldTakesB(a, b)

\* Slip: only table A is searched for the flow.
NeverFoundInB(f) == FALSE

\* The flow owns its table-B slot.
FoundInB(f) == r_hash[SlotB[f]] = HashOf[f]

\* The slot that a packet of f works on.
SlotOf(f) ==
    IF /\ TwoWay
       /\ r_hash[SlotA[f]] # HashOf[f]
       /\ FoundInB(f) \/ TakesB(SlotA[f], SlotB[f])
    THEN SlotB[f] ELSE SlotA[f]

Candidates(f) == IF TwoWay THEN {SlotA[f], SlotB[f]} ELSE {SlotA[f]}

-----------------------------------------------------------------------------
(* The memo.                                                               *)

Remembered == {memo[i].flow : i \in DOMAIN memo}
MemoOf(f) == memo[CHOOSE i \in DOMAIN memo : memo[i].flow = f].res

\* A full memo drops its oldest entries, ten of them or all it has.
Room ==
    IF Len(memo) >= MemoSize
    THEN SubSeq(memo, MemoDrop + 1, Len(memo))
    ELSE memo

Due == pending # <<>> /\ Head(pending).due <= clock

\* A digest reaches the controller; a flow it has is not entered again.
MemoInsert ==
    /\ Due
    /\ LET d == Head(pending) IN
       memo' = IF d.flow \in Remembered THEN memo
               ELSE Append(Room, [flow |-> d.flow, res |-> d.res])
    /\ pending' = Tail(pending)
    /\ last' = NoPacket
    /\ UNCHANGED <<clock, registers, history>>

Tick ==
    /\ ~ Due
    /\ clock < MaxClock
    /\ clock' = clock + 1
    /\ last' = NoPacket
    /\ UNCHANGED <<registers, controller, history>>

-----------------------------------------------------------------------------
(* Packets.                                                                *)

\* A packet the parser drops.
Reject(f) ==
    /\ ~ Due
    /\ last' = Handled(f, SlotA[f], "rejected", 0)
    /\ UNCHANGED <<clock, registers, controller, history>>

\* A determined flow is answered from the memo.
MemoHit(f) ==
    /\ ~ Due
    /\ f \in Remembered
    /\ last' = Handled(f, SlotA[f], "memo", MemoOf(f))
    /\ UNCHANGED <<clock, registers, controller, history>>

\* A packet of f, not in the memo, that works on slot s.
Arrives(f, s) ==
    /\ ~ Due
    /\ f \notin Remembered
    /\ s = SlotOf(f)

\* The slot holds another flow and this one is predicted short.
FallbackShort(f, s, pc) ==
    /\ Arrives(f, s)
    /\ r_hash[s] # HashOf[f]
    /\ last' = Handled(f, s, "short", pc)
    /\ UNCHANGED <<clock, registers, controller, history>>

\* It is predicted long, and the slot's flow keeps the slot.
Refuse(f, s, pc) ==
    /\ Arrives(f, s)
    /\ r_hash[s] # HashOf[f]
    /\ Held(s) /\ ~ Evictable(s)
    /\ last' = Handled(f, s, IF claimed[s] THEN "collision" ELSE "empty", pc)
    /\ UNCHANGED <<clock, registers, controller, history>>

\* Slip: a takeover leaves the verdict of the flow it replaces as it was.
ResKept(s, pc) == r_res[s]

\* What a takeover writes; the recirculated copy stores the packet's verdict.
ResAtTakeover(s, pc) == pc
LastcAtTakeover(s) == IF TakeoverRefresh THEN now ELSE r_lastc[s]
T0AtTakeover(s) == now

TakeOver(f, s, pc) ==
    /\ Arrives(f, s)
    /\ r_hash[s] # HashOf[f]
    /\ ~ Held(s) \/ Evictable(s)
    /\ r_hash' = [r_hash EXCEPT ![s] = HashOf[f]]
    /\ r_res' = [r_res EXCEPT ![s] = ResAtTakeover(s, pc)]
    /\ r_lastc' = [r_lastc EXCEPT ![s] = LastcAtTakeover(s)]
    /\ claimed' = [claimed EXCEPT ![s] = TRUE]
    /\ r_t0' = [r_t0 EXCEPT ![s] = T0AtTakeover(s)]
    /\ r_v' = [r_v EXCEPT ![s] = now + Grace]
    /\ r_pk' = [r_pk EXCEPT ![s] = 1]
    /\ last' = Handled(f, s, "new_owner", pc)
    /\ owner' = [owner EXCEPT ![s] = {f}]
    /\ took' = [took EXCEPT ![s] = clock]
    /\ seen' = [seen EXCEPT ![s] = clock]
    /\ wrote' = [wrote EXCEPT ![s] = TakeoverRefresh]
    /\ steady' = [steady EXCEPT ![s] = TRUE]
    /\ UNCHANGED <<clock, controller>>

\* Slip: the register keeps the time of the takeover.
LastcUntouched(s) == r_lastc[s]

\* Every packet of the stored flow refreshes last_classified ...
LastcOfOwner(s) == now

Smaller(x, y) == IF x < y THEN x ELSE y

\* Slips: credit is banked without limit; a packet pays no rent.
UncappedCredit(s) == IF Rent = "credit" THEN r_v[s] + CreditUnit ELSE r_v[s]
NoCredit(s) == r_v[s]

\* ... and buys credit, which cannot be banked further ahead than Cap.
CreditOfOwner(s) ==
    IF Rent = "credit" THEN Smaller(r_v[s] + CreditUnit, now + Cap) ELSE r_v[s]

Refresh(f, s) ==
    /\ r_lastc' = [r_lastc EXCEPT ![s] = LastcOfOwner(s)]
    /\ r_v' = [r_v EXCEPT ![s] = CreditOfOwner(s)]
    /\ seen' = [seen EXCEPT ![s] = clock]
    /\ wrote' = [wrote EXCEPT ![s] = TRUE]
    /\ steady' = [steady EXCEPT ![s] = @ /\ clock - seen[s] <= CreditUnit]
    /\ UNCHANGED <<clock, r_hash, claimed, r_t0, memo, owner, took>>

\* A stored 0 lets the per-packet tree answer.
Verdict(stored, pc) == IF stored = 0 THEN pc ELSE stored

\* Slip: the features of a determined flow are updated as well.
AlwaysCounting(s) == TRUE

\* if r_res[s] < 50
Counting(s) == r_res[s] < Decided

\* Slip: the counter has no width.
CountWide(s) == r_pk[s] + 1

Count(s) == (r_pk[s] + 1) % PkMod

\* A packet of the stored flow once the flow is determined.
OwnerDetermined(f, s, pc) ==
    /\ Arrives(f, s)
    /\ r_hash[s] = HashOf[f]
    /\ ~ Counting(s)
    /\ Refresh(f, s)
    /\ last' = Handled(f, s, "owner", r_res[s])
    /\ UNCHANGED <<r_res, r_pk, pending>>

\* One between two phases.
OwnerBetween(f, s, pc) ==
    /\ Arrives(f, s)
    /\ r_hash[s] = HashOf[f]
    /\ Counting(s)
    /\ Count(s) \notin Phases \cup {FinalPhase}
    /\ Refresh(f, s)
    /\ r_pk' = [r_pk EXCEPT ![s] = Count(s)]
    /\ last' = Handled(f, s, "owner", Verdict(r_res[s], pc))
    /\ UNCHANGED <<r_res, pending>>

\* What a phase stores: its code, unless Flow_Tree misses; a miss on a stored
\* 0 stores the packet's own verdict.
Stored(s, code, pc) == IF code # 0 THEN code ELSE Verdict(r_res[s], pc)

OwnerPhase(f, s, pc, code) ==
    /\ Arrives(f, s)
    /\ r_hash[s] = HashOf[f]
    /\ Counting(s)
    /\ Count(s) \in Phases
    /\ Refresh(f, s)
    /\ r_pk' = [r_pk EXCEPT ![s] = Count(s)]
    /\ r_res' = [r_res EXCEPT ![s] = Stored(s, code, pc)]
    /\ last' = Handled(f, s, "owner", Verdict(Stored(s, code, pc), pc))
    /\ UNCHANGED pending

\* The last phase: a determined code goes to the controller as a digest.
OwnerFinal(f, s, pc, code) ==
    /\ Arrives(f, s)
    /\ r_hash[s] = HashOf[f]
    /\ Counting(s)
    /\ Count(s) = FinalPhase
    /\ Refresh(f, s)
    /\ r_pk' = [r_pk EXCEPT ![s] = Count(s)]
    /\ r_res' = [r_res EXCEPT ![s] = Stored(s, code, pc)]
    /\ pending' = IF code > Decided
                  THEN Append(pending, [due |-> clock + MemoDelay,
                                        flow |-> f, res |-> code])
                  ELSE pending
    /\ last' = Handled(f, s, "owner", Verdict(Stored(s, code, pc), pc))

-----------------------------------------------------------------------------
Init ==
    /\ clock \in Starts
    /\ r_hash = [s \in Slots |-> 0]
    /\ r_res = [s \in Slots |-> 0]
    /\ r_lastc = [s \in Slots |-> 0]
    /\ claimed = [s \in Slots |-> FALSE]
    /\ r_t0 = [s \in Slots |-> 0]
    /\ r_v = [s \in Slots |-> 0]
    /\ r_pk = [s \in Slots |-> 0]
    /\ memo = <<>>
    /\ pending = <<>>
    /\ last = NoPacket
    /\ owner = [s \in Slots |-> {}]
    /\ took = [s \in Slots |-> 0]
    /\ seen = [s \in Slots |-> 0]
    /\ wrote = [s \in Slots |-> FALSE]
    /\ steady = [s \in Slots |-> FALSE]

OwnerStep(f, s, pc) ==
    \/ OwnerDetermined(f, s, pc)
    \/ OwnerBetween(f, s, pc)
    \/ \E code \in PhaseCodes : OwnerPhase(f, s, pc, code)
    \/ \E code \in FinalCodes : OwnerFinal(f, s, pc, code)

NewcomerStep(f, s, pc) ==
    FallbackShort(f, s, pc) \/ Refuse(f, s, pc) \/ TakeOver(f, s, pc)

Packet(f) ==
    \/ Reject(f)
    \/ MemoHit(f)
    \/ \E s \in Candidates(f), pc \in PktCodes : NewcomerStep(f, s, pc) \/ OwnerStep(f, s, pc)

Next == Tick \/ MemoInsert \/ \E f \in Flows : Packet(f)

Spec == Init /\ [][Next]_vars
-----------------------------------------------------------------------------
(* Properties.                                                             *)

Outcomes == {"rejected", "memo", "short", "collision", "empty", "new_owner", "owner"}

\* Every register has its width and the memo and the digests their fields.
TypeOK ==
    /\ clock \in Nat
    /\ r_hash \in [Slots -> {0} \cup {HashOf[f] : f \in Flows}]
    /\ r_res \in [Slots -> PktCodes \cup PhaseCodes \cup FinalCodes \cup {0}]
    /\ r_lastc \in [Slots -> Nat]
    /\ WrapWindow => \A s \in Slots : r_lastc[s] < ClockMod
    /\ claimed \in [Slots -> BOOLEAN]
    /\ r_t0 \in [Slots -> Nat]
    /\ r_v \in [Slots -> Nat]
    /\ r_pk \in [Slots -> 0 .. PkMod - 1]
    /\ memo \in Seq([flow : Flows, res : FinalCodes])
    /\ pending \in Seq([due : Nat, flow : Flows, res : FinalCodes])
    /\ last \in {NoPacket} \cup [outcome : Outcomes, flow : Flows, slot : Slots, result : Nat]
    /\ owner \in [Slots -> SUBSET Flows]
    /\ took \in [Slots -> Nat]
    /\ seen \in [Slots -> Nat]
    /\ wrote \in [Slots -> BOOLEAN]
    /\ steady \in [Slots -> BOOLEAN]

\* A flow has one home: the two candidates of a newcomer never both end up
\* holding it, whatever happened to either slot in between.
OneHome ==
    \A s, t \in Slots :
        claimed[s] /\ claimed[t] /\ r_hash[s] = r_hash[t] => s = t

\* What the abstract specification sees: who holds a slot, and the packet.
PlacesOf == [f \in Flows |-> Candidates(f)]
Homes == UNION {Candidates(f) : f \in Flows}
Holding == [s \in Homes |-> owner[s]]

Reported ==
    IF last = NoPacket THEN last
    ELSE [flow |-> last.flow, slot |-> last.slot, outcome |-> last.outcome]

Outcome == INSTANCE SlotOutcomes WITH
    Places <- PlacesOf,
    holder <- Holding,
    known <- Remembered,
    packet <- Reported

\* With all its clocks, registers and hashes the emulator tells packets only
\* what SlotOutcomes allows: a flow is served from its slot or the memo until
\* another takes the slot, and then is a newcomer at both of its candidates.
ImplementsSlotOutcomes == Outcome!OutcomesSpec

\* The flow in slot s is being replaced.
Displaced(s) == claimed[s] /\ r_hash'[s] # r_hash[s]

\* An undetermined flow loses its slot only when it has been idle for the
\* timeout, or for one of the three reasons the notes give: the clock has
\* wrapped since its last packet, no packet of it has refreshed the register
\* since it took the slot over, or it has not paid its rent.
DisplacedForAReason ==
    [][\A s \in Slots : Displaced(s) /\ r_res[s] < Decided =>
         \/ clock - seen[s] >= Timeout
         \/ WrapWindow /\ clock \div ClockMod > seen[s] \div ClockMod
         \/ ~ TakeoverRefresh /\ ~ wrote[s]
         \/ Rent # "none" /\ clock - took[s] >= Grace]_vars

\* A newcomer is refused only if every slot it could have is held by a flow
\* that the clock shows active (on the unwrapped clock: that is active), and
\* the refusal counts as a collision unless all of them were never claimed.
RefusedOnlyIfAllHeld ==
    /\ last.outcome \in {"collision", "empty"} =>
          \A s \in Candidates(last.flow) :
             /\ r_res[s] < Decided
             /\ claimed[s] /\ wrote[s] =>
                   IF WrapWindow THEN (clock - seen[s]) % ClockMod < Timeout
                                 ELSE clock - seen[s] < Timeout
             /\ ~ claimed[s] => WrapWindow /\ now < Timeout
    /\ last.outcome = "collision" => \E s \in Candidates(last.flow) : claimed[s]
    /\ last.outcome = "empty" => \A s \in Candidates(last.flow) : ~ claimed[s]

\* A flow with a slot of its own is never refused and never loses the slot,
\* whatever the clock does: the reference run in which "this flow had a slot".
IsolatedFlowsAreServed ==
    /\ [](last.outcome \notin {"collision", "empty"})
    /\ [][\A s \in Slots : ~ Displaced(s)]_vars

\* A verdict is determined by the last phase of the flow that has the slot,
\* not by one before it or by a flow that had the slot earlier.
DeterminedByFinalPhase ==
    \A s \in Slots : r_res[s] > Decided => claimed[s] /\ r_pk[s] = FinalPhase

\* What the system answers for a determined flow.
Known(f) ==
    IF f \in Remembered THEN {MemoOf(f)}
    ELSE {r_res[s] : s \in {t \in Slots : owner[t] = {f} /\ r_res[t] > Decided}}

\* "Frozen at the 2048 verdict": as long as the memo or the slot still knows a
\* determined flow, its verdict does not change, also when the memo drops the
\* flow and its slot answers again; and the slot forgets it only with the flow.
DeterminedVerdictIsFrozen ==
    [][/\ \A f \in Flows : Known(f) # {} /\ Known(f)' # {} => Known(f)' = Known(f)
       /\ \A s \in Slots : r_res[s] > Decided /\ ~ Displaced(s) => r_res'[s] = r_res[s]]_vars

\* Under rent by credit or by rate, a flow that pays (whose packets are never
\* more than CreditUnit apart) is never displaced while undetermined.
PayingFlowKeepsSlot ==
    [][\A s \in Slots :
         Displaced(s) /\ r_res[s] < Decided /\ steady[s] => clock - seen[s] > CreditUnit]_vars

\* The rent is due: whoever refuses a newcomer past its grace has sent a
\* packet per CreditUnit since, and has banked no more than Cap.
RefusalIsPaidFor ==
    Rent = "credit" /\ last.outcome = "collision" =>
      \A s \in Candidates(last.flow) :
         clock - took[s] >= Grace =>
            /\ clock - took[s] - Grace <= (r_pk[s] - 1) * CreditUnit
            /\ r_v[s] - seen[s] <= (IF Cap > Grace THEN Cap ELSE Grace)

\* "An incumbent younger than this is always protected" (rent_grace_s).
YoungFlowIsProtected ==
    [][\A s \in Slots :
         Displaced(s) /\ r_res[s] < Decided => clock - took[s] >= Grace]_vars
=============================================================================
