------------------------- MODULE SlotAdmissionProofs -------------------------
(***************************************************************************)
(* Theorems about SlotAdmission, for every stream, table and clock: who    *)
(* has a slot, its refinement of SlotOutcomes if flows have distinct       *)
(* hashes, refusals are just, a flow with a slot of its own is served, a   *)
(* flow that pays its rent keeps its slot.  And what becomes of a verdict: *)
(* it is frozen, if every flow has a slot of its own, or if digests reach  *)
(* the controller before the next packet and hashes are distinct.          *)
(***************************************************************************)
EXTENDS SlotAdmission, SequenceTheorems, TLAPS

\* Distinct flows have distinct 32-bit hashes (two flows with the same hash
\* share their slot, see the README).
DistinctHashes == \A f, g \in Flows : HashOf[f] = HashOf[g] => f = g

-----------------------------------------------------------------------------
(* Types.                                                                  *)

\* The remainder of a division is below the divisor.
LEMMA Remainder == \A a \in Nat, m \in Nat \ {0} : a % m \in Nat /\ a % m < m
  OBVIOUS

\* The switch's clock is a number, and its counter of packets has its width.
LEMMA ClockTypes ==
  ASSUME clock \in Nat
  PROVE  now \in Nat /\ (WrapWindow => now < ClockMod)
  BY ClockAssumption, Remainder DEF now

\* The slots of a flow are slots.
LEMMA CandidatesAreSlots == ASSUME NEW f \in Flows PROVE Candidates(f) \subseteq Slots
  BY SlotsAssumption DEF Candidates, Slots, TwoWay

\* Every code a slot can store, and every answer.
Codes == PktCodes \cup PhaseCodes \cup FinalCodes \cup {0}

\* They are numbers.
LEMMA CodesAreNaturals == Codes \subseteq Nat
  BY CodesAssumption DEF Codes, Decided

\* The types of the registers and of the history, apart from the memo.
SlotTypes ==
    /\ clock \in Nat
    /\ r_hash \in [Slots -> {0} \cup {HashOf[f] : f \in Flows}]
    /\ r_res \in [Slots -> Codes]
    /\ r_lastc \in [Slots -> Nat]
    /\ WrapWindow => \A s \in Slots : r_lastc[s] < ClockMod
    /\ claimed \in [Slots -> BOOLEAN]
    /\ r_t0 \in [Slots -> Nat]
    /\ r_v \in [Slots -> Nat]
    /\ r_pk \in [Slots -> 0 .. PkMod - 1]
    /\ owner \in [Slots -> SUBSET Flows]
    /\ took \in [Slots -> Nat]
    /\ seen \in [Slots -> Nat]
    /\ wrote \in [Slots -> BOOLEAN]
    /\ steady \in [Slots -> BOOLEAN]

MemoTypes ==
    /\ memo \in Seq([flow : Flows, res : FinalCodes])
    /\ pending \in Seq([due : Nat, flow : Flows, res : FinalCodes])

LastType ==
    last \in {NoPacket} \cup [outcome : Outcomes, flow : Flows, slot : Slots, result : Nat]

\* The type invariant in three parts.
LEMMA TypeParts == TypeOK <=> SlotTypes /\ MemoTypes /\ LastType
  BY DEF TypeOK, SlotTypes, MemoTypes, LastType, Codes

\* The same of the state after a step.
LEMMA TypePartsPrimed == TypeOK' <=> SlotTypes' /\ MemoTypes' /\ LastType'
  BY DEF TypeOK, SlotTypes, MemoTypes, LastType, Codes

\* What is reported of a packet has its type.
LEMMA HandledType ==
  ASSUME NEW f \in Flows, NEW s \in Slots, NEW o \in Outcomes, NEW c \in Nat,
         last' = Handled(f, s, o, c)
  PROVE  LastType'
  BY DEF LastType, Handled

\* A step of the stored flow keeps the types of what Refresh assigns.
LEMMA RefreshTypes ==
  ASSUME SlotTypes, NEW f \in Flows, NEW s \in Slots, Refresh(f, s),
         r_res' \in [Slots -> Codes], r_pk' \in [Slots -> 0 .. PkMod - 1]
  PROVE  SlotTypes'
  <1>1. now \in Nat /\ (WrapWindow => now < ClockMod)
    BY ClockTypes DEF SlotTypes
  <1>2. CreditOfOwner(s) \in Nat
    <2>1. r_v[s] \in Nat /\ CreditUnit \in Nat /\ Cap \in Nat
      BY RentAssumption DEF SlotTypes
    <2>2. r_v[s] + CreditUnit \in Nat /\ now + Cap \in Nat
      BY <1>1, <2>1
    <2>3. QED
      BY <2>1, <2>2 DEF CreditOfOwner, Smaller
  <1>3. r_lastc' \in [Slots -> Nat] /\ r_v' \in [Slots -> Nat] /\ seen' \in [Slots -> Nat]
    BY <1>1, <1>2 DEF SlotTypes, Refresh, LastcOfOwner
  <1>4. WrapWindow => \A t \in Slots : r_lastc'[t] < ClockMod
    BY <1>1 DEF SlotTypes, Refresh, LastcOfOwner
  <1>5. wrote' \in [Slots -> BOOLEAN]
    BY DEF SlotTypes, Refresh
  <1>6. steady' \in [Slots -> BOOLEAN]
    <2>1. steady' = [steady EXCEPT ![s] = steady[s] /\ clock - seen[s] <= CreditUnit]
      BY DEF Refresh
    <2> DEFINE b == steady[s] /\ clock - seen[s] <= CreditUnit
    <2>2. b \in BOOLEAN
      BY DEF SlotTypes
    <2>3. steady \in [Slots -> BOOLEAN] /\ steady' = [steady EXCEPT ![s] = b]
      BY <2>1 DEF SlotTypes
    <2> HIDE DEF b
    <2>4. QED
      BY <2>2, <2>3
  <1>7. UNCHANGED <<clock, r_hash, claimed, r_t0, owner, took>>
    BY DEF Refresh
  <1>8. QED
    BY <1>3, <1>4, <1>5, <1>6, <1>7 DEF SlotTypes

\* So does a takeover.
LEMMA TakeOverTypes ==
  ASSUME SlotTypes, NEW f \in Flows, NEW s \in Slots, NEW pc \in PktCodes, TakeOver(f, s, pc)
  PROVE  SlotTypes'
  <1>1. now \in Nat /\ (WrapWindow => now < ClockMod)
    BY ClockTypes DEF SlotTypes
  <1>2. now + Grace \in Nat /\ 1 \in 0 .. PkMod - 1
    BY <1>1, RentAssumption, PhaseAssumption
  <1>3. /\ r_hash' \in [Slots -> {0} \cup {HashOf[g] : g \in Flows}]
        /\ r_res' \in [Slots -> Codes]
        /\ owner' \in [Slots -> SUBSET Flows]
    BY DEF SlotTypes, TakeOver, ResAtTakeover, Codes
  <1>4. /\ r_t0' \in [Slots -> Nat] /\ r_v' \in [Slots -> Nat]
        /\ r_pk' \in [Slots -> 0 .. PkMod - 1]
        /\ took' \in [Slots -> Nat] /\ seen' \in [Slots -> Nat]
    BY <1>1, <1>2 DEF SlotTypes, TakeOver, T0AtTakeover
  <1>5. LastcAtTakeover(s) \in Nat /\ (WrapWindow => LastcAtTakeover(s) < ClockMod)
    BY <1>1 DEF LastcAtTakeover, SlotTypes
  <1>6. r_lastc' \in [Slots -> Nat] /\ (WrapWindow => \A t \in Slots : r_lastc'[t] < ClockMod)
    BY <1>5 DEF SlotTypes, TakeOver
  <1>7. /\ claimed' \in [Slots -> BOOLEAN]
        /\ wrote' \in [Slots -> BOOLEAN]
        /\ steady' \in [Slots -> BOOLEAN]
    BY SwitchesAssumption DEF SlotTypes, TakeOver
  <1>8. clock' = clock
    BY DEF TakeOver
  <1>9. QED
    BY <1>3, <1>4, <1>6, <1>7, <1>8 DEF SlotTypes

\* The verdicts that a stored flow can be given.
LEMMA StoredCodes ==
  ASSUME SlotTypes, NEW s \in Slots, NEW pc \in PktCodes,
         NEW code \in PhaseCodes \cup FinalCodes
  PROVE  Stored(s, code, pc) \in Codes /\ Verdict(Stored(s, code, pc), pc) \in Codes
         /\ Verdict(r_res[s], pc) \in Codes
  BY DEF Stored, Verdict, Codes, SlotTypes

\* A step of the stored flow keeps every type.
LEMMA OwnerTypes ==
  ASSUME TypeOK, NEW f \in Flows, NEW s \in Slots, NEW pc \in PktCodes, OwnerStep(f, s, pc)
  PROVE  TypeOK'
  <1>1. SlotTypes /\ MemoTypes
    BY TypeParts
  <1>2. r_res \in [Slots -> Codes] /\ r_pk \in [Slots -> 0 .. PkMod - 1] /\ clock \in Nat
    BY <1>1 DEF SlotTypes
  <1>3. Count(s) \in 0 .. PkMod - 1
    <2>1. r_pk[s] + 1 \in Nat /\ PkMod \in Nat \ {0}
      BY <1>2, PhaseAssumption
    <2>2. QED
      BY <2>1, Remainder DEF Count
  <1>4. [r_pk EXCEPT ![s] = Count(s)] \in [Slots -> 0 .. PkMod - 1]
    BY <1>2, <1>3
  <1>5. "owner" \in Outcomes
    BY DEF Outcomes
  <1>6. CASE OwnerDetermined(f, s, pc)
    <2>1. SlotTypes'
      BY <1>1, <1>2, <1>6, RefreshTypes DEF OwnerDetermined
    <2>2. r_res[s] \in Nat
      BY <1>2, CodesAreNaturals
    <2>3. LastType'
      BY <1>5, <1>6, <2>2, HandledType DEF OwnerDetermined
    <2>4. MemoTypes'
      BY <1>1, <1>6 DEF OwnerDetermined, Refresh, MemoTypes
    <2>5. QED
      BY <2>1, <2>3, <2>4, TypePartsPrimed
  <1>7. CASE OwnerBetween(f, s, pc)
    <2>1. SlotTypes'
      BY <1>1, <1>2, <1>4, <1>7, RefreshTypes DEF OwnerBetween
    <2>2. Verdict(r_res[s], pc) \in Nat
      BY <1>2, CodesAreNaturals DEF Verdict, Codes
    <2>3. LastType'
      BY <1>5, <1>7, <2>2, HandledType DEF OwnerBetween
    <2>4. MemoTypes'
      BY <1>1, <1>7 DEF OwnerBetween, Refresh, MemoTypes
    <2>5. QED
      BY <2>1, <2>3, <2>4, TypePartsPrimed
  <1>8. ASSUME NEW code \in PhaseCodes, OwnerPhase(f, s, pc, code) PROVE TypeOK'
    <2>1. /\ Stored(s, code, pc) \in Codes
          /\ Verdict(Stored(s, code, pc), pc) \in Nat
      BY <1>1, StoredCodes, CodesAreNaturals
    <2>2. SlotTypes'
      <3>1. [r_res EXCEPT ![s] = Stored(s, code, pc)] \in [Slots -> Codes]
        BY <1>2, <2>1
      <3>2. QED
        BY <1>1, <1>4, <1>8, <3>1, RefreshTypes DEF OwnerPhase
    <2>3. LastType'
      BY <1>5, <1>8, <2>1, HandledType DEF OwnerPhase
    <2>4. MemoTypes'
      BY <1>1, <1>8 DEF OwnerPhase, Refresh, MemoTypes
    <2>5. QED
      BY <2>2, <2>3, <2>4, TypePartsPrimed
  <1>9. ASSUME NEW code \in FinalCodes, OwnerFinal(f, s, pc, code) PROVE TypeOK'
    <2>1. /\ Stored(s, code, pc) \in Codes
          /\ Verdict(Stored(s, code, pc), pc) \in Nat
      BY <1>1, StoredCodes, CodesAreNaturals
    <2>2. SlotTypes'
      <3>1. [r_res EXCEPT ![s] = Stored(s, code, pc)] \in [Slots -> Codes]
        BY <1>2, <2>1
      <3>2. QED
        BY <1>1, <1>4, <1>9, <3>1, RefreshTypes DEF OwnerFinal
    <2>3. LastType'
      BY <1>5, <1>9, <2>1, HandledType DEF OwnerFinal
    <2>4. MemoTypes'
      <3> DEFINE d == [due |-> clock + MemoDelay, flow |-> f, res |-> code]
                 D == [due : Nat, flow : Flows, res : FinalCodes]
      <3>1. clock + MemoDelay \in Nat
        BY <1>2, ClockAssumption
      <3>2. d \in D
        BY <3>1
      <3>3. pending \in Seq(D) /\ memo' = memo
        BY <1>1, <1>9 DEF MemoTypes, OwnerFinal, Refresh
      <3>4. pending' = Append(pending, d) \/ pending' = pending
        BY <1>9 DEF OwnerFinal
      <3>5. pending' \in Seq(D)
        <4> HIDE DEF d, D
        <4>1. QED
          BY <3>2, <3>3, <3>4, AppendProperties
      <3>6. QED
        BY <1>1, <3>3, <3>5 DEF MemoTypes
    <2>5. QED
      BY <2>2, <2>3, <2>4, TypePartsPrimed
  <1>10. QED
    BY <1>6, <1>7, <1>8, <1>9 DEF OwnerStep

\* The memo without the entries that a full memo drops: what is left is in the
\* order it was.
LEMMA RoomEntries ==
  ASSUME MemoTypes
  PROVE  /\ Room \in Seq([flow : Flows, res : FinalCodes])
         /\ \E k \in Nat :
               \A i \in 1 .. Len(Room) : k + i \in 1 .. Len(memo) /\ Room[i] = memo[k + i]
  <1> DEFINE M == [flow : Flows, res : FinalCodes]
  <1>1. memo \in Seq(M) /\ Len(memo) \in Nat /\ MemoDrop \in Nat
    BY MemoAssumption DEF MemoTypes
  <1> HIDE DEF M
  <1>2. CASE Len(memo) >= MemoSize
    <2> DEFINE q == SubSeq(memo, MemoDrop + 1, Len(memo))
    <2>1. \A i \in MemoDrop + 1 .. Len(memo) : memo[i] \in M
      BY <1>1, ElementOfSeq
    <2>2. /\ q \in Seq(M)
          /\ Len(q) = IF MemoDrop + 1 <= Len(memo) THEN Len(memo) - (MemoDrop + 1) + 1 ELSE 0
          /\ \A i \in 1 .. Len(memo) - (MemoDrop + 1) + 1 : q[i] = memo[(MemoDrop + 1) + i - 1]
      <3>1. MemoDrop + 1 \in Int /\ Len(memo) \in Int
        BY <1>1
      <3>2. QED
        BY <1>1, <2>1, <3>1, SubSeqProperties
    <2>3. Room = q
      BY <1>2 DEF Room
    <2> HIDE DEF q
    <2>4. \A i \in 1 .. Len(q) : MemoDrop + i \in 1 .. Len(memo) /\ q[i] = memo[MemoDrop + i]
      <3>1. \A i \in Nat : (MemoDrop + 1) + i - 1 = MemoDrop + i
        BY <1>1
      <3>2. QED
        BY <1>1, <2>2, <3>1
    <2>5. QED
      BY <1>1, <2>2, <2>3, <2>4 DEF M
  <1>3. CASE ~ (Len(memo) >= MemoSize)
    <2>1. Room = memo
      BY <1>3 DEF Room
    <2>2. \A i \in 1 .. Len(memo) : 0 + i \in 1 .. Len(memo) /\ memo[i] = memo[0 + i]
      BY <1>1
    <2>3. QED
      BY <1>1, <2>1, <2>2 DEF M
  <1>4. QED
    BY <1>2, <1>3

\* The controller's memo keeps its type: it loses its oldest entries and gains
\* one for the digest.
LEMMA MemoInsertTypes == ASSUME TypeOK, MemoInsert PROVE TypeOK'
  <1> DEFINE M == [flow : Flows, res : FinalCodes]
             D == [due : Nat, flow : Flows, res : FinalCodes]
             d == Head(pending)
             e == [flow |-> d.flow, res |-> d.res]
  <1>1. SlotTypes /\ memo \in Seq(M) /\ pending \in Seq(D) /\ pending # <<>>
    BY TypeParts DEF MemoTypes, MemoInsert, Due
  <1>2. d \in D /\ Tail(pending) \in Seq(D)
    <2> HIDE DEF D
    <2>1. QED
      BY <1>1, HeadTailProperties
  <1>3. e \in M
    BY <1>2
  <1>4. Room \in Seq(M)
    BY RoomEntries, TypeParts
  <1>5. Append(Room, e) \in Seq(M)
    <2> HIDE DEF M, e
    <2>1. QED
      BY <1>3, <1>4, AppendProperties
  <1>6. memo' \in Seq(M) /\ pending' \in Seq(D)
    <2> HIDE DEF M, D
    <2>1. QED
      BY <1>1, <1>2, <1>5 DEF MemoInsert
  <1>7. SlotTypes' /\ LastType'
    BY <1>1 DEF MemoInsert, SlotTypes, LastType, registers, history
  <1>8. QED
    BY <1>6, <1>7, TypePartsPrimed DEF MemoTypes

\* The types hold at the start.
LEMMA TypesInitially == Init => TypeOK
  <1> SUFFICES ASSUME Init PROVE TypeOK
    OBVIOUS
  <1>1. clock \in Nat
    BY ClockAssumption DEF Init
  <1>2. 0 \in 0 .. PkMod - 1 /\ (WrapWindow => 0 < ClockMod)
    BY ClockAssumption, PhaseAssumption
  <1>3. \A S : <<>> \in Seq(S)
    OBVIOUS
  <1>4. QED
    BY <1>1, <1>2, <1>3 DEF Init, TypeOK

\* Every step keeps them.
LEMMA TypesInductive == TypeOK /\ [Next]_vars => TypeOK'
  <1> SUFFICES ASSUME TypeOK, [Next]_vars PROVE TypeOK'
    OBVIOUS
  <1>0. SlotTypes /\ MemoTypes /\ LastType
    BY TypeParts
  <1>1. CASE Tick
    <2>1. clock \in Nat /\ clock' = clock + 1
      BY <1>0, <1>1 DEF SlotTypes, Tick
    <2>2. clock' \in Nat
      BY <2>1
    <2>3. QED
      BY <1>0, <1>1, <2>2, TypePartsPrimed
         DEF Tick, SlotTypes, MemoTypes, LastType, registers, controller, history
  <1>2. CASE MemoInsert
    BY <1>2, MemoInsertTypes
  <1>3. CASE UNCHANGED vars
    BY <1>0, <1>3, TypePartsPrimed
       DEF vars, SlotTypes, MemoTypes, LastType, registers, controller, history
  <1>4. ASSUME NEW f \in Flows, Packet(f) PROVE TypeOK'
    <2>0. SlotA[f] \in Slots
      BY SlotsAssumption DEF Slots
    <2>1. CASE Reject(f)
      <3>1. LastType'
        BY <2>0, <2>1, HandledType DEF Reject, Outcomes
      <3>2. QED
        BY <1>0, <2>1, <3>1, TypePartsPrimed
           DEF Reject, SlotTypes, MemoTypes, registers, controller, history
    <2>2. CASE MemoHit(f)
      <3>1. MemoOf(f) \in Nat
        <4>1. PICK i \in DOMAIN memo : memo[i].flow = f
          BY <2>2 DEF MemoHit, Remembered
        <4> DEFINE j == CHOOSE k \in DOMAIN memo : memo[k].flow = f
        <4>2. j \in DOMAIN memo
          BY <4>1
        <4>3. memo[j] \in [flow : Flows, res : FinalCodes]
          <5> DEFINE M == [flow : Flows, res : FinalCodes]
          <5>1. memo \in Seq(M)
            BY <1>0 DEF MemoTypes
          <5> HIDE DEF M, j
          <5>2. memo[j] \in M
            BY <4>2, <5>1, ElementOfSeq, LenProperties
          <5>3. QED
            BY <5>2 DEF M
        <4>4. QED
          BY <4>3, CodesAssumption DEF MemoOf
      <3>2. LastType'
        BY <2>0, <2>2, <3>1, HandledType DEF MemoHit, Outcomes
      <3>3. QED
        BY <1>0, <2>2, <3>2, TypePartsPrimed
           DEF MemoHit, SlotTypes, MemoTypes, registers, controller, history
    <2>3. ASSUME NEW s \in Candidates(f), NEW pc \in PktCodes, NewcomerStep(f, s, pc)
          PROVE  TypeOK'
      <3>1. s \in Slots /\ pc \in Nat
        BY CandidatesAreSlots, CodesAreNaturals DEF Codes
      <3>2. CASE FallbackShort(f, s, pc)
        <4>1. LastType'
          BY <3>1, <3>2, HandledType DEF FallbackShort, Outcomes
        <4>2. QED
          BY <1>0, <3>2, <4>1, TypePartsPrimed
             DEF FallbackShort, SlotTypes, MemoTypes, registers, controller, history
      <3>3. CASE Refuse(f, s, pc)
        <4>1. (IF claimed[s] THEN "collision" ELSE "empty") \in Outcomes
          BY DEF Outcomes
        <4>2. LastType'
          BY <3>1, <3>3, <4>1, HandledType DEF Refuse
        <4>3. QED
          BY <1>0, <3>3, <4>2, TypePartsPrimed
             DEF Refuse, SlotTypes, MemoTypes, registers, controller, history
      <3>4. CASE TakeOver(f, s, pc)
        <4>1. SlotTypes'
          BY <1>0, <3>1, <3>4, TakeOverTypes
        <4>2. LastType'
          BY <3>1, <3>4, HandledType DEF TakeOver, Outcomes
        <4>3. QED
          BY <1>0, <3>4, <4>1, <4>2, TypePartsPrimed DEF TakeOver, MemoTypes, controller
      <3>5. QED
        BY <2>3, <3>2, <3>3, <3>4 DEF NewcomerStep
    <2>4. ASSUME NEW s \in Candidates(f), NEW pc \in PktCodes, OwnerStep(f, s, pc)
          PROVE  TypeOK'
      BY <2>4, CandidatesAreSlots, OwnerTypes
    <2>5. QED
      BY <1>4, <2>1, <2>2, <2>3, <2>4 DEF Packet
  <1>5. QED
    BY <1>1, <1>2, <1>3, <1>4 DEF Next

\* Every register keeps its width and every message its fields.
THEOREM SlotTypesCorrect == Spec => []TypeOK
<1>1. QED
  BY TypesInitially, TypesInductive, PTL DEF Spec

-----------------------------------------------------------------------------
(* One home.                                                               *)

\* Where a hash is stored there is a flow that took the slot over and looks
\* for itself there, and no two slots store the same hash.
HomeInv ==
    /\ r_hash \in [Slots -> Nat]
    /\ claimed \in [Slots -> BOOLEAN]
    /\ owner \in [Slots -> SUBSET Flows]
    /\ \A s \in Slots : r_hash[s] # 0 <=> claimed[s]
    /\ \A s \in Slots : claimed[s] =>
          \E f \in Flows : owner[s] = {f} /\ HashOf[f] = r_hash[s] /\ s \in Candidates(f)
    /\ OneHome

homeVars == <<r_hash, claimed, owner>>

\* A step that takes no slot over keeps HomeInv.
LEMMA HomeInvStutters == ASSUME HomeInv, UNCHANGED homeVars PROVE HomeInv'
  BY DEF HomeInv, OneHome, homeVars

\* A slot that already stores the hash of f is the one f's packet works on,
\* provided that only f has this hash and that no other slot stores it.
LEMMA StoredFlowIsFound ==
  ASSUME DistinctHashes, HomeInv, NEW f \in Flows, NEW t \in Slots,
         claimed[t], r_hash[t] = HashOf[f]
  PROVE  SlotOf(f) = t
  <1>1. PICK g \in Flows : HashOf[g] = r_hash[t] /\ t \in Candidates(g)
    BY DEF HomeInv
  <1>2. t \in Candidates(f)
    BY <1>1 DEF DistinctHashes
  <1>3. CASE t = SlotA[f]
    BY <1>3 DEF SlotOf
  <1>4. CASE t # SlotA[f]
    <2>1. TwoWay /\ t = SlotB[f] /\ FoundInB(f)
      BY <1>2, <1>4 DEF Candidates, FoundInB
    <2>2. SlotA[f] \in Slots
      BY SlotsAssumption DEF Slots
    <2>3. r_hash[SlotA[f]] # HashOf[f]
      <3>1. SUFFICES ASSUME r_hash[SlotA[f]] = HashOf[f] PROVE FALSE
        OBVIOUS
      <3>2. HashOf[f] # 0
        BY HashAssumption
      <3>3. claimed[SlotA[f]]
        BY <2>2, <3>1, <3>2 DEF HomeInv
      <3>4. QED
        BY <1>4, <2>2, <3>1, <3>3 DEF HomeInv, OneHome
    <2>4. QED
      BY <2>1, <2>3 DEF SlotOf
  <1>5. QED
    BY <1>3, <1>4

\* A takeover keeps HomeInv.
LEMMA TakeOverHomeInv ==
  ASSUME DistinctHashes, HomeInv, NEW f \in Flows, NEW s \in Candidates(f), NEW pc,
         TakeOver(f, s, pc)
  PROVE  HomeInv'
  <1>1. s \in Slots
    BY CandidatesAreSlots
  <1>2. HashOf[f] \in Nat /\ HashOf[f] # 0
    BY HashAssumption
  <1>3. /\ r_hash' = [r_hash EXCEPT ![s] = HashOf[f]]
        /\ claimed' = [claimed EXCEPT ![s] = TRUE]
        /\ owner' = [owner EXCEPT ![s] = {f}]
        /\ r_hash[s] # HashOf[f] /\ s = SlotOf(f)
    BY DEF TakeOver, Arrives
  <1>4. /\ r_hash' \in [Slots -> Nat]
        /\ claimed' \in [Slots -> BOOLEAN]
        /\ owner' \in [Slots -> SUBSET Flows]
    BY <1>1, <1>2, <1>3 DEF HomeInv
  <1>5. \A t \in Slots : r_hash'[t] # 0 <=> claimed'[t]
    BY <1>1, <1>2, <1>3 DEF HomeInv
  <1>6. \A t \in Slots : claimed'[t] =>
           \E g \in Flows : owner'[t] = {g} /\ HashOf[g] = r_hash'[t] /\ t \in Candidates(g)
    BY <1>1, <1>3 DEF HomeInv
  <1>7. \A t \in Slots : t # s /\ claimed[t] => r_hash[t] # HashOf[f]
    BY <1>3, StoredFlowIsFound
  <1>8. OneHome'
    BY <1>1, <1>3, <1>7 DEF HomeInv, OneHome
  <1>9. QED
    BY <1>4, <1>5, <1>6, <1>8 DEF HomeInv, Candidates

\* With distinct hashes HomeInv is an invariant: every takeover follows a
\* search of both tables that did not find the flow.
THEOREM HomeInvariant == ASSUME DistinctHashes PROVE Spec => []HomeInv
<1>1. Init => HomeInv
  BY DEF Init, HomeInv, OneHome
<1>2. HomeInv /\ [Next]_vars => HomeInv'
  <2> SUFFICES ASSUME HomeInv, [Next]_vars PROVE HomeInv'
    OBVIOUS
  <2>1. CASE Tick
    BY <2>1, HomeInvStutters DEF Tick, homeVars, registers, history
  <2>2. CASE MemoInsert
    BY <2>2, HomeInvStutters DEF MemoInsert, homeVars, registers, history
  <2>3. CASE UNCHANGED vars
    BY <2>3, HomeInvStutters DEF vars, homeVars, registers, history
  <2>4. ASSUME NEW f \in Flows, Packet(f) PROVE HomeInv'
    <3>1. CASE Reject(f) \/ MemoHit(f)
      BY <3>1, HomeInvStutters DEF Reject, MemoHit, homeVars, registers, history
    <3>2. ASSUME NEW s \in Candidates(f), NEW pc \in PktCodes, NewcomerStep(f, s, pc)
          PROVE  HomeInv'
      <4>1. CASE FallbackShort(f, s, pc) \/ Refuse(f, s, pc)
        BY <4>1, HomeInvStutters DEF FallbackShort, Refuse, homeVars, registers, history
      <4>2. CASE TakeOver(f, s, pc)
        BY <4>2, TakeOverHomeInv
      <4>3. QED
        BY <3>2, <4>1, <4>2 DEF NewcomerStep
    <3>3. ASSUME NEW s \in Candidates(f), NEW pc \in PktCodes, OwnerStep(f, s, pc)
          PROVE  HomeInv'
      <4>1. Refresh(f, s)
        BY <3>3 DEF OwnerStep, OwnerDetermined, OwnerBetween, OwnerPhase, OwnerFinal
      <4>2. QED
        BY <4>1, HomeInvStutters DEF Refresh, homeVars
    <3>4. QED
      BY <2>4, <3>1, <3>2, <3>3 DEF Packet
  <2>5. QED
    BY <2>1, <2>2, <2>3, <2>4 DEF Next
<1>3. QED
  BY <1>1, <1>2, PTL DEF Spec

\* No flow is ever stored in both of its candidate slots.
THEOREM HomeIsOne == ASSUME DistinctHashes PROVE Spec => []OneHome
<1>1. HomeInv => OneHome
  BY DEF HomeInv
<1>2. QED
  BY <1>1, HomeInvariant, PTL
-----------------------------------------------------------------------------
(* What the registers say of the flow that has the slot.                   *)

\* The stored times are those of the flow in the slot, as far as its packets
\* have written them and the width of the clock lets them be told.
TimesInv ==
    \A s \in Slots : claimed[s] =>
        /\ took[s] <= seen[s] /\ seen[s] <= clock
        /\ wrote[s] => r_lastc[s] = (IF WrapWindow THEN seen[s] % ClockMod ELSE seen[s])
        /\ TakeoverRefresh => wrote[s]
        /\ ~ WrapWindow => r_t0[s] = took[s]

SlotInv ==
    /\ TypeOK
    /\ \A s \in Slots : r_hash[s] # 0 => claimed[s]
    /\ DeterminedByFinalPhase
    /\ TimesInv

\* A slot that stores the hash of a flow is claimed.
LEMMA StoredIsClaimed ==
  ASSUME SlotInv, NEW f \in Flows, NEW s \in Slots, r_hash[s] = HashOf[f]
  PROVE  claimed[s]
  BY HashAssumption DEF SlotInv

\* A step that leaves the slots alone, and only such a step lets time pass.
LEMMA SlotInvStutters ==
  ASSUME SlotInv, TypeOK', UNCHANGED <<registers, history>>, clock' >= clock
  PROVE  SlotInv'
  <1>1. clock \in Nat /\ clock' \in Nat /\ \A s \in Slots : seen[s] \in Nat
    BY DEF SlotInv, TypeOK
  <1>2. /\ UNCHANGED <<r_hash, r_res, r_lastc, claimed, r_t0, r_pk>>
        /\ UNCHANGED <<took, seen, wrote>>
    BY DEF registers, history
  <1>3. TimesInv'
    BY <1>1, <1>2 DEF SlotInv, TimesInv
  <1>4. QED
    BY <1>2, <1>3 DEF SlotInv, DeterminedByFinalPhase

\* A step of the stored flow, whatever it stores, as long as it determines
\* the verdict in the last phase only.
LEMMA RefreshSlotInv ==
  ASSUME SlotInv, TypeOK', NEW f \in Flows, NEW s \in Slots,
         r_hash[s] = HashOf[f], Refresh(f, s),
         \A t \in Slots : t # s => r_res'[t] = r_res[t] /\ r_pk'[t] = r_pk[t],
         r_res'[s] > Decided => r_pk'[s] = FinalPhase
  PROVE  SlotInv'
  <1>1. claimed[s]
    BY StoredIsClaimed
  <1>2. /\ UNCHANGED <<clock, r_hash, claimed, r_t0, took>>
        /\ r_lastc' = [r_lastc EXCEPT ![s] = now]
        /\ seen' = [seen EXCEPT ![s] = clock]
        /\ wrote' = [wrote EXCEPT ![s] = TRUE]
    BY DEF Refresh, LastcOfOwner
  <1>3. TypeOK
    BY DEF SlotInv
  <1>4. DeterminedByFinalPhase'
    BY <1>1, <1>2 DEF SlotInv, DeterminedByFinalPhase
  <1>5. TimesInv'
    <2>1. SUFFICES ASSUME NEW t \in Slots, claimed[t]
          PROVE  /\ took[t] <= seen'[t] /\ seen'[t] <= clock
                 /\ wrote'[t] =>
                      r_lastc'[t] = (IF WrapWindow THEN seen'[t] % ClockMod ELSE seen'[t])
                 /\ TakeoverRefresh => wrote'[t]
                 /\ ~ WrapWindow => r_t0[t] = took[t]
      BY <1>2 DEF TimesInv
    <2>2. CASE t = s
      <3>1. seen'[t] = clock /\ wrote'[t] /\ r_lastc'[t] = now
        BY <1>2, <1>3, <2>2 DEF TypeOK
      <3>2. took[t] \in Nat /\ seen[t] \in Nat /\ clock \in Nat
        BY <1>3 DEF TypeOK
      <3>3. took[t] <= clock
        BY <2>1, <3>2 DEF SlotInv, TimesInv
      <3>4. QED
        BY <2>1, <3>1, <3>2, <3>3 DEF SlotInv, TimesInv, now
    <2>3. CASE t # s
      <3>1. seen'[t] = seen[t] /\ wrote'[t] = wrote[t] /\ r_lastc'[t] = r_lastc[t]
        BY <1>2, <1>3, <2>3 DEF TypeOK
      <3>2. QED
        BY <2>1, <3>1 DEF SlotInv, TimesInv
    <2>4. QED
      BY <2>2, <2>3
  <1>6. QED
    BY <1>2, <1>4, <1>5 DEF SlotInv

\* A takeover stores a code of the per-packet tree, and its own times.
LEMMA TakeOverSlotInv ==
  ASSUME SlotInv, TypeOK', NEW f \in Flows, NEW s \in Slots, NEW pc \in PktCodes,
         TakeOver(f, s, pc)
  PROVE  SlotInv'
  <1>1. TypeOK /\ clock \in Nat /\ pc < Decided
    <2>1. pc < Decided
      BY CodesAssumption DEF Decided
    <2>2. TypeOK
      BY DEF SlotInv
    <2>3. QED
      BY <2>1, <2>2 DEF TypeOK
  <1>2. /\ clock' = clock
        /\ r_hash' = [r_hash EXCEPT ![s] = HashOf[f]]
        /\ r_res' = [r_res EXCEPT ![s] = pc]
        /\ r_lastc' = [r_lastc EXCEPT ![s] = LastcAtTakeover(s)]
        /\ claimed' = [claimed EXCEPT ![s] = TRUE]
        /\ r_t0' = [r_t0 EXCEPT ![s] = now]
        /\ r_pk' = [r_pk EXCEPT ![s] = 1]
        /\ took' = [took EXCEPT ![s] = clock]
        /\ seen' = [seen EXCEPT ![s] = clock]
        /\ wrote' = [wrote EXCEPT ![s] = TakeoverRefresh]
    BY DEF TakeOver, ResAtTakeover, T0AtTakeover
  <1>3. \A t \in Slots : r_hash'[t] # 0 => claimed'[t]
    BY <1>1, <1>2 DEF SlotInv, TypeOK
  <1>4. DeterminedByFinalPhase'
    <2>1. SUFFICES ASSUME NEW t \in Slots, r_res'[t] > Decided
          PROVE  claimed'[t] /\ r_pk'[t] = FinalPhase
      BY DEF DeterminedByFinalPhase
    <2>2. t # s
      BY <1>1, <1>2, <2>1, CodesAssumption DEF TypeOK, Decided
    <2>3. QED
      BY <1>1, <1>2, <2>1, <2>2 DEF SlotInv, TypeOK, DeterminedByFinalPhase
  <1>5. TimesInv'
    <2>1. SUFFICES ASSUME NEW t \in Slots, claimed'[t]
          PROVE  /\ took'[t] <= seen'[t] /\ seen'[t] <= clock
                 /\ wrote'[t] =>
                      r_lastc'[t] = (IF WrapWindow THEN seen'[t] % ClockMod ELSE seen'[t])
                 /\ TakeoverRefresh => wrote'[t]
                 /\ ~ WrapWindow => r_t0'[t] = took'[t]
      BY <1>2 DEF TimesInv
    <2>2. CASE t = s
      <3>1. /\ took'[t] = clock /\ seen'[t] = clock /\ wrote'[t] = TakeoverRefresh
            /\ r_lastc'[t] = LastcAtTakeover(s) /\ r_t0'[t] = now
        BY <1>1, <1>2, <2>2 DEF TypeOK
      <3>2. QED
        BY <1>1, <3>1 DEF LastcAtTakeover, now
    <2>3. CASE t # s
      <3>1. /\ took'[t] = took[t] /\ seen'[t] = seen[t] /\ wrote'[t] = wrote[t]
            /\ r_lastc'[t] = r_lastc[t] /\ r_t0'[t] = r_t0[t] /\ claimed[t]
        BY <1>1, <1>2, <2>1, <2>3 DEF TypeOK
      <3>2. QED
        BY <3>1 DEF SlotInv, TimesInv
    <2>4. QED
      BY <2>2, <2>3
  <1>6. QED
    BY <1>3, <1>4, <1>5 DEF SlotInv

\* Every step of the stored flow keeps SlotInv.
LEMMA OwnerSlotInv ==
  ASSUME SlotInv, TypeOK', NEW f \in Flows, NEW s \in Slots, NEW pc \in PktCodes,
         OwnerStep(f, s, pc)
  PROVE  SlotInv'
  <1>1. r_hash[s] = HashOf[f] /\ Refresh(f, s)
    BY DEF OwnerStep, OwnerDetermined, OwnerBetween, OwnerPhase, OwnerFinal
  <1>2. /\ r_res \in [Slots -> Codes] /\ r_pk \in [Slots -> 0 .. PkMod - 1]
        /\ r_res[s] \in Nat
    BY CodesAreNaturals DEF SlotInv, TypeOK, Codes
  <1>3. CASE OwnerDetermined(f, s, pc)
    <2>1. UNCHANGED <<r_res, r_pk>>
      BY <1>3 DEF OwnerDetermined
    <2>2. r_res'[s] > Decided => r_pk'[s] = FinalPhase
      BY <2>1 DEF SlotInv, DeterminedByFinalPhase
    <2>3. QED
      BY <1>1, <2>1, <2>2, RefreshSlotInv
  <1>4. CASE OwnerBetween(f, s, pc)
    <2>1. r_res' = r_res /\ r_pk' = [r_pk EXCEPT ![s] = Count(s)] /\ r_res[s] < Decided
      BY <1>4 DEF OwnerBetween, Counting
    <2>2. ~ r_res'[s] > Decided
      BY <1>2, <2>1 DEF Decided
    <2>3. \A t \in Slots : t # s => r_res'[t] = r_res[t] /\ r_pk'[t] = r_pk[t]
      BY <1>2, <2>1
    <2>4. QED
      BY <1>1, <2>2, <2>3, RefreshSlotInv
  <1>5. ASSUME NEW code \in PhaseCodes, OwnerPhase(f, s, pc, code) PROVE SlotInv'
    <2>1. /\ r_res' = [r_res EXCEPT ![s] = Stored(s, code, pc)]
          /\ r_pk' = [r_pk EXCEPT ![s] = Count(s)] /\ r_res[s] < Decided
      BY <1>5 DEF OwnerPhase, Counting
    <2>2. Stored(s, code, pc) \in Nat /\ Stored(s, code, pc) < Decided
      BY <1>2, <2>1, CodesAssumption DEF Stored, Verdict, Decided
    <2>3. ~ r_res'[s] > Decided
      BY <1>2, <2>1, <2>2 DEF Decided
    <2>4. \A t \in Slots : t # s => r_res'[t] = r_res[t] /\ r_pk'[t] = r_pk[t]
      BY <1>2, <2>1
    <2>5. QED
      BY <1>1, <2>3, <2>4, RefreshSlotInv
  <1>6. ASSUME NEW code \in FinalCodes, OwnerFinal(f, s, pc, code) PROVE SlotInv'
    <2>1. /\ r_res' = [r_res EXCEPT ![s] = Stored(s, code, pc)]
          /\ r_pk' = [r_pk EXCEPT ![s] = Count(s)] /\ Count(s) = FinalPhase
      BY <1>6 DEF OwnerFinal
    <2>2. r_pk'[s] = FinalPhase
      BY <1>2, <2>1
    <2>3. \A t \in Slots : t # s => r_res'[t] = r_res[t] /\ r_pk'[t] = r_pk[t]
      BY <1>2, <2>1
    <2>4. QED
      BY <1>1, <2>2, <2>3, RefreshSlotInv
  <1>7. QED
    BY <1>3, <1>4, <1>5, <1>6 DEF OwnerStep

\* SlotInv is inductive.
LEMMA SlotInvStep == SlotInv /\ [Next]_vars => SlotInv'
  <1> SUFFICES ASSUME SlotInv, [Next]_vars PROVE SlotInv'
    OBVIOUS
  <1>1. TypeOK' /\ clock \in Nat
    BY TypesInductive DEF SlotInv, TypeOK
  <1>2. CASE Tick
    <2>1. clock' >= clock
      BY <1>1, <1>2 DEF Tick
    <2>2. QED
      BY <1>1, <1>2, <2>1, SlotInvStutters DEF Tick
  <1>3. CASE MemoInsert
    BY <1>1, <1>3, SlotInvStutters DEF MemoInsert
  <1>4. CASE UNCHANGED vars
    BY <1>1, <1>4, SlotInvStutters DEF vars
  <1>5. ASSUME NEW f \in Flows, Packet(f) PROVE SlotInv'
    <2>1. CASE Reject(f) \/ MemoHit(f)
      BY <1>1, <2>1, SlotInvStutters DEF Reject, MemoHit
    <2>2. ASSUME NEW s \in Candidates(f), NEW pc \in PktCodes, NewcomerStep(f, s, pc)
          PROVE  SlotInv'
      <3>1. CASE FallbackShort(f, s, pc) \/ Refuse(f, s, pc)
        BY <1>1, <3>1, SlotInvStutters DEF FallbackShort, Refuse
      <3>2. CASE TakeOver(f, s, pc)
        BY <1>1, <3>2, CandidatesAreSlots, TakeOverSlotInv
      <3>3. QED
        BY <2>2, <3>1, <3>2 DEF NewcomerStep
    <2>3. ASSUME NEW s \in Candidates(f), NEW pc \in PktCodes, OwnerStep(f, s, pc)
          PROVE  SlotInv'
      BY <1>1, <2>3, CandidatesAreSlots, OwnerSlotInv
    <2>4. QED
      BY <1>5, <2>1, <2>2, <2>3 DEF Packet
  <1>6. QED
    BY <1>2, <1>3, <1>4, <1>5 DEF Next

\* SlotInv is an invariant, for every stream, table and clock.
THEOREM SlotInvariant == Spec => []SlotInv
<1>1. Init => SlotInv
  <2>1. Init => TypeOK
    BY TypesInitially
  <2>2. QED
    BY <2>1 DEF Init, SlotInv, TimesInv, DeterminedByFinalPhase, Decided
<1>2. QED
  BY <1>1, SlotInvStep, PTL DEF Spec

\* A stored verdict above 50 was determined by the last phase of the flow that
\* has the slot: no takeover inherits it, no earlier phase sets it.
THEOREM DeterminedOnlyByFinalPhase == Spec => []DeterminedByFinalPhase
<1>1. SlotInv => DeterminedByFinalPhase
  BY DEF SlotInv
<1>2. QED
  BY <1>1, SlotInvariant, PTL

\* The quotient and the remainder of a division.
LEMMA Division == \A a \in Nat, m \in Nat \ {0} :
    a \div m \in Nat /\ a = m * (a \div m) + (a % m) /\ a % m \in Nat /\ a % m < m
  OBVIOUS

\* A number below the modulus is its own remainder.
LEMMA SmallRemainder == \A a \in Nat, m \in Nat \ {0} : a < m => a % m = a
  OBVIOUS

\* Within one lap of a clock, ages are those of the clock that never wraps.
LEMMA SameLap ==
  ASSUME NEW a \in Nat, NEW b \in Nat, NEW m \in Nat \ {0}, b <= a, a \div m <= b \div m
  PROVE  (a % m) - (b % m) = a - b
  <1> DEFINE p == a \div m
             q == b \div m
  <1>1. p \in Nat /\ q \in Nat /\ a = m * p + (a % m) /\ b = m * q + (b % m)
    BY Division
  <1>2. a % m \in Nat /\ a % m < m /\ b % m \in Nat /\ b % m < m
    BY Division
  <1>3. p <= q
    OBVIOUS
  <1> HIDE DEF p, q
  <1>4. ~ (q >= p + 1)
    <2>1. SUFFICES ASSUME q >= p + 1 PROVE FALSE
      OBVIOUS
    <2>2. PICK d \in Nat : q = p + 1 + d
      <3>1. q - (p + 1) \in Nat /\ q = p + 1 + (q - (p + 1))
        BY <1>1, <2>1
      <3>2. QED
        BY <3>1
    <2>3. m * q = m * p + m + m * d /\ m * d \in Nat
      BY <1>1, <2>2
    <2>4. m * p \in Nat /\ m * q \in Nat
      BY <1>1
    <2>5. QED
      BY <1>1, <1>2, <2>3, <2>4
  <1>5. p = q
    BY <1>1, <1>3, <1>4
  <1>6. m * p \in Nat
    BY <1>1
  <1>7. QED
    BY <1>1, <1>2, <1>5, <1>6

\* Held tells the truth about a claimed slot whose register is written, as long as
\* the clock has not wrapped since.
LEMMA AgeIsTrue ==
  ASSUME SlotInv, NEW s \in Slots, claimed[s], wrote[s],
         ~ (WrapWindow /\ clock \div ClockMod > seen[s] \div ClockMod)
  PROVE  Age(s) = clock - seen[s]
  <1>1. /\ clock \in Nat /\ seen[s] \in Nat /\ seen[s] <= clock
        /\ r_lastc[s] = (IF WrapWindow THEN seen[s] % ClockMod ELSE seen[s])
    BY DEF SlotInv, TypeOK, TimesInv
  <1>2. CASE ~ WrapWindow
    BY <1>1, <1>2 DEF Age, now
  <1>3. CASE WrapWindow
    <2>1. clock \div ClockMod \in Nat /\ seen[s] \div ClockMod \in Nat
      BY <1>1, Division, ClockAssumption
    <2>2. clock \div ClockMod <= seen[s] \div ClockMod
      BY <1>3, <2>1
    <2>3. (clock % ClockMod) - (seen[s] % ClockMod) = clock - seen[s]
      BY <1>1, <2>2, SameLap, ClockAssumption
    <2>4. clock % ClockMod < ClockMod /\ clock % ClockMod \in Nat /\ seen[s] % ClockMod \in Nat
      BY <1>1, Division, ClockAssumption
    <2>5. Word \in Nat \ {0} /\ Word >= ClockMod
      BY ClockAssumption
    <2>6. clock - seen[s] \in Nat /\ clock - seen[s] < Word
      BY <1>1, <2>3, <2>4, <2>5, ClockAssumption
    <2>7. (clock - seen[s]) % Word = clock - seen[s]
      BY <2>5, <2>6, SmallRemainder
    <2>8. Age(s) = ((clock % ClockMod) - (seen[s] % ClockMod)) % Word
      BY <1>1, <1>3 DEF Age, now
    <2>9. QED
      BY <2>3, <2>7, <2>8
  <1>4. QED
    BY <1>2, <1>3

\* Only a takeover displaces the flow of a slot.
LEMMA OnlyTakeOverDisplaces ==
  ASSUME [Next]_vars, NEW s \in Slots, Displaced(s)
  PROVE  \E f \in Flows, pc \in PktCodes : TakeOver(f, s, pc)
  <1>1. r_hash' # r_hash
    BY DEF Displaced
  <1>2. ~ Tick /\ ~ MemoInsert /\ ~ UNCHANGED vars
    BY <1>1 DEF Tick, MemoInsert, vars, registers
  <1>3. PICK f \in Flows : Packet(f)
    BY <1>2 DEF Next
  <1>4. ~ Reject(f) /\ ~ MemoHit(f)
    BY <1>1 DEF Reject, MemoHit, registers
  <1>5. PICK t \in Candidates(f), pc \in PktCodes : NewcomerStep(f, t, pc) \/ OwnerStep(f, t, pc)
    BY <1>3, <1>4 DEF Packet
  <1>6. ~ OwnerStep(f, t, pc)
    BY <1>1 DEF OwnerStep, OwnerDetermined, OwnerBetween, OwnerPhase, OwnerFinal, Refresh
  <1>7. TakeOver(f, t, pc)
    BY <1>1, <1>5, <1>6 DEF NewcomerStep, FallbackShort, Refuse, registers
  <1>8. t = s
    BY <1>7 DEF TakeOver, Displaced
  <1>9. QED
    BY <1>7, <1>8

\* An undetermined flow loses its slot only for the reasons the notes give.
THEOREM DisplacementHasAReason == Spec => DisplacedForAReason
<1> DEFINE Reason(s) ==
             \/ clock - seen[s] >= Timeout
             \/ WrapWindow /\ clock \div ClockMod > seen[s] \div ClockMod
             \/ ~ TakeoverRefresh /\ ~ wrote[s]
             \/ Rent # "none" /\ clock - took[s] >= Grace
           Step == \A s \in Slots : Displaced(s) /\ r_res[s] < Decided => Reason(s)
<1>1. SlotInv /\ [Next]_vars => Step
  <2> SUFFICES ASSUME SlotInv, [Next]_vars, NEW s \in Slots, Displaced(s), r_res[s] < Decided
               PROVE  Reason(s)
    OBVIOUS
  <2>1. PICK f \in Flows, pc \in PktCodes : TakeOver(f, s, pc)
    BY OnlyTakeOverDisplaces
  <2>2. claimed[s]
    BY DEF Displaced
  <2>3. CASE Evictable(s)
    <3>1. Rent # "none" /\ ~ WrapWindow /\ now - r_t0[s] >= Grace
      BY <2>3, SwitchesAssumption DEF Evictable
    <3>2. now = clock /\ r_t0[s] = took[s]
      BY <2>2, <3>1 DEF now, SlotInv, TimesInv
    <3>3. QED
      BY <3>1, <3>2
  <2>4. CASE ~ Held(s)
    <3>1. ~ (Age(s) < Timeout)
      BY <2>2, <2>4 DEF Held
    <3>2. CASE ~ wrote[s]
      BY <2>2, <3>2 DEF SlotInv, TimesInv
    <3>3. CASE WrapWindow /\ clock \div ClockMod > seen[s] \div ClockMod
      BY <3>3
    <3>4. CASE wrote[s] /\ ~ (WrapWindow /\ clock \div ClockMod > seen[s] \div ClockMod)
      <4>1. Age(s) = clock - seen[s]
        BY <2>2, <3>4, AgeIsTrue
      <4>2. clock \in Nat /\ seen[s] \in Nat /\ Timeout \in Nat
        BY ClockAssumption DEF SlotInv, TypeOK
      <4>3. QED
        BY <3>1, <4>1, <4>2
    <3>5. QED
      BY <3>2, <3>3, <3>4
  <2>5. QED
    BY <2>1, <2>3, <2>4 DEF TakeOver
<1>2. [][Next]_vars /\ []SlotInv => [][Step]_vars
  BY <1>1, PTL
<1>3. QED
  BY <1>2, SlotInvariant, PTL DEF Spec, DisplacedForAReason

-----------------------------------------------------------------------------
(* The refinement of SlotOutcomes.                                         *)

\* HomeInv, and a slot that was never claimed is held by nobody.
HolderInv ==
    /\ HomeInv /\ MemoTypes
    /\ \A s \in Slots : ~ claimed[s] => owner[s] = {}

\* It is an invariant.
LEMMA HolderInvariant == ASSUME DistinctHashes PROVE Spec => []HolderInv
<1> DEFINE Unclaimed == \A s \in Slots : ~ claimed[s] => owner[s] = {}
<1>1. Init => Unclaimed
  BY DEF Init
<1>2. HomeInv /\ Unclaimed /\ [Next]_vars => Unclaimed'
  <2> SUFFICES ASSUME HomeInv, Unclaimed, [Next]_vars PROVE Unclaimed'
    OBVIOUS
  <2>1. CASE UNCHANGED <<claimed, owner>>
    BY <2>1
  <2>2. ASSUME NEW f \in Flows, NEW s \in Candidates(f), NEW pc \in PktCodes, TakeOver(f, s, pc)
        PROVE  Unclaimed'
    <3>1. s \in Slots
      BY CandidatesAreSlots
    <3>2. claimed' = [claimed EXCEPT ![s] = TRUE] /\ owner' = [owner EXCEPT ![s] = {f}]
      BY <2>2 DEF TakeOver
    <3>3. QED
      BY <3>1, <3>2 DEF HomeInv
  <2>3. CASE Tick \/ MemoInsert \/ UNCHANGED vars
    <3>1. UNCHANGED <<claimed, owner>>
      BY <2>3 DEF Tick, MemoInsert, vars, registers, history
    <3>2. QED
      BY <2>1, <3>1
  <2>4. ASSUME NEW f \in Flows, Packet(f) PROVE Unclaimed'
    <3>1. CASE Reject(f) \/ MemoHit(f)
      <4>1. UNCHANGED <<claimed, owner>>
        BY <3>1 DEF Reject, MemoHit, registers, history
      <4>2. QED
        BY <2>1, <4>1
    <3>2. ASSUME NEW s \in Candidates(f), NEW pc \in PktCodes,
                 FallbackShort(f, s, pc) \/ Refuse(f, s, pc) \/ OwnerStep(f, s, pc)
          PROVE  Unclaimed'
      <4>1. UNCHANGED <<claimed, owner>>
        BY <3>2 DEF FallbackShort, Refuse, OwnerStep, OwnerDetermined, OwnerBetween, OwnerPhase,
                    OwnerFinal, Refresh, registers, history
      <4>2. QED
        BY <2>1, <4>1
    <3>3. QED
      BY <2>2, <2>4, <3>1, <3>2 DEF Packet, NewcomerStep
  <2>5. QED
    BY <2>3, <2>4 DEF Next
<1>3. TypeOK => MemoTypes
  BY TypeParts
<1>4. QED
  BY <1>1, <1>2, <1>3, HomeInvariant, SlotTypesCorrect, PTL DEF Spec, HolderInv

-----------------------------------------------------------------------------
(* What the abstract specification sees of a state and of a step.          *)

\* A flow that holds a slot has its hash stored there.
LEMMA HolderIsStored ==
  ASSUME DistinctHashes, HolderInv, NEW f \in Flows, NEW s \in Candidates(f)
  PROVE  Holding[s] = {f} <=> claimed[s] /\ r_hash[s] = HashOf[f]
  <1>1. s \in Slots
    BY CandidatesAreSlots
  <1>2. Holding[s] = owner[s]
    BY DEF Holding, Homes
  <1>3. ASSUME owner[s] = {f} PROVE claimed[s] /\ r_hash[s] = HashOf[f]
    <2>1. claimed[s]
      BY <1>1, <1>3 DEF HolderInv
    <2>2. PICK g \in Flows : owner[s] = {g} /\ HashOf[g] = r_hash[s]
      BY <1>1, <2>1 DEF HolderInv, HomeInv
    <2>3. g = f
      BY <1>3, <2>2
    <2>4. QED
      BY <2>1, <2>2, <2>3
  <1>4. ASSUME claimed[s], r_hash[s] = HashOf[f] PROVE owner[s] = {f}
    BY <1>1, <1>4 DEF HolderInv, HomeInv, DistinctHashes
  <1>5. QED
    BY <1>2, <1>3, <1>4

\* A newcomer holds neither of its slots.
LEMMA NewcomerIsHomeless ==
  ASSUME DistinctHashes, HolderInv, NEW f \in Flows, NEW s \in Candidates(f),
         Arrives(f, s), r_hash[s] # HashOf[f]
  PROVE  Outcome!Homeless(f)
  <1>1. SUFFICES ASSUME NEW t \in Candidates(f), Holding[t] = {f} PROVE FALSE
    BY DEF Outcome!Homeless, Outcome!Holds, PlacesOf, Arrives
  <1>2. claimed[t] /\ r_hash[t] = HashOf[f] /\ t \in Slots
    BY <1>1, HolderIsStored, CandidatesAreSlots
  <1>3. SlotOf(f) = t
    BY <1>2, StoredFlowIsFound DEF HolderInv
  <1>4. QED
    BY <1>2, <1>3 DEF Arrives

\* A refusal is reported as empty only if no candidate was ever claimed.
LEMMA EmptyMeansUnclaimed ==
  ASSUME NEW f \in Flows, NEW s \in Candidates(f), NEW pc, Refuse(f, s, pc), ~ claimed[s],
         NEW t \in Candidates(f)
  PROVE  ~ claimed[t]
  <1>1. s = SlotOf(f) /\ Held(s) /\ ~ Evictable(s) /\ r_hash[s] # HashOf[f]
    BY DEF Refuse, Arrives
  <1>2. CASE t = s
    BY <1>2
  <1>3. CASE s = SlotA[f] /\ t = SlotB[f] /\ TwoWay
    <2>1. ~ TakesB(s, t)
      BY <1>1, <1>3, SlotsAssumption DEF SlotOf
    <2>2. Held(t) /\ ~ BothHeldTakesB(s, t)
      BY <1>1, <2>1 DEF TakesB
    <2>3. QED
      BY <1>1, <2>2 DEF BothHeldTakesB
  <1>4. CASE s = SlotB[f] /\ t = SlotA[f] /\ TwoWay
    <2>1. s # t
      BY <1>4, SlotsAssumption
    <2>2. TakesB(t, s)
      BY <1>1, <1>4, <2>1 DEF SlotOf, FoundInB
    <2>3. BothHeldTakesB(t, s)
      BY <1>1, <2>2 DEF TakesB
    <2>4. QED
      BY <1>1, <2>3 DEF BothHeldTakesB, Evictable
  <1>5. QED
    BY <1>2, <1>3, <1>4 DEF Candidates

\* What is reported of a packet is what it was told.
LEMMA ReportedPacket ==
  ASSUME NEW f, NEW s, NEW o \in Outcomes, NEW c, last' = Handled(f, s, o, c)
  PROVE  Reported' = Outcome!Told(f, s, o)
  <1>1. last'.outcome = o /\ last'.flow = f /\ last'.slot = s
    BY DEF Handled
  <1>2. o # "none"
    BY DEF Outcomes
  <1>3. last' # NoPacket
    BY <1>1, <1>2 DEF NoPacket
  <1>4. QED
    BY <1>1, <1>3 DEF Reported, Outcome!Told

\* A step without a packet reports none.
LEMMA ReportedSilence == ASSUME last' = NoPacket PROVE Reported' = Outcome!Silence
  BY DEF Reported, NoPacket, Outcome!Silence

\* The memo is seen through the flows it knows.
LEMMA SameKnown == ASSUME memo' = memo PROVE Remembered' = Remembered
  BY DEF Remembered

\* Slots are seen through the flows that took them over.
LEMMA SameHolding == ASSUME owner' = owner PROVE Holding' = Holding
  BY DEF Holding, Homes, Candidates, TwoWay

-----------------------------------------------------------------------------
(* Every step maps to a step.                                              *)

\* A digest: the memo learns a flow, and may have dropped others.
LEMMA MemoInsertLearns == ASSUME HolderInv, MemoInsert PROVE Outcome!Learns
  <1> DEFINE M == [flow : Flows, res : FinalCodes]
             D == [due : Nat, flow : Flows, res : FinalCodes]
             d == Head(pending)
             e == [flow |-> d.flow, res |-> d.res]
  <1>1. memo \in Seq(M) /\ pending \in Seq(D) /\ pending # <<>>
    BY DEF HolderInv, MemoTypes, MemoInsert, Due
  <1>2. d \in D
    <2> HIDE DEF D
    <2>1. QED
      BY <1>1, HeadTailProperties
  <1>3. d.flow \in Flows /\ e \in M /\ e.flow = d.flow
    BY <1>2
  <1>4. \E kept \in SUBSET Remembered : Remembered' = kept \cup {d.flow}
    <2>1. CASE d.flow \in Remembered
      <3>1. Remembered' = Remembered
        BY <2>1, SameKnown DEF MemoInsert
      <3>2. QED
        BY <2>1, <3>1
    <2>2. CASE d.flow \notin Remembered
      <3> DEFINE room == Room
                 kept == {room[i].flow : i \in DOMAIN room}
      <3>1. memo' = Append(room, e)
        BY <2>2 DEF MemoInsert
      <3>2. room \in Seq(M) /\ \A i \in 1 .. Len(room) : \E j \in 1 .. Len(memo) : room[i] = memo[j]
        BY RoomEntries DEF HolderInv
      <3>3. kept \in SUBSET Remembered
        <4>1. DOMAIN room = 1 .. Len(room) /\ DOMAIN memo = 1 .. Len(memo)
          <5> HIDE DEF M, room
          <5>1. QED
            BY <1>1, <3>2, LenProperties
        <4>2. QED
          BY <3>2, <4>1 DEF Remembered
      <3>4. Remembered' = kept \cup {d.flow}
        <4> HIDE DEF room, e, d, M
        <4>1. /\ DOMAIN Append(room, e) = 1 .. Len(room) + 1 /\ DOMAIN room = 1 .. Len(room)
              /\ Len(room) \in Nat
              /\ \A i \in 1 .. Len(room) : Append(room, e)[i] = room[i]
              /\ Append(room, e)[Len(room) + 1] = e
          BY <1>3, <3>2, AppendProperties, LenProperties
        <4>2. {Append(room, e)[i].flow : i \in 1 .. Len(room) + 1} = kept \cup {e.flow}
          <5>1. 1 .. Len(room) + 1 = (1 .. Len(room)) \cup {Len(room) + 1}
            BY <4>1
          <5>2. QED
            BY <4>1, <5>1
        <4>3. QED
          BY <1>3, <3>1, <4>1, <4>2 DEF Remembered
      <3>5. QED
        BY <3>3, <3>4
    <2>3. QED
      BY <2>1, <2>2
  <1>5. Reported' = Outcome!Silence /\ Holding' = Holding
    BY ReportedSilence, SameHolding DEF MemoInsert, history
  <1>6. QED
    BY <1>3, <1>4, <1>5 DEF Outcome!Learns

\* A packet of a flow that does not have the slot.
LEMMA NewcomerImplements ==
  ASSUME DistinctHashes, HolderInv, NEW f \in Flows, NEW s \in Candidates(f), NEW pc,
         NewcomerStep(f, s, pc)
  PROVE  Outcome!Answers(f, s)
  <1>1. Arrives(f, s) /\ r_hash[s] # HashOf[f]
    BY DEF NewcomerStep, FallbackShort, Refuse, TakeOver
  <1>2. Outcome!Homeless(f)
    BY <1>1, NewcomerIsHomeless
  <1>3. s \in Slots /\ Holding[s] = owner[s]
    BY CandidatesAreSlots DEF Holding, Homes
  <1>4. CASE FallbackShort(f, s, pc)
    <2>1. Reported' = Outcome!Told(f, s, "short") /\ Holding' = Holding /\ Remembered' = Remembered
      BY <1>4, ReportedPacket, SameHolding, SameKnown
         DEF FallbackShort, Outcomes, controller, history
    <2>2. Outcome!Refused(f, s, "short")
      BY <1>2, <2>1 DEF Outcome!Refused, PlacesOf
    <2>3. QED
      BY <2>2 DEF Outcome!Answers
  <1>5. CASE Refuse(f, s, pc)
    <2> DEFINE o == IF claimed[s] THEN "collision" ELSE "empty"
    <2>1. o \in Outcomes /\ last' = Handled(f, s, o, pc)
      BY <1>5 DEF Refuse, Outcomes
    <2>2. Reported' = Outcome!Told(f, s, o) /\ Holding' = Holding /\ Remembered' = Remembered
      <3> HIDE DEF o
      <3>1. QED
        BY <1>5, <2>1, ReportedPacket, SameHolding, SameKnown DEF Refuse, controller, history
    <2>3. o = "collision" => Holding[s] # {}
      BY <1>3 DEF HolderInv, HomeInv
    <2>4. o = "empty" => \A t \in Candidates(f) : Holding[t] = {}
      <3>1. ASSUME ~ claimed[s], NEW t \in Candidates(f) PROVE Holding[t] = {}
        <4>1. ~ claimed[t] /\ t \in Slots
          BY <1>5, <3>1, EmptyMeansUnclaimed, CandidatesAreSlots
        <4>2. QED
          BY <4>1 DEF HolderInv, Holding, Homes
      <3>2. QED
        BY <3>1
    <2>5. Outcome!Refused(f, s, o)
      <3> HIDE DEF o
      <3>1. QED
        BY <1>2, <2>2, <2>3, <2>4 DEF Outcome!Refused, PlacesOf
    <2>6. QED
      BY <2>5 DEF Outcome!Answers
  <1>6. CASE TakeOver(f, s, pc)
    <2>1. Reported' = Outcome!Told(f, s, "new_owner") /\ Remembered' = Remembered
      BY <1>6, ReportedPacket, SameKnown DEF TakeOver, Outcomes, controller
    <2>2. owner' = [owner EXCEPT ![s] = {f}] /\ owner \in [Slots -> SUBSET Flows]
      BY <1>6 DEF TakeOver, HolderInv, HomeInv
    <2>3. Holding' = [Holding EXCEPT ![s] = {f}]
      <3> DEFINE P == UNION {Candidates(g) : g \in Flows}
      <3>1. P \subseteq Slots
        BY CandidatesAreSlots
      <3>2. Holding = [t \in P |-> owner[t]] /\ Holding' = [t \in P |-> owner'[t]]
        BY DEF Holding, Homes, Candidates, TwoWay
      <3> HIDE DEF P
      <3>3. QED
        BY <2>2, <3>1, <3>2
    <2>4. QED
      BY <1>2, <2>1, <2>3 DEF Outcome!Answers, Outcome!TakesOver
  <1>7. QED
    BY <1>4, <1>5, <1>6 DEF NewcomerStep

\* A packet of the flow that has the slot.
LEMMA OwnerImplements ==
  ASSUME DistinctHashes, HolderInv, NEW f \in Flows, NEW s \in Candidates(f), NEW pc,
         OwnerStep(f, s, pc)
  PROVE  Outcome!Answers(f, s)
  <1>1. Arrives(f, s) /\ r_hash[s] = HashOf[f] /\ memo' = memo /\ owner' = owner
    BY DEF OwnerStep, OwnerDetermined, OwnerBetween, OwnerPhase, OwnerFinal, Refresh
  <1>2. \E c : last' = Handled(f, s, "owner", c)
    BY DEF OwnerStep, OwnerDetermined, OwnerBetween, OwnerPhase, OwnerFinal
  <1>3. Reported' = Outcome!Told(f, s, "owner") /\ Holding' = Holding /\ Remembered' = Remembered
    BY <1>1, <1>2, ReportedPacket, SameHolding, SameKnown DEF Outcomes
  <1>4. claimed[s]
    BY <1>1, HashAssumption, CandidatesAreSlots DEF HolderInv, HomeInv
  <1>5. Outcome!Holds(f, s)
    BY <1>1, <1>4, HolderIsStored DEF Outcome!Holds
  <1>6. QED
    BY <1>1, <1>3, <1>5 DEF Outcome!Answers, Outcome!FromSlot, Arrives

\* The initial states map to the initial state.
LEMMA InitImplements == Init => Outcome!OutcomesInit
  <1> SUFFICES ASSUME Init PROVE Outcome!OutcomesInit
    OBVIOUS
  <1>1. Homes \subseteq Slots
    BY CandidatesAreSlots DEF Homes
  <1>2. Holding = [s \in Homes |-> {}]
    BY <1>1 DEF Init, Holding
  <1>3. Remembered = {}
    BY DEF Init, Remembered
  <1>4. Reported = Outcome!Silence
    BY DEF Init, Reported, NoPacket, Outcome!Silence
  <1>5. QED
    BY <1>2, <1>3, <1>4 DEF Outcome!OutcomesInit, Homes, PlacesOf

\* Every step of the emulator is a step of the abstract table of slots, or none.
LEMMA StepImplements ==
  ASSUME DistinctHashes, HolderInv, [Next]_vars
  PROVE  [Outcome!OutcomesNext]_(Outcome!outcomeVars)
  <1>1. CASE Tick
    <2>1. Reported' = Outcome!Silence /\ Holding' = Holding /\ Remembered' = Remembered
      BY <1>1, ReportedSilence, SameHolding, SameKnown DEF Tick, controller, history
    <2>2. QED
      BY <2>1 DEF Outcome!OutcomesNext, Outcome!Waits
  <1>2. CASE MemoInsert
    BY <1>2, MemoInsertLearns DEF Outcome!OutcomesNext
  <1>3. CASE UNCHANGED vars
    <2>1. Reported' = Reported
      BY <1>3 DEF vars, Reported
    <2>2. Holding' = Holding /\ Remembered' = Remembered
      BY <1>3, SameHolding, SameKnown DEF vars, controller, history
    <2>3. QED
      BY <2>1, <2>2 DEF Outcome!outcomeVars
  <1>4. ASSUME NEW f \in Flows, Packet(f) PROVE Outcome!OutcomesNext
    <2>1. SUFFICES \E s \in Candidates(f) : Outcome!Answers(f, s)
      BY DEF Outcome!OutcomesNext, PlacesOf
    <2>2. SlotA[f] \in Candidates(f)
      BY DEF Candidates
    <2>3. CASE Reject(f)
      <3>1. Reported' = Outcome!Told(f, SlotA[f], "rejected") /\ Holding' = Holding
            /\ Remembered' = Remembered
        BY <2>3, ReportedPacket, SameHolding, SameKnown DEF Reject, Outcomes, controller, history
      <3>2. QED
        BY <2>2, <3>1 DEF Outcome!Answers, Outcome!Rejected
    <2>4. CASE MemoHit(f)
      <3>1. Reported' = Outcome!Told(f, SlotA[f], "memo") /\ Holding' = Holding
            /\ Remembered' = Remembered /\ f \in Remembered
        BY <2>4, ReportedPacket, SameHolding, SameKnown DEF MemoHit, Outcomes, controller, history
      <3>2. QED
        BY <2>2, <3>1 DEF Outcome!Answers, Outcome!FromMemo
    <2>5. CASE \E s \in Candidates(f), pc \in PktCodes : NewcomerStep(f, s, pc) \/ OwnerStep(f, s, pc)
      BY <2>5, NewcomerImplements, OwnerImplements
    <2>6. QED
      BY <1>4, <2>3, <2>4, <2>5 DEF Packet
  <1>5. QED
    BY <1>1, <1>2, <1>3, <1>4 DEF Next

\* Flows with distinct hashes are told only what SlotOutcomes allows.
THEOREM SlotsImplementOutcomes == ASSUME DistinctHashes PROVE Spec => ImplementsSlotOutcomes
<1>1. HolderInv /\ [Next]_vars => [Outcome!OutcomesNext]_(Outcome!outcomeVars)
  BY StepImplements
<1>2. QED
  BY <1>1, InitImplements, HolderInvariant, PTL DEF Spec, ImplementsSlotOutcomes, Outcome!OutcomesSpec

-----------------------------------------------------------------------------
(* Refusals.                                                               *)

\* SlotInv, and zeroed registers stay so until the slot is claimed.
RefusalInv ==
    /\ SlotInv
    /\ \A s \in Slots : ~ claimed[s] => r_lastc[s] = 0
    /\ RefusedOnlyIfAllHeld

\* The quotient and the remainder of a number are unique.
LEMMA UniqueRemainder ==
  ASSUME NEW n \in Nat, NEW m \in Nat \ {0}, NEW k \in Int, NEW r \in 0 .. m - 1, n = m * k + r
  PROVE  n % m = r
  <1> DEFINE j == n \div m
             x == n % m
  <1>1. j \in Nat /\ n = m * j + x /\ x \in Nat /\ x < m
    BY Division
  <1> HIDE DEF j, x
  <1>2. m * (k - j) = x - r
    <2>1. m * (k - j) = m * k - m * j
      BY <1>1
    <2>2. m * k \in Int /\ m * j \in Int
      BY <1>1
    <2>3. QED
      BY <1>1, <2>1, <2>2
  <1>3. k - j \in Int
    BY <1>1
  <1>4. ~ (k - j >= 1) /\ ~ (k - j <= -1)
    <2>1. ASSUME k - j >= 1 PROVE FALSE
      <3>1. m * (k - j) >= m
        BY <1>3, <2>1
      <3>2. QED
        BY <1>1, <1>2, <3>1
    <2>2. ASSUME k - j <= -1 PROVE FALSE
      <3>1. m * (k - j) <= -m
        BY <1>3, <2>2
      <3>2. QED
        BY <1>1, <1>2, <3>1
    <2>3. QED
      BY <2>1, <2>2
  <1>5. k - j = 0
    BY <1>3, <1>4
  <1>6. x = r
    BY <1>1, <1>2, <1>5
  <1>7. QED
    BY <1>6 DEF x

\* A difference of remainders that is not negative is that of the numbers.
LEMMA DifferenceOfRemainders ==
  ASSUME NEW a \in Nat, NEW b \in Nat, b <= a, NEW m \in Nat \ {0}, b % m <= a % m
  PROVE  (a - b) % m = (a % m) - (b % m)
  <1> DEFINE p == a \div m
             q == b \div m
             x == a % m
             y == b % m
  <1>1. /\ p \in Nat /\ a = m * p + x /\ x \in Nat /\ x < m
        /\ q \in Nat /\ b = m * q + y /\ y \in Nat /\ y < m
    BY Division
  <1>2. a - b \in Nat
    OBVIOUS
  <1> HIDE DEF p, q
  <1>3. a - b = m * (p - q) + (x - y)
    <2>1. m * (p - q) = m * p - m * q /\ m * p \in Int /\ m * q \in Int
      BY <1>1
    <2>2. QED
      BY <1>1, <2>1
  <1>4. x - y \in 0 .. m - 1 /\ p - q \in Int
    BY <1>1
  <1> HIDE DEF x, y
  <1>5. (a - b) % m = x - y
    BY <1>2, <1>3, <1>4, UniqueRemainder
  <1>6. QED
    BY <1>5 DEF x, y

\* What Held says of a slot: its flow is undetermined and, as far as the clock
\* shows, active; or nobody ever had it and the clock is young.
LEMMA HeldMeans ==
  ASSUME SlotInv, NEW s \in Slots, Held(s), ~ claimed[s] => r_lastc[s] = 0
  PROVE  /\ r_res[s] < Decided
         /\ claimed[s] /\ wrote[s] =>
               IF WrapWindow THEN (clock - seen[s]) % ClockMod < Timeout
                             ELSE clock - seen[s] < Timeout
         /\ ~ claimed[s] => WrapWindow /\ now < Timeout
  <1>1. r_res[s] < Decided /\ Age(s) < Timeout /\ (claimed[s] \/ EmptyHolds)
    BY DEF Held
  <1>2. clock \in Nat /\ seen[s] \in Nat
    BY DEF SlotInv, TypeOK
  <1>3. ClockMod \in Nat \ {0} /\ Timeout \in Nat \ {0} /\ Word \in Nat /\ Word >= ClockMod + Timeout
    BY ClockAssumption
  <1>4. clock % ClockMod \in Nat /\ clock % ClockMod < ClockMod
        /\ seen[s] % ClockMod \in Nat /\ seen[s] % ClockMod < ClockMod
    BY <1>2, <1>3, Division
  <1>5. ASSUME claimed[s], wrote[s], WrapWindow PROVE (clock - seen[s]) % ClockMod < Timeout
    <2>1. seen[s] <= clock /\ r_lastc[s] = seen[s] % ClockMod
      BY <1>5 DEF SlotInv, TimesInv
    <2>2. ((clock % ClockMod) - (seen[s] % ClockMod)) % Word < Timeout
      BY <1>1, <1>5, <2>1 DEF Age, now
    <2> DEFINE x == clock % ClockMod
               y == seen[s] % ClockMod
    <2>3. x \in Nat /\ y \in Nat /\ x < ClockMod /\ y < ClockMod /\ (x - y) % Word < Timeout
      BY <1>4, <2>2
    <2>4. y <= x
      <3>1. SUFFICES ASSUME x < y PROVE FALSE
        BY <2>3
      <3> HIDE DEF x, y
      <3>2. (x - y) + Word \in Nat /\ (x - y) + Word < Word /\ (x - y) + Word >= Timeout
        BY <1>3, <2>3, <3>1
      <3>3. (x - y) % Word = (x - y) + Word
        BY <1>3, <2>3, <3>1, <3>2
      <3>4. QED
        BY <1>3, <2>3, <3>2, <3>3
    <2>5. (x - y) % Word = x - y
      <3> HIDE DEF x, y
      <3>1. x - y \in Nat /\ x - y < Word /\ Word \in Nat \ {0}
        BY <1>3, <2>3, <2>4
      <3>2. QED
        BY <3>1, SmallRemainder
    <2>6. (clock - seen[s]) % ClockMod = x - y
      BY <1>2, <1>3, <2>1, <2>4, DifferenceOfRemainders
    <2>7. QED
      BY <2>3, <2>5, <2>6
  <1>6. ASSUME claimed[s], wrote[s], ~ WrapWindow PROVE clock - seen[s] < Timeout
    BY <1>1, <1>2, <1>6 DEF SlotInv, TimesInv, Age, now
  <1>7. ASSUME ~ claimed[s] PROVE WrapWindow /\ now < Timeout
    <2>1. WrapWindow /\ r_lastc[s] = 0 /\ now = clock % ClockMod
      BY <1>1, <1>7 DEF EmptyHolds, now
    <2>2. (now - 0) % Word = now
      BY <1>3, <1>4, <2>1, SmallRemainder
    <2>3. QED
      BY <1>1, <2>1, <2>2 DEF Age
  <1>8. QED
    BY <1>1, <1>5, <1>6, <1>7

\* A newcomer is refused at one candidate only if the other is held as well.
LEMMA RefusedMeansAllHeld ==
  ASSUME NEW f \in Flows, NEW s \in Candidates(f), NEW pc, Refuse(f, s, pc),
         NEW t \in Candidates(f)
  PROVE  Held(t)
  <1>1. s = SlotOf(f) /\ Held(s) /\ ~ Evictable(s) /\ r_hash[s] # HashOf[f]
    BY DEF Refuse, Arrives
  <1>2. CASE t = s
    BY <1>1, <1>2
  <1>3. CASE s = SlotA[f] /\ t = SlotB[f] /\ TwoWay
    <2>1. ~ TakesB(s, t)
      BY <1>1, <1>3, SlotsAssumption DEF SlotOf
    <2>2. QED
      BY <1>1, <2>1 DEF TakesB
  <1>4. CASE s = SlotB[f] /\ t = SlotA[f] /\ TwoWay
    <2>1. s # t
      BY <1>4, SlotsAssumption
    <2>2. TakesB(t, s)
      BY <1>1, <1>4, <2>1 DEF SlotOf, FoundInB
    <2>3. QED
      BY <1>1, <2>2 DEF TakesB
  <1>5. QED
    BY <1>2, <1>3, <1>4 DEF Candidates

\* A step that refuses nobody keeps the part about refusals.
LEMMA NotRefused ==
  ASSUME last' = NoPacket \/ \E f, s, o, c : last' = Handled(f, s, o, c) /\ o \notin {"collision", "empty"}
  PROVE  RefusedOnlyIfAllHeld'
  <1>1. last'.outcome \notin {"collision", "empty"}
    BY DEF NoPacket, Handled
  <1>2. QED
    BY <1>1 DEF RefusedOnlyIfAllHeld

\* A refusal is just.
LEMMA RefuseIsJust ==
  ASSUME RefusalInv, NEW f \in Flows, NEW s \in Candidates(f), NEW pc, Refuse(f, s, pc)
  PROVE  RefusedOnlyIfAllHeld'
  <1>1. /\ UNCHANGED <<clock, registers, history>>
        /\ last' = Handled(f, s, IF claimed[s] THEN "collision" ELSE "empty", pc)
    BY DEF Refuse
  <1>2. last'.flow = f /\ last'.outcome = IF claimed[s] THEN "collision" ELSE "empty"
    BY <1>1 DEF Handled
  <1>3. UNCHANGED <<r_res, claimed, wrote, seen, clock>>
    BY <1>1 DEF registers, history
  <1>4. now' = now /\ Candidates(f)' = Candidates(f)
    BY <1>3 DEF now, Candidates, TwoWay
  <1>5. ASSUME NEW t \in Candidates(f)
        PROVE  /\ r_res[t] < Decided
               /\ claimed[t] /\ wrote[t] =>
                     IF WrapWindow THEN (clock - seen[t]) % ClockMod < Timeout
                                   ELSE clock - seen[t] < Timeout
               /\ ~ claimed[t] => WrapWindow /\ now < Timeout
    <2>1. Held(t) /\ t \in Slots
      BY RefusedMeansAllHeld, CandidatesAreSlots
    <2>2. QED
      BY <2>1, HeldMeans DEF RefusalInv
  <1>6. ASSUME ~ claimed[s], NEW t \in Candidates(f) PROVE ~ claimed[t]
    BY <1>6, EmptyMeansUnclaimed
  <1>7. QED
    BY <1>2, <1>3, <1>4, <1>5, <1>6 DEF RefusedOnlyIfAllHeld

\* The invariant is inductive.
LEMMA RefusalInvStep == RefusalInv /\ [Next]_vars => RefusalInv'
  <1> SUFFICES ASSUME RefusalInv, [Next]_vars PROVE RefusalInv'
    OBVIOUS
  <1> DEFINE Zeroed == \A s \in Slots : ~ claimed[s] => r_lastc[s] = 0
  <1>1. SlotInv' /\ TypeOK
    BY SlotInvStep DEF RefusalInv, SlotInv
  <1>2. ASSUME UNCHANGED <<claimed, r_lastc>> PROVE Zeroed'
    BY <1>2 DEF RefusalInv
  <1>3. CASE Tick \/ MemoInsert
    <2>1. Zeroed' /\ last' = NoPacket
      BY <1>2, <1>3 DEF Tick, MemoInsert, registers
    <2>2. QED
      BY <1>1, <2>1, NotRefused DEF RefusalInv
  <1>4. CASE UNCHANGED vars
    <2>1. UNCHANGED <<clock, r_res, r_lastc, claimed, last, seen, wrote>>
      BY <1>4 DEF vars, registers, history
    <2>2. Zeroed' /\ RefusedOnlyIfAllHeld'
      BY <2>1 DEF RefusalInv, RefusedOnlyIfAllHeld, Candidates, TwoWay, now
    <2>3. QED
      BY <1>1, <2>2 DEF RefusalInv
  <1>5. ASSUME NEW f \in Flows, Packet(f) PROVE RefusalInv'
    <2>1. CASE Reject(f) \/ MemoHit(f)
      <3>1. Zeroed'
        BY <1>2, <2>1 DEF Reject, MemoHit, registers
      <3>2. RefusedOnlyIfAllHeld'
        BY <2>1, NotRefused DEF Reject, MemoHit
      <3>3. QED
        BY <1>1, <3>1, <3>2 DEF RefusalInv
    <2>2. ASSUME NEW s \in Candidates(f), NEW pc \in PktCodes, NewcomerStep(f, s, pc)
          PROVE  RefusalInv'
      <3>1. s \in Slots
        BY CandidatesAreSlots
      <3>2. CASE FallbackShort(f, s, pc)
        <4>1. Zeroed'
          BY <1>2, <3>2 DEF FallbackShort, registers
        <4>2. RefusedOnlyIfAllHeld'
          BY <3>2, NotRefused DEF FallbackShort
        <4>3. QED
          BY <1>1, <4>1, <4>2 DEF RefusalInv
      <3>3. CASE Refuse(f, s, pc)
        <4>1. Zeroed'
          BY <1>2, <3>3 DEF Refuse, registers
        <4>2. QED
          BY <1>1, <3>3, <4>1, RefuseIsJust DEF RefusalInv
      <3>4. CASE TakeOver(f, s, pc)
        <4>1. /\ claimed' = [claimed EXCEPT ![s] = TRUE]
              /\ r_lastc' = [r_lastc EXCEPT ![s] = LastcAtTakeover(s)]
          BY <3>4 DEF TakeOver
        <4>2. Zeroed'
          BY <1>1, <3>1, <4>1 DEF RefusalInv, TypeOK
        <4>3. RefusedOnlyIfAllHeld'
          BY <3>4, NotRefused DEF TakeOver
        <4>4. QED
          BY <1>1, <4>2, <4>3 DEF RefusalInv
      <3>5. QED
        BY <2>2, <3>2, <3>3, <3>4 DEF NewcomerStep
    <2>3. ASSUME NEW s \in Candidates(f), NEW pc \in PktCodes, OwnerStep(f, s, pc)
          PROVE  RefusalInv'
      <3>1. s \in Slots /\ r_hash[s] = HashOf[f] /\ Refresh(f, s)
        BY <2>3, CandidatesAreSlots
           DEF OwnerStep, OwnerDetermined, OwnerBetween, OwnerPhase, OwnerFinal
      <3>2. claimed[s]
        BY <3>1, StoredIsClaimed DEF RefusalInv
      <3>3. claimed' = claimed /\ r_lastc' = [r_lastc EXCEPT ![s] = LastcOfOwner(s)]
        BY <3>1 DEF Refresh
      <3>4. Zeroed'
        BY <1>1, <3>1, <3>2, <3>3 DEF RefusalInv, TypeOK
      <3>5. RefusedOnlyIfAllHeld'
        <4>1. \E c : last' = Handled(f, s, "owner", c)
          BY <2>3 DEF OwnerStep, OwnerDetermined, OwnerBetween, OwnerPhase, OwnerFinal
        <4>2. QED
          BY <4>1, NotRefused
      <3>6. QED
        BY <1>1, <3>4, <3>5 DEF RefusalInv
    <2>4. QED
      BY <1>5, <2>1, <2>2, <2>3 DEF Packet
  <1>6. QED
    BY <1>3, <1>4, <1>5 DEF Next

\* A newcomer is refused only if all its candidates are held, and told
\* "collision" unless none of them was ever claimed.
THEOREM RefusalsAreJust == Spec => []RefusedOnlyIfAllHeld
<1>1. Init => RefusalInv
  <2>1. Init => SlotInv
    <3>1. Init => TypeOK
      BY TypesInitially
    <3>2. QED
      BY <3>1 DEF Init, SlotInv, TimesInv, DeterminedByFinalPhase, Decided
  <2>2. QED
    BY <2>1 DEF Init, RefusalInv, RefusedOnlyIfAllHeld, NoPacket
<1>2. RefusalInv => RefusedOnlyIfAllHeld
  BY DEF RefusalInv
<1>3. QED
  BY <1>1, <1>2, RefusalInvStep, PTL DEF Spec

-----------------------------------------------------------------------------
(* The isolated reference run.                                             *)

\* A slot stores only the flow it belongs to.
OwnSlotInv ==
    /\ r_hash \in [Slots -> Nat]
    /\ claimed \in [Slots -> BOOLEAN]
    /\ \A f \in Flows : claimed[SlotA[f]] => r_hash[SlotA[f]] = HashOf[f]
    /\ last.outcome \notin {"collision", "empty"}

\* A newcomer finds its own slot free, and takes it.
LEMMA OwnSlotStep ==
  ASSUME Isolated, OwnSlotInv, [Next]_vars
  PROVE  OwnSlotInv' /\ \A s \in Slots : ~ Displaced(s)
  <1>1. ASSUME UNCHANGED <<r_hash, claimed>>
        PROVE  /\ r_hash' \in [Slots -> Nat] /\ claimed' \in [Slots -> BOOLEAN]
               /\ \A f \in Flows : claimed'[SlotA[f]] => r_hash'[SlotA[f]] = HashOf[f]
               /\ \A s \in Slots : ~ Displaced(s)
    BY <1>1 DEF OwnSlotInv, Displaced
  <1>2. CASE Tick \/ MemoInsert
    <2>1. UNCHANGED <<r_hash, claimed>> /\ last'.outcome = "none"
      BY <1>2 DEF Tick, MemoInsert, registers, NoPacket
    <2>2. QED
      BY <1>1, <2>1 DEF OwnSlotInv
  <1>3. CASE UNCHANGED vars
    <2>1. UNCHANGED <<r_hash, claimed, last>>
      BY <1>3 DEF vars, registers
    <2>2. QED
      BY <1>1, <2>1 DEF OwnSlotInv
  <1>4. ASSUME NEW f \in Flows, Packet(f) PROVE OwnSlotInv' /\ \A s \in Slots : ~ Displaced(s)
    <2>0. Candidates(f) = {SlotA[f]} /\ SlotA[f] \in Slots
      BY SlotsAssumption DEF Candidates, TwoWay, Slots
    <2>1. CASE Reject(f) \/ MemoHit(f)
      <3>1. UNCHANGED <<r_hash, claimed>> /\ last'.outcome \in {"rejected", "memo"}
        BY <2>1 DEF Reject, MemoHit, registers, Handled
      <3>2. QED
        BY <1>1, <3>1 DEF OwnSlotInv
    <2>2. ASSUME NEW pc \in PktCodes, FallbackShort(f, SlotA[f], pc)
          PROVE  OwnSlotInv' /\ \A s \in Slots : ~ Displaced(s)
      <3>1. UNCHANGED <<r_hash, claimed>> /\ last'.outcome = "short"
        BY <2>2 DEF FallbackShort, registers, Handled
      <3>2. QED
        BY <1>1, <3>1 DEF OwnSlotInv
    <2>3. ASSUME NEW pc \in PktCodes, OwnerStep(f, SlotA[f], pc)
          PROVE  OwnSlotInv' /\ \A s \in Slots : ~ Displaced(s)
      <3>1. UNCHANGED <<r_hash, claimed>>
        BY <2>3 DEF OwnerStep, OwnerDetermined, OwnerBetween, OwnerPhase, OwnerFinal, Refresh
      <3>2. last'.outcome = "owner"
        <4>1. \E c : last' = Handled(f, SlotA[f], "owner", c)
          BY <2>3 DEF OwnerStep, OwnerDetermined, OwnerBetween, OwnerPhase, OwnerFinal
        <4>2. QED
          BY <4>1 DEF Handled
      <3>3. QED
        BY <1>1, <3>1, <3>2 DEF OwnSlotInv
    <2>4. \A pc \in PktCodes : ~ Refuse(f, SlotA[f], pc)
      BY <2>0 DEF Refuse, Held, EmptyHolds, OwnSlotInv
    <2>5. ASSUME NEW pc \in PktCodes, TakeOver(f, SlotA[f], pc)
          PROVE  OwnSlotInv' /\ \A s \in Slots : ~ Displaced(s)
      <3>1. /\ r_hash' = [r_hash EXCEPT ![SlotA[f]] = HashOf[f]]
            /\ claimed' = [claimed EXCEPT ![SlotA[f]] = TRUE]
            /\ r_hash[SlotA[f]] # HashOf[f] /\ last'.outcome = "new_owner"
        BY <2>5 DEF TakeOver, Handled
      <3>2. ~ claimed[SlotA[f]]
        BY <3>1 DEF OwnSlotInv
      <3>3. \A s \in Slots : ~ Displaced(s)
        BY <2>0, <3>1, <3>2 DEF Displaced, OwnSlotInv
      <3>4. HashOf[f] \in Nat
        BY HashAssumption
      <3>5. r_hash' \in [Slots -> Nat] /\ claimed' \in [Slots -> BOOLEAN]
        BY <2>0, <3>1, <3>4 DEF OwnSlotInv
      <3>6. \A g \in Flows : claimed'[SlotA[g]] => r_hash'[SlotA[g]] = HashOf[g]
        <4>1. \A g \in Flows : g # f => SlotA[g] # SlotA[f]
          BY SwitchesAssumption
        <4>2. \A g \in Flows : SlotA[g] \in Slots
          BY SlotsAssumption DEF Slots
        <4>3. QED
          BY <2>0, <3>1, <4>1, <4>2 DEF OwnSlotInv
      <3>7. QED
        BY <3>1, <3>3, <3>5, <3>6 DEF OwnSlotInv
    <2>6. QED
      BY <1>4, <2>0, <2>1, <2>2, <2>3, <2>4, <2>5 DEF Packet, NewcomerStep
  <1>5. QED
    BY <1>2, <1>3, <1>4 DEF Next

\* "This flow had a slot": in the isolated run no flow is ever refused or
\* displaced, also when flows share hashes or the clock wraps.
THEOREM IsolatedAlwaysServed == ASSUME Isolated PROVE Spec => IsolatedFlowsAreServed
<1> DEFINE Kept == \A s \in Slots : ~ Displaced(s)
<1>1. Init => OwnSlotInv
  <2>1. \A f \in Flows : SlotA[f] \in Slots
    BY SlotsAssumption DEF Slots
  <2>2. QED
    BY <2>1 DEF Init, OwnSlotInv, NoPacket
<1>2. OwnSlotInv /\ [Next]_vars => OwnSlotInv' /\ Kept
  BY OwnSlotStep
<1>3. OwnSlotInv => last.outcome \notin {"collision", "empty"}
  BY DEF OwnSlotInv
<1> HIDE DEF Kept
<1>4. Spec => [](last.outcome \notin {"collision", "empty"}) /\ [][Kept]_vars
  BY <1>1, <1>2, <1>3, PTL DEF Spec
<1>5. QED
  BY <1>4 DEF IsolatedFlowsAreServed, Kept

-----------------------------------------------------------------------------
(* Rent.                                                                   *)

\* The rent is set so that it can be paid: one packet per CreditUnit keeps the
\* slot from the takeover on, under credit or under rate.
PayableRent ==
    /\ Rent \in {"credit", "rate"}
    /\ CreditUnit <= Grace /\ CreditUnit <= Cap /\ CreditUnit < Timeout
    /\ TakeoverRefresh
    /\ Rent = "rate" => 0 \notin FinalCodes

\* A flow that keeps its pace has paid ahead: by credit for one unit after its
\* last packet, by rate for every unit since the takeover.  The rate is counted
\* in packets, whose counter must not wrap: every last phase determines.
PaidInv ==
    \A s \in Slots : claimed[s] /\ steady[s] =>
       /\ Rent = "credit" => seen[s] + CreditUnit <= r_v[s]
       /\ Rent = "rate" /\ r_res[s] < Decided =>
             /\ r_pk[s] \in 1 .. FinalPhase - 1
             /\ seen[s] - took[s] <= (r_pk[s] - 1) * CreditUnit

\* Nobody's rent changes when no packet reaches a slot.
LEMMA PaidStutters == ASSUME PaidInv, UNCHANGED <<registers, history>> PROVE PaidInv'
  BY DEF PaidInv, registers, history

\* A takeover starts with the grace.
LEMMA TakeOverPays ==
  ASSUME PayableRent, SlotInv, PaidInv, NEW f \in Flows, NEW s \in Slots, NEW pc,
         TakeOver(f, s, pc)
  PROVE  PaidInv'
  <1>1. /\ claimed' = [claimed EXCEPT ![s] = TRUE] /\ r_v' = [r_v EXCEPT ![s] = now + Grace]
        /\ r_pk' = [r_pk EXCEPT ![s] = 1] /\ took' = [took EXCEPT ![s] = clock]
        /\ seen' = [seen EXCEPT ![s] = clock] /\ steady' = [steady EXCEPT ![s] = TRUE]
        /\ r_res' = [r_res EXCEPT ![s] = ResAtTakeover(s, pc)]
    BY DEF TakeOver
  <1>2. TypeOK /\ now = clock /\ clock \in Nat
    BY SwitchesAssumption DEF SlotInv, TypeOK, now, PayableRent
  <1>3. CreditUnit \in Nat /\ Grace \in Nat /\ CreditUnit <= Grace
        /\ FinalPhase \in Nat /\ FinalPhase > 1
    BY RentAssumption, PhaseAssumption DEF PayableRent
  <1>4. ASSUME NEW t \in Slots, claimed'[t], steady'[t]
        PROVE  /\ Rent = "credit" => seen'[t] + CreditUnit <= r_v'[t]
               /\ Rent = "rate" /\ r_res'[t] < Decided =>
                     /\ r_pk'[t] \in 1 .. FinalPhase - 1
                     /\ seen'[t] - took'[t] <= (r_pk'[t] - 1) * CreditUnit
    <2>1. CASE t = s
      <3>1. seen'[t] = clock /\ took'[t] = clock /\ r_v'[t] = clock + Grace /\ r_pk'[t] = 1
        BY <1>1, <1>2, <2>1 DEF TypeOK
      <3>2. (r_pk'[t] - 1) * CreditUnit = 0
        BY <1>3, <3>1
      <3>3. QED
        BY <1>2, <1>3, <3>1, <3>2
    <2>2. CASE t # s
      <3>1. /\ claimed[t] /\ steady[t] /\ seen'[t] = seen[t] /\ took'[t] = took[t]
            /\ r_v'[t] = r_v[t] /\ r_pk'[t] = r_pk[t] /\ r_res'[t] = r_res[t]
        BY <1>1, <1>2, <1>4, <2>2 DEF TypeOK
      <3>2. QED
        BY <3>1 DEF PaidInv
    <2>3. QED
      BY <2>1, <2>2
  <1>5. QED
    BY <1>4 DEF PaidInv

\* In its last phase a flow is determined, if the last phase has no miss.
LEMMA CountedWhileUndetermined ==
  ASSUME 0 \notin FinalCodes, SlotInv, NEW f \in Flows, NEW s \in Slots, NEW pc \in PktCodes,
         OwnerStep(f, s, pc), r_res'[s] < Decided
  PROVE  r_res[s] < Decided /\ r_pk'[s] = Count(s) /\ Count(s) # FinalPhase
  <1>1. r_res[s] \in Nat /\ r_pk \in [Slots -> 0 .. PkMod - 1] /\ r_res \in [Slots -> Codes]
    BY CodesAreNaturals DEF SlotInv, TypeOK, Codes
  <1>2. ~ OwnerDetermined(f, s, pc)
    BY DEF OwnerDetermined, Counting
  <1>3. CASE OwnerBetween(f, s, pc)
    BY <1>1, <1>3 DEF OwnerBetween, Counting
  <1>4. ASSUME NEW code \in PhaseCodes, OwnerPhase(f, s, pc, code)
        PROVE  r_res[s] < Decided /\ r_pk'[s] = Count(s) /\ Count(s) # FinalPhase
    BY <1>1, <1>4, PhaseAssumption DEF OwnerPhase, Counting
  <1>5. ASSUME NEW code \in FinalCodes, OwnerFinal(f, s, pc, code) PROVE FALSE
    <2>1. r_res' = [r_res EXCEPT ![s] = Stored(s, code, pc)]
      BY <1>5 DEF OwnerFinal
    <2>2. code \in Nat /\ code > Decided
      BY CodesAssumption
    <2>3. Stored(s, code, pc) = code
      BY <2>2 DEF Stored, Decided
    <2>4. QED
      BY <1>1, <2>1, <2>2, <2>3 DEF Decided
  <1>6. QED
    BY <1>2, <1>3, <1>4, <1>5 DEF OwnerStep

\* A packet in time pays for the next unit.
LEMMA OwnerPays ==
  ASSUME PayableRent, SlotInv, PaidInv, NEW f \in Flows, NEW s \in Slots, NEW pc \in PktCodes,
         OwnerStep(f, s, pc)
  PROVE  PaidInv'
  <1>1. r_hash[s] = HashOf[f] /\ Refresh(f, s)
    BY DEF OwnerStep, OwnerDetermined, OwnerBetween, OwnerPhase, OwnerFinal
  <1>2. /\ UNCHANGED <<clock, claimed, took>>
        /\ r_v' = [r_v EXCEPT ![s] = CreditOfOwner(s)]
        /\ seen' = [seen EXCEPT ![s] = clock]
        /\ steady' = [steady EXCEPT ![s] = steady[s] /\ clock - seen[s] <= CreditUnit]
    BY <1>1 DEF Refresh
  <1>3. TypeOK /\ now = clock /\ clock \in Nat /\ claimed[s]
    BY <1>1, SwitchesAssumption, StoredIsClaimed DEF SlotInv, TypeOK, now, PayableRent
  <1>4. /\ CreditUnit \in Nat /\ Cap \in Nat /\ CreditUnit <= Cap
        /\ FinalPhase \in Nat /\ PkMod \in Nat /\ PkMod > FinalPhase
    BY RentAssumption, PhaseAssumption DEF PayableRent
  <1>5. \A t \in Slots : t # s => r_res'[t] = r_res[t] /\ r_pk'[t] = r_pk[t]
    BY <1>3 DEF TypeOK, OwnerStep, OwnerDetermined, OwnerBetween, OwnerPhase, OwnerFinal
  <1>6. Rent = "rate" /\ r_res'[s] < Decided =>
           r_res[s] < Decided /\ r_pk'[s] = Count(s) /\ Count(s) # FinalPhase
    BY CountedWhileUndetermined DEF PayableRent
  <1>7. ASSUME NEW t \in Slots, claimed'[t], steady'[t]
        PROVE  /\ Rent = "credit" => seen'[t] + CreditUnit <= r_v'[t]
               /\ Rent = "rate" /\ r_res'[t] < Decided =>
                     /\ r_pk'[t] \in 1 .. FinalPhase - 1
                     /\ seen'[t] - took'[t] <= (r_pk'[t] - 1) * CreditUnit
    <2>1. CASE t # s
      <3>1. /\ claimed[t] /\ steady[t] /\ seen'[t] = seen[t] /\ took'[t] = took[t]
            /\ r_v'[t] = r_v[t] /\ r_pk'[t] = r_pk[t] /\ r_res'[t] = r_res[t]
        BY <1>2, <1>3, <1>5, <1>7, <2>1 DEF TypeOK
      <3>2. QED
        BY <3>1 DEF PaidInv
    <2>2. CASE t = s
      <3>1. /\ steady[s] /\ clock - seen[s] <= CreditUnit /\ seen'[s] = clock
            /\ took'[s] = took[s] /\ r_v'[s] = CreditOfOwner(s)
        <4> DEFINE b == steady[s] /\ clock - seen[s] <= CreditUnit
        <4>1. steady' = [steady EXCEPT ![s] = b] /\ steady \in [Slots -> BOOLEAN]
          BY <1>2, <1>3 DEF TypeOK
        <4>2. steady'[s] = b
          <5> HIDE DEF b
          <5>1. QED
            BY <4>1
        <4>3. b
          BY <1>7, <2>2, <4>2
        <4>4. seen'[s] = clock /\ took'[s] = took[s] /\ r_v'[s] = CreditOfOwner(s)
          BY <1>2, <1>3 DEF TypeOK
        <4>5. QED
          BY <4>3, <4>4
      <3>2. seen[s] \in Nat /\ took[s] \in Nat /\ r_v[s] \in Nat /\ r_pk[s] \in 0 .. PkMod - 1
        BY <1>3 DEF TypeOK
      <3>3. ASSUME Rent = "credit" PROVE seen'[s] + CreditUnit <= r_v'[s]
        <4>1. seen[s] + CreditUnit <= r_v[s]
          BY <1>3, <3>1, <3>3 DEF PaidInv
        <4>2. r_v'[s] = Smaller(r_v[s] + CreditUnit, clock + Cap)
          BY <1>3, <3>1, <3>3 DEF CreditOfOwner
        <4>3. QED
          BY <1>3, <1>4, <3>1, <3>2, <4>1, <4>2 DEF Smaller
      <3>4. ASSUME Rent = "rate", r_res'[s] < Decided
            PROVE  r_pk'[s] \in 1 .. FinalPhase - 1
                   /\ seen'[s] - took'[s] <= (r_pk'[s] - 1) * CreditUnit
        <4>1. /\ r_pk[s] \in 1 .. FinalPhase - 1
              /\ seen[s] - took[s] <= (r_pk[s] - 1) * CreditUnit
          BY <1>3, <1>6, <3>1, <3>4 DEF PaidInv
        <4>2. r_pk[s] + 1 \in Nat /\ r_pk[s] + 1 < PkMod /\ PkMod \in Nat \ {0}
          BY <1>4, <3>2, <4>1
        <4>3. r_pk'[s] = r_pk[s] + 1 /\ r_pk'[s] # FinalPhase
          BY <1>6, <3>4, <4>2, SmallRemainder DEF Count
        <4>4. (r_pk'[s] - 1) * CreditUnit = (r_pk[s] - 1) * CreditUnit + CreditUnit
          BY <1>4, <3>2, <4>3
        <4>5. (r_pk[s] - 1) * CreditUnit \in Int
          BY <1>4, <3>2
        <4>6. r_pk'[s] \in 1 .. FinalPhase - 1
          <5>1. r_pk[s] \in 1 .. FinalPhase - 1
            BY <4>1
          <5>2. QED
            BY <4>3, <5>1, PhaseAssumption
        <4> DEFINE owed == (r_pk[s] - 1) * CreditUnit
        <4>7. owed \in Int /\ seen[s] - took[s] <= owed /\ (r_pk'[s] - 1) * CreditUnit = owed + CreditUnit
          BY <4>1, <4>4, <4>5
        <4>8. clock - took[s] <= owed + CreditUnit
          <5> HIDE DEF owed
          <5>1. QED
            BY <1>3, <1>4, <3>1, <3>2, <4>7
        <4>9. QED
          BY <3>1, <4>6, <4>7, <4>8
      <3>5. QED
        BY <2>2, <3>3, <3>4
    <2>3. QED
      BY <2>1, <2>2
  <1>8. QED
    BY <1>7 DEF PaidInv

\* Every step keeps PaidInv.
LEMMA PaidInvStep ==
  ASSUME PayableRent, SlotInv, PaidInv, [Next]_vars
  PROVE  PaidInv'
  <1>1. CASE Tick \/ MemoInsert \/ UNCHANGED vars
    BY <1>1, PaidStutters DEF Tick, MemoInsert, vars
  <1>2. ASSUME NEW f \in Flows, Packet(f) PROVE PaidInv'
    <2>1. CASE Reject(f) \/ MemoHit(f)
      BY <2>1, PaidStutters DEF Reject, MemoHit
    <2>2. ASSUME NEW s \in Candidates(f), NEW pc \in PktCodes, NewcomerStep(f, s, pc)
          PROVE  PaidInv'
      <3>1. CASE FallbackShort(f, s, pc) \/ Refuse(f, s, pc)
        BY <3>1, PaidStutters DEF FallbackShort, Refuse
      <3>2. CASE TakeOver(f, s, pc)
        BY <3>2, TakeOverPays, CandidatesAreSlots
      <3>3. QED
        BY <2>2, <3>1, <3>2 DEF NewcomerStep
    <2>3. ASSUME NEW s \in Candidates(f), NEW pc \in PktCodes, OwnerStep(f, s, pc)
          PROVE  PaidInv'
      BY <2>3, OwnerPays, CandidatesAreSlots
    <2>4. QED
      BY <1>2, <2>1, <2>2, <2>3 DEF Packet
  <1>3. QED
    BY <1>1, <1>2 DEF Next

\* Whoever loses its slot has missed its pace.
LEMMA DisplacedHasNotPaid ==
  ASSUME PayableRent, SlotInv, PaidInv, [Next]_vars,
         NEW s \in Slots, Displaced(s), r_res[s] < Decided, steady[s]
  PROVE  clock - seen[s] > CreditUnit
  <1>1. PICK f \in Flows, pc \in PktCodes : TakeOver(f, s, pc)
    BY OnlyTakeOverDisplaces
  <1>2. claimed[s] /\ ~ WrapWindow /\ now = clock
    BY SwitchesAssumption DEF Displaced, PayableRent, now
  <1>3. /\ clock \in Nat /\ seen[s] \in Nat /\ took[s] \in Nat /\ r_v[s] \in Nat /\ r_pk[s] \in Nat
        /\ seen[s] <= clock /\ r_t0[s] = took[s] /\ wrote[s]
    BY <1>2, PhaseAssumption DEF SlotInv, TypeOK, TimesInv, PayableRent
  <1>4. /\ CreditUnit \in Nat /\ CreditUnit < Timeout /\ Timeout \in Nat /\ Grace \in Nat
        /\ FinalPhase \in Nat
    BY RentAssumption, ClockAssumption, PhaseAssumption DEF PayableRent
  <1>5. CASE ~ Held(s)
    <2>1. ~ (Age(s) < Timeout)
      BY <1>2, <1>5 DEF Held
    <2>2. Age(s) = clock - seen[s]
      BY <1>2, <1>3, AgeIsTrue
    <2>3. QED
      BY <1>3, <1>4, <2>1, <2>2
  <1>6. CASE Evictable(s) /\ Rent = "credit"
    <2>1. clock > r_v[s] /\ seen[s] + CreditUnit <= r_v[s]
      BY <1>2, <1>6 DEF Evictable, PaidInv
    <2>2. QED
      BY <1>3, <1>4, <2>1
  <1>7. CASE Evictable(s) /\ Rent = "rate"
    <2>1. r_pk[s] * CreditUnit < clock - took[s]
      BY <1>2, <1>3, <1>7 DEF Evictable
    <2>2. r_pk[s] \in 1 .. FinalPhase - 1 /\ seen[s] - took[s] <= (r_pk[s] - 1) * CreditUnit
      BY <1>2, <1>7 DEF PaidInv
    <2> DEFINE paid == r_pk[s] * CreditUnit
    <2>3. (r_pk[s] - 1) * CreditUnit = paid - CreditUnit /\ paid \in Int
      BY <1>3, <1>4
    <2>4. paid < clock - took[s] /\ seen[s] - took[s] <= paid - CreditUnit
      BY <2>1, <2>2, <2>3
    <2> HIDE DEF paid
    <2>5. QED
      BY <1>3, <1>4, <2>3, <2>4
  <1>8. QED
    BY <1>1, <1>5, <1>6, <1>7 DEF TakeOver, PayableRent

\* "packets per second an incumbent must sustain to keep its slot" (rent_rmin):
\* a flow that sustains it is never displaced while undetermined.
THEOREM PayingKeepsSlot == ASSUME PayableRent PROVE Spec => PayingFlowKeepsSlot
<1> DEFINE Step == \A s \in Slots :
             Displaced(s) /\ r_res[s] < Decided /\ steady[s] => clock - seen[s] > CreditUnit
<1>1. Init => PaidInv
  BY DEF Init, PaidInv
<1>2. SlotInv /\ PaidInv /\ [Next]_vars => PaidInv' /\ Step
  BY PaidInvStep, DisplacedHasNotPaid
<1> HIDE DEF Step
<1>3. Spec => [][Step]_vars
  BY <1>1, <1>2, SlotInvariant, PTL DEF Spec
<1>4. QED
  BY <1>3 DEF PayingFlowKeepsSlot, Step

-----------------------------------------------------------------------------
(* What a refusal is worth.                                                *)

\* No credit is banked further ahead than the grace or the cap, and it was
\* bought packet by packet, as long as the counter of packets tells.
Bank == IF Cap > Grace THEN Cap ELSE Grace

BankInv ==
    \A s \in Slots : claimed[s] =>
       /\ r_v[s] <= seen[s] + Bank
       /\ r_res[s] < Decided =>
             /\ r_pk[s] \in 1 .. FinalPhase - 1
             /\ r_v[s] <= took[s] + Grace + (r_pk[s] - 1) * CreditUnit

\* A takeover banks the grace.
LEMMA TakeOverBanks ==
  ASSUME Rent = "credit", SlotInv, BankInv, NEW f \in Flows, NEW s \in Slots, NEW pc,
         TakeOver(f, s, pc)
  PROVE  BankInv'
  <1>1. /\ claimed' = [claimed EXCEPT ![s] = TRUE] /\ r_v' = [r_v EXCEPT ![s] = now + Grace]
        /\ r_pk' = [r_pk EXCEPT ![s] = 1] /\ took' = [took EXCEPT ![s] = clock]
        /\ seen' = [seen EXCEPT ![s] = clock]
        /\ r_res' = [r_res EXCEPT ![s] = ResAtTakeover(s, pc)]
    BY DEF TakeOver
  <1>2. TypeOK /\ now = clock /\ clock \in Nat
    BY SwitchesAssumption DEF SlotInv, TypeOK, now
  <1>3. CreditUnit \in Nat /\ Grace \in Nat /\ Cap \in Nat /\ FinalPhase \in Nat /\ FinalPhase > 1
    BY RentAssumption, PhaseAssumption
  <1>4. ASSUME NEW t \in Slots, claimed'[t]
        PROVE  /\ r_v'[t] <= seen'[t] + Bank
               /\ r_res'[t] < Decided =>
                     /\ r_pk'[t] \in 1 .. FinalPhase - 1
                     /\ r_v'[t] <= took'[t] + Grace + (r_pk'[t] - 1) * CreditUnit
    <2>1. CASE t = s
      <3>1. seen'[t] = clock /\ took'[t] = clock /\ r_v'[t] = clock + Grace /\ r_pk'[t] = 1
        BY <1>1, <1>2, <2>1 DEF TypeOK
      <3>2. (r_pk'[t] - 1) * CreditUnit = 0
        BY <1>3, <3>1
      <3>3. QED
        BY <1>2, <1>3, <3>1, <3>2 DEF Bank
    <2>2. CASE t # s
      <3>1. /\ claimed[t] /\ seen'[t] = seen[t] /\ took'[t] = took[t]
            /\ r_v'[t] = r_v[t] /\ r_pk'[t] = r_pk[t] /\ r_res'[t] = r_res[t]
        BY <1>1, <1>2, <1>4, <2>2 DEF TypeOK
      <3>2. QED
        BY <3>1 DEF BankInv
    <2>3. QED
      BY <2>1, <2>2
  <1>5. QED
    BY <1>4 DEF BankInv, Bank

\* A packet banks at most one unit, and at most the cap.
LEMMA OwnerBanks ==
  ASSUME Rent = "credit", 0 \notin FinalCodes, SlotInv, BankInv,
         NEW f \in Flows, NEW s \in Slots, NEW pc \in PktCodes, OwnerStep(f, s, pc)
  PROVE  BankInv'
  <1>1. r_hash[s] = HashOf[f] /\ Refresh(f, s)
    BY DEF OwnerStep, OwnerDetermined, OwnerBetween, OwnerPhase, OwnerFinal
  <1>2. /\ UNCHANGED <<clock, claimed, took>>
        /\ r_v' = [r_v EXCEPT ![s] = CreditOfOwner(s)]
        /\ seen' = [seen EXCEPT ![s] = clock]
    BY <1>1 DEF Refresh
  <1>3. TypeOK /\ now = clock /\ clock \in Nat /\ claimed[s]
    BY <1>1, SwitchesAssumption, StoredIsClaimed DEF SlotInv, TypeOK, now
  <1>4. /\ CreditUnit \in Nat /\ Cap \in Nat /\ Grace \in Nat
        /\ FinalPhase \in Nat /\ PkMod \in Nat /\ PkMod > FinalPhase
    BY RentAssumption, PhaseAssumption
  <1>5. \A t \in Slots : t # s => r_res'[t] = r_res[t] /\ r_pk'[t] = r_pk[t]
    BY <1>3 DEF TypeOK, OwnerStep, OwnerDetermined, OwnerBetween, OwnerPhase, OwnerFinal
  <1>6. ASSUME NEW t \in Slots, claimed'[t]
        PROVE  /\ r_v'[t] <= seen'[t] + Bank
               /\ r_res'[t] < Decided =>
                     /\ r_pk'[t] \in 1 .. FinalPhase - 1
                     /\ r_v'[t] <= took'[t] + Grace + (r_pk'[t] - 1) * CreditUnit
    <2>1. CASE t # s
      <3>1. /\ claimed[t] /\ seen'[t] = seen[t] /\ took'[t] = took[t]
            /\ r_v'[t] = r_v[t] /\ r_pk'[t] = r_pk[t] /\ r_res'[t] = r_res[t]
        BY <1>2, <1>3, <1>5, <1>6, <2>1 DEF TypeOK
      <3>2. QED
        BY <3>1 DEF BankInv
    <2>2. CASE t = s
      <3>1. /\ seen[s] \in Nat /\ took[s] \in Nat /\ r_v[s] \in Nat /\ r_pk[s] \in 0 .. PkMod - 1
            /\ seen'[s] = clock /\ took'[s] = took[s]
            /\ r_v'[s] = Smaller(r_v[s] + CreditUnit, clock + Cap)
        BY <1>2, <1>3 DEF TypeOK, CreditOfOwner
      <3>2. r_v'[s] <= seen'[s] + Bank
        BY <1>3, <1>4, <3>1 DEF Smaller, Bank
      <3>3. ASSUME r_res'[s] < Decided
            PROVE  /\ r_pk'[s] \in 1 .. FinalPhase - 1
                   /\ r_v'[s] <= took'[s] + Grace + (r_pk'[s] - 1) * CreditUnit
        <4>1. r_res[s] < Decided /\ r_pk'[s] = Count(s) /\ Count(s) # FinalPhase
          BY <3>3, CountedWhileUndetermined
        <4> DEFINE paid == (r_pk[s] - 1) * CreditUnit
        <4>2. r_pk[s] \in 1 .. FinalPhase - 1 /\ r_v[s] <= took[s] + Grace + paid
          BY <1>3, <4>1 DEF BankInv
        <4>3. r_pk'[s] = r_pk[s] + 1 /\ r_pk'[s] # FinalPhase
          <5>1. r_pk[s] + 1 \in Nat /\ r_pk[s] + 1 < PkMod /\ PkMod \in Nat \ {0}
            BY <1>4, <3>1, <4>2
          <5>2. QED
            BY <4>1, <5>1, SmallRemainder DEF Count
        <4>4. r_pk'[s] \in 1 .. FinalPhase - 1
          <5>1. r_pk[s] \in 1 .. FinalPhase - 1
            BY <4>2
          <5>2. QED
            BY <1>4, <4>3, <5>1
        <4>5. paid \in Int /\ (r_pk'[s] - 1) * CreditUnit = paid + CreditUnit
          <5>1. r_pk[s] \in Nat /\ r_pk'[s] - 1 = (r_pk[s] - 1) + 1
            BY <3>1, <4>3
          <5>2. \A i \in Int : (i + 1) * CreditUnit = i * CreditUnit + CreditUnit
            BY <1>4
          <5>3. QED
            BY <1>4, <5>1, <5>2
        <4>6. r_v'[s] <= took[s] + Grace + (paid + CreditUnit)
          <5>1. r_v[s] <= took[s] + Grace + paid /\ paid \in Int
            BY <4>2, <4>5
          <5> HIDE DEF paid
          <5>2. QED
            BY <1>3, <1>4, <3>1, <5>1 DEF Smaller
        <4>7. QED
          BY <3>1, <4>4, <4>5, <4>6
      <3>4. QED
        BY <2>2, <3>2, <3>3
    <2>3. QED
      BY <2>1, <2>2
  <1>7. QED
    BY <1>6 DEF BankInv, Bank

\* Whoever refuses a newcomer is not evictable, at either candidate.
LEMMA RefusedMeansNoneEvictable ==
  ASSUME NEW f \in Flows, NEW s \in Candidates(f), NEW pc, Refuse(f, s, pc),
         NEW t \in Candidates(f)
  PROVE  ~ Evictable(t)
  <1>1. s = SlotOf(f) /\ Held(s) /\ ~ Evictable(s) /\ r_hash[s] # HashOf[f]
    BY DEF Refuse, Arrives
  <1>2. CASE t = s
    BY <1>1, <1>2
  <1>3. CASE s = SlotA[f] /\ t = SlotB[f] /\ TwoWay
    <2>1. ~ TakesB(s, t)
      BY <1>1, <1>3, SlotsAssumption DEF SlotOf
    <2>2. QED
      BY <1>1, <2>1 DEF TakesB, BothHeldTakesB
  <1>4. CASE s = SlotB[f] /\ t = SlotA[f] /\ TwoWay
    <2>1. s # t
      BY <1>4, SlotsAssumption
    <2>2. TakesB(t, s)
      BY <1>1, <1>4, <2>1 DEF SlotOf, FoundInB
    <2>3. QED
      BY <1>1, <2>2 DEF TakesB, BothHeldTakesB
  <1>5. QED
    BY <1>2, <1>3, <1>4 DEF Candidates

\* A refusal is paid for.
LEMMA RefuseIsPaidFor ==
  ASSUME Rent = "credit", SlotInv, BankInv,
         NEW f \in Flows, NEW s \in Candidates(f), NEW pc, Refuse(f, s, pc)
  PROVE  RefusalIsPaidFor'
  <1>1. UNCHANGED <<clock, registers, history>> /\ last'.flow = f
    BY DEF Refuse, Handled
  <1>2. UNCHANGED <<clock, r_v, r_pk, took, seen>> /\ Candidates(f)' = Candidates(f)
    BY <1>1 DEF registers, history, Candidates, TwoWay
  <1>3. ASSUME NEW t \in Candidates(f), clock - took[t] >= Grace
        PROVE  /\ clock - took[t] - Grace <= (r_pk[t] - 1) * CreditUnit
               /\ r_v[t] - seen[t] <= Bank
    <2>1. t \in Slots /\ Held(t) /\ ~ Evictable(t)
      BY RefusedMeansAllHeld, RefusedMeansNoneEvictable, CandidatesAreSlots
    <2>2. claimed[t] /\ now = clock /\ r_res[t] < Decided
      BY <2>1, SwitchesAssumption DEF Held, EmptyHolds, now
    <2>3. /\ clock \in Nat /\ took[t] \in Nat /\ seen[t] \in Nat /\ r_v[t] \in Nat /\ r_pk[t] \in Nat
          /\ r_t0[t] = took[t] /\ Grace \in Nat /\ Cap \in Nat /\ CreditUnit \in Nat
      BY <2>1, <2>2, SwitchesAssumption, RentAssumption, PhaseAssumption DEF SlotInv, TypeOK, TimesInv
    <2>4. clock <= r_v[t]
      BY <1>3, <2>1, <2>2, <2>3 DEF Evictable
    <2> DEFINE paid == (r_pk[t] - 1) * CreditUnit
    <2>5. paid \in Int /\ r_v[t] <= took[t] + Grace + paid /\ r_v[t] <= seen[t] + Bank
      BY <2>1, <2>2, <2>3 DEF BankInv
    <2>6. clock - took[t] - Grace <= paid
      <3> HIDE DEF paid
      <3>1. QED
        BY <2>3, <2>4, <2>5
    <2>7. QED
      BY <2>3, <2>5, <2>6 DEF Bank
  <1>4. QED
    BY <1>1, <1>2, <1>3 DEF RefusalIsPaidFor, Bank

\* Nothing else reports a collision.
LEMMA NoCollision ==
  ASSUME last' = NoPacket \/ \E f, s, o, c : last' = Handled(f, s, o, c) /\ o # "collision"
  PROVE  RefusalIsPaidFor'
  <1>1. last'.outcome # "collision"
    BY DEF NoPacket, Handled
  <1>2. QED
    BY <1>1 DEF RefusalIsPaidFor

\* Every step keeps what is banked and what a refusal is worth.
LEMMA BankInvStep ==
  ASSUME Rent = "credit", 0 \notin FinalCodes, SlotInv, BankInv, RefusalIsPaidFor, [Next]_vars
  PROVE  BankInv' /\ RefusalIsPaidFor'
  <1>1. ASSUME UNCHANGED <<registers, history>> PROVE BankInv'
    BY <1>1 DEF BankInv, Bank, registers, history
  <1>2. CASE Tick \/ MemoInsert
    BY <1>1, <1>2, NoCollision DEF Tick, MemoInsert
  <1>3. CASE UNCHANGED vars
    <2>1. UNCHANGED <<clock, last, r_pk, r_v, took, seen>>
      BY <1>3 DEF vars, registers, history
    <2>2. RefusalIsPaidFor'
      BY <2>1 DEF RefusalIsPaidFor, Candidates, TwoWay
    <2>3. QED
      BY <1>1, <1>3, <2>2 DEF vars
  <1>4. ASSUME NEW f \in Flows, Packet(f) PROVE BankInv' /\ RefusalIsPaidFor'
    <2>1. CASE Reject(f) \/ MemoHit(f)
      BY <1>1, <2>1, NoCollision DEF Reject, MemoHit
    <2>2. ASSUME NEW s \in Candidates(f), NEW pc \in PktCodes, NewcomerStep(f, s, pc)
          PROVE  BankInv' /\ RefusalIsPaidFor'
      <3>1. CASE FallbackShort(f, s, pc)
        BY <1>1, <3>1, NoCollision DEF FallbackShort
      <3>2. CASE Refuse(f, s, pc)
        BY <1>1, <3>2, RefuseIsPaidFor DEF Refuse
      <3>3. CASE TakeOver(f, s, pc)
        <4>1. BankInv'
          BY <3>3, TakeOverBanks, CandidatesAreSlots
        <4>2. last' = Handled(f, s, "new_owner", pc)
          BY <3>3 DEF TakeOver
        <4>3. QED
          BY <4>1, <4>2, NoCollision
      <3>4. QED
        BY <2>2, <3>1, <3>2, <3>3 DEF NewcomerStep
    <2>3. ASSUME NEW s \in Candidates(f), NEW pc \in PktCodes, OwnerStep(f, s, pc)
          PROVE  BankInv' /\ RefusalIsPaidFor'
      <3>1. \E c : last' = Handled(f, s, "owner", c)
        BY <2>3 DEF OwnerStep, OwnerDetermined, OwnerBetween, OwnerPhase, OwnerFinal
      <3>2. QED
        BY <2>3, <3>1, OwnerBanks, NoCollision, CandidatesAreSlots
    <2>4. QED
      BY <1>4, <2>1, <2>2, <2>3 DEF Packet
  <1>5. QED
    BY <1>2, <1>3, <1>4 DEF Next

\* Under rent by credit the flows that refuse a newcomer have sent a packet per
\* unit past their grace and have banked no more than the cap, as long as the
\* last phase determines every flow.
THEOREM RefusalsArePaidFor ==
  ASSUME 0 \notin FinalCodes PROVE Spec => []RefusalIsPaidFor
<1>1. CASE Rent = "credit"
  <2>1. Init => BankInv /\ RefusalIsPaidFor
    BY DEF Init, BankInv, RefusalIsPaidFor, NoPacket
  <2>2. SlotInv /\ BankInv /\ RefusalIsPaidFor /\ [Next]_vars => BankInv' /\ RefusalIsPaidFor'
    BY <1>1, BankInvStep
  <2>3. QED
    BY <2>1, <2>2, SlotInvariant, PTL DEF Spec
<1>2. CASE Rent # "credit"
  <2>1. RefusalIsPaidFor
    BY <1>2 DEF RefusalIsPaidFor
  <2>2. QED
    BY <2>1, PTL
<1>3. QED
  BY <1>1, <1>2

-----------------------------------------------------------------------------
\* The two runs in which a verdict is frozen.  With shared slots and a delay
\* it is not: a flow can lose its slot while its digest is on the way, take a
\* slot again and be determined anew.
VerdictsSettle == Isolated \/ (MemoDelay = 0 /\ DistinctHashes)

-----------------------------------------------------------------------------
(* Who has a slot.                                                         *)

\* The flow that took a slot over is the one that is stored there, and has one
\* slot.
Ownership ==
    /\ r_hash \in [Slots -> Nat]
    /\ owner \in [Slots -> SUBSET Flows]
    /\ \A f \in Flows : \A s \in Candidates(f) : r_hash[s] = HashOf[f] => owner[s] = {f}
    /\ \A f \in Flows : \A s \in Slots :
          owner[s] = {f} => s \in Candidates(f) /\ r_hash[s] = HashOf[f]
    /\ \A f \in Flows : \A s, t \in Slots : owner[s] = {f} /\ owner[t] = {f} => s = t

\* With distinct hashes that is what HolderInv says.
LEMMA HolderOwnership == ASSUME DistinctHashes, HolderInv PROVE Ownership
  <1>1. /\ r_hash \in [Slots -> Nat] /\ owner \in [Slots -> SUBSET Flows]
        /\ \A s \in Slots : r_hash[s] # 0 <=> claimed[s]
        /\ \A s \in Slots : claimed[s] =>
              \E f \in Flows : owner[s] = {f} /\ HashOf[f] = r_hash[s] /\ s \in Candidates(f)
        /\ \A s \in Slots : ~ claimed[s] => owner[s] = {}
    BY DEF HolderInv, HomeInv
  <1>2. ASSUME NEW f \in Flows, NEW s \in Candidates(f), r_hash[s] = HashOf[f]
        PROVE  owner[s] = {f}
    <2>1. s \in Slots /\ claimed[s]
      BY <1>1, <1>2, CandidatesAreSlots, HashAssumption
    <2>2. PICK g \in Flows : owner[s] = {g} /\ HashOf[g] = r_hash[s]
      BY <1>1, <2>1
    <2>3. g = f
      BY <1>2, <2>2 DEF DistinctHashes
    <2>4. QED
      BY <2>2, <2>3
  <1>3. ASSUME NEW f \in Flows, NEW s \in Slots, owner[s] = {f}
        PROVE  claimed[s] /\ s \in Candidates(f) /\ r_hash[s] = HashOf[f]
    <2>1. claimed[s]
      BY <1>1, <1>3
    <2>2. PICK g \in Flows : owner[s] = {g} /\ HashOf[g] = r_hash[s] /\ s \in Candidates(g)
      BY <1>1, <2>1
    <2>3. g = f
      BY <1>3, <2>2
    <2>4. QED
      BY <2>1, <2>2, <2>3
  <1>4. \A f \in Flows : \A s, t \in Slots : owner[s] = {f} /\ owner[t] = {f} => s = t
    BY <1>3 DEF HolderInv, HomeInv, OneHome
  <1>5. QED
    BY <1>1, <1>2, <1>3, <1>4 DEF Ownership

\* A step changes who has a slot only by a takeover.
LEMMA OwnersChangeByTakeOver ==
  ASSUME [Next]_vars, ~ UNCHANGED <<r_hash, owner>>
  PROVE  \E f \in Flows : \E s \in Candidates(f), pc \in PktCodes : TakeOver(f, s, pc)
  <1>1. ~ (Tick \/ MemoInsert \/ UNCHANGED vars)
    BY DEF Tick, MemoInsert, vars, registers, history
  <1>2. PICK f \in Flows : Packet(f)
    BY <1>1 DEF Next
  <1>3. ~ (Reject(f) \/ MemoHit(f))
    BY DEF Reject, MemoHit, registers, history
  <1>4. PICK s \in Candidates(f), pc \in PktCodes : NewcomerStep(f, s, pc) \/ OwnerStep(f, s, pc)
    BY <1>2, <1>3 DEF Packet
  <1>5. ~ OwnerStep(f, s, pc)
    BY DEF OwnerStep, OwnerDetermined, OwnerBetween, OwnerPhase, OwnerFinal, Refresh
  <1>6. ~ (FallbackShort(f, s, pc) \/ Refuse(f, s, pc))
    BY DEF FallbackShort, Refuse, registers, history
  <1>7. QED
    BY <1>4, <1>5, <1>6 DEF NewcomerStep

\* If every flow has a slot of its own, no hash is needed to tell flows apart.
LEMMA IsolatedOwnership == ASSUME Isolated, Ownership, [Next]_vars PROVE Ownership'
  <1>1. \A f \in Flows : Candidates(f) = {SlotA[f]} /\ SlotA[f] \in Slots
    BY SlotsAssumption DEF Candidates, TwoWay, Slots
  <1>2. \A f : Candidates(f)' = Candidates(f)
    BY DEF Candidates, TwoWay
  <1>3. CASE UNCHANGED <<r_hash, owner>>
    BY <1>2, <1>3 DEF Ownership
  <1>4. CASE ~ UNCHANGED <<r_hash, owner>>
    <2>1. PICK f \in Flows, pc \in PktCodes : TakeOver(f, SlotA[f], pc)
      BY <1>1, <1>4, OwnersChangeByTakeOver
    <2> DEFINE s == SlotA[f]
    <2>2. /\ r_hash' = [r_hash EXCEPT ![s] = HashOf[f]]
          /\ owner' = [owner EXCEPT ![s] = {f}]
      BY <2>1 DEF TakeOver
    <2>3. s \in Slots /\ HashOf[f] \in Nat
      BY <1>1, HashAssumption
    <2>4. r_hash' \in [Slots -> Nat] /\ owner' \in [Slots -> SUBSET Flows]
      BY <2>2, <2>3 DEF Ownership
    <2>5. \A t \in Slots : /\ t = s => r_hash'[t] = HashOf[f] /\ owner'[t] = {f}
                           /\ t # s => r_hash'[t] = r_hash[t] /\ owner'[t] = owner[t]
      <3> HIDE DEF s
      <3>1. QED
        BY <2>2, <2>3 DEF Ownership
    <2>6. \A g \in Flows : SlotA[g] = s => g = f
      BY SwitchesAssumption
    <2>7. \A g \in Flows : \A t \in Candidates(g) : r_hash'[t] = HashOf[g] => owner'[t] = {g}
      BY <1>1, <2>5, <2>6 DEF Ownership
    <2>8. \A g \in Flows : \A t \in Slots :
             owner'[t] = {g} => t \in Candidates(g) /\ r_hash'[t] = HashOf[g]
      BY <1>1, <2>5 DEF Ownership
    <2>9. \A g \in Flows : \A t, u \in Slots : owner'[t] = {g} /\ owner'[u] = {g} => t = u
      BY <1>1, <2>8
    <2>10. QED
      BY <1>2, <2>4, <2>7, <2>8, <2>9 DEF Ownership
  <1>5. QED
    BY <1>3, <1>4

\* So it is an invariant of both runs.
LEMMA OwnershipInvariant == ASSUME VerdictsSettle PROVE Spec => []Ownership
<1>1. CASE Isolated
  <2>1. Init => Ownership
    BY HashAssumption, CandidatesAreSlots DEF Init, Ownership
  <2>2. Ownership /\ [Next]_vars => Ownership'
    BY <1>1, IsolatedOwnership
  <2>3. QED
    BY <2>1, <2>2, PTL DEF Spec
<1>2. CASE DistinctHashes
  <2>1. HolderInv => Ownership
    BY <1>2, HolderOwnership
  <2>2. Spec => []HolderInv
    BY <1>2, HolderInvariant
  <2>3. QED
    BY <2>1, <2>2, PTL
<1>3. QED
  BY <1>1, <1>2 DEF VerdictsSettle

-----------------------------------------------------------------------------
(* Verdicts.                                                               *)

\* The slot of f, if it is determined, has this verdict.
Agrees(f, res) == \A s \in Slots : owner[s] = {f} /\ r_res[s] > Decided => r_res[s] = res

\* Before the flow of a digest can be determined again the digest arrives: it
\* is due already, or the flow keeps its slot, determined.
Settled(d) ==
    IF Isolated THEN \A s \in Candidates(d.flow) : owner[s] = {d.flow} /\ r_res[s] > Decided
    ELSE d.due <= clock

\* A flow is entered in the memo once, and the memo, the digests on their way
\* to it and the slots agree on its verdict.
FrozenInv ==
    /\ MemoTypes
    /\ clock \in Nat
    /\ r_res \in [Slots -> Codes]
    /\ Ownership
    /\ \A i, j \in DOMAIN memo : memo[i].flow = memo[j].flow => i = j
    /\ \A i \in DOMAIN memo : Agrees(memo[i].flow, memo[i].res)
    /\ \A i \in DOMAIN pending : Agrees(pending[i].flow, pending[i].res) /\ Settled(pending[i])

\* The elements of a sequence.
LEMMA SeqElements ==
  ASSUME NEW S, NEW q \in Seq(S)
  PROVE  DOMAIN q = 1 .. Len(q) /\ Len(q) \in Nat /\ \A i \in DOMAIN q : q[i] \in S
  BY ElementOfSeq, LenProperties

\* One more element, whatever type the elements have.
LEMMA AppendIs ==
  ASSUME NEW S, NEW q \in Seq(S), NEW e, Append(q, e) \in Seq(S)
  PROVE  /\ Len(Append(q, e)) = Len(q) + 1
         /\ \A i \in 1 .. Len(q) : Append(q, e)[i] = q[i]
         /\ Append(q, e)[Len(q) + 1] = e
  OBVIOUS

\* Entries and digests are about flows.
LEMMA EntryTypes ==
  ASSUME MemoTypes
  PROVE  /\ \A i \in DOMAIN memo : memo[i].flow \in Flows /\ memo[i].res \in FinalCodes
         /\ \A i \in DOMAIN pending : pending[i].flow \in Flows /\ pending[i].res \in FinalCodes
  <1> DEFINE M == [flow : Flows, res : FinalCodes]
             D == [due : Nat, flow : Flows, res : FinalCodes]
  <1>1. memo \in Seq(M) /\ pending \in Seq(D)
    BY DEF MemoTypes
  <1>2. (\A i \in DOMAIN memo : memo[i] \in M) /\ (\A i \in DOMAIN pending : pending[i] \in D)
    <2> HIDE DEF M, D
    <2>1. QED
      BY <1>1, SeqElements
  <1>3. QED
    BY <1>2

\* Steps that keep the memo and what the slots say of digests keep it.
LEMMA FrozenStutters ==
  ASSUME FrozenInv, MemoTypes', clock' \in Nat, r_res' \in [Slots -> Codes], Ownership', UNCHANGED <<memo, pending>>,
         \A f \in Flows : \A s \in Slots :
            owner'[s] = {f} /\ r_res'[s] > Decided => owner[s] = {f} /\ r_res[s] = r_res'[s],
         \A i \in DOMAIN pending : Settled(pending[i])'
  PROVE  FrozenInv'
  <1>1. /\ \A i \in DOMAIN memo : memo[i].flow \in Flows
        /\ \A i \in DOMAIN pending : pending[i].flow \in Flows
    BY EntryTypes DEF FrozenInv
  <1>2. \A f \in Flows : \A res : Agrees(f, res) => Agrees(f, res)'
    BY DEF Agrees
  <1>3. QED
    BY <1>1, <1>2 DEF FrozenInv

\* A digest reaches the memo: what is left of the memo is of other flows.
LEMMA MemoInsertEntries ==
  ASSUME MemoTypes, MemoInsert
  PROVE  /\ pending # <<>> /\ 1 \in DOMAIN pending /\ Head(pending) = pending[1]
         /\ \A i \in DOMAIN pending' : i + 1 \in DOMAIN pending /\ pending'[i] = pending[i + 1]
         /\ \/ memo' = memo
            \/ /\ \A i \in DOMAIN memo : memo[i].flow # pending[1].flow
               /\ \E k, n \in Nat :
                     /\ DOMAIN memo' = 1 .. n + 1
                     /\ \A i \in 1 .. n : k + i \in DOMAIN memo /\ memo'[i] = memo[k + i]
                     /\ memo'[n + 1] = [flow |-> pending[1].flow, res |-> pending[1].res]
  <1> DEFINE M == [flow : Flows, res : FinalCodes]
             D == [due : Nat, flow : Flows, res : FinalCodes]
             e == [flow |-> pending[1].flow, res |-> pending[1].res]
  <1>1. memo \in Seq(M) /\ pending \in Seq(D) /\ pending # <<>> /\ pending' = Tail(pending)
    BY DEF MemoTypes, MemoInsert, Due
  <1>2. /\ DOMAIN pending = 1 .. Len(pending) /\ Len(pending) \in Nat /\ Len(pending) # 0
        /\ Head(pending) = pending[1] /\ pending' \in Seq(D) /\ Len(pending') = Len(pending) - 1
        /\ \A i \in 1 .. Len(pending) - 1 : pending'[i] = pending[i + 1]
    <2> HIDE DEF D
    <2>1. Len(pending) # 0 /\ DOMAIN pending = 1 .. Len(pending) /\ Len(pending) \in Nat
      BY <1>1, EmptySeq, SeqElements
    <2>2. /\ Head(pending) = pending[1] /\ Tail(pending) \in Seq(D)
          /\ Len(Tail(pending)) = Len(pending) - 1
          /\ \A i \in 1 .. Len(Tail(pending)) : Tail(pending)[i] = pending[i + 1]
      BY <1>1, HeadTailProperties
    <2>3. QED
      BY <1>1, <2>1, <2>2
  <1>3. \A i \in DOMAIN pending' : i + 1 \in DOMAIN pending /\ pending'[i] = pending[i + 1]
    <2>1. DOMAIN pending' = 1 .. Len(pending')
      <3> HIDE DEF D
      <3>1. QED
        BY <1>2, SeqElements
    <2>2. QED
      BY <1>2, <2>1
  <1>4. CASE pending[1].flow \in Remembered
    <2>1. memo' = memo
      BY <1>2, <1>4 DEF MemoInsert
    <2>2. QED
      BY <1>1, <1>2, <1>3, <2>1
  <1>5. CASE pending[1].flow \notin Remembered
    <2>1. memo' = Append(Room, e)
      BY <1>2, <1>5 DEF MemoInsert
    <2>2. \A i \in DOMAIN memo : memo[i].flow # pending[1].flow
      BY <1>5 DEF Remembered
    <2>3. e \in M
      <3>1. pending[1].flow \in Flows /\ pending[1].res \in FinalCodes
        BY <1>2, EntryTypes
      <3>2. QED
        BY <3>1
    <2>4. PICK k \in Nat : \A i \in 1 .. Len(Room) : k + i \in 1 .. Len(memo) /\ Room[i] = memo[k + i]
      BY RoomEntries
    <2> DEFINE n == Len(Room)
    <2>5. /\ n \in Nat /\ DOMAIN memo' = 1 .. n + 1
          /\ \A i \in 1 .. n : memo'[i] = Room[i]
          /\ memo'[n + 1] = e
      <3>1. Room \in Seq(M)
        BY RoomEntries
      <3> HIDE DEF M, e
      <3>2. /\ Append(Room, e) \in Seq(M) /\ Len(Append(Room, e)) = Len(Room) + 1
            /\ \A i \in 1 .. Len(Room) : Append(Room, e)[i] = Room[i]
            /\ Append(Room, e)[Len(Room) + 1] = e
        BY <2>3, <3>1, AppendProperties
      <3>3. Len(Room) \in Nat /\ DOMAIN Append(Room, e) = 1 .. Len(Append(Room, e))
        BY <3>1, <3>2, SeqElements
      <3>4. QED
        BY <2>1, <3>2, <3>3
    <2>6. DOMAIN memo = 1 .. Len(memo)
      <3> HIDE DEF M
      <3>1. QED
        BY <1>1, SeqElements
    <2> HIDE DEF n
    <2>7. \A i \in 1 .. n : k + i \in DOMAIN memo /\ memo'[i] = memo[k + i]
      BY <2>4, <2>5, <2>6 DEF n
    <2>8. \E m, l \in Nat :
             /\ DOMAIN memo' = 1 .. l + 1
             /\ \A i \in 1 .. l : m + i \in DOMAIN memo /\ memo'[i] = memo[m + i]
             /\ memo'[l + 1] = [flow |-> pending[1].flow, res |-> pending[1].res]
      BY <2>4, <2>5, <2>7
    <2>9. 1 \in DOMAIN pending
      BY <1>2
    <2>10. QED
      BY <1>1, <1>2, <1>3, <2>2, <2>8, <2>9
  <1>6. QED
    BY <1>4, <1>5

\* The memo stays of one mind with the slots when a digest reaches it.
LEMMA FrozenMemoInsert ==
  ASSUME FrozenInv, MemoInsert, MemoTypes'
  PROVE  FrozenInv'
  <1>1. UNCHANGED <<clock, r_hash, r_res, owner>>
    BY DEF MemoInsert, registers, history
  <1>2. /\ \A f, res : Agrees(f, res)' <=> Agrees(f, res)
        /\ \A d : Settled(d)' <=> Settled(d)
    BY <1>1 DEF Agrees, Settled, Candidates, TwoWay
  <1>3. Ownership' /\ r_res' \in [Slots -> Codes] /\ clock' \in Nat
    BY <1>1 DEF FrozenInv, Ownership, Candidates, TwoWay
  <1>4. \A i \in DOMAIN pending' : i + 1 \in DOMAIN pending /\ pending'[i] = pending[i + 1]
    BY MemoInsertEntries DEF FrozenInv
  <1>5. \A i \in DOMAIN pending' :
           Agrees(pending'[i].flow, pending'[i].res) /\ Settled(pending'[i])
    BY <1>4 DEF FrozenInv
  <1>6. /\ \A i, j \in DOMAIN memo' : memo'[i].flow = memo'[j].flow => i = j
        /\ \A i \in DOMAIN memo' : Agrees(memo'[i].flow, memo'[i].res)
    <2>1. CASE memo' = memo
      BY <2>1 DEF FrozenInv
    <2>2. CASE memo' # memo
      <3>1. /\ \A i \in DOMAIN memo : memo[i].flow # pending[1].flow
            /\ \E k, n \in Nat :
                  /\ DOMAIN memo' = 1 .. n + 1
                  /\ \A i \in 1 .. n : k + i \in DOMAIN memo /\ memo'[i] = memo[k + i]
                  /\ memo'[n + 1] = [flow |-> pending[1].flow, res |-> pending[1].res]
            /\ 1 \in DOMAIN pending
        BY <2>2, MemoInsertEntries DEF FrozenInv
      <3>2. PICK k, n \in Nat :
                  /\ DOMAIN memo' = 1 .. n + 1
                  /\ \A i \in 1 .. n : k + i \in DOMAIN memo /\ memo'[i] = memo[k + i]
                  /\ memo'[n + 1] = [flow |-> pending[1].flow, res |-> pending[1].res]
        BY <3>1
      <3>3. /\ memo'[n + 1].flow = pending[1].flow /\ memo'[n + 1].res = pending[1].res
            /\ \A i \in DOMAIN memo' : i \in 1 .. n \/ i = n + 1
        BY <3>2
      <3>4. ASSUME NEW i \in DOMAIN memo', NEW j \in DOMAIN memo', memo'[i].flow = memo'[j].flow
            PROVE  i = j
        <4>1. CASE i \in 1 .. n /\ j \in 1 .. n
          <5>1. k + i = k + j
            BY <3>2, <3>4, <4>1 DEF FrozenInv
          <5>2. QED
            BY <4>1, <5>1
        <4>2. CASE i \in 1 .. n /\ j = n + 1
          BY <3>1, <3>2, <3>3, <3>4, <4>2
        <4>3. CASE i = n + 1 /\ j \in 1 .. n
          BY <3>1, <3>2, <3>3, <3>4, <4>3
        <4>4. QED
          BY <3>3, <4>1, <4>2, <4>3
      <3>5. ASSUME NEW i \in DOMAIN memo' PROVE Agrees(memo'[i].flow, memo'[i].res)
        <4>1. CASE i \in 1 .. n
          BY <3>2, <4>1 DEF FrozenInv
        <4>2. CASE i = n + 1
          BY <3>1, <3>3, <4>2 DEF FrozenInv
        <4>3. QED
          BY <3>3, <4>1, <4>2
      <3>6. QED
        BY <3>4, <3>5
    <2>3. QED
      BY <2>1, <2>2
  <1>7. QED
    BY <1>2, <1>3, <1>5, <1>6 DEF FrozenInv

\* While a packet of f is handled and f is undetermined in its slot, no digest
\* of f is on its way.
LEMMA NoneOnItsWay ==
  ASSUME FrozenInv, VerdictsSettle, NEW f \in Flows, NEW s \in Candidates(f), Arrives(f, s),
         Counting(s) \/ owner[s] # {f}, NEW i \in DOMAIN pending
  PROVE  Isolated /\ pending[i].flow # f
  <1>1. Isolated
    <2>1. SUFFICES ASSUME ~ Isolated PROVE FALSE
      OBVIOUS
    <2>2. 1 \in DOMAIN pending /\ Head(pending) = pending[1] /\ pending # <<>>
      <3> DEFINE D == [due : Nat, flow : Flows, res : FinalCodes]
      <3>1. pending \in Seq(D)
        BY DEF FrozenInv, MemoTypes
      <3> HIDE DEF D
      <3>2. DOMAIN pending = 1 .. Len(pending) /\ Len(pending) \in Nat
        BY <3>1, SeqElements
      <3>3. pending # <<>>
        BY <3>2, EmptySeq
      <3>4. QED
        BY <3>1, <3>2, <3>3, HeadTailProperties, EmptySeq
    <2>3. pending[1].due <= clock
      BY <2>1, <2>2 DEF FrozenInv, Settled
    <2>4. QED
      BY <2>2, <2>3 DEF Arrives, Due
  <1>2. ASSUME pending[i].flow = f PROVE FALSE
    <2>1. owner[s] = {f} /\ r_res[s] > Decided
      BY <1>1, <1>2 DEF FrozenInv, Settled
    <2>2. s \in Slots /\ r_res[s] \in Nat
      BY CandidatesAreSlots, CodesAreNaturals DEF FrozenInv
    <2>3. QED
      BY <2>1, <2>2 DEF Counting, Decided
  <1>3. QED
    BY <1>1, <1>2

\* A takeover decides nothing, and takes no slot of a flow with a digest on its
\* way if flows have slots of their own.
LEMMA FrozenTakeOver ==
  ASSUME FrozenInv, VerdictsSettle, NEW f \in Flows, NEW s \in Candidates(f), NEW pc \in PktCodes,
         TakeOver(f, s, pc), MemoTypes', clock' \in Nat, r_res' \in [Slots -> Codes], Ownership'
  PROVE  FrozenInv'
  <1>1. /\ r_res' = [r_res EXCEPT ![s] = pc] /\ owner' = [owner EXCEPT ![s] = {f}]
        /\ UNCHANGED <<memo, pending, clock>> /\ Arrives(f, s) /\ r_hash[s] # HashOf[f]
    BY DEF TakeOver, ResAtTakeover, controller
  <1>2. s \in Slots /\ pc \in Nat /\ ~ pc > Decided
    BY CandidatesAreSlots, CodesAssumption DEF Decided
  <1>3. owner[s] # {f}
    BY <1>1, <1>2 DEF FrozenInv, Ownership
  <1>4. /\ r_res'[s] = pc
        /\ \A t \in Slots : t # s => r_res'[t] = r_res[t] /\ owner'[t] = owner[t]
    BY <1>1, <1>2 DEF FrozenInv, Ownership
  <1>5. \A g \in Flows : \A t \in Slots :
           owner'[t] = {g} /\ r_res'[t] > Decided => owner[t] = {g} /\ r_res[t] = r_res'[t]
    BY <1>2, <1>4
  <1>6. ASSUME NEW i \in DOMAIN pending PROVE Settled(pending[i])'
    <2> DEFINE g == pending[i].flow
    <2>1. Isolated /\ g # f /\ g \in Flows
      BY <1>1, <1>3, NoneOnItsWay, EntryTypes DEF FrozenInv
    <2>2. Candidates(g) = {SlotA[g]} /\ s = SlotA[f] /\ SlotA[g] # s /\ SlotA[g] \in Slots
      BY <2>1, SwitchesAssumption, SlotsAssumption DEF Candidates, TwoWay, Slots
    <2>3. owner[SlotA[g]] = {g} /\ r_res[SlotA[g]] > Decided
      BY <2>1, <2>2 DEF FrozenInv, Settled
    <2>4. owner'[SlotA[g]] = {g} /\ r_res'[SlotA[g]] > Decided
      BY <1>4, <2>2, <2>3
    <2>5. QED
      BY <1>1, <2>1, <2>2, <2>4 DEF Settled, Candidates, TwoWay
  <1>7. QED
    BY <1>1, <1>5, <1>6, FrozenStutters

\* What a phase leaves: its slot s is renewed with v, and if that determines f
\* it may send a digest.
Renewal(f, s, v) ==
    /\ UNCHANGED <<clock, memo, owner>>
    /\ r_res' = [r_res EXCEPT ![s] = v]
    /\ \/ pending' = pending
       \/ v > Decided /\ pending' = Append(pending, [due |-> clock + MemoDelay, flow |-> f, res |-> v])

\* The verdict of a phase agrees with every memo entry and digest: there are
\* none of the flow.
LEMMA FrozenRenewal ==
  ASSUME FrozenInv, VerdictsSettle, NEW f \in Flows, NEW s \in Candidates(f), NEW v,
         Arrives(f, s), r_hash[s] = HashOf[f], Counting(s), Renewal(f, s, v),
         MemoTypes', clock' \in Nat, r_res' \in [Slots -> Codes], Ownership'
  PROVE  FrozenInv'
  <1> DEFINE e == [due |-> clock + MemoDelay, flow |-> f, res |-> v]
  <1>1. s \in Slots /\ owner[s] = {f}
    BY CandidatesAreSlots DEF FrozenInv, Ownership
  <1>2. /\ r_res'[s] = v /\ \A t \in Slots : t # s => r_res'[t] = r_res[t]
        /\ UNCHANGED <<clock, memo, owner>>
    BY <1>1 DEF Renewal, FrozenInv
  <1>3. ASSUME NEW g \in Flows, g # f, NEW res, Agrees(g, res) PROVE Agrees(g, res)'
    BY <1>1, <1>2, <1>3 DEF Agrees
  <1>4. \A i \in DOMAIN memo' : memo[i].flow # f /\ memo[i].flow \in Flows
    BY <1>2, EntryTypes DEF Arrives, Remembered, FrozenInv
  <1>5. \A i \in DOMAIN memo' : Agrees(memo[i].flow, memo[i].res)'
    BY <1>2, <1>3, <1>4 DEF FrozenInv
  <1>6. ASSUME NEW i \in DOMAIN pending, NEW d, d = pending[i]
        PROVE  Agrees(d.flow, d.res)' /\ Settled(d)'
    <2> DEFINE g == d.flow
    <2>1. Isolated /\ g # f /\ g \in Flows
      BY <1>6, NoneOnItsWay, EntryTypes DEF FrozenInv
    <2>2. Agrees(g, d.res) /\ Settled(d)
      BY <1>6 DEF FrozenInv
    <2>3. Agrees(g, d.res)'
      BY <1>3, <2>1, <2>2
    <2>4. Candidates(g) = {SlotA[g]} /\ s = SlotA[f] /\ SlotA[g] # s /\ SlotA[g] \in Slots
      BY <2>1, SwitchesAssumption, SlotsAssumption DEF Candidates, TwoWay, Slots
    <2>5. owner'[SlotA[g]] = {g} /\ r_res'[SlotA[g]] > Decided
      BY <1>2, <2>1, <2>2, <2>4 DEF Settled
    <2>6. QED
      BY <2>1, <2>3, <2>4, <2>5 DEF Settled, Candidates, TwoWay
  <1>7. CASE pending' = pending
    BY <1>2, <1>5, <1>6, <1>7 DEF FrozenInv
  <1>8. CASE v > Decided /\ pending' = Append(pending, e)
    <2>1. \A i \in DOMAIN pending' : (i \in DOMAIN pending /\ pending'[i] = pending[i]) \/ pending'[i] = e
      <3> DEFINE D == [due : Nat, flow : Flows, res : FinalCodes]
      <3>1. pending \in Seq(D) /\ pending' \in Seq(D)
        BY DEF FrozenInv, MemoTypes
      <3> HIDE DEF D, e
      <3>2. /\ DOMAIN pending = 1 .. Len(pending) /\ Len(pending) \in Nat
            /\ DOMAIN pending' = 1 .. Len(pending')
        BY <3>1, SeqElements
      <3>3. /\ Len(pending') = Len(pending) + 1
            /\ \A i \in 1 .. Len(pending) : pending'[i] = pending[i]
            /\ pending'[Len(pending) + 1] = e
        BY <1>8, <3>1, AppendIs
      <3>4. QED
        BY <3>2, <3>3
    <2>2. Agrees(f, v)'
      BY <1>1, <1>2 DEF Agrees, FrozenInv, Ownership
    <2>3. Settled(e)'
      <3>1. CASE Isolated
        <4>1. Candidates(f) = {s}
          BY <3>1 DEF Candidates, TwoWay
        <4>2. QED
          BY <1>1, <1>2, <1>8, <3>1, <4>1 DEF Settled, Candidates, TwoWay
      <3>2. CASE ~ Isolated
        <4>1. MemoDelay = 0 /\ clock' = clock
          BY <1>2, <3>2 DEF VerdictsSettle
        <4>2. clock \in Nat
          BY DEF FrozenInv
        <4>3. QED
          BY <3>2, <4>1, <4>2 DEF Settled
      <3>3. QED
        BY <3>1, <3>2
    <2>4. QED
      BY <1>2, <1>5, <1>6, <2>1, <2>2, <2>3 DEF FrozenInv
  <1>9. QED
    BY <1>7, <1>8 DEF Renewal

\* A packet of the stored flow refreshes its slot, and renews its verdict only
\* while the flow is undetermined.
LEMMA OwnerRenews ==
  ASSUME NEW f, NEW s, NEW pc, OwnerStep(f, s, pc)
  PROVE  /\ Arrives(f, s) /\ r_hash[s] = HashOf[f] /\ UNCHANGED <<clock, memo, owner>>
         /\ \/ UNCHANGED <<r_res, pending>>
            \/ Counting(s) /\ \E v : Renewal(f, s, v)
  <1>1. /\ Arrives(f, s) /\ r_hash[s] = HashOf[f] /\ UNCHANGED <<clock, memo, owner>>
    BY DEF OwnerStep, OwnerDetermined, OwnerBetween, OwnerPhase, OwnerFinal, Refresh
  <1>2. CASE OwnerDetermined(f, s, pc) \/ OwnerBetween(f, s, pc)
    BY <1>1, <1>2 DEF OwnerDetermined, OwnerBetween
  <1>3. ASSUME NEW code \in PhaseCodes, OwnerPhase(f, s, pc, code)
        PROVE  Counting(s) /\ \E v : Renewal(f, s, v)
    BY <1>1, <1>3 DEF OwnerPhase, Renewal
  <1>4. ASSUME NEW code \in FinalCodes, OwnerFinal(f, s, pc, code)
        PROVE  Counting(s) /\ \E v : Renewal(f, s, v)
    <2>1. /\ Counting(s) /\ r_res' = [r_res EXCEPT ![s] = Stored(s, code, pc)]
          /\ pending' = IF code > Decided
                        THEN Append(pending, [due |-> clock + MemoDelay, flow |-> f, res |-> code])
                        ELSE pending
      BY <1>4 DEF OwnerFinal
    <2>2. code > Decided => Stored(s, code, pc) = code
      BY DEF Stored, Decided
    <2>3. Renewal(f, s, Stored(s, code, pc))
      BY <1>1, <2>1, <2>2 DEF Renewal
    <2>4. QED
      BY <2>1, <2>3
  <1>5. QED
    BY <1>1, <1>2, <1>3, <1>4 DEF OwnerStep

\* Nothing but a digest that arrives changes the memo, and nothing but a
\* takeover or the phase of an undetermined flow a slot's verdict.
LEMMA VerdictSteps ==
  ASSUME [Next]_vars
  PROVE  \/ MemoInsert
         \/ UNCHANGED <<clock, r_hash, r_res, memo, pending, owner>>
         \/ Tick /\ UNCHANGED <<r_hash, r_res, memo, pending, owner>>
         \/ \E f \in Flows : \E s \in Candidates(f), pc \in PktCodes :
               TakeOver(f, s, pc) \/ OwnerStep(f, s, pc)
  <1>1. CASE Tick \/ MemoInsert \/ UNCHANGED vars
    BY <1>1 DEF Tick, vars, registers, controller, history
  <1>2. ASSUME NEW f \in Flows, Packet(f)
        PROVE  \/ UNCHANGED <<clock, r_hash, r_res, memo, pending, owner>>
               \/ \E s \in Candidates(f), pc \in PktCodes : TakeOver(f, s, pc) \/ OwnerStep(f, s, pc)
    <2>1. CASE Reject(f) \/ MemoHit(f)
      BY <2>1 DEF Reject, MemoHit, registers, controller, history
    <2>2. ASSUME NEW s \in Candidates(f), NEW pc \in PktCodes, FallbackShort(f, s, pc) \/ Refuse(f, s, pc)
          PROVE  UNCHANGED <<clock, r_hash, r_res, memo, pending, owner>>
      BY <2>2 DEF FallbackShort, Refuse, registers, controller, history
    <2>3. QED
      BY <1>2, <2>1, <2>2 DEF Packet, NewcomerStep
  <1>3. QED
    BY <1>1, <1>2 DEF Next

\* It is inductive.
LEMMA FrozenStep ==
  ASSUME VerdictsSettle, FrozenInv, SlotTypes', MemoTypes', Ownership', [Next]_vars
  PROVE  FrozenInv'
  <1>1. clock' \in Nat /\ r_res' \in [Slots -> Codes]
    BY DEF SlotTypes
  <1>2. CASE MemoInsert
    BY <1>2, FrozenMemoInsert
  <1>3. ASSUME UNCHANGED <<r_res, owner, memo, pending>>, clock' >= clock
        PROVE  FrozenInv'
    <2>1. \A i \in DOMAIN pending : Settled(pending[i]) /\ pending[i].due \in Nat
      <3> DEFINE D == [due : Nat, flow : Flows, res : FinalCodes]
      <3>1. pending \in Seq(D)
        BY DEF FrozenInv, MemoTypes
      <3>2. \A i \in DOMAIN pending : pending[i] \in D
        <4> HIDE DEF D
        <4>1. QED
          BY <3>1, SeqElements
      <3>3. QED
        BY <3>2 DEF FrozenInv
    <2>2. clock \in Nat
      BY DEF FrozenInv
    <2>3. \A i \in DOMAIN pending : Settled(pending[i])'
      BY <1>1, <1>3, <2>1, <2>2 DEF Settled, Candidates, TwoWay
    <2>4. QED
      BY <1>1, <1>3, <2>3, FrozenStutters
  <1>4. CASE UNCHANGED <<clock, r_hash, r_res, memo, pending, owner>>
    <2>1. clock' >= clock
      BY <1>1, <1>4
    <2>2. QED
      BY <1>3, <1>4, <2>1
  <1>5. CASE Tick /\ UNCHANGED <<r_hash, r_res, memo, pending, owner>>
    <2>1. clock' >= clock
      BY <1>5 DEF Tick, FrozenInv
    <2>2. QED
      BY <1>3, <1>5, <2>1
  <1>6. ASSUME NEW f \in Flows, NEW s \in Candidates(f), NEW pc \in PktCodes, OwnerStep(f, s, pc)
        PROVE  FrozenInv'
    <2>1. CASE UNCHANGED <<r_res, pending>>
      <3>1. UNCHANGED <<clock, memo, owner>>
        BY <1>6, OwnerRenews
      <3>2. clock' >= clock
        BY <1>1, <3>1
      <3>3. QED
        BY <1>3, <2>1, <3>1, <3>2
    <2>2. CASE ~ UNCHANGED <<r_res, pending>>
      <3>1. /\ Arrives(f, s) /\ r_hash[s] = HashOf[f] /\ Counting(s)
            /\ \E v : Renewal(f, s, v)
        BY <1>6, <2>2, OwnerRenews
      <3>2. PICK v : Renewal(f, s, v)
        BY <3>1
      <3>3. QED
        BY <1>1, <3>1, <3>2, FrozenRenewal
    <2>3. QED
      BY <2>1, <2>2
  <1>7. ASSUME NEW f \in Flows, NEW s \in Candidates(f), NEW pc \in PktCodes, TakeOver(f, s, pc)
        PROVE  FrozenInv'
    BY <1>1, <1>7, FrozenTakeOver
  <1>8. QED
    BY <1>2, <1>4, <1>5, <1>6, <1>7, VerdictSteps

\* It is an invariant.
LEMMA FrozenInvariant == ASSUME VerdictsSettle PROVE Spec => []FrozenInv
<1>1. TypeOK => SlotTypes /\ MemoTypes
  BY TypeParts
<1>2. Init /\ SlotTypes /\ MemoTypes /\ Ownership => FrozenInv
  BY DEF Init, FrozenInv, SlotTypes
<1>3. VerdictsSettle /\ FrozenInv /\ SlotTypes' /\ MemoTypes' /\ Ownership' /\ [Next]_vars => FrozenInv'
  BY FrozenStep
<1>4. QED
  BY <1>1, <1>2, <1>3, SlotTypesCorrect, OwnershipInvariant, PTL DEF Spec

-----------------------------------------------------------------------------
(* What is known of a flow.                                                *)

\* A flow that is in the memo is answered from there.
LEMMA KnownFromMemo ==
  ASSUME FrozenInv, NEW f, NEW v \in Known(f), f \in Remembered
  PROVE  \E i \in DOMAIN memo : memo[i].flow = f /\ memo[i].res = v
  <1>1. PICK i \in DOMAIN memo : memo[i].flow = f
    BY DEF Remembered
  <1>2. (CHOOSE j \in DOMAIN memo : memo[j].flow = f) = i
    BY <1>1 DEF FrozenInv
  <1>3. v = memo[i].res
    BY <1>2 DEF Known, MemoOf
  <1>4. QED
    BY <1>1, <1>3

\* Any other from its slot.
LEMMA KnownFromSlot ==
  ASSUME NEW f, NEW v \in Known(f), f \notin Remembered
  PROVE  \E s \in Slots : owner[s] = {f} /\ r_res[s] > Decided /\ r_res[s] = v
  BY DEF Known

\* The memo after a step.
LEMMA KnownFromMemoNext ==
  ASSUME FrozenInv', NEW f, NEW v \in Known(f)', f \in Remembered'
  PROVE  \E i \in DOMAIN memo' : memo'[i].flow = f /\ memo'[i].res = v
  <1>1. PICK i \in DOMAIN memo' : memo'[i].flow = f
    BY DEF Remembered
  <1>2. (CHOOSE j \in DOMAIN memo' : memo'[j].flow = f) = i
    BY <1>1 DEF FrozenInv
  <1>3. v = memo'[i].res
    BY <1>2 DEF Known, MemoOf
  <1>4. QED
    BY <1>1, <1>3

\* The slots after a step.
LEMMA KnownFromSlotNext ==
  ASSUME NEW f, NEW v \in Known(f)', f \notin Remembered'
  PROVE  \E s \in Slots : owner'[s] = {f} /\ r_res'[s] > Decided /\ r_res'[s] = v
  BY DEF Known

\* A determined slot keeps its verdict until it is taken over.
LEMMA VerdictKept ==
  ASSUME r_res \in [Slots -> Codes], [Next]_vars, NEW s \in Slots, r_res[s] > Decided
  PROVE  \/ r_res'[s] = r_res[s]
         \/ \E f \in Flows, pc \in PktCodes : TakeOver(f, s, pc)
  <1>1. CASE MemoInsert \/ UNCHANGED r_res
    BY <1>1 DEF MemoInsert, registers
  <1>2. ASSUME NEW f \in Flows, NEW t \in Candidates(f), NEW pc \in PktCodes,
               TakeOver(f, t, pc) \/ OwnerStep(f, t, pc)
        PROVE  r_res'[s] = r_res[s] \/ TakeOver(f, s, pc)
    <2>1. CASE t = s /\ OwnerStep(f, t, pc)
      <3>1. ~ Counting(s)
        <4>1. r_res[s] \in Nat
          BY CodesAreNaturals
        <4>2. QED
          BY <4>1 DEF Counting, Decided
      <3>2. r_res' = r_res
        BY <2>1, <3>1, OwnerRenews
      <3>3. QED
        BY <3>2
    <2>2. CASE t # s
      <3>1. \/ r_res' = r_res
            \/ \E v : r_res' = [r_res EXCEPT ![t] = v]
        BY <1>2, OwnerRenews DEF TakeOver, Renewal
      <3>2. QED
        BY <2>2, <3>1
    <2>3. QED
      BY <1>2, <2>1, <2>2
  <1>3. QED
    BY <1>1, <1>2, VerdictSteps

\* A flow that is determined in its slot after a step had the slot before.
LEMMA DeterminedHadSlot ==
  ASSUME Ownership, [Next]_vars, NEW s \in Slots, NEW f \in Flows, owner'[s] = {f},
         r_res \in [Slots -> Codes], r_res'[s] > Decided
  PROVE  owner[s] = {f}
  <1>1. CASE UNCHANGED owner
    BY <1>1
  <1>2. CASE ~ UNCHANGED owner
    <2>0. PICK g \in Flows : \E t \in Candidates(g), pc \in PktCodes : TakeOver(g, t, pc)
      BY <1>2, OwnersChangeByTakeOver
    <2>1. PICK t \in Candidates(g), pc \in PktCodes : TakeOver(g, t, pc)
      BY <2>0
    <2>2. /\ owner' = [owner EXCEPT ![t] = {g}] /\ r_res' = [r_res EXCEPT ![t] = pc]
          /\ t \in Slots
      BY <2>1, CandidatesAreSlots DEF TakeOver, ResAtTakeover
    <2>3. ~ pc > Decided
      BY CodesAssumption DEF Decided
    <2>4. s # t
      BY <2>2, <2>3
    <2>5. QED
      BY <2>2, <2>4
  <1>3. QED
    BY <1>1, <1>2

\* What is known of a flow before and after a step is the same verdict.
LEMMA OneVerdict ==
  ASSUME FrozenInv, FrozenInv', [Next]_vars, NEW f \in Flows, NEW v \in Known(f), NEW w \in Known(f)'
  PROVE  v = w
  <1>1. CASE f \in Remembered /\ f \in Remembered'
    <2>1. PICK i \in DOMAIN memo : memo[i].flow = f /\ memo[i].res = v
      BY <1>1, KnownFromMemo
    <2>2. PICK j \in DOMAIN memo' : memo'[j].flow = f /\ memo'[j].res = w
      BY <1>1, KnownFromMemoNext
    <2>3. \E k \in DOMAIN memo : memo[k] = memo'[j]
      <3>1. CASE MemoInsert /\ memo' # memo
        <4>1. /\ \A k \in DOMAIN memo : memo[k].flow # pending[1].flow
              /\ \E m, n \in Nat :
                    /\ DOMAIN memo' = 1 .. n + 1
                    /\ \A k \in 1 .. n : m + k \in DOMAIN memo /\ memo'[k] = memo[m + k]
                    /\ memo'[n + 1] = [flow |-> pending[1].flow, res |-> pending[1].res]
          BY <3>1, MemoInsertEntries DEF FrozenInv
        <4>2. PICK m, n \in Nat :
                    /\ DOMAIN memo' = 1 .. n + 1
                    /\ \A k \in 1 .. n : m + k \in DOMAIN memo /\ memo'[k] = memo[m + k]
                    /\ memo'[n + 1] = [flow |-> pending[1].flow, res |-> pending[1].res]
          BY <4>1
        <4>3. memo'[n + 1].flow # f
          BY <2>1, <4>1, <4>2
        <4>4. j \in 1 .. n
          BY <2>2, <4>2, <4>3
        <4>5. QED
          BY <4>2, <4>4
      <3>2. CASE memo' = memo
        BY <3>2
      <3>3. QED
        BY <3>1, <3>2, VerdictSteps, OwnerRenews DEF TakeOver, controller
    <2>4. PICK k \in DOMAIN memo : memo[k] = memo'[j]
      BY <2>3
    <2>5. k = i
      BY <2>1, <2>2, <2>4 DEF FrozenInv
    <2>6. QED
      BY <2>1, <2>2, <2>4, <2>5
  <1>2. ASSUME f \notin Remembered' \/ f \notin Remembered, memo' # memo
        PROVE  MemoInsert /\ UNCHANGED <<r_res, owner>>
    <2>1. MemoInsert
      BY <1>2, VerdictSteps, OwnerRenews DEF TakeOver, controller
    <2>2. QED
      BY <2>1 DEF MemoInsert, registers, history
  <1>3. CASE f \in Remembered /\ f \notin Remembered'
    <2>1. PICK i \in DOMAIN memo : memo[i].flow = f /\ memo[i].res = v
      BY <1>3, KnownFromMemo
    <2>2. PICK s \in Slots : owner'[s] = {f} /\ r_res'[s] > Decided /\ r_res'[s] = w
      BY <1>3, KnownFromSlotNext
    <2>3. UNCHANGED <<r_res, owner>>
      BY <1>2, <1>3 DEF Remembered
    <2>4. QED
      BY <2>1, <2>2, <2>3 DEF FrozenInv, Agrees
  <1>4. CASE f \notin Remembered
    <2>1. PICK s \in Slots : owner[s] = {f} /\ r_res[s] > Decided /\ r_res[s] = v
      BY <1>4, KnownFromSlot
    <2>2. CASE f \in Remembered'
      <3>1. PICK j \in DOMAIN memo' : memo'[j].flow = f /\ memo'[j].res = w
        BY <2>2, KnownFromMemoNext
      <3>2. UNCHANGED <<r_res, owner>>
        BY <1>2, <1>4, <2>2 DEF Remembered
      <3>3. QED
        BY <2>1, <3>1, <3>2 DEF FrozenInv, Agrees
    <2>3. CASE f \notin Remembered'
      <3>1. PICK t \in Slots : owner'[t] = {f} /\ r_res'[t] > Decided /\ r_res'[t] = w
        BY <2>3, KnownFromSlotNext
      <3>2. owner[t] = {f}
        BY <3>1, DeterminedHadSlot DEF FrozenInv
      <3>3. t = s
        BY <2>1, <3>2 DEF FrozenInv, Ownership
      <3>4. \A g \in Flows, pc \in PktCodes : ~ TakeOver(g, s, pc)
        <4>1. SUFFICES ASSUME NEW g \in Flows, NEW pc \in PktCodes, TakeOver(g, s, pc) PROVE FALSE
          OBVIOUS
        <4>2. r_res'[s] = pc
          BY <4>1 DEF TakeOver, ResAtTakeover, FrozenInv
        <4>3. QED
          BY <3>1, <3>3, <4>2, CodesAssumption DEF Decided
      <3>5. r_res'[s] = r_res[s]
        BY <2>1, <3>4, VerdictKept DEF FrozenInv
      <3>6. QED
        BY <2>1, <3>1, <3>3, <3>5
    <2>4. QED
      BY <2>2, <2>3
  <1>5. QED
    BY <1>1, <1>3, <1>4

\* "Frozen at the 2048 verdict": what the memo or the slot answers for a
\* determined flow never changes while either knows it, through drops from the
\* memo and takeovers, and a slot forgets a verdict only with its flow.
THEOREM VerdictsAreFrozen == ASSUME VerdictsSettle PROVE Spec => DeterminedVerdictIsFrozen
<1> DEFINE Step ==
            /\ \A f \in Flows : Known(f) # {} /\ Known(f)' # {} => Known(f)' = Known(f)
            /\ \A s \in Slots : r_res[s] > Decided /\ ~ Displaced(s) => r_res'[s] = r_res[s]
<1>1. FrozenInv /\ FrozenInv' /\ SlotInv /\ [Next]_vars => Step
  <2> SUFFICES ASSUME FrozenInv, FrozenInv', SlotInv, [Next]_vars PROVE Step
    OBVIOUS
  <2>1. ASSUME NEW f \in Flows, Known(f) # {}, Known(f)' # {} PROVE Known(f)' = Known(f)
    <3>1. PICK v : v \in Known(f)
      BY <2>1
    <3>2. PICK w : w \in Known(f)'
      BY <2>1
    <3>3. \A x \in Known(f) : x = w
      BY <3>2, OneVerdict
    <3>4. \A x \in Known(f)' : x = v
      BY <3>1, OneVerdict
    <3>5. QED
      BY <3>1, <3>2, <3>3, <3>4
  <2>2. ASSUME NEW s \in Slots, r_res[s] > Decided, ~ Displaced(s) PROVE r_res'[s] = r_res[s]
    <3>1. ASSUME NEW f \in Flows, NEW pc \in PktCodes, TakeOver(f, s, pc) PROVE FALSE
      <4>1. claimed[s]
        BY <2>2 DEF SlotInv, DeterminedByFinalPhase
      <4>2. r_hash[s] # HashOf[f] /\ r_hash' = [r_hash EXCEPT ![s] = HashOf[f]]
        BY <3>1 DEF TakeOver
      <4>3. r_hash'[s] # r_hash[s]
        BY <4>2 DEF FrozenInv, Ownership
      <4>4. QED
        BY <2>2, <4>1, <4>3 DEF Displaced
    <3>2. QED
      BY <2>2, <3>1, VerdictKept DEF FrozenInv
  <2>3. QED
    BY <2>1, <2>2
<1>2. QED
  <2> HIDE DEF Step
  <2>1. Spec => [][Step]_vars
    BY <1>1, FrozenInvariant, SlotInvariant, PTL DEF Spec
  <2>2. QED
    BY <2>1 DEF Step, DeterminedVerdictIsFrozen
=============================================================================
