---------------------------- MODULE TofinoSimProofs ----------------------------
(***************************************************************************)
(* Theorems about TofinoSim, for every stream, table, clock and delay of   *)
(* the recirculated copies.                                                *)
(***************************************************************************)
EXTENDS TofinoSim, SlotAdmissionProofs

-----------------------------------------------------------------------------
(* Types of what the properties read, and what a step does to it.          *)

ClaimRecords ==
    [sent : Nat, slot : Slots, tag : {HashOf[f] : f \in Flows}, res : Codes,
     kind : {"takeover", "phase"}]

TofinoTypes ==
    /\ clock \in Nat /\ delay \in Nat
    /\ r_hash \in [Slots -> {0} \cup {HashOf[f] : f \in Flows}]
    /\ r_res \in [Slots -> Codes]
    /\ r_ver \in [Slots -> Codes]
    /\ r_lastc \in [Slots -> Nat]
    /\ claimed \in [Slots -> BOOLEAN]
    /\ owner \in [Slots -> SUBSET Flows]
    /\ took \in [Slots -> Nat]
    /\ since \in [Slots -> Nat]
    /\ retaken \in [Slots -> BOOLEAN]
    /\ claims \in Seq(ClaimRecords)

\* A step that sends no claim and lands none.
NoClaimStep ==
    /\ UNCHANGED <<r_hash, r_res, claimed, owner, took, delay, claims, since, retaken>>
    /\ \/ clock' = clock
       \/ clock' = clock + 1 /\ ~ MustLand

\* A step of the owner, that may send a claim of its own tag.
OwnerClaimStep(f, s) ==
    /\ TofinoOwner(f, s)
    /\ \E res \in Codes : claims' = Append(claims, Claim(s, f, res, "phase"))

\* A stored verdict that is renewed is a code.
LEMMA RenewedCodes ==
  ASSUME TofinoTypes, NEW s \in Slots, NEW pc \in PktCodes, NEW code \in PhaseCodes \cup FinalCodes
  PROVE  Renewed(s, code, pc) \in Codes
  BY DEF Renewed, Verdict, Codes, TofinoTypes

\* What a step can be, as far as the claims go.
LEMMA ClaimSteps ==
  ASSUME TofinoTypes, [TofinoNext]_tvars
  PROVE  \/ NoClaimStep /\ r_lastc' \in [Slots -> Nat] /\ r_ver' \in [Slots -> Codes]
         \/ Land
         \/ \E f \in Flows : \E s \in Candidates(f), pc \in PktCodes : TofinoTakeOver(f, s, pc)
         \/ \E f \in Flows : \E s \in Candidates(f) :
               /\ OwnerClaimStep(f, s)
               /\ r_lastc' \in [Slots -> Nat] /\ r_ver' \in [Slots -> Codes]
  <1>1. clock \in Nat /\ now \in Nat
    BY ClockTypes DEF TofinoTypes
  <1>2. CASE UNCHANGED tvars
    BY <1>2 DEF tvars, vars, registers, history, compiled, NoClaimStep, TofinoTypes
  <1>3. CASE Inherited
    <2>1. CASE ~ MustLand /\ Tick
      BY <1>3, <2>1 DEF Inherited, Tick, registers, history, compiled, NoClaimStep, TofinoTypes
    <2>2. CASE MemoInsert
      BY <1>3, <2>2 DEF Inherited, MemoInsert, registers, history, compiled, NoClaimStep, TofinoTypes
    <2>3. ASSUME NEW f \in Flows, Reject(f) \/ MemoHit(f)
          PROVE  NoClaimStep /\ r_lastc' \in [Slots -> Nat] /\ r_ver' \in [Slots -> Codes]
      BY <1>3, <2>3
         DEF Inherited, Reject, MemoHit, registers, history, compiled, NoClaimStep, TofinoTypes
    <2>4. QED
      BY <1>3, <2>1, <2>2, <2>3 DEF Inherited
  <1>4. CASE Land
    BY <1>4
  <1>5. ASSUME NEW f \in Flows, TofinoPacket(f)
        PROVE  \/ NoClaimStep /\ r_lastc' \in [Slots -> Nat] /\ r_ver' \in [Slots -> Codes]
               \/ \E s \in Candidates(f), pc \in PktCodes : TofinoTakeOver(f, s, pc)
               \/ \E s \in Candidates(f) :
                     /\ OwnerClaimStep(f, s)
                     /\ r_lastc' \in [Slots -> Nat] /\ r_ver' \in [Slots -> Codes]
    <2>1. ASSUME NEW s \in Candidates(f), TofinoOwner(f, s)
          PROVE  /\ UNCHANGED <<clock, r_hash, r_res, claimed, owner, took, delay, since, retaken>>
                 /\ r_lastc' \in [Slots -> Nat]
      BY <1>1, <2>1 DEF TofinoOwner, TofinoTypes
    <2>2. PICK pc \in PktCodes :
             \/ TofinoShort(f, pc) \/ TofinoRefuse(f, pc)
             \/ \E s \in Candidates(f) :
                   \/ TofinoTakeOver(f, s, pc)
                   \/ TofinoDetermined(f, s, pc)
                   \/ TofinoBetween(f, s, pc)
                   \/ \E code \in PhaseCodes : TofinoPhase(f, s, pc, code)
                   \/ \E code \in FinalCodes : TofinoFinal(f, s, pc, code)
      BY <1>5 DEF TofinoPacket
    <2>3. CASE TofinoShort(f, pc) \/ TofinoRefuse(f, pc)
      BY <2>3 DEF TofinoShort, TofinoRefuse, registers, history, compiled, NoClaimStep, TofinoTypes
    <2>4. ASSUME NEW s \in Candidates(f), TofinoDetermined(f, s, pc) \/ TofinoBetween(f, s, pc)
          PROVE  NoClaimStep /\ r_lastc' \in [Slots -> Nat] /\ r_ver' \in [Slots -> Codes]
      <3>1. TofinoOwner(f, s) /\ UNCHANGED <<claims, r_ver>>
        BY <2>4 DEF TofinoDetermined, TofinoBetween
      <3>2. QED
        BY <2>1, <3>1 DEF NoClaimStep, TofinoTypes
    <2>5. ASSUME NEW s \in Candidates(f), NEW code \in PhaseCodes \cup FinalCodes, Renew(f, s, pc, code)
          PROVE  r_ver' \in [Slots -> Codes]
      <3>1. Renewed(s, code, pc) \in Codes
        BY RenewedCodes, CandidatesAreSlots
      <3>2. QED
        BY <2>5, <3>1 DEF Renew, TofinoTypes
    <2>6. ASSUME NEW s \in Candidates(f), NEW code \in PhaseCodes, TofinoPhase(f, s, pc, code)
          PROVE  OwnerClaimStep(f, s) /\ r_lastc' \in [Slots -> Nat] /\ r_ver' \in [Slots -> Codes]
      <3>1. Renew(f, s, pc, code) /\ TofinoOwner(f, s)
        BY <2>6 DEF TofinoPhase, Renew
      <3>2. r_res[s] \in Codes
        BY CandidatesAreSlots DEF TofinoTypes
      <3>3. claims' = Append(claims, Claim(s, f, r_res[s], "phase"))
        BY <2>6 DEF TofinoPhase, Pushed
      <3>4. QED
        BY <2>1, <2>5, <3>1, <3>2, <3>3 DEF OwnerClaimStep
    <2>7. ASSUME NEW s \in Candidates(f), NEW code \in FinalCodes, TofinoFinal(f, s, pc, code)
          PROVE  /\ NoClaimStep \/ OwnerClaimStep(f, s)
                 /\ r_lastc' \in [Slots -> Nat] /\ r_ver' \in [Slots -> Codes]
      <3>1. Renew(f, s, pc, code) /\ TofinoOwner(f, s)
        BY <2>7 DEF TofinoFinal, Renew
      <3>2. code \in Codes
        BY DEF Codes
      <3>3. claims' = Append(claims, Claim(s, f, code, "phase")) \/ claims' = claims
        BY <2>7 DEF TofinoFinal, Pushed
      <3>4. QED
        BY <2>1, <2>5, <3>1, <3>2, <3>3 DEF OwnerClaimStep, NoClaimStep
    <2>8. QED
      BY <2>2, <2>3, <2>4, <2>6, <2>7
  <1>6. QED
    BY <1>2, <1>3, <1>4, <1>5 DEF TofinoNext

\* A claim that is sent has its type and stands at the end of the queue.
LEMMA SentClaim ==
  ASSUME TofinoTypes, NEW f \in Flows, NEW s \in Slots, NEW res \in Codes,
         NEW kind \in {"takeover", "phase"}, claims' = Append(claims, Claim(s, f, res, kind))
  PROVE  /\ claims' \in Seq(ClaimRecords)
         /\ Len(claims) \in Nat /\ Len(claims') = Len(claims) + 1
         /\ DOMAIN claims = 1 .. Len(claims) /\ DOMAIN claims' = 1 .. Len(claims')
         /\ \A i \in DOMAIN claims : claims'[i] = claims[i]
         /\ claims'[Len(claims')] = Claim(s, f, res, kind)
  <1> DEFINE c == Claim(s, f, res, kind)
  <1>1. c \in ClaimRecords
    BY DEF Claim, ClaimRecords, TofinoTypes
  <1>2. claims \in Seq(ClaimRecords) /\ claims' = Append(claims, c)
    BY DEF TofinoTypes
  <1> HIDE DEF c
  <1>3. /\ claims' \in Seq(ClaimRecords)
        /\ Len(claims') = Len(claims) + 1
        /\ \A i \in 1 .. Len(claims) : claims'[i] = claims[i]
        /\ claims'[Len(claims) + 1] = c
    BY <1>1, <1>2, AppendProperties
  <1>4. Len(claims) \in Nat /\ DOMAIN claims = 1 .. Len(claims) /\ DOMAIN claims' = 1 .. Len(claims')
    BY <1>2, <1>3, LenProperties
  <1>5. QED
    BY <1>3, <1>4 DEF c

\* The claim that lands is the first, and the others move up.
LEMMA LandedClaim ==
  ASSUME TofinoTypes, Land
  PROVE  /\ claims' \in Seq(ClaimRecords)
         /\ Len(claims') = Len(claims) - 1 /\ Len(claims) \in Nat \ {0}
         /\ DOMAIN claims = 1 .. Len(claims) /\ DOMAIN claims' = 1 .. Len(claims')
         /\ \A i \in DOMAIN claims' : i + 1 \in DOMAIN claims /\ claims'[i] = claims[i + 1]
         /\ 1 \in DOMAIN claims /\ Head(claims) = claims[1] /\ claims[1] \in ClaimRecords
  <1>1. claims \in Seq(ClaimRecords) /\ claims # <<>> /\ claims' = Tail(claims)
    BY DEF Land, MayLand, TofinoTypes
  <1>2. /\ claims' \in Seq(ClaimRecords)
        /\ Len(claims') = Len(claims) - 1
        /\ \A i \in 1 .. Len(claims') : claims'[i] = claims[i + 1]
        /\ Head(claims) \in ClaimRecords
    BY <1>1, HeadTailProperties
  <1>3. Len(claims) \in Nat \ {0} /\ DOMAIN claims = 1 .. Len(claims) /\ DOMAIN claims' = 1 .. Len(claims')
    BY <1>1, <1>2, LenProperties, EmptySeq
  <1>4. Head(claims) = claims[1]
    BY <1>1
  <1>5. QED
    BY <1>2, <1>3, <1>4

\* What landing writes.
LEMMA Landing ==
  ASSUME TofinoTypes, Land
  PROVE  LET c == claims[1] IN
         /\ UNCHANGED <<clock, owner, took, delay, r_ver, r_lastc>>
         /\ r_hash' = [r_hash EXCEPT ![c.slot] = c.tag]
         /\ r_res' = [r_res EXCEPT ![c.slot] = c.res]
         /\ claimed' = [claimed EXCEPT ![c.slot] = TRUE]
         /\ c.tag = r_hash[c.slot] => UNCHANGED <<since, retaken>>
         /\ c.tag # r_hash[c.slot] =>
               /\ since' = [since EXCEPT ![c.slot] = c.sent]
               /\ retaken' = [retaken EXCEPT ![c.slot] = (c.kind = "phase")]
  <1>1. Head(claims) = claims[1]
    BY LandedClaim
  <1>2. QED
    BY <1>1 DEF Land, history

\* The types are inductive.
LEMMA TofinoTypesStep == TofinoTypes /\ [TofinoNext]_tvars => TofinoTypes'
  <1> SUFFICES ASSUME TofinoTypes, [TofinoNext]_tvars PROVE TofinoTypes'
    OBVIOUS
  <1>1. CASE NoClaimStep /\ r_lastc' \in [Slots -> Nat] /\ r_ver' \in [Slots -> Codes]
    BY <1>1 DEF NoClaimStep, TofinoTypes
  <1>2. CASE Land
    <2> DEFINE c == claims[1]
    <2>1. c \in ClaimRecords /\ claims' \in Seq(ClaimRecords)
      BY <1>2, LandedClaim
    <2>2. /\ c.slot \in Slots /\ c.tag \in {HashOf[f] : f \in Flows}
          /\ c.res \in Codes /\ c.sent \in Nat /\ (c.kind = "phase") \in BOOLEAN
      BY <2>1 DEF ClaimRecords
    <2>3. /\ UNCHANGED <<clock, owner, took, delay, r_ver, r_lastc>>
          /\ r_hash' = [r_hash EXCEPT ![c.slot] = c.tag]
          /\ r_res' = [r_res EXCEPT ![c.slot] = c.res]
          /\ claimed' = [claimed EXCEPT ![c.slot] = TRUE]
          /\ \/ UNCHANGED <<since, retaken>>
             \/ /\ since' = [since EXCEPT ![c.slot] = c.sent]
                /\ retaken' = [retaken EXCEPT ![c.slot] = (c.kind = "phase")]
      BY <1>2, Landing
    <2> HIDE DEF c
    <2>4. QED
      BY <2>1, <2>2, <2>3 DEF TofinoTypes
  <1>3. ASSUME NEW f \in Flows, NEW s \in Candidates(f), NEW pc \in PktCodes, TofinoTakeOver(f, s, pc)
        PROVE  TofinoTypes'
    <2>1. s \in Slots /\ pc \in Codes
      BY CandidatesAreSlots DEF Codes
    <2>2. claims' \in Seq(ClaimRecords)
      BY <1>3, <2>1, SentClaim DEF TofinoTakeOver, Pushed
    <2>3. QED
      BY <1>3, <2>1, <2>2 DEF TofinoTakeOver, TofinoTypes
  <1>4. ASSUME NEW f \in Flows, NEW s \in Candidates(f), OwnerClaimStep(f, s),
               r_lastc' \in [Slots -> Nat], r_ver' \in [Slots -> Codes]
        PROVE  TofinoTypes'
    <2>1. claims' \in Seq(ClaimRecords)
      BY <1>4, CandidatesAreSlots, SentClaim DEF OwnerClaimStep
    <2>2. QED
      BY <1>4, <2>1 DEF OwnerClaimStep, TofinoOwner, TofinoTypes
  <1>5. QED
    BY <1>1, <1>2, <1>3, <1>4, ClaimSteps

\* The types hold at the start.
LEMMA TofinoTypesInitially == TofinoInit => TofinoTypes
  <1> SUFFICES ASSUME TofinoInit PROVE TofinoTypes
    OBVIOUS
  <1>1. clock \in Nat /\ delay \in Nat
    BY ClockAssumption, TofinoAssumption DEF TofinoInit, Init
  <1>2. 0 \in Codes /\ claims \in Seq(ClaimRecords)
    BY DEF Codes, TofinoInit
  <1>3. QED
    BY <1>1, <1>2 DEF TofinoInit, Init, TofinoTypes

-----------------------------------------------------------------------------
(* A settled slot is clean.                                                *)

\* The positions of the takeovers in flight to a slot.
TakeOvers(s) == {i \in InFlight(s) : claims[i].kind = "takeover"}

OwnerHas(s, tag) == \E f \in owner[s] : HashOf[f] = tag

\* The newest takeover in flight to a slot is that of the flow whose Init last
\* reset the features; once it has landed, only a phase changes the tag.
SettleInv ==
    /\ TofinoTypes
    /\ \A s \in Slots : r_hash[s] # 0 => claimed[s]
    /\ \A i \in DOMAIN claims : claims[i].kind = "phase" => claimed[claims[i].slot]
    /\ \A s \in Slots : \A i \in TakeOvers(s) :
          (\A j \in TakeOvers(s) : j <= i) => OwnerHas(s, claims[i].tag)
    /\ \A s \in Slots :
          TakeOvers(s) = {} /\ claimed[s] /\ ~ retaken[s] => OwnerHas(s, r_hash[s])

\* Of a step that neither takes a slot over nor lands a claim SettleInv only
\* sees a claim that a phase may have sent.
LEMMA OwnerSettles ==
  ASSUME SettleInv, TofinoTypes', NEW f \in Flows, NEW s \in Candidates(f), OwnerClaimStep(f, s)
  PROVE  SettleInv'
  <1>1. /\ TofinoTypes /\ s \in Slots /\ HashOf[f] # 0
        /\ UNCHANGED <<r_hash, claimed, owner, retaken>> /\ r_hash[s] = HashOf[f]
    BY CandidatesAreSlots, HashAssumption DEF SettleInv, OwnerClaimStep, TofinoOwner, Probed, Own
  <1>2. PICK res \in Codes : claims' = Append(claims, Claim(s, f, res, "phase"))
    BY DEF OwnerClaimStep
  <1>3. /\ Len(claims) \in Nat /\ Len(claims') = Len(claims) + 1
        /\ DOMAIN claims = 1 .. Len(claims) /\ DOMAIN claims' = 1 .. Len(claims')
        /\ \A i \in DOMAIN claims : claims'[i] = claims[i]
        /\ claims'[Len(claims')] = Claim(s, f, res, "phase")
    BY <1>1, <1>2, SentClaim
  <1>4. \A i \in DOMAIN claims' : i \in DOMAIN claims \/ i = Len(claims')
    BY <1>3
  <1>5. claims'[Len(claims')].kind = "phase" /\ claims'[Len(claims')].slot = s
    BY <1>3 DEF Claim
  <1>6. \A t \in Slots : TakeOvers(t)' = TakeOvers(t)
    BY <1>3, <1>4, <1>5 DEF TakeOvers, InFlight
  <1>7. \A t \in Slots : \A i \in TakeOvers(t) : claims'[i] = claims[i]
    BY <1>3 DEF TakeOvers, InFlight
  <1>8. claimed[s]
    BY <1>1 DEF SettleInv
  <1>9. \A i \in DOMAIN claims' : claims'[i].kind = "phase" => claimed'[claims'[i].slot]
    BY <1>1, <1>3, <1>4, <1>5, <1>8 DEF SettleInv
  <1>10. \A t \in Slots : \A i \in TakeOvers(t)' :
            (\A j \in TakeOvers(t)' : j <= i) => OwnerHas(t, claims[i].tag)' 
    BY <1>1, <1>6, <1>7 DEF SettleInv, OwnerHas
  <1>11. QED
    BY <1>1, <1>6, <1>9, <1>10 DEF SettleInv, OwnerHas

\* A takeover is the newest claim of its slot.
LEMMA TakeOverSettles ==
  ASSUME SettleInv, TofinoTypes', NEW f \in Flows, NEW s \in Candidates(f), NEW pc \in PktCodes,
         TofinoTakeOver(f, s, pc)
  PROVE  SettleInv'
  <1> DEFINE n == Len(claims')
  <1>1. TofinoTypes /\ s \in Slots /\ pc \in Codes
    BY CandidatesAreSlots DEF SettleInv, Codes
  <1>2. /\ UNCHANGED <<r_hash, claimed, retaken>>
        /\ owner' = [owner EXCEPT ![s] = {f}]
        /\ claims' = Append(claims, Claim(s, f, pc, "takeover"))
    BY DEF TofinoTakeOver, Pushed
  <1>3. /\ Len(claims) \in Nat /\ n = Len(claims) + 1
        /\ DOMAIN claims = 1 .. Len(claims) /\ DOMAIN claims' = 1 .. n
        /\ \A i \in DOMAIN claims : claims'[i] = claims[i]
        /\ claims'[n] = Claim(s, f, pc, "takeover")
    BY <1>1, <1>2, SentClaim
  <1>4. \A i \in DOMAIN claims' : i \in DOMAIN claims \/ i = n
    BY <1>3
  <1>5. claims'[n].kind = "takeover" /\ claims'[n].slot = s /\ claims'[n].tag = HashOf[f]
    BY <1>3 DEF Claim
  <1>6. /\ \A t \in Slots : t # s => TakeOvers(t)' = TakeOvers(t)
        /\ n \in TakeOvers(s)'
    BY <1>3, <1>4, <1>5 DEF TakeOvers, InFlight
  <1>7. owner'[s] = {f} /\ \A t \in Slots : t # s => owner'[t] = owner[t]
    BY <1>1, <1>2 DEF TofinoTypes
  <1>8. \A i \in DOMAIN claims' : claims'[i].kind = "phase" => claimed'[claims'[i].slot]
    BY <1>2, <1>3, <1>4, <1>5 DEF SettleInv
  <1>9. ASSUME NEW t \in Slots, NEW i \in TakeOvers(t)', \A j \in TakeOvers(t)' : j <= i
        PROVE  \E g \in owner'[t] : HashOf[g] = claims'[i].tag
    <2>1. i \in DOMAIN claims'
      BY DEF TakeOvers, InFlight
    <2>2. CASE t = s
      <3>1. i = n
        BY <1>3, <1>6, <1>9, <2>1, <2>2
      <3>2. QED
        BY <1>5, <1>7, <2>2, <3>1
    <2>3. CASE t # s
      <3>1. i \in TakeOvers(t) /\ \A j \in TakeOvers(t) : j <= i
        BY <1>6, <1>9, <2>3
      <3>2. claims'[i] = claims[i]
        BY <1>3, <3>1 DEF TakeOvers, InFlight
      <3>3. OwnerHas(t, claims[i].tag)
        BY <3>1 DEF SettleInv
      <3>4. QED
        BY <1>7, <2>3, <3>2, <3>3 DEF OwnerHas
    <2>4. QED
      BY <2>2, <2>3
  <1>10. ASSUME NEW t \in Slots, TakeOvers(t)' = {}, claimed'[t], ~ retaken'[t]
         PROVE  \E g \in owner'[t] : HashOf[g] = r_hash'[t]
    <2>1. t # s /\ TakeOvers(t) = {}
      BY <1>6, <1>10
    <2>2. OwnerHas(t, r_hash[t])
      BY <1>2, <1>10, <2>1 DEF SettleInv
    <2>3. QED
      BY <1>2, <1>7, <2>1, <2>2 DEF OwnerHas
  <1>11. QED
    BY <1>1, <1>2, <1>8, <1>9, <1>10 DEF SettleInv, OwnerHas

\* A takeover that lands writes the tag of the flow that reset the features; a
\* phase writes the tag that is there, or retakes the slot.
LEMMA LandSettles == ASSUME SettleInv, TofinoTypes', Land PROVE SettleInv'
  <1> DEFINE c == claims[1]
  <1>1. TofinoTypes
    BY DEF SettleInv
  <1>2. /\ Len(claims') = Len(claims) - 1 /\ Len(claims) \in Nat \ {0}
        /\ DOMAIN claims = 1 .. Len(claims) /\ DOMAIN claims' = 1 .. Len(claims')
        /\ \A i \in DOMAIN claims' : i + 1 \in DOMAIN claims /\ claims'[i] = claims[i + 1]
        /\ 1 \in DOMAIN claims /\ c \in ClaimRecords
    BY <1>1, LandedClaim
  <1>3. c.slot \in Slots /\ c.kind \in {"takeover", "phase"} /\ c.tag # 0
    BY <1>2, HashAssumption DEF ClaimRecords
  <1>4. /\ owner' = owner
        /\ r_hash' = [r_hash EXCEPT ![c.slot] = c.tag]
        /\ claimed' = [claimed EXCEPT ![c.slot] = TRUE]
        /\ c.tag = r_hash[c.slot] => UNCHANGED retaken
        /\ c.tag # r_hash[c.slot] => retaken' = [retaken EXCEPT ![c.slot] = (c.kind = "phase")]
    BY <1>1, Landing
  <1> HIDE DEF c
  <1>5. /\ r_hash'[c.slot] = c.tag /\ claimed'[c.slot]
        /\ \A t \in Slots : t # c.slot =>
              r_hash'[t] = r_hash[t] /\ claimed'[t] = claimed[t] /\ retaken'[t] = retaken[t]
    BY <1>1, <1>3, <1>4 DEF TofinoTypes
  <1>6. \A t \in Slots : r_hash'[t] # 0 => claimed'[t]
    BY <1>5 DEF SettleInv
  <1>7. \A t \in Slots : claimed[t] => claimed'[t]
    BY <1>5
  <1>8. \A i \in DOMAIN claims' : claims'[i].kind = "phase" => claimed'[claims'[i].slot]
    <2>1. SUFFICES ASSUME NEW i \in DOMAIN claims', claims'[i].kind = "phase"
                   PROVE  claimed'[claims'[i].slot]
      OBVIOUS
    <2>2. i + 1 \in DOMAIN claims /\ claims'[i] = claims[i + 1]
      BY <1>2
    <2>3. claimed[claims[i + 1].slot]
      BY <2>1, <2>2 DEF SettleInv
    <2>4. claims[i + 1].slot \in Slots
      <3>1. claims[i + 1] \in ClaimRecords
        BY <1>1, <2>2, ElementOfSeq, LenProperties DEF TofinoTypes
      <3>2. QED
        BY <3>1 DEF ClaimRecords
    <2>5. QED
      BY <1>7, <2>2, <2>3, <2>4
  <1>9. \A t \in Slots, i \in DOMAIN claims' : i \in TakeOvers(t)' <=> i + 1 \in TakeOvers(t)
    BY <1>2 DEF TakeOvers, InFlight
  <1>10. \A t \in Slots : \A j \in TakeOvers(t) : j = 1 \/ j - 1 \in TakeOvers(t)'
    <2>1. SUFFICES ASSUME NEW t \in Slots, NEW j \in TakeOvers(t), j # 1
                   PROVE  j - 1 \in TakeOvers(t)'
      OBVIOUS
    <2>2. j - 1 \in DOMAIN claims' /\ j = (j - 1) + 1
      <3>1. j \in 1 .. Len(claims)
        BY <1>2 DEF TakeOvers, InFlight
      <3>2. QED
        BY <1>2, <2>1, <3>1
    <2>3. QED
      BY <1>9, <2>2
  <1>11. ASSUME NEW t \in Slots, NEW i \in TakeOvers(t)', \A j \in TakeOvers(t)' : j <= i
         PROVE  \E g \in owner'[t] : HashOf[g] = claims'[i].tag
    <2>1. i \in DOMAIN claims' /\ i \in 1 .. Len(claims')
      BY <1>2 DEF TakeOvers, InFlight
    <2>2. i + 1 \in TakeOvers(t) /\ claims'[i] = claims[i + 1]
      BY <1>2, <1>9, <2>1
    <2>3. ASSUME NEW j \in TakeOvers(t) PROVE j <= i + 1
      <3>1. j \in 1 .. Len(claims)
        BY <1>2 DEF TakeOvers, InFlight
      <3>2. CASE j = 1
        BY <2>1, <3>2
      <3>3. CASE j - 1 \in TakeOvers(t)'
        <4>1. j - 1 <= i
          BY <1>11, <3>3
        <4>2. QED
          BY <2>1, <3>1, <4>1
      <3>4. QED
        BY <1>10, <3>2, <3>3
    <2>4. OwnerHas(t, claims[i + 1].tag)
      BY <2>2, <2>3 DEF SettleInv
    <2>5. QED
      BY <1>4, <2>2, <2>4 DEF OwnerHas
  <1>12. ASSUME NEW t \in Slots, TakeOvers(t)' = {}, claimed'[t], ~ retaken'[t]
         PROVE  \E g \in owner'[t] : HashOf[g] = r_hash'[t]
    <2>1. \A j \in TakeOvers(t) : j = 1
      BY <1>10, <1>12
    <2>2. CASE TakeOvers(t) # {}
      <3>1. 1 \in TakeOvers(t) /\ \A j \in TakeOvers(t) : j <= 1
        BY <2>1, <2>2
      <3>2. OwnerHas(t, claims[1].tag) /\ claims[1].slot = t
        BY <3>1 DEF SettleInv, TakeOvers, InFlight
      <3>3. QED
        BY <1>4, <1>5, <3>2 DEF OwnerHas, c
    <2>3. CASE TakeOvers(t) = {} /\ c.slot # t
      <3>1. OwnerHas(t, r_hash[t])
        BY <1>5, <1>12, <2>3 DEF SettleInv
      <3>2. QED
        BY <1>4, <1>5, <2>3, <3>1 DEF OwnerHas
    <2>4. CASE TakeOvers(t) = {} /\ c.slot = t
      <3>1. c.kind = "phase"
        BY <1>2, <1>3, <2>4 DEF TakeOvers, InFlight, c
      <3>2. claimed[t]
        BY <1>2, <2>4, <3>1 DEF SettleInv, c
      <3>3. c.tag = r_hash[t] /\ ~ retaken[t]
        BY <1>1, <1>4, <1>12, <2>4, <3>1 DEF TofinoTypes
      <3>4. OwnerHas(t, r_hash[t])
        BY <2>4, <3>2, <3>3 DEF SettleInv
      <3>5. QED
        BY <1>4, <1>5, <2>4, <3>3, <3>4 DEF OwnerHas
    <2>5. QED
      BY <2>2, <2>3, <2>4
  <1>13. QED
    BY <1>6, <1>8, <1>11, <1>12 DEF SettleInv, OwnerHas

\* SettleInv is inductive.
LEMMA SettleInvStep == SettleInv /\ [TofinoNext]_tvars => SettleInv'
  <1> SUFFICES ASSUME SettleInv, [TofinoNext]_tvars PROVE SettleInv'
    OBVIOUS
  <1>1. TofinoTypes /\ TofinoTypes'
    BY TofinoTypesStep DEF SettleInv
  <1>2. CASE NoClaimStep
    BY <1>1, <1>2 DEF NoClaimStep, SettleInv, TakeOvers, InFlight, OwnerHas
  <1>3. QED
    BY <1>1, <1>2, ClaimSteps, OwnerSettles, TakeOverSettles, LandSettles

\* A slot without claims in flight has the tag of the flow whose Init last reset
\* its features, unless a phase of the former owner retook it: for every delay,
\* and however many claims race for it.
THEOREM SettledIsClean == TofinoSpec => []SettledSlotIsClean
<1>1. TofinoInit => SettleInv
  <2> SUFFICES ASSUME TofinoInit PROVE SettleInv
    OBVIOUS
  <2>1. claims = <<>> /\ DOMAIN claims = {}
    BY DEF TofinoInit
  <2>2. QED
    BY <2>1, TofinoTypesInitially DEF TofinoInit, Init, SettleInv, TakeOvers, InFlight
<1>2. SettleInv => SettledSlotIsClean
  BY DEF SettleInv, SettledSlotIsClean, TakeOvers, OwnerHas
<1>3. QED
  BY <1>1, <1>2, SettleInvStep, PTL DEF TofinoSpec

-----------------------------------------------------------------------------
(* A flow owns both ways only by a race.                                   *)

\* No more than the delay lies between two times.
Near(t, u) == t <= u + delay /\ u <= t + delay

\* Claims land in the order they were sent, each within its delay.
QueueInv ==
    /\ \A i \in DOMAIN claims : claims[i].sent <= clock /\ clock <= claims[i].sent + delay
    /\ \A i, j \in DOMAIN claims : i < j => claims[i].sent <= claims[j].sent

\* Claim i takes one way of f over, and f owns the other, y, which no phase of
\* its former owner retook.
SecondWay(i, f, y) ==
    /\ claims[i].kind = "takeover" /\ claims[i].tag = HashOf[f]
    /\ claims[i].slot \in Candidates(f) \ {y}
    /\ Own(f, y) /\ ~ retaken[y]

TwoWays(f, x, y) ==
    /\ x # y /\ Own(f, x) /\ Own(f, y)
    /\ ~ retaken[x] /\ ~ retaken[y]

\* A takeover in flight was sent when its flow owned neither way; if it owns
\* the other by now, the claim that gave it that was in flight at the time.
RaceInv ==
    /\ TofinoTypes /\ QueueInv
    /\ \A i \in DOMAIN claims, f \in Flows : \A y \in Candidates(f) :
          SecondWay(i, f, y) => Near(claims[i].sent, since[y])
    /\ \A f \in Flows : \A x, y \in Candidates(f) :
          TwoWays(f, x, y) => Near(since[x], since[y])

\* What a claim in flight is.
LEMMA ClaimTypes ==
  ASSUME TofinoTypes
  PROVE  /\ Len(claims) \in Nat /\ DOMAIN claims = 1 .. Len(claims)
         /\ \A i \in DOMAIN claims :
               claims[i] \in ClaimRecords /\ claims[i].sent \in Nat /\ claims[i].slot \in Slots
  <1>1. claims \in Seq(ClaimRecords)
    BY DEF TofinoTypes
  <1>2. \A i \in DOMAIN claims : claims[i] \in ClaimRecords
    BY <1>1, ElementOfSeq, LenProperties
  <1>3. QED
    BY <1>1, <1>2, LenProperties DEF ClaimRecords

\* A claim that is sent is the newest and due a delay from now.
LEMMA QueueSends ==
  ASSUME TofinoTypes, QueueInv, NEW f \in Flows, NEW s \in Slots, NEW res \in Codes,
         NEW kind \in {"takeover", "phase"}, claims' = Append(claims, Claim(s, f, res, kind)),
         UNCHANGED <<clock, delay>>
  PROVE  QueueInv'
  <1>1. /\ Len(claims) \in Nat /\ Len(claims') = Len(claims) + 1
        /\ DOMAIN claims = 1 .. Len(claims) /\ DOMAIN claims' = 1 .. Len(claims')
        /\ \A i \in DOMAIN claims : claims'[i] = claims[i]
        /\ claims'[Len(claims')] = Claim(s, f, res, kind)
    BY SentClaim
  <1>2. /\ claims'[Len(claims')].sent = clock
        /\ \A i \in DOMAIN claims' : i \in DOMAIN claims \/ i = Len(claims')
    BY <1>1 DEF Claim
  <1>3. clock \in Nat /\ delay \in Nat
    BY DEF TofinoTypes
  <1>4. \A i \in DOMAIN claims' : claims'[i].sent <= clock /\ clock <= claims'[i].sent + delay
    BY <1>1, <1>2, <1>3 DEF QueueInv
  <1>5. \A i, j \in DOMAIN claims' : i < j => claims'[i].sent <= claims'[j].sent
    <2>1. SUFFICES ASSUME NEW i \in DOMAIN claims', NEW j \in DOMAIN claims', i < j
                   PROVE  claims'[i].sent <= claims'[j].sent
      OBVIOUS
    <2>2. i \in DOMAIN claims
      BY <1>1, <2>1
    <2>3. QED
      BY <1>1, <1>2, <2>1, <2>2 DEF QueueInv
  <1>6. QED
    BY <1>4, <1>5 DEF QueueInv

\* QueueInv is inductive: time passes only while the first claim may wait.
LEMMA QueueInvStep == TofinoTypes /\ QueueInv /\ [TofinoNext]_tvars => QueueInv'
  <1> SUFFICES ASSUME TofinoTypes, QueueInv, [TofinoNext]_tvars PROVE QueueInv'
    OBVIOUS
  <1>1. /\ clock \in Nat /\ delay \in Nat
        /\ Len(claims) \in Nat /\ DOMAIN claims = 1 .. Len(claims)
        /\ \A i \in DOMAIN claims : claims[i].sent \in Nat
    BY ClaimTypes DEF TofinoTypes
  <1>2. CASE NoClaimStep
    <2>1. claims' = claims /\ delay' = delay
      BY <1>2 DEF NoClaimStep
    <2>2. CASE clock' = clock
      BY <2>1, <2>2 DEF QueueInv
    <2>3. CASE clock' = clock + 1 /\ ~ MustLand
      <3>1. SUFFICES ASSUME NEW i \in DOMAIN claims
                     PROVE  claims[i].sent <= clock + 1 /\ clock + 1 <= claims[i].sent + delay
        BY <2>1, <2>3 DEF QueueInv
      <3>2. claims # <<>> /\ 1 \in DOMAIN claims /\ Head(claims) = claims[1]
        BY <1>1
      <3>3. clock < claims[1].sent + delay
        BY <1>1, <2>3, <3>2 DEF MustLand
      <3>4. claims[1].sent <= claims[i].sent
        <4>1. i = 1 \/ 1 < i
          BY <1>1
        <4>2. QED
          BY <1>1, <3>2, <4>1 DEF QueueInv
      <3>5. claims[i].sent <= clock
        BY DEF QueueInv
      <3>6. QED
        BY <1>1, <3>2, <3>3, <3>4, <3>5
    <2>4. QED
      BY <1>2, <2>2, <2>3 DEF NoClaimStep
  <1>3. CASE Land
    <2>1. /\ Len(claims') = Len(claims) - 1 /\ DOMAIN claims' = 1 .. Len(claims')
          /\ \A i \in DOMAIN claims' : i + 1 \in DOMAIN claims /\ claims'[i] = claims[i + 1]
          /\ UNCHANGED <<clock, delay>>
      BY <1>3, LandedClaim, Landing
    <2>2. \A i, j \in DOMAIN claims' : i < j => i + 1 < j + 1
      BY <1>1, <2>1
    <2>3. QED
      BY <2>1, <2>2 DEF QueueInv
  <1>4. ASSUME NEW f \in Flows, NEW s \in Candidates(f), NEW pc \in PktCodes, TofinoTakeOver(f, s, pc)
        PROVE  QueueInv'
    BY <1>4, CandidatesAreSlots, QueueSends DEF TofinoTakeOver, Pushed, Codes
  <1>5. ASSUME NEW f \in Flows, NEW s \in Candidates(f), OwnerClaimStep(f, s) PROVE QueueInv'
    <2>1. UNCHANGED <<clock, delay>>
      BY <1>5 DEF OwnerClaimStep, TofinoOwner
    <2>2. QED
      BY <1>5, <2>1, CandidatesAreSlots, QueueSends DEF OwnerClaimStep
  <1>6. QED
    BY <1>2, <1>3, <1>4, <1>5, ClaimSteps

\* A claim that is sent leaves both ways as they are, and is not that of a flow
\* that owns one of them.
LEMMA RaceSends ==
  ASSUME RaceInv, TofinoTypes', QueueInv', NEW f \in Flows, NEW s \in Slots, NEW res \in Codes,
         NEW kind \in {"takeover", "phase"}, claims' = Append(claims, Claim(s, f, res, kind)),
         UNCHANGED <<r_hash, since, retaken, delay>>,
         \A g \in Flows, y \in Slots :
            kind = "takeover" /\ HashOf[g] = HashOf[f] /\ y \in Candidates(g) => ~ Own(g, y)
  PROVE  RaceInv'
  <1>1. /\ Len(claims) \in Nat /\ Len(claims') = Len(claims) + 1
        /\ DOMAIN claims = 1 .. Len(claims) /\ DOMAIN claims' = 1 .. Len(claims')
        /\ \A i \in DOMAIN claims : claims'[i] = claims[i]
        /\ claims'[Len(claims')] = Claim(s, f, res, kind)
    BY SentClaim DEF RaceInv
  <1>2. ASSUME NEW i \in DOMAIN claims', NEW g \in Flows, NEW y \in Candidates(g), SecondWay(i, g, y)'
        PROVE  Near(claims[i].sent, since[y])'
    <2>1. CASE i \in DOMAIN claims
      <3>1. claims'[i] = claims[i] /\ SecondWay(i, g, y)
        BY <1>1, <1>2, <2>1 DEF SecondWay, Own, Candidates
      <3>2. Near(claims[i].sent, since[y])
        BY <2>1, <3>1 DEF RaceInv
      <3>3. QED
        BY <3>1, <3>2 DEF Near
    <2>2. CASE i = Len(claims')
      <3>1. kind = "takeover" /\ HashOf[g] = HashOf[f] /\ Own(g, y)
        BY <1>1, <1>2, <2>2 DEF SecondWay, Own, Claim
      <3>2. y \in Slots
        BY CandidatesAreSlots
      <3>3. QED
        BY <3>1, <3>2
    <2>3. QED
      BY <1>1, <2>1, <2>2
  <1>3. ASSUME NEW g \in Flows, NEW x \in Candidates(g), NEW y \in Candidates(g), TwoWays(g, x, y)'
        PROVE  Near(since[x], since[y])'
    BY <1>3 DEF RaceInv, TwoWays, Near, Own
  <1>4. QED
    BY <1>2, <1>3 DEF RaceInv, Candidates

\* A takeover that lands while its flow owns the other way raced for it.
LEMMA RaceLands == ASSUME RaceInv, TofinoTypes', QueueInv', Land PROVE RaceInv'
  <1> DEFINE c == claims[1]
  <1>1. TofinoTypes /\ QueueInv
    BY DEF RaceInv
  <1>2. /\ \A i \in DOMAIN claims' : i + 1 \in DOMAIN claims /\ claims'[i] = claims[i + 1]
        /\ 1 \in DOMAIN claims /\ c \in ClaimRecords
    BY <1>1, LandedClaim
  <1>3. c.slot \in Slots /\ c.sent \in Nat /\ c.kind \in {"takeover", "phase"}
    BY <1>2 DEF ClaimRecords
  <1>4. /\ UNCHANGED <<clock, delay>>
        /\ r_hash' = [r_hash EXCEPT ![c.slot] = c.tag]
        /\ c.tag = r_hash[c.slot] => UNCHANGED <<since, retaken>>
        /\ c.tag # r_hash[c.slot] =>
              /\ since' = [since EXCEPT ![c.slot] = c.sent]
              /\ retaken' = [retaken EXCEPT ![c.slot] = (c.kind = "phase")]
    BY <1>1, Landing
  <1>5. clock \in Nat /\ delay \in Nat /\ \A i \in DOMAIN claims : claims[i].sent \in Nat
    BY <1>1, ClaimTypes DEF TofinoTypes
  \* The claims in flight at one time were sent within a delay of each other.
  <1>6. \A i, j \in DOMAIN claims : Near(claims[i].sent, claims[j].sent)
    BY <1>1, <1>5 DEF QueueInv, Near
  \* What the landing makes of a slot that it gives, or that keeps, a tag.
  <1>7. ASSUME NEW y \in Slots, NEW tag, r_hash'[y] = tag, ~ retaken'[y]
        PROVE  \/ r_hash[y] = tag /\ ~ retaken[y] /\ since'[y] = since[y]
               \/ c.slot = y /\ c.tag = tag /\ c.kind = "takeover" /\ since'[y] = c.sent
    <2> HIDE DEF c
    <2>1. CASE c.slot # y
      BY <1>1, <1>3, <1>4, <1>7, <2>1 DEF TofinoTypes
    <2>2. CASE c.slot = y /\ c.tag = r_hash[y]
      BY <1>1, <1>3, <1>4, <1>7, <2>2 DEF TofinoTypes
    <2>3. CASE c.slot = y /\ c.tag # r_hash[y]
      <3>1. r_hash'[y] = c.tag /\ since'[y] = c.sent /\ retaken'[y] = (c.kind = "phase")
        BY <1>1, <1>3, <1>4, <2>3 DEF TofinoTypes
      <3>2. QED
        BY <1>3, <1>7, <2>3, <3>1
    <2>4. QED
      BY <2>1, <2>2, <2>3
  <1>8. ASSUME NEW i \in DOMAIN claims', NEW f \in Flows, NEW y \in Candidates(f), SecondWay(i, f, y)'
        PROVE  Near(claims[i].sent, since[y])'
    <2>1. i + 1 \in DOMAIN claims /\ claims'[i] = claims[i + 1]
      BY <1>2
    <2>2. y \in Slots /\ r_hash'[y] = HashOf[f] /\ ~ retaken'[y]
      BY <1>8, CandidatesAreSlots DEF SecondWay, Own
    <2>3. CASE r_hash[y] = HashOf[f] /\ ~ retaken[y] /\ since'[y] = since[y]
      <3>1. SecondWay(i + 1, f, y)
        BY <1>8, <2>1, <2>3 DEF SecondWay, Own, Candidates
      <3>2. Near(claims[i + 1].sent, since[y])
        BY <2>1, <3>1 DEF RaceInv
      <3>3. QED
        BY <1>4, <2>1, <2>3, <3>2 DEF Near
    <2>4. CASE since'[y] = c.sent
      <3>1. Near(claims[i + 1].sent, c.sent)
        BY <1>2, <1>6, <2>1
      <3>2. QED
        BY <1>4, <2>1, <2>4, <3>1 DEF Near
    <2>5. QED
      BY <1>7, <2>2, <2>3, <2>4
  <1>9. ASSUME NEW f \in Flows, NEW x \in Candidates(f), NEW y \in Candidates(f), TwoWays(f, x, y)'
        PROVE  Near(since[x], since[y])'
    <2> DEFINE Kept(z) == r_hash[z] = HashOf[f] /\ ~ retaken[z] /\ since'[z] = since[z]
               Given(z) == /\ c.slot = z /\ c.tag = HashOf[f] /\ c.kind = "takeover"
                           /\ since'[z] = c.sent
    <2>1. x \in Slots /\ y \in Slots /\ x # y
      BY <1>9, CandidatesAreSlots DEF TwoWays
    <2>2. (Kept(x) \/ Given(x)) /\ (Kept(y) \/ Given(y))
      BY <1>7, <1>9, <2>1 DEF TwoWays, Own
    <2>3. CASE Kept(x) /\ Kept(y)
      <3>1. TwoWays(f, x, y)
        BY <2>1, <2>3 DEF TwoWays, Own
      <3>2. QED
        BY <1>4, <2>3, <3>1 DEF RaceInv, Near
    <2>4. CASE Given(x) /\ Kept(y)
      <3>1. SecondWay(1, f, y)
        BY <2>1, <2>4 DEF SecondWay, Own
      <3>2. Near(c.sent, since[y])
        BY <1>2, <3>1 DEF RaceInv
      <3>3. QED
        BY <1>4, <2>4, <3>2 DEF Near
    <2>5. CASE Kept(x) /\ Given(y)
      <3>1. SecondWay(1, f, x)
        BY <2>1, <2>5 DEF SecondWay, Own
      <3>2. Near(c.sent, since[x])
        BY <1>2, <3>1 DEF RaceInv
      <3>3. QED
        BY <1>4, <2>5, <3>2 DEF Near
    <2>6. QED
      BY <2>1, <2>2, <2>3, <2>4, <2>5
  <1>10. QED
    BY <1>8, <1>9 DEF RaceInv, Candidates

\* RaceInv is inductive if flows have distinct hashes: a flow that is taken for
\* another would find one way only.
LEMMA RaceInvStep == ASSUME DistinctHashes PROVE RaceInv /\ [TofinoNext]_tvars => RaceInv'
  <1> SUFFICES ASSUME RaceInv, [TofinoNext]_tvars PROVE RaceInv'
    OBVIOUS
  <1>1. TofinoTypes /\ TofinoTypes' /\ QueueInv'
    BY TofinoTypesStep, QueueInvStep DEF RaceInv
  <1>2. CASE NoClaimStep
    <2>1. UNCHANGED <<r_hash, delay, claims, since, retaken>>
      BY <1>2 DEF NoClaimStep
    <2>2. QED
      BY <1>1, <2>1 DEF RaceInv, SecondWay, TwoWays, Near, Own, Candidates
  <1>3. CASE Land
    BY <1>1, <1>3, RaceLands
  <1>4. ASSUME NEW f \in Flows, NEW s \in Candidates(f), NEW pc \in PktCodes, TofinoTakeOver(f, s, pc)
        PROVE  RaceInv'
    <2>1. Probed(f) = {}
      BY <1>4 DEF TofinoTakeOver, Newcomer
    <2>2. \A g \in Flows, y \in Slots :
             HashOf[g] = HashOf[f] /\ y \in Candidates(g) => ~ Own(g, y)
      BY <2>1 DEF DistinctHashes, Probed
    <2>3. /\ claims' = Append(claims, Claim(s, f, pc, "takeover"))
          /\ UNCHANGED <<r_hash, since, retaken, delay>>
      BY <1>4 DEF TofinoTakeOver, Pushed
    <2>4. s \in Slots /\ pc \in Codes
      BY CandidatesAreSlots DEF Codes
    <2>5. QED
      BY <1>1, <2>2, <2>3, <2>4, RaceSends
  <1>5. ASSUME NEW f \in Flows, NEW s \in Candidates(f), OwnerClaimStep(f, s) PROVE RaceInv'
    <2>1. PICK res \in Codes : claims' = Append(claims, Claim(s, f, res, "phase"))
      BY <1>5 DEF OwnerClaimStep
    <2>2. UNCHANGED <<r_hash, since, retaken, delay>> /\ s \in Slots
      BY <1>5, CandidatesAreSlots DEF OwnerClaimStep, TofinoOwner
    <2>3. QED
      BY <1>1, <2>1, <2>2, RaceSends
  <1>6. QED
    BY <1>1, <1>2, <1>3, <1>4, <1>5, ClaimSteps

\* If flows have distinct hashes, a flow comes to own both of its ways only when
\* two of its claims were in flight together, or a phase retook one of them: for
\* every delay and every pair of tables.
THEOREM BothWaysRace == ASSUME DistinctHashes PROVE TofinoSpec => []BothWaysOnlyByRace
<1>1. TofinoInit => RaceInv
  <2> SUFFICES ASSUME TofinoInit PROVE RaceInv
    OBVIOUS
  <2>1. claims = <<>> /\ DOMAIN claims = {}
    BY DEF TofinoInit
  <2>2. \A f \in Flows : \A y \in Candidates(f) : ~ Own(f, y)
    BY CandidatesAreSlots, HashAssumption DEF TofinoInit, Init, Own
  <2>3. QED
    BY <2>1, <2>2, TofinoTypesInitially DEF RaceInv, QueueInv, TwoWays
<1>2. RaceInv => BothWaysOnlyByRace
  <2> SUFFICES ASSUME RaceInv, NEW f \in Flows, OwnsBoth(f), ~ retaken[SlotA[f]], ~ retaken[SlotB[f]]
               PROVE  Apart(SlotA[f], SlotB[f]) <= delay
    BY DEF BothWaysOnlyByRace
  <2>1. SlotA[f] \in SlotsA /\ SlotB[f] \in SlotsB /\ SlotA[f] # SlotB[f]
    BY SlotsAssumption DEF OwnsBoth
  <2>2. TwoWays(f, SlotA[f], SlotB[f]) /\ SlotA[f] \in Candidates(f) /\ SlotB[f] \in Candidates(f)
    BY <2>1 DEF TwoWays, OwnsBoth, Candidates
  <2>3. Near(since[SlotA[f]], since[SlotB[f]])
    BY <2>2 DEF RaceInv
  <2>4. since[SlotA[f]] \in Nat /\ since[SlotB[f]] \in Nat /\ delay \in Nat
    BY <2>1 DEF RaceInv, TofinoTypes, Slots
  <2>5. QED
    BY <2>3, <2>4 DEF Apart, Near
<1>3. QED
  BY <1>1, <1>2, RaceInvStep, PTL DEF TofinoSpec

-----------------------------------------------------------------------------
(* Without delay it is the emulator without recirculation.                 *)

\* The result register once every claim has landed.
ResSettled(s) == IF InFlight(s) = {} THEN r_res[s] ELSE claims[Max(InFlight(s))].res

\* Without delay one claim at most is in flight, the result register and the
\* features agree on whether the flow is determined, and a flow has one way.
DirectInv ==
    delay = 0 =>
       /\ Len(claims) <= 1
       /\ \A s \in Slots : ResSettled(s) < Decided <=> r_ver[s] < Decided
       /\ \A f \in Flows : \A x, y \in Candidates(f) :
             TagSettled(x) = HashOf[f] /\ TagSettled(y) = HashOf[f] => x = y

\* The positions of one claim.
LEMMA OneClaim ==
  ASSUME NEW q \in Seq(ClaimRecords), Len(q) = 1, NEW t
  PROVE  /\ q[1].slot = t => {i \in DOMAIN q : q[i].slot = t} = {1}
         /\ q[1].slot # t => {i \in DOMAIN q : q[i].slot = t} = {}
         /\ Max({1}) = 1
  <1>1. DOMAIN q = {1}
    BY LenProperties
  <1>2. Max({1}) = 1
    BY DEF Max
  <1>3. QED
    BY <1>1, <1>2

\* What is settled when no claim is in flight.
LEMMA NoneInFlight ==
  ASSUME claims = <<>>, NEW t
  PROVE  /\ TagSettled(t) = r_hash[t] /\ ResSettled(t) = r_res[t]
         /\ ClaimedSettled(t) <=> claimed[t]
  <1>1. InFlight(t) = {}
    BY DEF InFlight
  <1>2. QED
    BY <1>1 DEF TagSettled, ResSettled, ClaimedSettled

\* What is settled once the only claim is sent.
LEMMA FirstClaim ==
  ASSUME TofinoTypes, claims = <<>>, NEW f \in Flows, NEW s \in Slots, NEW res \in Codes,
         NEW kind \in {"takeover", "phase"}, claims' = Append(claims, Claim(s, f, res, kind)),
         UNCHANGED <<r_hash, r_res, claimed>>
  PROVE  /\ Len(claims') = 1
         /\ TagSettled(s)' = HashOf[f] /\ ResSettled(s)' = res /\ ClaimedSettled(s)'
         /\ \A t \in Slots : t # s =>
               /\ TagSettled(t)' = r_hash[t] /\ ResSettled(t)' = r_res[t]
               /\ ClaimedSettled(t)' <=> claimed[t]
  <1>1. /\ claims' \in Seq(ClaimRecords) /\ Len(claims') = 1
        /\ claims'[1] = Claim(s, f, res, kind)
    BY SentClaim
  <1>2. claims'[1].slot = s /\ claims'[1].tag = HashOf[f] /\ claims'[1].res = res
    BY <1>1 DEF Claim
  <1>3. InFlight(s)' = {1} /\ Max({1}) = 1 /\ \A t \in Slots : t # s => InFlight(t)' = {}
    BY <1>1, <1>2, OneClaim DEF InFlight
  <1>4. QED
    BY <1>1, <1>2, <1>3 DEF TagSettled, ResSettled, ClaimedSettled

\* The registers of NetBeacon when those of this emulator stay as they are.
LEMMA SettledStutters ==
  ASSUME UNCHANGED <<r_hash, r_res, claimed, claims, took>>
  PROVE  /\ UNCHANGED [s \in Slots |-> TagSettled(s)]
         /\ UNCHANGED [s \in Slots |-> ClaimedSettled(s)]
         /\ UNCHANGED [s \in Slots |-> took[s] % ClockMod]
         /\ UNCHANGED [s \in Slots |->
                           IF ClaimedSettled(s) THEN (took[s] % ClockMod) + Grace ELSE 0]
         /\ \A s \in Slots : UNCHANGED <<TagSettled(s), ResSettled(s)>>
  BY DEF TagSettled, ClaimedSettled, ResSettled, InFlight

\* A quiet state shows both emulators the same slots.
LEMMA SameSlots ==
  ASSUME TofinoTypes, DirectInv, delay = 0, Quiet
  PROVE  /\ \A s \in Slots : NetBeacon!Held(s) <=> Busy(s)
         /\ \A s \in Slots : ~ NetBeacon!Evictable(s)
         /\ \A s \in Slots : NetBeacon!Counting(s) <=> Counting(s)
         /\ \A f \in Flows : NetBeacon!SlotOf(f) = Way(f)
         /\ ~ NetBeacon!Due
  <1>1. claims = <<>> /\ ~ NetBeacon!Due
    BY DEF Quiet, Due, NetBeacon!Due
  <1>2. \A s \in Slots : r_res[s] < Decided <=> r_ver[s] < Decided
    BY <1>1, NoneInFlight DEF DirectInv
  <1>3. \A s \in Slots : /\ TagSettled(s) = r_hash[s]
                         /\ ClaimedSettled(s) <=> claimed[s]
    BY <1>1, NoneInFlight
  <1>4. \A s \in Slots : NetBeacon!Held(s) <=> Busy(s)
    BY <1>2, TofinoAssumption
       DEF NetBeacon!Held, NetBeacon!Age, NetBeacon!now, NetBeacon!EmptyHolds, NetBeacon!Decided,
           Busy, Age, now, Decided
  <1>5. \A s \in Slots : ~ NetBeacon!Evictable(s)
    BY TofinoAssumption DEF NetBeacon!Evictable
  <1>6. \A s \in Slots : NetBeacon!Counting(s) <=> Counting(s)
    BY <1>2 DEF NetBeacon!Counting, Counting, NetBeacon!Decided, Decided
  <1>7. ASSUME NEW f \in Flows PROVE NetBeacon!SlotOf(f) = Way(f)
    <2> DEFINE a == SlotA[f]
               b == SlotB[f]
    <2>1. a \in Slots /\ (TwoWay => b \in Slots)
      BY SlotsAssumption DEF Slots
    <2>2. CASE ~ TwoWay
      BY <2>2 DEF NetBeacon!SlotOf, NetBeacon!TwoWay, Way, TwoWay
    <2>3. CASE TwoWay
      <3>1. NetBeacon!TwoWay /\ a \in Slots /\ b \in Slots
        BY <2>1, <2>3 DEF NetBeacon!TwoWay, TwoWay
      <3>2. /\ [s \in Slots |-> TagSettled(s)][a] = r_hash[a]
            /\ NetBeacon!FoundInB(f) <=> r_hash[b] = HashOf[f]
        BY <1>3, <3>1 DEF NetBeacon!FoundInB
      <3>3. NetBeacon!TakesB(a, b) <=> PrefersB(a, b)
        <4>1. NetBeacon!BothHeldTakesB(a, b) <=> claimed[b] /\ ~ claimed[a]
          BY <1>3, <1>5, <3>1 DEF NetBeacon!BothHeldTakesB
        <4>2. NetBeacon!NeitherHeldTakesB(a, b) <=> claimed[a] /\ ~ claimed[b]
          BY <1>3, <3>1, TofinoAssumption DEF NetBeacon!NeitherHeldTakesB
        <4>3. QED
          BY <1>4, <3>1, <4>1, <4>2 DEF NetBeacon!TakesB, PrefersB
      <3>4. /\ a \in Probed(f) <=> r_hash[a] = HashOf[f]
            /\ b \in Probed(f) <=> r_hash[b] = HashOf[f]
        BY <2>3 DEF Probed, Own, Candidates
      <3>5. QED
        BY <2>3, <3>1, <3>2, <3>3, <3>4 DEF NetBeacon!SlotOf, Way
    <2>4. QED
      BY <2>2, <2>3
  <1>8. QED
    BY <1>1, <1>4, <1>5, <1>6, <1>7

\* A packet that changes no register is handled alike.
LEMMA DirectNewcomer ==
  ASSUME TofinoTypes, DirectInv, delay = 0, NEW f \in Flows, NEW pc \in PktCodes,
         TofinoShort(f, pc) \/ TofinoRefuse(f, pc)
  PROVE  NetBeacon!NewcomerStep(f, Way(f), pc) /\ Way(f) \in Candidates(f)
  <1> DEFINE s == Way(f)
  <1>1. Newcomer(f) /\ Quiet /\ claims = <<>> /\ s \in Candidates(f) /\ s \in Slots
    BY CandidatesAreSlots DEF TofinoShort, TofinoRefuse, Newcomer, Quiet, Way, Candidates
  <1>2. \A t \in Slots : /\ TagSettled(t) = r_hash[t]
                         /\ ClaimedSettled(t) <=> claimed[t]
    BY <1>1, NoneInFlight
  <1>3. NetBeacon!Arrives(f, s)
    BY <1>1, SameSlots DEF NetBeacon!Arrives, Newcomer, Remembered, NetBeacon!Remembered
  <1>4. [t \in Slots |-> TagSettled(t)][s] # HashOf[f]
    BY <1>1, <1>2 DEF Newcomer, Probed, Own
  <1>5. UNCHANGED <<clock, registers, controller, history, compiled>>
    BY DEF TofinoShort, TofinoRefuse
  <1>6. UNCHANGED <<NetBeacon!registers, NetBeacon!controller, NetBeacon!history>>
    BY <1>5, SettledStutters
       DEF registers, controller, history, compiled, NetBeacon!registers, NetBeacon!controller,
           NetBeacon!history
  <1>7. CASE TofinoShort(f, pc)
    BY <1>1, <1>3, <1>4, <1>5, <1>6, <1>7
       DEF TofinoShort, NetBeacon!NewcomerStep, NetBeacon!FallbackShort, Handled, NetBeacon!Handled
  <1>8. CASE TofinoRefuse(f, pc)
    <2>1. \A t \in Candidates(f) : Busy(t)
      BY <1>8 DEF TofinoRefuse
    <2>2. NetBeacon!Held(s) /\ ~ NetBeacon!Evictable(s)
      BY <1>1, <2>1, SameSlots
    <2>3. (\E t \in Candidates(f) : claimed[t]) <=> claimed[s]
      <3>1. CASE ~ TwoWay
        BY <1>1, <3>1 DEF Candidates
      <3>2. CASE TwoWay
        <4>1. SlotA[f] \in Candidates(f) /\ SlotB[f] \in Candidates(f) /\ Probed(f) = {}
          BY <1>1, <3>2 DEF Candidates, Newcomer
        <4>2. Busy(SlotA[f]) /\ Busy(SlotB[f])
          BY <2>1, <4>1
        <4>3. s = IF ~ claimed[SlotA[f]] /\ claimed[SlotB[f]] THEN SlotB[f] ELSE SlotA[f]
          BY <3>2, <4>1, <4>2 DEF Way, PrefersB
        <4>4. QED
          BY <3>2, <4>3 DEF Candidates
      <3>3. QED
        BY <3>1, <3>2
    <2>4. [t \in Slots |-> ClaimedSettled(t)][s] <=> claimed[s]
      BY <1>1, <1>2
    <2>5. last' = Handled(f, s, IF [t \in Slots |-> ClaimedSettled(t)][s]
                                THEN "collision" ELSE "empty", pc)
      BY <1>8, <2>3, <2>4 DEF TofinoRefuse
    <2>6. NetBeacon!Refuse(f, s, pc)
      BY <1>3, <1>4, <1>5, <1>6, <2>2, <2>5 DEF NetBeacon!Refuse, Handled, NetBeacon!Handled
    <2>7. QED
      BY <1>1, <2>6 DEF NetBeacon!NewcomerStep
  <1>9. QED
    BY <1>7, <1>8

\* A takeover, whose claim will land at once.
LEMMA DirectTakeOver ==
  ASSUME DistinctHashes, TofinoTypes, DirectInv, delay = 0, NEW f \in Flows, NEW s \in Candidates(f),
         NEW pc \in PktCodes, TofinoTakeOver(f, s, pc)
  PROVE  NetBeacon!TakeOver(f, s, pc) /\ DirectInv'
  <1>1. /\ Newcomer(f) /\ Quiet /\ claims = <<>> /\ s \in Slots /\ s = Way(f) /\ ~ Busy(s)
        /\ pc \in Codes /\ Probed(f) = {}
    BY CandidatesAreSlots DEF TofinoTakeOver, Newcomer, Quiet, Codes
  <1>2. \A t \in Slots : /\ TagSettled(t) = r_hash[t] /\ ResSettled(t) = r_res[t]
                         /\ ClaimedSettled(t) <=> claimed[t]
    BY <1>1, NoneInFlight
  <1>3. /\ claims' = Append(claims, Claim(s, f, pc, "takeover"))
        /\ UNCHANGED <<clock, r_hash, r_res, r_lastc, claimed, controller, delay>>
        /\ took' = [took EXCEPT ![s] = clock]
        /\ r_ver' = [r_ver EXCEPT ![s] = pc]
    BY DEF TofinoTakeOver, Pushed
  <1>4. /\ Len(claims') = 1
        /\ TagSettled(s)' = HashOf[f] /\ ResSettled(s)' = pc /\ ClaimedSettled(s)'
        /\ \A t \in Slots : t # s =>
              /\ TagSettled(t)' = r_hash[t] /\ ResSettled(t)' = r_res[t]
              /\ ClaimedSettled(t)' <=> claimed[t]
    BY <1>1, <1>3, FirstClaim
  <1>5. NetBeacon!TakeOver(f, s, pc)
    <2> DEFINE H == [t \in Slots |-> TagSettled(t)]
               C == [t \in Slots |-> ClaimedSettled(t)]
               T == [t \in Slots |-> took[t] % ClockMod]
               V == [t \in Slots |-> IF ClaimedSettled(t) THEN (took[t] % ClockMod) + Grace ELSE 0]
    <2>1. NetBeacon!Arrives(f, s)
      BY <1>1, SameSlots DEF NetBeacon!Arrives, Newcomer, Remembered, NetBeacon!Remembered
    <2>2. H[s] # HashOf[f] /\ ~ NetBeacon!Held(s)
      BY <1>1, <1>2, SameSlots DEF Probed, Own
    <2>3. H' = [H EXCEPT ![s] = HashOf[f]]
      BY <1>1, <1>2, <1>4
    <2>4. C' = [C EXCEPT ![s] = TRUE]
      <3>1. \A t \in Slots : ClaimedSettled(t)' = (IF t = s THEN TRUE ELSE ClaimedSettled(t))
        BY <1>1, <1>2, <1>4 DEF ClaimedSettled
      <3>2. QED
        BY <1>1, <3>1
    <2>5. now = clock % ClockMod /\ NetBeacon!now = now
      BY TofinoAssumption DEF now, NetBeacon!now
    <2>6. T' = [T EXCEPT ![s] = now]
      <3>1. \A t \in Slots : took'[t] = IF t = s THEN clock ELSE took[t]
        BY <1>1, <1>3 DEF TofinoTypes
      <3>2. QED
        BY <1>1, <2>5, <3>1
    <2>7. V' = [V EXCEPT ![s] = now + Grace]
      <3>1. \A t \in Slots : took'[t] = IF t = s THEN clock ELSE took[t]
        BY <1>1, <1>3 DEF TofinoTypes
      <3>2. QED
        BY <1>1, <1>2, <1>4, <2>5, <3>1
    <2>8. r_lastc' = [r_lastc EXCEPT ![s] = r_lastc[s]] /\ wrote' = [wrote EXCEPT ![s] = TakeoverRefresh]
      BY <1>3, TofinoAssumption, SwitchesAssumption DEF TofinoTypes, TofinoTakeOver
    <2> HIDE DEF H, C, T, V
    <2>9. QED
      BY <1>3, <2>1, <2>2, <2>3, <2>4, <2>5, <2>6, <2>7, <2>8, TofinoAssumption
         DEF NetBeacon!TakeOver, TofinoTakeOver, NetBeacon!ResAtTakeover, NetBeacon!LastcAtTakeover,
             NetBeacon!T0AtTakeover, NetBeacon!controller, controller, Handled, NetBeacon!Handled,
             H, C, T, V
  <1>6. \A t \in Slots : ResSettled(t)' < Decided <=> r_ver'[t] < Decided
    BY <1>1, <1>2, <1>3, <1>4 DEF DirectInv, TofinoTypes
  <1>7. ASSUME NEW g \in Flows, NEW x \in Candidates(g), NEW y \in Candidates(g),
               TagSettled(x)' = HashOf[g], TagSettled(y)' = HashOf[g]
        PROVE  x = y
    <2>1. x \in Slots /\ y \in Slots
      BY CandidatesAreSlots
    <2>2. CASE g = f
      <3>1. \A t \in Candidates(f) : r_hash[t] # HashOf[f]
        BY <1>1 DEF Probed, Own
      <3>2. QED
        BY <1>4, <1>7, <2>1, <2>2, <3>1
    <2>3. CASE g # f
      <3>1. HashOf[g] # HashOf[f]
        BY <2>3 DEF DistinctHashes
      <3>2. TagSettled(x) = HashOf[g] /\ TagSettled(y) = HashOf[g]
        BY <1>2, <1>4, <1>7, <2>1, <3>1
      <3>3. QED
        BY <3>2 DEF DirectInv
    <2>4. QED
      BY <2>2, <2>3
  <1>8. QED
    BY <1>3, <1>4, <1>5, <1>6, <1>7 DEF DirectInv, Candidates

\* A packet of an owner, that may send a claim: tag and times stay.
LEMMA DirectRefresh ==
  ASSUME SettleInv, DirectInv, delay = 0, NEW f \in Flows, NEW s \in Candidates(f),
         TofinoOwner(f, s), claims' = claims \/ OwnerClaimStep(f, s)
  PROVE  /\ NetBeacon!Arrives(f, s) /\ NetBeacon!Refresh(f, s)
         /\ [t \in Slots |-> TagSettled(t)][s] = HashOf[f]
         /\ Len(claims') <= 1
         /\ \A t \in Slots : TagSettled(t)' = TagSettled(t)
         /\ \A t \in Slots : t # s => ResSettled(t)' = r_res[t]
         /\ claims = <<>>
  <1> DEFINE H == [t \in Slots |-> TagSettled(t)]
             C == [t \in Slots |-> ClaimedSettled(t)]
             T == [t \in Slots |-> took[t] % ClockMod]
             V == [t \in Slots |-> IF ClaimedSettled(t) THEN (took[t] % ClockMod) + Grace ELSE 0]
  <1>1. /\ TofinoTypes /\ Quiet /\ claims = <<>> /\ s \in Slots /\ s = Way(f) /\ s \in Probed(f)
        /\ r_hash[s] = HashOf[f]
    BY CandidatesAreSlots DEF SettleInv, TofinoOwner, Quiet, Probed, Own
  <1>2. \A t \in Slots : /\ TagSettled(t) = r_hash[t] /\ ResSettled(t) = r_res[t]
                         /\ ClaimedSettled(t) <=> claimed[t]
    BY <1>1, NoneInFlight
  <1>3. claimed[s]
    BY <1>1, HashAssumption DEF SettleInv
  <1>4. Probed(f) = {s}
    <2>1. \A t \in Probed(f) : t \in Candidates(f) /\ t \in Slots /\ r_hash[t] = HashOf[f]
      BY CandidatesAreSlots DEF Probed, Own
    <2>2. \A t \in Probed(f) : t = s
      BY <1>1, <1>2, <2>1 DEF DirectInv
    <2>3. QED
      BY <1>1, <2>2
  <1>5. UNCHANGED <<clock, r_hash, r_res, claimed, memo, owner, took>>
    BY DEF TofinoOwner
  <1>6. /\ Len(claims') <= 1
        /\ \A t \in Slots : /\ TagSettled(t)' = TagSettled(t)
                            /\ ClaimedSettled(t)' <=> ClaimedSettled(t)
        /\ \A t \in Slots : t # s => ResSettled(t)' = r_res[t]
    <2>1. CASE claims' = claims
      <3>1. Len(claims') = 0
        BY <1>1, <2>1
      <3>2. \A t \in Slots : InFlight(t)' = InFlight(t)
        BY <2>1 DEF InFlight
      <3>3. QED
        BY <1>2, <1>5, <2>1, <3>1, <3>2 DEF TagSettled, ResSettled, ClaimedSettled
    <2>2. CASE OwnerClaimStep(f, s)
      <3>1. PICK res \in Codes : claims' = Append(claims, Claim(s, f, res, "phase"))
        BY <2>2 DEF OwnerClaimStep
      <3>2. /\ Len(claims') = 1
            /\ TagSettled(s)' = HashOf[f] /\ ClaimedSettled(s)'
            /\ \A t \in Slots : t # s =>
                  /\ TagSettled(t)' = r_hash[t] /\ ResSettled(t)' = r_res[t]
                  /\ ClaimedSettled(t)' <=> claimed[t]
        BY <1>1, <1>5, <3>1, FirstClaim
      <3>3. QED
        BY <1>1, <1>2, <1>3, <3>2
    <2>3. QED
      BY <2>1, <2>2
  <1>7. UNCHANGED <<H, C, T, V>>
    <2>1. \A t \in Slots : ClaimedSettled(t)' = ClaimedSettled(t)
      BY <1>6 DEF ClaimedSettled
    <2>2. QED
      BY <1>5, <1>6, <2>1
  <1>8. V = [V EXCEPT ![s] = V[s]]
    BY <1>1
  <1>9. r_lastc' = [r_lastc EXCEPT ![s] = now]
    BY <1>1, <1>4 DEF TofinoOwner, TofinoTypes
  <1>10. NetBeacon!Arrives(f, s)
    BY <1>1, SameSlots
       DEF NetBeacon!Arrives, TofinoOwner, Remembered, NetBeacon!Remembered
  <1>11. NetBeacon!CreditOfOwner(s) = V[s] /\ NetBeacon!LastcOfOwner(s) = now
    BY TofinoAssumption DEF NetBeacon!CreditOfOwner, NetBeacon!LastcOfOwner, NetBeacon!now, now
  <1> HIDE DEF H, C, T, V
  <1>12. V' = [V EXCEPT ![s] = NetBeacon!CreditOfOwner(s)]
    BY <1>7, <1>8, <1>11
  <1>13. NetBeacon!Refresh(f, s)
    BY <1>5, <1>7, <1>9, <1>11, <1>12 DEF TofinoOwner, NetBeacon!Refresh, H, C, T, V
  <1>14. H[s] = HashOf[f]
    BY <1>1, <1>2 DEF H
  <1>15. QED
    BY <1>1, <1>6, <1>10, <1>13, <1>14 DEF H

\* DirectInv after a packet of an owner.
LEMMA DirectInvOwner ==
  ASSUME SettleInv, DirectInv, delay = 0, NEW f \in Flows, NEW s \in Candidates(f),
         TofinoOwner(f, s), claims' = claims \/ OwnerClaimStep(f, s),
         ResSettled(s)' < Decided <=> r_ver'[s] < Decided,
         \A t \in Slots : t # s => r_ver'[t] = r_ver[t]
  PROVE  DirectInv'
  <1>1. /\ Len(claims') <= 1 /\ claims = <<>>
        /\ \A t \in Slots : TagSettled(t)' = TagSettled(t)
        /\ \A t \in Slots : t # s => ResSettled(t)' = r_res[t]
    BY DirectRefresh
  <1>2. \A t \in Slots : r_res[t] < Decided <=> r_ver[t] < Decided
    BY <1>1, NoneInFlight DEF DirectInv
  <1>3. \A t \in Slots : ResSettled(t)' < Decided <=> r_ver'[t] < Decided
    BY <1>1, <1>2
  <1>4. ASSUME NEW g \in Flows, NEW x \in Candidates(g), NEW y \in Candidates(g),
               TagSettled(x)' = HashOf[g], TagSettled(y)' = HashOf[g]
        PROVE  x = y
    <2>1. x \in Slots /\ y \in Slots
      BY CandidatesAreSlots
    <2>2. QED
      BY <1>1, <1>4, <2>1 DEF DirectInv
  <1>5. QED
    BY <1>1, <1>3, <1>4 DEF DirectInv, Candidates

\* What a claim of a phase will have stored.
LEMMA DirectPhaseRes ==
  ASSUME TofinoTypes, claims = <<>>, NEW f \in Flows, NEW s \in Slots, NEW res \in Codes,
         claims' = Append(claims, Claim(s, f, res, "phase")), UNCHANGED <<r_hash, r_res, claimed>>
  PROVE  ResSettled(s)' = res
  BY FirstClaim

\* Packets of owners are handled alike: the verdict is that of the features.
LEMMA DirectOwner ==
  ASSUME SettleInv, DirectInv, delay = 0, NEW f \in Flows, NEW s \in Candidates(f),
         NEW pc \in PktCodes,
         \/ TofinoDetermined(f, s, pc) \/ TofinoBetween(f, s, pc)
         \/ \E code \in PhaseCodes : TofinoPhase(f, s, pc, code)
         \/ \E code \in FinalCodes : TofinoFinal(f, s, pc, code)
  PROVE  NetBeacon!OwnerStep(f, s, pc) /\ DirectInv'
  <1>1. /\ TofinoTypes /\ s \in Slots /\ TofinoOwner(f, s) /\ claims = <<>>
        /\ UNCHANGED <<r_hash, r_res, claimed>>
    BY CandidatesAreSlots
       DEF SettleInv, TofinoDetermined, TofinoBetween, TofinoPhase, TofinoFinal, Renew, TofinoOwner, Quiet
  <1>2. /\ ResSettled(s) = r_res[s] /\ (r_res[s] < Decided <=> r_ver[s] < Decided)
        /\ NetBeacon!Counting(s) <=> Counting(s)
    BY <1>1, NoneInFlight, SameSlots DEF DirectInv, TofinoOwner
  <1>3. r_ver[s] \in Nat /\ pc \in Nat /\ pc < Decided /\ pc \in Codes
    <2>1. pc \in Codes /\ pc \in Nat /\ pc < Decided
      BY CodesAreNaturals, CodesAssumption DEF Codes, Decided
    <2>2. r_ver[s] \in Codes
      BY <1>1 DEF TofinoTypes
    <2>3. QED
      BY <2>1, <2>2, CodesAreNaturals
  <1>4. NetBeacon!Count(s) = Count(s)
    BY DEF NetBeacon!Count, Count
  <1>5. ASSUME claims' = claims PROVE ResSettled(s)' = r_res[s]
    <2>1. claims' = <<>>
      BY <1>1, <1>5
    <2>2. InFlight(s)' = {}
      BY <2>1 DEF InFlight
    <2>3. QED
      BY <1>1, <2>2 DEF ResSettled
  <1>6. CASE TofinoDetermined(f, s, pc)
    <2>1. claims' = claims /\ ~ Counting(s) /\ UNCHANGED <<r_pk, r_ver, pending>>
      BY <1>6 DEF TofinoDetermined
    <2>2. Verdict(r_ver[s], pc) = r_ver[s]
      BY <1>2, <1>3, <2>1 DEF Verdict, Counting, Decided
    <2>3. NetBeacon!OwnerDetermined(f, s, pc)
      BY <1>1, <1>2, <1>6, <2>1, <2>2, DirectRefresh
         DEF NetBeacon!OwnerDetermined, TofinoDetermined, Handled, NetBeacon!Handled
    <2>4. DirectInv'
      BY <1>1, <1>2, <1>5, <2>1, DirectInvOwner
    <2>5. QED
      BY <2>3, <2>4 DEF NetBeacon!OwnerStep
  <1>7. CASE TofinoBetween(f, s, pc)
    <2>1. claims' = claims /\ Counting(s) /\ UNCHANGED <<r_ver, pending>>
      BY <1>7 DEF TofinoBetween
    <2>2. NetBeacon!OwnerBetween(f, s, pc)
      BY <1>1, <1>2, <1>4, <1>7, <2>1, DirectRefresh
         DEF NetBeacon!OwnerBetween, TofinoBetween, Handled, NetBeacon!Handled, Verdict, NetBeacon!Verdict
    <2>3. DirectInv'
      BY <1>1, <1>2, <1>5, <2>1, DirectInvOwner
    <2>4. QED
      BY <2>2, <2>3 DEF NetBeacon!OwnerStep
  <1>8. \A code : NetBeacon!Stored(s, code, pc) = Renewed(s, code, pc)
    BY DEF NetBeacon!Stored, Renewed, Verdict, NetBeacon!Verdict
  <1>9. ASSUME NEW code \in PhaseCodes \cup FinalCodes, Renew(f, s, pc, code)
        PROVE  /\ Counting(s) /\ r_res[s] < Decided /\ r_ver[s] < Decided
               /\ r_ver'[s] = (IF code # 0 THEN code ELSE Verdict(r_ver[s], pc))
               /\ Verdict(r_ver[s], pc) < Decided
               /\ \A t \in Slots : t # s => r_ver'[t] = r_ver[t]
    BY <1>1, <1>2, <1>3, <1>9 DEF Renew, Renewed, Counting, TofinoTypes, Verdict
  <1>10. ASSUME NEW code \in PhaseCodes, TofinoPhase(f, s, pc, code)
         PROVE  NetBeacon!OwnerPhase(f, s, pc, code) /\ DirectInv'
    <2>1. /\ Renew(f, s, pc, code) /\ r_res[s] \in Codes /\ code < Decided
          /\ claims' = Append(claims, Claim(s, f, r_res[s], "phase"))
      <3>1. Renew(f, s, pc, code) /\ claims' = Append(claims, Claim(s, f, r_res[s], "phase"))
        BY <1>10 DEF TofinoPhase, Pushed
      <3>2. r_res[s] \in Codes
        BY <1>1 DEF TofinoTypes
      <3>3. code < Decided
        BY CodesAssumption DEF Decided
      <3>4. QED
        BY <3>1, <3>2, <3>3
    <2>2. OwnerClaimStep(f, s)
      BY <1>1, <2>1 DEF OwnerClaimStep
    <2>3. NetBeacon!OwnerPhase(f, s, pc, code)
      <3>1. /\ NetBeacon!Arrives(f, s) /\ NetBeacon!Refresh(f, s)
            /\ [t \in Slots |-> TagSettled(t)][s] = HashOf[f]
        BY <1>1, <2>2, DirectRefresh
      <3>2. /\ Counting(s) /\ Count(s) \in Phases
            /\ r_pk' = [r_pk EXCEPT ![s] = Count(s)]
            /\ r_ver' = [r_ver EXCEPT ![s] = Renewed(s, code, pc)]
            /\ last' = Handled(f, s, "owner", Verdict(Renewed(s, code, pc), pc))
            /\ UNCHANGED pending
        BY <1>10 DEF TofinoPhase, Renew
      <3>3. NetBeacon!Stored(s, code, pc) = Renewed(s, code, pc)
        BY <1>8
      <3>4. QED
        BY <1>2, <1>4, <3>1, <3>2, <3>3
           DEF NetBeacon!OwnerPhase, Handled, NetBeacon!Handled, Verdict, NetBeacon!Verdict
    <2>4. ResSettled(s)' = r_res[s]
      BY <1>1, <2>1, DirectPhaseRes
    <2>5. r_ver'[s] < Decided /\ \A t \in Slots : t # s => r_ver'[t] = r_ver[t]
      BY <1>9, <2>1
    <2>6. DirectInv'
      BY <1>1, <1>9, <2>1, <2>2, <2>4, <2>5, DirectInvOwner
    <2>7. QED
      BY <2>3, <2>6
  <1>11. ASSUME NEW code \in FinalCodes, TofinoFinal(f, s, pc, code)
         PROVE  NetBeacon!OwnerFinal(f, s, pc, code) /\ DirectInv'
    <2>1. /\ Renew(f, s, pc, code) /\ code \in Codes
          /\ claims' = IF code # 0 THEN Append(claims, Claim(s, f, code, "phase")) ELSE claims
      BY <1>11 DEF TofinoFinal, Pushed, Codes
    <2>2. claims' = claims \/ OwnerClaimStep(f, s)
      BY <1>1, <2>1 DEF OwnerClaimStep
    <2>3. NetBeacon!OwnerFinal(f, s, pc, code)
      <3>1. /\ NetBeacon!Arrives(f, s) /\ NetBeacon!Refresh(f, s)
            /\ [t \in Slots |-> TagSettled(t)][s] = HashOf[f]
        BY <1>1, <2>2, DirectRefresh
      <3>2. /\ Counting(s) /\ Count(s) = FinalPhase
            /\ r_pk' = [r_pk EXCEPT ![s] = Count(s)]
            /\ r_ver' = [r_ver EXCEPT ![s] = Renewed(s, code, pc)]
            /\ last' = Handled(f, s, "owner", Verdict(Renewed(s, code, pc), pc))
            /\ pending' = IF code > Decided
                          THEN Append(pending, [due |-> clock + MemoDelay, flow |-> f, res |-> code])
                          ELSE pending
        BY <1>11 DEF TofinoFinal, Renew
      <3>3. NetBeacon!Stored(s, code, pc) = Renewed(s, code, pc)
        BY <1>8
      <3>4. QED
        BY <1>2, <1>4, <3>1, <3>2, <3>3
           DEF NetBeacon!OwnerFinal, Handled, NetBeacon!Handled, Verdict, NetBeacon!Verdict,
               Decided, NetBeacon!Decided
    <2>4. ResSettled(s)' < Decided <=> r_ver'[s] < Decided
      <3>1. CASE code = 0
        BY <1>5, <1>9, <2>1, <3>1
      <3>2. CASE code # 0
        <4>1. ResSettled(s)' = code
          BY <1>1, <2>1, <3>2, DirectPhaseRes
        <4>2. r_ver'[s] = code
          BY <1>9, <2>1, <3>2
        <4>3. QED
          BY <4>1, <4>2
      <3>3. QED
        BY <3>1, <3>2
    <2>5. \A t \in Slots : t # s => r_ver'[t] = r_ver[t]
      BY <1>9, <2>1
    <2>6. DirectInv'
      BY <1>1, <2>2, <2>4, <2>5, DirectInvOwner
    <2>7. QED
      BY <2>3, <2>6
  <1>12. QED
    BY <1>6, <1>7, <1>10, <1>11 DEF NetBeacon!OwnerStep

\* A claim that lands changes nothing that was not settled.
LEMMA DirectLand ==
  ASSUME TofinoTypes, DirectInv, delay = 0, Land
  PROVE  UNCHANGED NetBeacon!vars /\ DirectInv'
  <1> DEFINE c == claims[1]
  <1>1. /\ claims \in Seq(ClaimRecords) /\ Len(claims) = 1 /\ claims' = <<>>
    <2>1. Len(claims) = 1 /\ claims' \in Seq(ClaimRecords) /\ Len(claims') = 0
      BY LandedClaim DEF DirectInv
    <2>2. QED
      BY <2>1, EmptySeq DEF TofinoTypes
  <1>2. c \in ClaimRecords
    BY LandedClaim
  <1>3. c.slot \in Slots
    BY <1>2 DEF ClaimRecords
  <1>4. /\ UNCHANGED <<clock, owner, took, delay, r_ver, r_lastc>>
        /\ r_hash' = [r_hash EXCEPT ![c.slot] = c.tag]
        /\ r_res' = [r_res EXCEPT ![c.slot] = c.res]
        /\ claimed' = [claimed EXCEPT ![c.slot] = TRUE]
    BY Landing
  <1>5. \A t \in Slots :
           /\ c.slot = t => InFlight(t) = {1}
           /\ c.slot # t => InFlight(t) = {}
    BY <1>1, OneClaim DEF InFlight
  <1>6. Max({1}) = 1
    BY <1>1, OneClaim
  <1>7. \A t \in Slots : InFlight(t)' = {}
    BY <1>1 DEF InFlight
  <1>8. \A t \in Slots :
           /\ TagSettled(t) = IF c.slot = t THEN c.tag ELSE r_hash[t]
           /\ ResSettled(t) = IF c.slot = t THEN c.res ELSE r_res[t]
           /\ ClaimedSettled(t) = (c.slot = t \/ claimed[t])
    BY <1>5, <1>6 DEF TagSettled, ResSettled, ClaimedSettled
  <1>9. \A t \in Slots :
           /\ TagSettled(t)' = r_hash'[t] /\ ResSettled(t)' = r_res'[t]
           /\ ClaimedSettled(t)' = (claimed'[t] \/ FALSE)
    BY <1>7 DEF TagSettled, ResSettled, ClaimedSettled
  <1> HIDE DEF c
  <1>10. \A t \in Slots : TagSettled(t)' = TagSettled(t) /\ ResSettled(t)' = ResSettled(t)
    <2>1. \A t \in Slots : r_hash'[t] = IF c.slot = t THEN c.tag ELSE r_hash[t]
      BY <1>3, <1>4 DEF TofinoTypes
    <2>2. \A t \in Slots : r_res'[t] = IF c.slot = t THEN c.res ELSE r_res[t]
      BY <1>3, <1>4 DEF TofinoTypes
    <2>3. QED
      BY <1>8, <1>9, <2>1, <2>2
  <1>11. \A t \in Slots : ClaimedSettled(t)' = ClaimedSettled(t)
    <2>1. ASSUME NEW t \in Slots PROVE claimed'[t] = (c.slot = t \/ claimed[t])
      <3>1. claimed \in [Slots -> BOOLEAN] /\ claimed[t] \in BOOLEAN
        BY DEF TofinoTypes
      <3>2. CASE c.slot = t
        BY <1>4, <3>1, <3>2
      <3>3. CASE c.slot # t
        BY <1>4, <3>1, <3>3
      <3>4. QED
        BY <3>2, <3>3
    <2>2. QED
      BY <1>8, <1>9, <2>1
  <1>12. /\ UNCHANGED [t \in Slots |-> TagSettled(t)]
         /\ UNCHANGED [t \in Slots |-> ClaimedSettled(t)]
         /\ UNCHANGED [t \in Slots |-> took[t] % ClockMod]
         /\ UNCHANGED [t \in Slots |->
                           IF ClaimedSettled(t) THEN (took[t] % ClockMod) + Grace ELSE 0]
    BY <1>4, <1>10, <1>11
  <1>13. UNCHANGED NetBeacon!vars
    BY <1>4, <1>12
       DEF Land, history, controller, NetBeacon!vars, NetBeacon!registers, NetBeacon!controller,
           NetBeacon!history
  <1>14. Len(claims') <= 1
    BY <1>1
  <1>15. \A f \in Flows : \A x, y \in Candidates(f) :
            TagSettled(x)' = HashOf[f] /\ TagSettled(y)' = HashOf[f] => x = y
    BY <1>10, CandidatesAreSlots DEF DirectInv
  <1>16. \A s \in Slots : ResSettled(s)' < Decided <=> r_ver'[s] < Decided
    BY <1>4, <1>10 DEF DirectInv
  <1>17. QED
    BY <1>13, <1>14, <1>15, <1>16 DEF DirectInv, Candidates

\* DirectInv of a step that changes none of the registers.
LEMMA DirectStutters ==
  ASSUME DirectInv, UNCHANGED <<r_hash, r_res, r_ver, claimed, claims, took, delay>>
  PROVE  DirectInv'
  <1>1. \A s : TagSettled(s)' = TagSettled(s) /\ ResSettled(s)' = ResSettled(s)
    BY DEF TagSettled, ResSettled, InFlight
  <1>2. QED
    BY <1>1 DEF DirectInv, Candidates

\* Time, the memo and the packets that change no register.
LEMMA DirectInherited ==
  ASSUME DirectInv, delay = 0, Inherited
  PROVE  NetBeacon!Next /\ DirectInv'
  <1>1. UNCHANGED compiled
    BY DEF Inherited
  <1>2. UNCHANGED <<registers, history>>
    BY DEF Inherited, MemoInsert, Tick, Reject, MemoHit
  <1>3. DirectInv'
    BY <1>1, <1>2, DirectStutters DEF registers, history, compiled
  <1>4. UNCHANGED <<NetBeacon!registers, NetBeacon!history>>
    BY <1>1, <1>2, SettledStutters
       DEF registers, history, compiled, NetBeacon!registers, NetBeacon!history
  <1>5. CASE MemoInsert
    <2>1. NetBeacon!MemoInsert
      BY <1>4, <1>5
         DEF MemoInsert, NetBeacon!MemoInsert, Due, NetBeacon!Due, Remembered, NetBeacon!Remembered,
             Room, NetBeacon!Room, NoPacket, NetBeacon!NoPacket
    <2>2. QED
      BY <1>3, <2>1 DEF NetBeacon!Next
  <1>6. CASE Tick
    <2>1. NetBeacon!Tick
      BY <1>4, <1>6
         DEF Tick, NetBeacon!Tick, Due, NetBeacon!Due, controller, NetBeacon!controller,
             NoPacket, NetBeacon!NoPacket
    <2>2. QED
      BY <1>3, <2>1 DEF NetBeacon!Next
  <1>7. ASSUME NEW f \in Flows, Reject(f) PROVE NetBeacon!Next
    <2>1. NetBeacon!Reject(f)
      BY <1>4, <1>7
         DEF Reject, NetBeacon!Reject, Due, NetBeacon!Due, controller, NetBeacon!controller,
             Handled, NetBeacon!Handled
    <2>2. QED
      BY <2>1 DEF NetBeacon!Next, NetBeacon!Packet
  <1>8. ASSUME NEW f \in Flows, MemoHit(f) PROVE NetBeacon!Next
    <2>1. NetBeacon!MemoHit(f)
      BY <1>4, <1>8
         DEF MemoHit, NetBeacon!MemoHit, Due, NetBeacon!Due, controller, NetBeacon!controller,
             Handled, NetBeacon!Handled, Remembered, NetBeacon!Remembered, MemoOf, NetBeacon!MemoOf
    <2>2. QED
      BY <2>1 DEF NetBeacon!Next, NetBeacon!Packet
  <1>9. QED
    BY <1>3, <1>5, <1>6, <1>7, <1>8 DEF Inherited

\* Without delay every step is a step of NetBeacon or changes nothing of it.
LEMMA DirectStep ==
  ASSUME DistinctHashes
  PROVE  SettleInv /\ DirectInv /\ [TofinoNext]_tvars =>
            DirectInv' /\ [delay = 0 => NetBeacon!Next]_(NetBeacon!vars)
  <1> SUFFICES ASSUME SettleInv, DirectInv, [TofinoNext]_tvars
               PROVE  DirectInv' /\ [delay = 0 => NetBeacon!Next]_(NetBeacon!vars)
    OBVIOUS
  <1>1. TofinoTypes
    BY DEF SettleInv
  <1>2. CASE delay # 0
    <2>1. delay' = delay
      BY <1>1, ClaimSteps DEF NoClaimStep, Land, TofinoTakeOver, OwnerClaimStep, TofinoOwner
    <2>2. QED
      BY <1>2, <2>1 DEF DirectInv
  <1>3. CASE delay = 0 /\ UNCHANGED tvars
    <2>1. UNCHANGED <<r_hash, r_res, r_ver, claimed, claims, took, delay>>
      BY <1>3 DEF tvars, vars, registers, history, compiled
    <2>2. UNCHANGED NetBeacon!vars
      BY <1>3, <2>1, SettledStutters
         DEF tvars, vars, registers, controller, history, NetBeacon!vars, NetBeacon!registers,
             NetBeacon!controller, NetBeacon!history
    <2>3. QED
      BY <2>1, <2>2, DirectStutters
  <1>4. CASE delay = 0 /\ Inherited
    BY <1>4, DirectInherited
  <1>5. CASE delay = 0 /\ Land
    BY <1>1, <1>5, DirectLand
  <1>6. ASSUME delay = 0, NEW f \in Flows, TofinoPacket(f)
        PROVE  NetBeacon!Next /\ DirectInv'
    <2>1. PICK pc \in PktCodes :
             \/ TofinoShort(f, pc) \/ TofinoRefuse(f, pc)
             \/ \E s \in Candidates(f) :
                   \/ TofinoTakeOver(f, s, pc)
                   \/ TofinoDetermined(f, s, pc)
                   \/ TofinoBetween(f, s, pc)
                   \/ \E code \in PhaseCodes : TofinoPhase(f, s, pc, code)
                   \/ \E code \in FinalCodes : TofinoFinal(f, s, pc, code)
      BY <1>6 DEF TofinoPacket
    <2>2. NetBeacon!Candidates(f) = Candidates(f)
      BY DEF NetBeacon!Candidates, Candidates, NetBeacon!TwoWay, TwoWay
    <2>3. ASSUME NEW s \in Candidates(f), NetBeacon!NewcomerStep(f, s, pc) \/ NetBeacon!OwnerStep(f, s, pc)
          PROVE  NetBeacon!Next
      BY <2>2, <2>3 DEF NetBeacon!Next, NetBeacon!Packet
    <2>4. CASE TofinoShort(f, pc) \/ TofinoRefuse(f, pc)
      <3>1. NetBeacon!NewcomerStep(f, Way(f), pc) /\ Way(f) \in Candidates(f)
        BY <1>1, <1>6, <2>4, DirectNewcomer
      <3>2. UNCHANGED <<r_hash, r_res, r_ver, claimed, claims, took, delay>>
        BY <2>4 DEF TofinoShort, TofinoRefuse, registers, history, compiled
      <3>3. QED
        BY <2>3, <3>1, <3>2, DirectStutters
    <2>5. ASSUME NEW s \in Candidates(f), TofinoTakeOver(f, s, pc)
          PROVE  NetBeacon!Next /\ DirectInv'
      <3>1. NetBeacon!TakeOver(f, s, pc) /\ DirectInv'
        BY <1>1, <1>6, <2>5, DirectTakeOver
      <3>2. QED
        BY <2>3, <3>1 DEF NetBeacon!NewcomerStep
    <2>6. ASSUME NEW s \in Candidates(f),
                 \/ TofinoDetermined(f, s, pc) \/ TofinoBetween(f, s, pc)
                 \/ \E code \in PhaseCodes : TofinoPhase(f, s, pc, code)
                 \/ \E code \in FinalCodes : TofinoFinal(f, s, pc, code)
          PROVE  NetBeacon!Next /\ DirectInv'
      <3>1. NetBeacon!OwnerStep(f, s, pc) /\ DirectInv'
        BY <1>6, <2>6, DirectOwner
      <3>2. QED
        BY <2>3, <3>1
    <2>7. QED
      BY <2>1, <2>4, <2>5, <2>6
  <1>7. QED
    BY <1>2, <1>3, <1>4, <1>5, <1>6 DEF TofinoNext

\* "With claim_delay_ns = 0 ... the results equal NetBeaconSim": with distinct
\* hashes and without delay the compiled program refines the emulator without
\* recirculation, packet by packet, for every stream, table and clock.
THEOREM ZeroDelayEqualsNetBeacon ==
  ASSUME DistinctHashes PROVE TofinoSpec => ZeroDelayIsNetBeaconSim
<1>1. TofinoInit => SettleInv /\ DirectInv /\ (delay = 0 => NetBeacon!Init)
  <2> SUFFICES ASSUME TofinoInit PROVE SettleInv /\ DirectInv /\ NetBeacon!Init
    OBVIOUS
  <2>1. claims = <<>> /\ DOMAIN claims = {} /\ Len(claims) = 0
    BY DEF TofinoInit
  <2>2. SettleInv
    BY <2>1, TofinoTypesInitially DEF TofinoInit, Init, SettleInv, TakeOvers, InFlight
  <2>3. \A s \in Slots : /\ TagSettled(s) = 0 /\ ResSettled(s) = 0
                         /\ ~ ClaimedSettled(s)
    BY <2>1, NoneInFlight DEF TofinoInit, Init
  <2>4. DirectInv
    <3>1. \A f \in Flows : HashOf[f] # 0
      BY HashAssumption
    <3>2. \A s \in Slots : r_ver[s] = 0
      BY DEF TofinoInit
    <3>3. \A f \in Flows : \A x \in Candidates(f) : TagSettled(x) # HashOf[f]
      BY <2>3, <3>1, CandidatesAreSlots
    <3>4. QED
      BY <2>1, <2>3, <3>2, <3>3 DEF DirectInv
  <2>5. NetBeacon!Init
    <3>1. [s \in Slots |-> took[s] % ClockMod] = [s \in Slots |-> 0]
      <4>1. \A s \in Slots : took[s] = 0
        BY DEF TofinoInit, Init
      <4>2. 0 % ClockMod = 0
        BY ClockAssumption
      <4>3. QED
        BY <4>1, <4>2
    <3>2. /\ [s \in Slots |-> TagSettled(s)] = [s \in Slots |-> 0]
          /\ [s \in Slots |-> ClaimedSettled(s)] = [s \in Slots |-> FALSE]
          /\ [s \in Slots |-> IF ClaimedSettled(s) THEN (took[s] % ClockMod) + Grace ELSE 0]
                = [s \in Slots |-> 0]
      <4>1. \A s \in Slots : ClaimedSettled(s) = FALSE
        BY <2>3 DEF ClaimedSettled
      <4>2. QED
        BY <2>3, <4>1
    <3>3. QED
      BY <3>1, <3>2
         DEF TofinoInit, Init, NetBeacon!Init, Slots, NetBeacon!Slots, NoPacket, NetBeacon!NoPacket
  <2>6. QED
    BY <2>2, <2>4, <2>5
<1>2. QED
  BY <1>1, SettleInvStep, DirectStep, PTL DEF TofinoSpec, ZeroDelayIsNetBeaconSim
=============================================================================
