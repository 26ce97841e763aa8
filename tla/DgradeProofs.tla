---------------------------- MODULE DgradeProofs ----------------------------
(***************************************************************************)
(* Theorems about the parts of dgrade that MCDgrade runs, for every value  *)
(* of the constants of the parts: the keys of a flow agree, so do the      *)
(* definitions of a downgraded flow, verdicts that were deferred are those *)
(* of the switch, and the jobs of a grid are complete, paired and placed   *)
(* alike by every runner.                                                  *)
(***************************************************************************)
EXTENDS MCDgrade, NumberSets, SequenceTheorems, TLAPS

-----------------------------------------------------------------------------
(* FlowKeys, for every set of addresses and ports.                         *)

\* The endpoints are totally ordered, so that _canon turns both directions the
\* same way.
LEMMA EndsAreOrdered ==
    ASSUME NEW d \in FiveTuple
    PROVE  /\ InOrder(d) \/ InOrder(Reversed(d))
           /\ InOrder(d) /\ InOrder(Reversed(d)) => d.src = d.dst /\ d.sp = d.dp
<1>1. d.src \in Nat /\ d.dst \in Nat /\ d.sp \in Nat /\ d.dp \in Nat
  BY KeysAssumption DEF FiveTuple
<1>2. InOrder(d) <=> ~ (d.dst < d.src \/ (d.dst = d.src /\ d.dp < d.sp))
  BY DEF InOrder, Before
<1>3. InOrder(Reversed(d)) <=> ~ (d.src < d.dst \/ (d.src = d.dst /\ d.sp < d.dp))
  BY DEF InOrder, Before, Reversed
<1> QED BY <1>1, <1>2, <1>3

\* The two directions of a flow are counted to one flow.
LEMMA DirectionsShareCanon ==
    ASSUME NEW d \in FiveTuple
    PROVE  Reversed(d) \in FiveTuple /\ CanonKey(Reversed(d)) = CanonKey(d)
<1>1. Reversed(d) \in FiveTuple
  BY DEF FiveTuple, Reversed
<1>3. /\ Reversed(d).src = d.dst /\ Reversed(d).dst = d.src
      /\ Reversed(d).sp = d.dp /\ Reversed(d).dp = d.sp /\ Reversed(d).proto = d.proto
  BY DEF Reversed
<1>4. CASE InOrder(d) /\ InOrder(Reversed(d))
  <2>1. d.src = d.dst /\ d.sp = d.dp
    BY <1>4, EndsAreOrdered
  <2> QED BY <1>1, <1>3, <1>4, <2>1 DEF CanonKey
<1>5. CASE ~ InOrder(d) /\ InOrder(Reversed(d))
  BY <1>1, <1>3, <1>5 DEF CanonKey
<1>6. CASE InOrder(d) /\ ~ InOrder(Reversed(d))
  BY <1>1, <1>3, <1>6 DEF CanonKey
<1> QED BY <1>4, <1>5, <1>6, EndsAreOrdered

\* A key of flow_ids is that of the packet itself or of the other direction.
LEMMA CanonDeterminesFlow ==
    ASSUME NEW d \in FiveTuple, NEW e \in FiveTuple, CanonKey(e) = CanonKey(d)
    PROVE  e \in MemoDirs(d)
<1>1. e = d \/ e = Reversed(d)
  BY DEF FiveTuple, CanonKey, Reversed
<1> QED BY <1>1 DEF MemoDirs

SamePair(a, b, c, d) == (a = c /\ b = d) \/ (a = d /\ b = c)

\* Two pairs of numbers sort to the same pair only if they have the same members.
LEMMA SortedPairs ==
    ASSUME NEW a \in Nat, NEW b \in Nat, NEW c \in Nat, NEW d \in Nat
    PROVE  Lesser(a, b) = Lesser(c, d) /\ Greater(a, b) = Greater(c, d) <=> SamePair(a, b, c, d)
  BY DEF Lesser, Greater, SamePair

\* The tuple that is hashed forgets which address came with which port.
LEMMA TupleKeyForgetsPairing ==
    ASSUME NEW d \in FiveTuple, NEW e \in FiveTuple
    PROVE  TupleKey(e) = TupleKey(d) <=> e \in MemoDirs(d) \cup MemoDirs(Crossed(d))
<1>1. /\ d.src \in Nat /\ d.dst \in Nat /\ d.sp \in Nat /\ d.dp \in Nat
      /\ e.src \in Nat /\ e.dst \in Nat /\ e.sp \in Nat /\ e.dp \in Nat
  BY KeysAssumption DEF FiveTuple
<1>2. TupleKey(e) = TupleKey(d) <=>
         /\ SamePair(e.src, e.dst, d.src, d.dst)
         /\ SamePair(e.sp, e.dp, d.sp, d.dp)
         /\ e.proto = d.proto
  <2>1. TupleKey(e) = TupleKey(d) <=>
           /\ Lesser(e.src, e.dst) = Lesser(d.src, d.dst)
           /\ Greater(e.src, e.dst) = Greater(d.src, d.dst)
           /\ Lesser(e.sp, e.dp) = Lesser(d.sp, d.dp)
           /\ Greater(e.sp, e.dp) = Greater(d.sp, d.dp)
           /\ e.proto = d.proto
    BY DEF TupleKey
  <2> QED BY SMTT(30), <1>1, <2>1, SortedPairs
<1>3. e \in MemoDirs(d) <=>
         \/ e.src = d.src /\ e.dst = d.dst /\ e.sp = d.sp /\ e.dp = d.dp /\ e.proto = d.proto
         \/ e.src = d.dst /\ e.dst = d.src /\ e.sp = d.dp /\ e.dp = d.sp /\ e.proto = d.proto
  BY DEF MemoDirs, Reversed, FiveTuple
<1>4. e \in MemoDirs(Crossed(d)) <=>
         \/ e.src = d.src /\ e.dst = d.dst /\ e.sp = d.dp /\ e.dp = d.sp /\ e.proto = d.proto
         \/ e.src = d.dst /\ e.dst = d.src /\ e.sp = d.sp /\ e.dp = d.dp /\ e.proto = d.proto
  BY DEF MemoDirs, Reversed, Crossed, FiveTuple
<1> QED BY <1>2, <1>3, <1>4 DEF SamePair

\* What the memo answers, what flow_ids counts and what shares a slot's key
\* agree, for any addresses and ports.
THEOREM KeysAlwaysAgree == KeysAgree
<1> SUFFICES ASSUME NEW d \in FiveTuple, NEW e \in FiveTuple
    PROVE  /\ e \in MemoDirs(d) <=> CanonKey(e) = CanonKey(d)
           /\ TupleKey(e) = TupleKey(d) <=> e \in MemoDirs(d) \cup MemoDirs(Crossed(d))
  BY DEF KeysAgree
<1>1. e \in MemoDirs(d) => CanonKey(e) = CanonKey(d)
  BY DirectionsShareCanon DEF MemoDirs
<1>2. CanonKey(e) = CanonKey(d) => e \in MemoDirs(d)
  BY CanonDeterminesFlow
<1> QED BY <1>1, <1>2, TupleKeyForgetsPairing

\* The memo, flow_ids and the hash tables mean the same packets by a flow.
THEOREM FlowsAlwaysHaveOneKey == DgradeSpec => []FlowsHaveOneKey
<1>1. FlowsHaveOneKey
  BY KeysAlwaysAgree DEF FlowsHaveOneKey
<1>2. QED
  BY <1>1, PTL

-----------------------------------------------------------------------------
(* FlowAccounting, for every set of flows, candidate slots, pauses and     *)
(* length of the log.                                                      *)

Holding == {"new_owner", "owner"}
Losing == {"new_owner", "short"}
OutcomeNames == Holding \cup {"rejected", "memo", "short", "collision", "empty"}

LogEntries ==
    [flow : Flows, slot : UNION {Places[f] : f \in Flows}, outcome : OutcomeNames, ts : Nat, long : BOOLEAN]

\* Another flow took the slot of packet i later.
TakenAfter(i) ==
    \E k \in i + 1 .. Len(log) :
       log[k].outcome = "new_owner" /\ log[k].slot = log[i].slot /\ log[k].flow # log[i].flow

\* A slot knows the last flow that was served from it.
SlotsRemember ==
    /\ DOMAIN holder = UNION {Places[f] : f \in Flows}
    /\ \A i \in DOMAIN log :
          log[i].outcome \in Holding =>
             /\ log[i].slot \in Places[log[i].flow]
             /\ holder[log[i].slot] = {log[i].flow} \/ TakenAfter(i)

\* A flow that held a slot takes one or is answered short again only after
\* another flow took its slot.
LossesAreTaken ==
    \A i, j \in DOMAIN log :
       /\ i < j /\ log[i].flow = log[j].flow
       /\ log[i].outcome \in Holding /\ log[j].outcome \in Losing
       => TakenBetween(i, j)

\* The recursion of flow_ids has a solution.
IsFlowIds(g) ==
    g = [i \in DOMAIN log |-> IF StartsFlow(i) THEN i ELSE g[Max(Earlier(i))]]

AccountInv == log \in Seq(LogEntries) /\ SlotsRemember /\ LossesAreTaken /\ \E g : IsFlowIds(g)

\* A set of numbers up to a bound contains its maximum.
LEMMA MaxIsMember ==
    ASSUME NEW top \in Nat, NEW S \in SUBSET (0 .. top), S # {}
    PROVE  Max(S) \in S
<1>1. PICK x \in S : \A y \in S : y <= x
  BY Greatest
<1>2. \A y \in S : x >= y
  BY <1>1
<1>3. QED
  BY <1>1, <1>2 DEF Max

\* The earlier packets of a flow have a last one.
LEMMA LastEarlier ==
    ASSUME log \in Seq(LogEntries), NEW i \in DOMAIN log, Earlier(i) # {}
    PROVE  Max(Earlier(i)) \in Earlier(i)
<1>1. i \in Nat
  BY LenProperties
<1>2. Earlier(i) \in SUBSET (0 .. i)
  BY <1>1 DEF Earlier
<1> HIDE DEF Earlier
<1>3. QED
  BY <1>1, <1>2, MaxIsMember

\* flow_ids solves its recursion.
LEMMA FlowIdsSolve == ASSUME NEW g, IsFlowIds(g) PROVE IsFlowIds(flow_ids)
  BY DEF flow_ids, IsFlowIds

\* The packets of a flow id have the key of the packet that starts it.
LEMMA OneFlowEach ==
    ASSUME log \in Seq(LogEntries), IsFlowIds(flow_ids),
           NEW i \in DOMAIN log, NEW j \in DOMAIN log, flow_ids[i] = flow_ids[j]
    PROVE  log[i].flow = log[j].flow
<1> DEFINE ids == flow_ids
           Same(k) == ids[k] \in DOMAIN log /\ log[ids[k]].flow = log[k].flow
           Bad == {k \in DOMAIN log : ~ Same(k)}
<1>1. DOMAIN log = 1 .. Len(log) /\ Len(log) \in Nat
  BY LenProperties
<1>2. ASSUME NEW k \in Bad, \A l \in Bad : k <= l PROVE FALSE
  <2>1. ids[k] = IF StartsFlow(k) THEN k ELSE ids[Max(Earlier(k))]
    BY DEF IsFlowIds
  <2>2. CASE StartsFlow(k)
    BY <2>1, <2>2
  <2>3. CASE ~ StartsFlow(k)
    <3>1. Max(Earlier(k)) \in Earlier(k)
      BY <2>3, LastEarlier DEF StartsFlow
    <3> DEFINE m == Max(Earlier(k))
    <3>2. m \in DOMAIN log /\ m < k /\ log[m].flow = log[k].flow
      <4> HIDE DEF m
      <4>1. m \in Earlier(k)
        BY <3>1 DEF m
      <4>2. QED
        BY <1>1, <4>1 DEF Earlier
    <3>3. ids[k] = ids[m]
      BY <2>1, <2>3
    <3> HIDE DEF m, ids
    <3>4. m \notin Bad
      BY <1>1, <1>2, <3>2
    <3>5. QED
      BY <3>2, <3>3, <3>4
  <2>4. QED
    BY <2>2, <2>3
<1>3. Bad = {}
  <2>1. Bad \in SUBSET (0 .. Len(log))
    BY <1>1
  <2> HIDE DEF Bad
  <2>2. QED
    BY <1>1, <1>2, <2>1, Least
<1>4. Same(i) /\ Same(j)
  BY <1>3
<1>5. QED
  BY <1>4

\* Lost(i) asks for an owned packet of the same flow before.
LEMMA LostAfterHolding ==
    ASSUME log \in Seq(LogEntries), NEW i \in DOMAIN log
    PROVE  Lost(i) <=> /\ log[i].outcome \in Losing
                       /\ \E j \in PacketsOf(flow_ids[i]) : j < i /\ log[j].outcome \in Holding
<1> DEFINE S == Owned({j \in PacketsOf(flow_ids[i]) : j < i})
<1>1. S = {j \in PacketsOf(flow_ids[i]) : j < i /\ log[j].outcome \in Holding}
  BY DEF Owned, Outcome, Holding
<1>2. S \subseteq DOMAIN log /\ IsFiniteSet(DOMAIN log)
  <2>1. DOMAIN log = 1 .. Len(log) /\ Len(log) \in Nat
    BY LenProperties
  <2>2. IsFiniteSet(DOMAIN log)
    <3>1. IsFiniteSet(1 .. Len(log))
      BY <2>1, FS_Interval
    <3>2. QED
      BY <2>1, <3>1
  <2>3. S \subseteq DOMAIN log
    <3> HIDE DEF S
    <3>1. QED
      BY <1>1 DEF PacketsOf
  <2>4. QED
    BY <2>2, <2>3
<1> HIDE DEF S
<1>3. IsFiniteSet(S) /\ Cardinality(S) \in Nat
  BY <1>2, FS_Subset, FS_CardinalityType
<1>4. Cardinality(S) > 0 <=> S # {}
  BY <1>3, FS_EmptySet
<1>5. Seen(i) = Cardinality(S)
  BY DEF Seen, S
<1>6. Lost(i) <=> log[i].outcome \in Losing /\ S # {}
  BY <1>4, <1>5 DEF Lost, Losing
<1>7. QED
  BY <1>1, <1>6

\* What summarize counts, what the index says and what the early report says.
LEMMA DefinitionsDoAgree == ASSUME log \in Seq(LogEntries) PROVE DefinitionsAgree
<1> SUFFICES ASSUME NEW fid \in FlowIds
    PROVE  /\ SummaryDowngraded(fid) <=> IndexDowngraded(fid) /\ Eligible(fid)
           /\ ReportDowngraded(fid) => IndexDowngraded(fid)
           /\ IndexDowngraded(fid) =>
                 ReportDowngraded(fid) \/ \E i \in PacketsOf(fid) : log[i].outcome = "short" /\ Lost(i)
  BY DEF DefinitionsAgree
<1> DEFINE P == PacketsOf(fid)
           HeldBefore(i) == \E j \in P : j < i /\ log[j].outcome \in Holding
<1>1. \A i \in P : i \in DOMAIN log /\ flow_ids[i] = fid
  BY DEF PacketsOf
<1>2. \A i \in P : Lost(i) <=> log[i].outcome \in Losing /\ HeldBefore(i)
  <2> HIDE DEF P
  <2> SUFFICES ASSUME NEW i \in P PROVE Lost(i) <=> log[i].outcome \in Losing /\ HeldBefore(i)
    OBVIOUS
  <2>1. i \in DOMAIN log /\ PacketsOf(flow_ids[i]) = P
    BY <1>1 DEF P
  <2>2. Lost(i) <=> log[i].outcome \in Losing
                    /\ \E j \in PacketsOf(flow_ids[i]) : j < i /\ log[j].outcome \in Holding
    BY <2>1, LostAfterHolding
  <2>3. QED
    BY <2>1, <2>2
<1>3. Counted(fid) = {i \in P : log[i].outcome # "rejected"}
  BY DEF Counted
<1>4. IndexDowngraded(fid) <=> \E i \in P : log[i].outcome = "collision" \/ Lost(i)
  BY DEF IndexDowngraded
<1>5. Collisions(fid) = {i \in P : log[i].outcome = "collision"}
  BY <1>3 DEF Collisions, Outcome
<1>6. Resets(fid) = {i \in P : log[i].outcome \in Losing /\ HeldBefore(i)}
  BY <1>3 DEF Resets, Outcome, Owned, Losing, Holding
<1> HIDE DEF P, HeldBefore
<1>7. SummaryDowngraded(fid) <=> IndexDowngraded(fid) /\ Eligible(fid)
  BY <1>2, <1>4, <1>5, <1>6 DEF SummaryDowngraded
<1>8. \A i \in Counted(fid) : ReportLost(i) <=> log[i].outcome = "new_owner" /\ HeldBefore(i)
  <2> SUFFICES ASSUME NEW i \in Counted(fid)
      PROVE  ReportLost(i) <=> log[i].outcome = "new_owner" /\ HeldBefore(i)
    OBVIOUS
  <2> DEFINE S == Owned({j \in Counted(flow_ids[i]) : j < i})
  <2>1. flow_ids[i] = fid
    BY <1>1, <1>3
  <2>2. S = {j \in P : j < i /\ log[j].outcome \in Holding}
    BY <1>3, <2>1 DEF Owned, Outcome, Holding
  <2>3. S \subseteq DOMAIN log /\ IsFiniteSet(DOMAIN log)
    <3>1. DOMAIN log = 1 .. Len(log) /\ Len(log) \in Nat
      BY LenProperties
    <3>2. IsFiniteSet(1 .. Len(log))
      BY <3>1, FS_Interval
    <3> HIDE DEF S
    <3>3. QED
      BY <1>1, <2>2, <3>1, <3>2
  <2> HIDE DEF S
  <2>4. IsFiniteSet(S) /\ Cardinality(S) \in Nat
    BY <2>3, FS_Subset, FS_CardinalityType
  <2>5. Cardinality(S) > 0 <=> S # {}
    BY <2>4, FS_EmptySet
  <2>6. ReportLost(i) <=> log[i].outcome = "new_owner" /\ Cardinality(S) > 0
    BY DEF ReportLost, S
  <2>7. QED
    BY <2>2, <2>5, <2>6 DEF HeldBefore
<1>9. ReportDowngraded(fid) <=>
         \E i \in P : log[i].outcome = "collision" \/ (log[i].outcome = "new_owner" /\ HeldBefore(i))
  BY <1>3, <1>8 DEF ReportDowngraded
<1>10. ReportDowngraded(fid) => IndexDowngraded(fid)
  BY <1>2, <1>4, <1>9 DEF Losing
<1>11. IndexDowngraded(fid) =>
          ReportDowngraded(fid) \/ \E i \in P : log[i].outcome = "short" /\ Lost(i)
  BY <1>2, <1>4, <1>9 DEF Losing
<1>12. QED
  BY <1>7, <1>10, <1>11 DEF P

\* A flow is downgraded by contention alone.
LEMMA ContentionAlone == ASSUME AccountInv PROVE DowngradedByContention
<1> SUFFICES ASSUME NEW fid \in FlowIds
    PROVE  IndexDowngraded(fid) <=>
              \/ \E j \in PacketsOf(fid) : log[j].outcome = "collision"
              \/ \E i, j \in PacketsOf(fid) :
                    /\ i < j /\ TakenBetween(i, j)
                    /\ log[i].outcome \in {"new_owner", "owner"}
                    /\ log[j].outcome \in {"new_owner", "short"}
  BY DEF DowngradedByContention
<1> DEFINE P == PacketsOf(fid)
<1>0. log \in Seq(LogEntries) /\ LossesAreTaken /\ IsFlowIds(flow_ids)
  BY FlowIdsSolve DEF AccountInv
<1>1. \A i \in P : i \in DOMAIN log /\ flow_ids[i] = fid
  BY DEF PacketsOf
<1>2. \A j \in P : Lost(j) <=> log[j].outcome \in Losing /\ \E i \in P : i < j /\ log[i].outcome \in Holding
  <2> HIDE DEF P
  <2> SUFFICES ASSUME NEW j \in P
      PROVE  Lost(j) <=> log[j].outcome \in Losing /\ \E i \in P : i < j /\ log[i].outcome \in Holding
    OBVIOUS
  <2>1. PacketsOf(flow_ids[j]) = P
    BY <1>1 DEF P
  <2>2. QED
    BY <1>0, <1>1, <2>1, LostAfterHolding
<1>3. \A i, j \in P : log[i].flow = log[j].flow
  BY <1>0, <1>1, OneFlowEach
<1>4. \A i, j \in P : i < j /\ log[i].outcome \in Holding /\ log[j].outcome \in Losing => TakenBetween(i, j)
  BY <1>0, <1>1, <1>3 DEF LossesAreTaken
<1>5. IndexDowngraded(fid) <=> \E j \in P : log[j].outcome = "collision" \/ Lost(j)
  BY DEF IndexDowngraded
<1> HIDE DEF P
<1>6. QED
  BY <1>2, <1>4, <1>5 DEF P, Losing, Holding

\* No packet is logged at first.
LEMMA AccountInitInv == AccountInit => AccountInv
<1> SUFFICES ASSUME AccountInit PROVE AccountInv
  OBVIOUS
<1>1. log = <<>> /\ log \in Seq(LogEntries) /\ DOMAIN log = {}
  BY EmptySeq DEF AccountInit
<1>2. SlotsRemember /\ LossesAreTaken
  BY <1>1 DEF AccountInit, OutcomesInit, SlotsRemember, LossesAreTaken
<1>3. IsFlowIds([i \in DOMAIN log |-> 0])
  BY <1>1 DEF IsFlowIds
<1>4. QED
  BY <1>1, <1>2, <1>3 DEF AccountInv

\* A packet that is answered and logged.
LEMMA AccountPacketInv == ASSUME AccountInv, AccountPacket PROVE AccountInv'
<1>a. PICK f \in Flows : \E s \in Places[f] : Answers(f, s)
  BY DEF AccountPacket
<1>1. PICK s \in Places[f] : Answers(f, s)
  BY <1>a
<1>2. PICK pause \in Pauses, long \in BOOLEAN :
         log' = Append(log, [flow |-> packet'.flow, slot |-> packet'.slot,
                             outcome |-> packet'.outcome, ts |-> Ts(pause), long |-> long])
  BY DEF AccountPacket
<1> DEFINE o == packet'.outcome
           n == Len(log)
           new == [flow |-> f, slot |-> s, outcome |-> o, ts |-> Ts(pause), long |-> long]
<1>3. packet' = Told(f, s, o) /\ o \in OutcomeNames
  BY <1>1 DEF Answers, Rejected, FromMemo, FromSlot, Refused, TakesOver, Told, OutcomeNames, Holding
<1>4. log' = Append(log, new)
  BY <1>2, <1>3 DEF Told
<1>5. /\ o \in Losing => Homeless(f)
      /\ o = "owner" => Holds(f, s)
      /\ o = "new_owner" => holder' = [holder EXCEPT ![s] = {f}]
      /\ o # "new_owner" => holder' = holder
  BY <1>1 DEF Answers, Rejected, FromMemo, FromSlot, Refused, TakesOver, Told, Losing
<1>6. n \in Nat /\ DOMAIN log = 1 .. n /\ log \in Seq(LogEntries)
  BY LenProperties DEF AccountInv
<1>7. Ts(pause) \in Nat
  <2>1. CASE log = <<>>
    BY <2>1 DEF Ts
  <2>2. CASE log # <<>>
    <3>1. n \in DOMAIN log
      BY <1>6, <2>2, EmptySeq
    <3>2. log[n] \in LogEntries
      BY <1>6, <3>1, ElementOfSeq
    <3>3. QED
      BY <2>2, <3>2, AccountAssumption DEF Ts, LogEntries
  <2>3. QED
    BY <2>1, <2>2
<1>8. new \in LogEntries
  <2> HIDE DEF o
  <2>1. s \in UNION {Places[g] : g \in Flows}
    OBVIOUS
  <2>2. QED
    BY <1>3, <1>7, <2>1 DEF LogEntries
<1> HIDE DEF new
<1>9. /\ log' \in Seq(LogEntries) /\ Len(log') = n + 1 /\ DOMAIN log' = 1 .. n + 1
      /\ \A i \in 1 .. n : log'[i] = log[i]
      /\ log'[n + 1] = new
  BY <1>4, <1>6, <1>8, AppendProperties, LenProperties
<1>10. new.flow = f /\ new.slot = s /\ new.outcome = o
  BY DEF new
<1> HIDE DEF o, n
<1>11. SlotsRemember'
  <2>1. DOMAIN holder' = UNION {Places[g] : g \in Flows}
    BY <1>5 DEF AccountInv, SlotsRemember
  <2>2. ASSUME o \in Holding PROVE s \in Places[f] /\ holder'[s] = {f}
    <3>1. s \in DOMAIN holder
      BY DEF AccountInv, SlotsRemember
    <3>2. QED
      BY <1>5, <2>2, <3>1 DEF Holding, Holds
  <2>3. ASSUME NEW i \in 1 .. n, log[i].outcome \in Holding
        PROVE  /\ log[i].slot \in Places[log[i].flow]
               /\ holder'[log[i].slot] = {log[i].flow} \/ TakenAfter(i)'
    <3> DEFINE g == log[i].flow
               t == log[i].slot
    <3>1. t \in Places[g] /\ (holder[t] = {g} \/ TakenAfter(i))
      BY <1>6, <2>3 DEF AccountInv, SlotsRemember
    <3>0. t \in DOMAIN holder
      <4>1. log[i] \in LogEntries
        BY <1>6, ElementOfSeq
      <4>2. QED
        BY <4>1 DEF AccountInv, SlotsRemember, LogEntries
    <3> HIDE DEF g, t
    <3>2. CASE TakenAfter(i)
      <4>1. PICK k \in i + 1 .. n :
               log[k].outcome = "new_owner" /\ log[k].slot = log[i].slot /\ log[k].flow # log[i].flow
        BY <3>2 DEF TakenAfter, n
      <4>2. k \in 1 .. n /\ k \in i + 1 .. n + 1
        BY <1>6, <4>1
      <4>3. log'[i] = log[i] /\ log'[k] = log[k] /\ k \in i + 1 .. Len(log')
        BY <1>9, <4>2
      <4>4. TakenAfter(i)'
        BY <4>1, <4>3 DEF TakenAfter
      <4>5. QED
        BY <3>1, <4>4 DEF g, t
    <3>3. CASE holder[t] = {g}
      <4>1. CASE o # "new_owner" \/ t # s
        <5>1. holder'[t] = {g}
          BY <1>5, <3>0, <3>3, <4>1
        <5>2. QED
          BY <3>1, <5>1 DEF g, t
      <4>2. CASE o = "new_owner" /\ t = s
        <5>1. f # g
          BY <1>5, <3>1, <3>3, <4>2 DEF Homeless, Holds, Losing
        <5>2. n + 1 \in i + 1 .. n + 1
          BY <1>6
        <5>3. TakenAfter(i)'
          BY <1>9, <1>10, <4>2, <5>1, <5>2 DEF TakenAfter, g, t
        <5>4. QED
          BY <3>1, <5>3 DEF g, t
      <4>3. QED
        BY <4>1, <4>2
    <3>4. QED
      BY <3>1, <3>2, <3>3
  <2>4. ASSUME NEW i \in DOMAIN log', log'[i].outcome \in Holding
        PROVE  /\ log'[i].slot \in Places[log'[i].flow]
               /\ holder'[log'[i].slot] = {log'[i].flow} \/ TakenAfter(i)'
    <3>1. CASE i \in 1 .. n
      BY <1>9, <2>3, <2>4, <3>1
    <3>2. CASE i = n + 1
      BY <1>9, <1>10, <2>2, <2>4, <3>2
    <3>3. QED
      BY <1>6, <1>9, <3>1, <3>2
  <2>5. QED
    BY <2>1, <2>4 DEF SlotsRemember
<1>12. LossesAreTaken'
  <2> SUFFICES ASSUME NEW i \in DOMAIN log', NEW j \in DOMAIN log', i < j, log'[i].flow = log'[j].flow,
                      log'[i].outcome \in Holding, log'[j].outcome \in Losing
      PROVE  \E k \in i + 1 .. j - 1 :
                log'[k].outcome = "new_owner" /\ log'[k].slot = log'[i].slot /\ log'[k].flow # log'[i].flow
    BY DEF LossesAreTaken, TakenBetween
  <2>1. i \in 1 .. n /\ log'[i] = log[i]
    BY <1>6, <1>9
  <2>2. PICK k \in i + 1 .. j - 1 :
           log[k].outcome = "new_owner" /\ log[k].slot = log[i].slot /\ log[k].flow # log[i].flow
    <3>1. CASE j \in 1 .. n
      <4>1. log'[j] = log[j]
        BY <1>9, <3>1
      <4>2. TakenBetween(i, j)
        BY <1>6, <2>1, <3>1, <4>1 DEF AccountInv, LossesAreTaken
      <4>3. QED
        BY <4>2 DEF TakenBetween
    <3>2. CASE j = n + 1
      <4>1. Homeless(f) /\ log[i].flow = f
        BY <1>5, <1>9, <1>10, <2>1, <3>2
      <4>2. log[i].slot \in Places[f] /\ (holder[log[i].slot] = {f} \/ TakenAfter(i))
        BY <1>6, <2>1, <4>1 DEF AccountInv, SlotsRemember
      <4>3. TakenAfter(i)
        BY <4>1, <4>2 DEF Homeless, Holds
      <4>4. n + 1 - 1 = n
        BY <1>6
      <4>5. QED
        BY <3>2, <4>3, <4>4 DEF TakenAfter, n
    <3>3. QED
      BY <1>6, <1>9, <3>1, <3>2
  <2>3. k \in 1 .. n
    BY <1>6, <1>9, <2>1
  <2>4. log'[k] = log[k]
    BY <1>9, <2>3
  <2>5. QED
    BY <2>1, <2>2, <2>4
<1>13. \E g : IsFlowIds(g)'
  <2>1. PICK g : IsFlowIds(g)
    BY DEF AccountInv
  <2>2. ASSUME NEW i \in 1 .. n PROVE Earlier(i)' = Earlier(i) /\ (StartsFlow(i)' <=> StartsFlow(i))
    <3>1. Earlier(i)' = Earlier(i)
      <4>1. \A j \in 1 .. i - 1 : j \in 1 .. n
        BY <1>6
      <4>2. QED
        BY <1>9, <4>1 DEF Earlier
    <3>2. CASE Earlier(i) = {}
      BY <3>1, <3>2 DEF StartsFlow
    <3>3. CASE Earlier(i) # {}
      <4>1. Max(Earlier(i)) \in Earlier(i)
        BY <1>6, <3>3, LastEarlier
      <4>2. Max(Earlier(i)) \in 1 .. n
        BY <1>6, <4>1 DEF Earlier
      <4>3. QED
        BY <1>9, <3>1, <4>2 DEF StartsFlow
    <3>4. QED
      BY <3>1, <3>2, <3>3
  <2>3. ASSUME NEW i \in DOMAIN log', ~ StartsFlow(i)' PROVE Max(Earlier(i)') \in 1 .. n
    <3>1. Earlier(i)' # {}
      BY <2>3 DEF StartsFlow
    <3>2. Earlier(i)' \subseteq 1 .. n
      BY <1>6, <1>9 DEF Earlier
    <3>3. Max(Earlier(i)') \in Earlier(i)'
      <4>1. Earlier(i)' \in SUBSET (0 .. n)
        BY <1>6, <3>2
      <4>2. QED
        BY <1>6, <3>1, <4>1, MaxIsMember
    <3>4. QED
      BY <3>2, <3>3
  <2> DEFINE h == [i \in DOMAIN log' |->
                     IF i \in 1 .. n THEN g[i] ELSE IF StartsFlow(i)' THEN i ELSE g[Max(Earlier(i)')]]
  <2>4. ASSUME NEW i \in DOMAIN log'
        PROVE  h[i] = IF StartsFlow(i)' THEN i ELSE h[Max(Earlier(i)')]
    <3>1. ASSUME ~ StartsFlow(i)' PROVE h[Max(Earlier(i)')] = g[Max(Earlier(i)')]
      <4>1. Max(Earlier(i)') \in 1 .. n /\ Max(Earlier(i)') \in DOMAIN log'
        BY <1>6, <1>9, <2>3, <3>1
      <4>2. QED
        BY <4>1
    <3>2. CASE i \in 1 .. n
      <4>1. g[i] = IF StartsFlow(i) THEN i ELSE g[Max(Earlier(i))]
        BY <1>6, <2>1, <3>2 DEF IsFlowIds
      <4>2. h[i] = g[i]
        BY <3>2
      <4> HIDE DEF h
      <4>3. QED
        BY <2>2, <3>1, <3>2, <4>1, <4>2
    <3>3. CASE i \notin 1 .. n
      <4>1. h[i] = IF StartsFlow(i)' THEN i ELSE g[Max(Earlier(i)')]
        BY <3>3
      <4> HIDE DEF h
      <4>2. QED
        BY <3>1, <4>1
    <3>4. QED
      BY <3>2, <3>3
  <2>5. h = [i \in DOMAIN log' |-> h[i]]
    OBVIOUS
  <2> HIDE DEF h
  <2>6. h = [i \in DOMAIN log' |-> IF StartsFlow(i)' THEN i ELSE h[Max(Earlier(i)')]]
    BY <2>4, <2>5
  <2>7. QED
    BY <2>6 DEF IsFlowIds
<1>14. QED
  BY <1>9, <1>11, <1>12, <1>13 DEF AccountInv

\* Every step keeps the invariant; what the memo learns is not logged.
LEMMA AccountNextInv == AccountInv /\ [AccountNext]_accountVars => AccountInv'
<1> SUFFICES ASSUME AccountInv, [AccountNext]_accountVars PROVE AccountInv'
  OBVIOUS
<1>1. ASSUME log' = log, holder' = holder PROVE AccountInv'
  <2>1. SlotsRemember' /\ LossesAreTaken'
    BY <1>1 DEF AccountInv, SlotsRemember, LossesAreTaken, TakenAfter, TakenBetween
  <2>2. \E g : IsFlowIds(g)'
    <3>1. PICK g : IsFlowIds(g)
      BY DEF AccountInv
    <3>2. \A i : Earlier(i)' = Earlier(i) /\ (StartsFlow(i)' <=> StartsFlow(i))
      BY <1>1 DEF Earlier, StartsFlow
    <3>3. IsFlowIds(g)'
      BY <1>1, <3>1, <3>2 DEF IsFlowIds
    <3>4. QED
      BY <3>3
  <2>3. QED
    BY <1>1, <2>1, <2>2 DEF AccountInv
<1>2. CASE AccountPacket
  BY <1>2, AccountPacketInv
<1>3. CASE AccountLearns
  BY <1>1, <1>3 DEF AccountLearns, Learns
<1>4. CASE UNCHANGED accountVars
  BY <1>1, <1>4 DEF accountVars, outcomeVars
<1>5. QED
  BY <1>2, <1>3, <1>4 DEF AccountNext

\* In the run of all parts the accounts behave as alone.
LEMMA AccountsRun ==
  /\ DgradeInit /\ running = "accounts" => AccountInit
  /\ [DgradeNext]_DgradeVars => running' = running /\ (running = "accounts" => [AccountNext]_accountVars)
<1>1. DgradeInit /\ running = "accounts" => AccountInit
  BY DEF DgradeInit
<1>2. [DgradeNext]_DgradeVars => running' = running /\ (running = "accounts" => [AccountNext]_accountVars)
  BY DEF DgradeNext, DgradeVars, FirstParts
<1>3. QED
  BY <1>1, <1>2

\* summarize, downgraded_flows and the early report count the same flows as
\* downgraded but for the named differences, and such a flow was refused at a
\* held slot or lost its slot to another flow: for any flows, candidate slots,
\* idle times and streams.
THEOREM AccountsAlwaysAgree == DgradeSpec => []AccountsAgree
<1> DEFINE Inv == running = "accounts" => AccountInv
<1>1. DgradeInit => Inv
  BY AccountsRun, AccountInitInv
<1>2. Inv /\ [DgradeNext]_DgradeVars => Inv'
  BY AccountsRun, AccountNextInv
<1>3. Inv => AccountsAgree
  BY DefinitionsDoAgree, ContentionAlone DEF AccountsAgree, AccountInv
<1> HIDE DEF Inv
<1>4. QED
  BY <1>1, <1>2, <1>3, PTL DEF DgradeSpec

-----------------------------------------------------------------------------
(* PhaseGate, for any flows, slots, verdicts and phases: the stored value  *)
(* of an epoch as a recursion over its events.                             *)

IsStates(g, codes, first, evs, n) ==
    g = [k \in 0 .. n |-> IF k = 0 THEN first ELSE Gate!Sticky(codes, g[k - 1], evs[k])]

\* Two solutions agree as far as their events do.
LEMMA StatesAgree ==
    ASSUME NEW codes, NEW first, NEW evs, NEW ews, NEW n \in Nat, NEW m \in Nat, NEW g, NEW h,
           NEW k \in 0 .. n, k \in 0 .. m,
           IsStates(g, codes, first, evs, n), IsStates(h, codes, first, ews, m),
           \A j \in 1 .. k : evs[j] = ews[j]
    PROVE  g[k] = h[k]
<1> SUFFICES ASSUME g[k] # h[k] PROVE FALSE
  OBVIOUS
<1> DEFINE T == {j \in 0 .. k : g[j] # h[j]}
<1>1. T \in SUBSET (0 .. k) /\ T # {} /\ k \in Nat
  OBVIOUS
<1>2. PICK j \in T : \A i \in T : j <= i
  <2> HIDE DEF T
  <2> QED BY <1>1, Least
<1>3. j \in 0 .. n /\ j \in 0 .. m /\ j \in 0 .. k
  OBVIOUS
<1>4. /\ g[j] = IF j = 0 THEN first ELSE Gate!Sticky(codes, g[j - 1], evs[j])
      /\ h[j] = IF j = 0 THEN first ELSE Gate!Sticky(codes, h[j - 1], ews[j])
  BY <1>3 DEF IsStates
<1>5. j # 0
  BY <1>2, <1>4
<1>6. j - 1 \in 0 .. k /\ j \in 1 .. k /\ j - 1 < j
  BY <1>3, <1>5
<1>7. g[j - 1] = h[j - 1]
  BY <1>2, <1>6
<1> QED BY <1>2, <1>4, <1>6, <1>7

\* The recursion has a solution for every number of events.
LEMMA StatesExist ==
    ASSUME NEW codes, NEW first, NEW evs, NEW n \in Nat
    PROVE  \E g : IsStates(g, codes, first, evs, n)
<1> SUFFICES ASSUME ~ \E g : IsStates(g, codes, first, evs, n) PROVE FALSE
  OBVIOUS
<1> DEFINE T == {k \in 0 .. n : ~ \E g : IsStates(g, codes, first, evs, k)}
<1>1. T \in SUBSET (0 .. n) /\ T # {}
  OBVIOUS
<1>2. PICK k \in T : \A i \in T : k <= i
  <2> HIDE DEF T
  <2> QED BY <1>1, Least
<1>3. k \in Nat /\ k \in 0 .. n /\ ~ \E g : IsStates(g, codes, first, evs, k)
  OBVIOUS
<1>4. k # 0
  <2> SUFFICES ASSUME k = 0 PROVE FALSE
    OBVIOUS
  <2> DEFINE g == [j \in 0 .. 0 |-> first]
  <2>1. g = [j \in 0 .. 0 |-> IF j = 0 THEN first ELSE Gate!Sticky(codes, g[j - 1], evs[j])]
    OBVIOUS
  <2> HIDE DEF g
  <2> QED BY <1>3, <2>1 DEF IsStates
<1>5. PICK g : IsStates(g, codes, first, evs, k - 1)
  BY <1>2, <1>3, <1>4
<1> DEFINE h == [j \in 0 .. k |-> IF j = k THEN Gate!Sticky(codes, g[k - 1], evs[k]) ELSE g[j]]
<1>6. ASSUME NEW j \in 0 .. k
      PROVE  h[j] = IF j = 0 THEN first ELSE Gate!Sticky(codes, h[j - 1], evs[j])
  <2>1. CASE j = k
    <3>1. h[j] = Gate!Sticky(codes, g[k - 1], evs[k]) /\ h[k - 1] = g[k - 1]
      BY <1>3, <1>4, <2>1
    <3> HIDE DEF h
    <3> QED BY <1>4, <2>1, <3>1
  <2>2. CASE j # k
    <3>1. h[j] = g[j] /\ (j # 0 => h[j - 1] = g[j - 1]) /\ j \in 0 .. k - 1
      BY <1>3, <2>2
    <3> HIDE DEF h
    <3>2. g[j] = IF j = 0 THEN first ELSE Gate!Sticky(codes, g[j - 1], evs[j])
      BY <1>5, <3>1 DEF IsStates
    <3> QED BY <3>1, <3>2
  <2> QED BY <2>1, <2>2
<1>7. h = [j \in 0 .. k |-> h[j]]
  OBVIOUS
<1> HIDE DEF h
<1>8. IsStates(h, codes, first, evs, k)
  BY <1>6, <1>7 DEF IsStates
<1> QED BY <1>3, <1>8

LEMMA StatesSolve ==
    ASSUME NEW codes, NEW first, NEW evs, NEW n \in Nat
    PROVE  \E g : IsStates(g, codes, first, evs, n) /\ Gate!StateAfter(codes, first, evs, n) = g[n]
<1> DEFINE st == CHOOSE g : g = [k \in 0 .. n |-> IF k = 0 THEN first ELSE Gate!Sticky(codes, g[k - 1], evs[k])]
<1>1. \E g : g = [k \in 0 .. n |-> IF k = 0 THEN first ELSE Gate!Sticky(codes, g[k - 1], evs[k])]
  <2>1. \E g : IsStates(g, codes, first, evs, n)
    BY StatesExist
  <2> QED BY <2>1 DEF IsStates
<1>2. st = [k \in 0 .. n |-> IF k = 0 THEN first ELSE Gate!Sticky(codes, st[k - 1], evs[k])]
  <2> DEFINE Solves(g) == g = [k \in 0 .. n |-> IF k = 0 THEN first ELSE Gate!Sticky(codes, g[k - 1], evs[k])]
  <2>1. \E g : Solves(g)
    BY <1>1
  <2>2. st = CHOOSE g : Solves(g)
    OBVIOUS
  <2> HIDE DEF Solves
  <2>3. Solves(CHOOSE g : Solves(g))
    BY <2>1, Zenon
  <2> HIDE DEF st
  <2>4. Solves(st)
    BY <2>2, <2>3
  <2> QED BY <2>4 DEF Solves
<1>3. Gate!StateAfter(codes, first, evs, n) = st[n]
  BY Zenon DEF Gate!StateAfter
<1> HIDE DEF st
<1> QED BY <1>2, <1>3 DEF IsStates

\* The value stored after no event.
LEMMA StateFirst ==
    ASSUME NEW codes, NEW first, NEW evs
    PROVE  Gate!StateAfter(codes, first, evs, 0) = first
<1>1. PICK g : IsStates(g, codes, first, evs, 0) /\ Gate!StateAfter(codes, first, evs, 0) = g[0]
  BY StatesSolve
<1> QED BY <1>1 DEF IsStates

\* The value stored after one event more.
LEMMA StateNext ==
    ASSUME NEW codes, NEW first, NEW evs, NEW n \in Nat
    PROVE  Gate!StateAfter(codes, first, evs, n + 1)
             = Gate!Sticky(codes, Gate!StateAfter(codes, first, evs, n), evs[n + 1])
<1>1. PICK g : IsStates(g, codes, first, evs, n) /\ Gate!StateAfter(codes, first, evs, n) = g[n]
  BY StatesSolve
<1>2. PICK h : IsStates(h, codes, first, evs, n + 1) /\ Gate!StateAfter(codes, first, evs, n + 1) = h[n + 1]
  <2>1. n + 1 \in Nat
    OBVIOUS
  <2> QED BY <2>1, StatesSolve
<1>3. g[n] = h[n]
  <2>1. n + 1 \in Nat /\ n \in 0 .. n /\ n \in 0 .. n + 1
    OBVIOUS
  <2> QED BY <1>1, <1>2, <2>1, StatesAgree
<1>4. h[n + 1] = Gate!Sticky(codes, h[n], evs[n + 1])
  <2>1. n + 1 \in 0 .. n + 1 /\ n + 1 # 0 /\ (n + 1) - 1 = n
    OBVIOUS
  <2> QED BY <1>2, <2>1 DEF IsStates
<1> QED BY <1>1, <1>2, <1>3, <1>4

\* Later events do not change what was stored before them.
LEMMA StateIsPast ==
    ASSUME NEW codes, NEW first, NEW evs, NEW ews, NEW n \in Nat, \A j \in 1 .. n : evs[j] = ews[j]
    PROVE  Gate!StateAfter(codes, first, evs, n) = Gate!StateAfter(codes, first, ews, n)
<1>1. PICK g : IsStates(g, codes, first, evs, n) /\ Gate!StateAfter(codes, first, evs, n) = g[n]
  BY StatesSolve
<1>2. PICK h : IsStates(h, codes, first, ews, n) /\ Gate!StateAfter(codes, first, ews, n) = h[n]
  BY StatesSolve
<1>3. n \in 0 .. n
  OBVIOUS
<1> QED BY <1>1, <1>2, <1>3, StatesAgree

-----------------------------------------------------------------------------
(* The lists of the replay only grow.                                      *)

IsList(s) == \E n \in Nat : s = [i \in 1 .. n |-> s[i]]

\* A list has a length.
LEMMA ListHasLength ==
    ASSUME NEW s, IsList(s)
    PROVE  Len(s) \in Nat /\ DOMAIN s = 1 .. Len(s) /\ s = [i \in 1 .. Len(s) |-> s[i]]
<1>1. PICK n \in Nat : s = [i \in 1 .. n |-> s[i]]
  BY DEF IsList
<1>2. s \in Seq({s[i] : i \in 1 .. n})
  <2>1. s \in [1 .. n -> {s[i] : i \in 1 .. n}]
    BY <1>1
  <2> QED BY <2>1
<1>3. Len(s) \in Nat /\ DOMAIN s = 1 .. Len(s)
  BY <1>2
<1>4. DOMAIN s = 1 .. n
  BY <1>1
<1>5. s = [i \in 1 .. Len(s) |-> s[i]]
  BY <1>1, <1>3, <1>4
<1> QED BY <1>3, <1>5

IsAppended(t, s, x) ==
    /\ IsList(t) /\ Len(t) = Len(s) + 1 /\ DOMAIN t = 1 .. Len(s) + 1
    /\ t[Len(s) + 1] = x /\ \A i \in 1 .. Len(s) : t[i] = s[i]

\* What Append does to a list.
LEMMA ListAppend == ASSUME NEW s, NEW x, IsList(s) PROVE IsAppended(Append(s, x), s, x)
<1> DEFINE S == {s[i] : i \in DOMAIN s} \cup {x}
<1>1. Len(s) \in Nat /\ DOMAIN s = 1 .. Len(s) /\ s = [i \in 1 .. Len(s) |-> s[i]]
  BY ListHasLength
<1>2. s \in Seq(S) /\ x \in S
  <2>1. s \in [1 .. Len(s) -> S]
    BY <1>1
  <2> QED BY <1>1, <2>1
<1> HIDE DEF S
<1>3. PICK n, t : n \in Nat /\ n = Len(s) /\ t = Append(s, x)
  BY <1>1
<1>4. t \in Seq(S) /\ Len(t) = n + 1 /\ t[n + 1] = x /\ \A i \in 1 .. n : t[i] = s[i]
  BY <1>2, <1>3
<1>5. t \in [1 .. Len(t) -> S]
  BY <1>4
<1>6. t = [i \in 1 .. n + 1 |-> t[i]] /\ DOMAIN t = 1 .. n + 1
  BY <1>4, <1>5
<1>7. IsList(t)
  <2>1. n + 1 \in Nat
    BY <1>3
  <2> QED BY <1>6, <2>1 DEF IsList
<1> QED BY <1>3, <1>4, <1>6, <1>7 DEF IsAppended

Prolongs(t, s) == Len(s) <= Len(t) /\ \A i \in 1 .. Len(s) : t[i] = s[i]

\* So it is longer, and begins with the list.
LEMMA AppendProlongs == ASSUME NEW s, NEW t, NEW x, IsList(s), IsAppended(t, s, x) PROVE Prolongs(t, s)
<1>1. PICK n : n = Len(s) /\ n \in Nat
  BY ListHasLength
<1>2. Len(t) = n + 1 /\ \A i \in 1 .. n : t[i] = s[i]
  BY <1>1 DEF IsAppended
<1> QED BY <1>1, <1>2 DEF Prolongs

\* A list begins with itself.
LEMMA SameProlongs == ASSUME NEW s, IsList(s) PROVE Prolongs(s, s)
<1>1. PICK n : n = Len(s) /\ n \in Nat
  BY ListHasLength
<1> QED BY <1>1 DEF Prolongs

-----------------------------------------------------------------------------
(* The invariant: the stored value of a slot is that of its epoch after    *)
(* all events so far, and no two slots are in one epoch.                   *)

GateSlots == {slot[f] : f \in GateFlows}
HasOwner(s) == reg[s].owner # {}

IsReg(cell) == cell = [owner |-> cell.owner, pk |-> cell.pk, res |-> cell.res, src |-> cell.src, epoch |-> cell.epoch]

GateRegs == reg = [s \in GateSlots |-> reg[s]] /\ \A s \in GateSlots : IsReg(reg[s])

GateLists ==
    /\ IsList(inits) /\ IsList(events) /\ IsList(epoch_events) /\ IsList(gateStream)
    /\ Len(epoch_events) = Len(inits)
    /\ \A e \in DOMAIN inits : IsList(epoch_events[e])
    /\ \A e \in DOMAIN inits : \A k \in DOMAIN epoch_events[e] : epoch_events[e][k] \in DOMAIN events

StoredOf(e) == Gate!StateAt(e, Len(epoch_events[e]))

EpochsStored ==
    \A s \in GateSlots : HasOwner(s) =>
        reg[s].epoch \in DOMAIN inits /\ StoredOf(reg[s].epoch) = [res |-> reg[s].res, src |-> reg[s].src]

EpochsApart ==
    \A s, t \in GateSlots : HasOwner(s) /\ HasOwner(t) /\ reg[s].epoch = reg[t].epoch => s = t

Noted(p) == p.vkind = "slot" => p.vepoch \in DOMAIN inits /\ p.vevent \in 0 .. Len(epoch_events[p.vepoch])

GateInv ==
    /\ GateRegs /\ GateLists /\ EpochsStored /\ EpochsApart
    /\ \A i \in DOMAIN gateStream : Noted(gateStream[i])
    /\ Gate!ResolveEqualsSwitch

\* Nothing is taken back: neither takeovers, nor events, nor an epoch's events.
Grows ==
    /\ pc' = pc /\ Prolongs(inits', inits) /\ Prolongs(events', events)
    /\ \A e \in DOMAIN inits : Prolongs(epoch_events'[e], epoch_events[e])

\* While lists only grow, what an epoch stored after some events stays.
LEMMA StateIsStable ==
    ASSUME GateLists, GateLists', Grows, NEW e \in DOMAIN inits, NEW n \in 0 .. Len(epoch_events[e])
    PROVE  Gate!StateAt(e, n)' = Gate!StateAt(e, n)
<1>1. /\ Len(inits) \in Nat /\ DOMAIN inits = 1 .. Len(inits)
      /\ Len(inits') \in Nat /\ DOMAIN inits' = 1 .. Len(inits')
      /\ Len(events) \in Nat /\ DOMAIN events = 1 .. Len(events)
      /\ Len(events') \in Nat /\ DOMAIN events' = 1 .. Len(events')
  BY ListHasLength DEF GateLists
<1>2. e \in DOMAIN inits' /\ inits'[e] = inits[e]
  BY <1>1 DEF Grows, Prolongs
<1>3. /\ Len(epoch_events[e]) \in Nat /\ DOMAIN epoch_events[e] = 1 .. Len(epoch_events[e])
      /\ Len(epoch_events'[e]) \in Nat /\ DOMAIN epoch_events'[e] = 1 .. Len(epoch_events'[e])
  BY <1>2, ListHasLength DEF GateLists
<1> DEFINE evs == [k \in DOMAIN epoch_events[e] |-> events[epoch_events[e][k]]]
           ews == [k \in DOMAIN epoch_events'[e] |-> events'[epoch_events'[e][k]]]
           first == [res |-> pc[inits[e]], src |-> Gate!Pkt]
<1>4. n \in Nat /\ 1 .. n \subseteq 1 .. Len(epoch_events[e])
  BY <1>3
<1>5. Prolongs(epoch_events'[e], epoch_events[e]) /\ Prolongs(events', events)
  BY DEF Grows
<1>6. ASSUME NEW j \in 1 .. n PROVE evs[j] = ews[j]
  <2>1. j \in 1 .. Len(epoch_events[e]) /\ j \in 1 .. Len(epoch_events'[e])
    BY <1>3, <1>4, <1>5 DEF Prolongs
  <2>2. epoch_events'[e][j] = epoch_events[e][j]
    BY <1>5, <2>1 DEF Prolongs
  <2>3. epoch_events[e][j] \in 1 .. Len(events)
    BY <1>1, <1>3, <2>1 DEF GateLists
  <2>4. events'[epoch_events[e][j]] = events[epoch_events[e][j]]
    BY <1>5, <2>3 DEF Prolongs
  <2> QED BY <1>3, <2>1, <2>2, <2>4
<1>7. Gate!StateAt(e, n) = Gate!StateAfter(pc, first, evs, n)
  BY DEF Gate!StateAt
<1>8. Gate!StateAt(e, n)' = Gate!StateAfter(pc, first, ews, n)
  BY <1>2 DEF Gate!StateAt, Grows
<1>9. Gate!StateAfter(pc, first, evs, n) = Gate!StateAfter(pc, first, ews, n)
  <2> HIDE DEF evs, ews, first
  <2>1. PICK a, b, c, d : a = pc /\ b = first /\ c = evs /\ d = ews
    OBVIOUS
  <2>2. \A j \in 1 .. n : c[j] = d[j]
    BY <1>6, <2>1
  <2>3. Gate!StateAfter(a, b, c, n) = Gate!StateAfter(a, b, d, n)
    BY <1>4, <2>2, StateIsPast
  <2> QED BY <2>1, <2>3
<1> HIDE DEF evs, ews, first
<1> QED BY <1>7, <1>8, <1>9

\* Resolved, of a packet's note.
ResolvedNote(p, i) ==
    IF p.vkind = "memo" THEN [res |-> p.memo_val, src |-> Gate!Memo]
    ELSE IF p.vkind = "slot"
    THEN Gate!Answered(Gate!StateAt(p.vepoch, p.vevent).res, Gate!StateAt(p.vepoch, p.vevent).src, i)
    ELSE Gate!Answered(0, Gate!Pkt, i)

LEMMA ResolvedIsNote == \A i : Gate!Resolved(i) = ResolvedNote(gateStream[i], i)
  BY DEF Gate!Resolved, ResolvedNote

\* A packet more: the notes before it resolve as they did.
LEMMA NotesStay ==
    ASSUME GateInv, GateLists', Grows, NEW p, gateStream' = Append(gateStream, p), Noted(p)',
           NEW m, m = Len(gateStream) + 1, ResolvedNote(p, m)' = p.answer
    PROVE  (\A i \in DOMAIN gateStream : Noted(gateStream[i]))' /\ Gate!ResolveEqualsSwitch'
<1>1. PICK n \in Nat : n = Len(gateStream) /\ m = n + 1
  BY ListHasLength DEF GateInv, GateLists
<1>2. /\ DOMAIN gateStream = 1 .. n /\ DOMAIN gateStream' = 1 .. n + 1
      /\ gateStream'[m] = p /\ \A i \in 1 .. n : gateStream'[i] = gateStream[i]
  <2>1. IsAppended(gateStream', gateStream, p)
    BY ListAppend DEF GateInv, GateLists
  <2>2. DOMAIN gateStream = 1 .. Len(gateStream)
    BY ListHasLength DEF GateInv, GateLists
  <2> QED BY <1>1, <2>1, <2>2 DEF IsAppended
<1>3. ASSUME NEW i \in 1 .. n, NEW q, q = gateStream'[i]
      PROVE  Noted(q)' /\ ResolvedNote(q, i)' = q.answer
  <2>1. q = gateStream[i] /\ i \in DOMAIN gateStream
    BY <1>2, <1>3
  <2>2. Noted(q) /\ Gate!Resolved(i) = q.answer
    BY <2>1 DEF GateInv, Gate!ResolveEqualsSwitch
  <2>3. ResolvedNote(q, i) = q.answer
    BY <2>1, <2>2, ResolvedIsNote
  <2>4. Noted(q)'
    <3>1. DOMAIN inits = 1 .. Len(inits) /\ DOMAIN inits' = 1 .. Len(inits')
          /\ Len(inits) \in Nat /\ Len(inits') \in Nat
      BY ListHasLength DEF GateInv, GateLists
    <3>2. \A e \in DOMAIN inits : e \in DOMAIN inits' /\ Len(epoch_events[e]) <= Len(epoch_events'[e])
      BY <3>1 DEF Grows, Prolongs
    <3>3. \A e \in DOMAIN inits : Len(epoch_events[e]) \in Nat /\ Len(epoch_events'[e]) \in Nat
      BY <3>2, ListHasLength DEF GateInv, GateLists
    <3> QED BY <2>2, <3>2, <3>3 DEF Noted
  <2>5. q.vkind = "slot" => Gate!StateAt(q.vepoch, q.vevent)' = Gate!StateAt(q.vepoch, q.vevent)
    BY <2>2, StateIsStable DEF Noted, GateInv
  <2>6. ResolvedNote(q, i)' = ResolvedNote(q, i)
    BY <2>5 DEF ResolvedNote, Gate!Answered, Grows
  <2> QED BY <2>3, <2>4, <2>6
<1>4. ASSUME NEW i \in 1 .. n + 1, NEW q, q = gateStream'[i]
      PROVE  Noted(q)' /\ Gate!Resolved(i)' = q.answer
  <2>1. Noted(q)' /\ ResolvedNote(q, i)' = q.answer
    <3>1. CASE i \in 1 .. n
      BY <1>3, <1>4, <3>1
    <3>2. CASE i = m
      BY <1>2, <1>4, <3>2
    <3> QED BY <1>1, <3>1, <3>2
  <2>2. Gate!Resolved(i)' = ResolvedNote(q, i)'
    BY <1>4 DEF Gate!Resolved, ResolvedNote
  <2> QED BY <2>1, <2>2
<1>5. \A i \in DOMAIN gateStream' : \E q : q = gateStream'[i] /\ Noted(q)' /\ Gate!Resolved(i)' = q.answer
  BY <1>2, <1>4
<1>6. (\A i \in DOMAIN gateStream : Noted(gateStream[i]))'
  BY <1>5 DEF Noted
<1>7. Gate!ResolveEqualsSwitch'
  BY <1>5 DEF Gate!ResolveEqualsSwitch
<1> QED BY <1>6, <1>7

\* What a step leaves alone may be said to grow.
LEMMA NothingMoves ==
    ASSUME GateInv, pc' = pc, inits' = inits, events' = events, epoch_events' = epoch_events
    PROVE  Grows
<1>1. Prolongs(inits, inits) /\ Prolongs(events, events)
  BY SameProlongs DEF GateInv, GateLists
<1>2. \A e \in DOMAIN inits : Prolongs(epoch_events[e], epoch_events[e])
  BY SameProlongs DEF GateInv, GateLists
<1> QED BY <1>1, <1>2 DEF Grows

\* A step that only notes a packet, and what it says of it.
LEMMA OnlyNoted ==
    ASSUME GateInv, NEW p, gateStream' = Append(gateStream, p),
           UNCHANGED <<slot, pc, reg, inits, events, epoch_events>>,
           Noted(p), ResolvedNote(p, Len(gateStream) + 1) = p.answer
    PROVE  GateInv'
<1>1. IsList(gateStream')
  <2>1. IsAppended(gateStream', gateStream, p)
    BY ListAppend DEF GateInv, GateLists
  <2> QED BY <2>1 DEF IsAppended
<1>2. GateLists'
  BY <1>1 DEF GateInv, GateLists
<1>3. GateRegs' /\ EpochsStored' /\ EpochsApart'
  <2>1. GateRegs' /\ EpochsApart' /\ GateSlots' = GateSlots
    BY DEF GateInv, GateRegs, GateSlots, EpochsApart, HasOwner
  <2>2. \A k : StoredOf(k)' = StoredOf(k)
    BY DEF StoredOf, Gate!StateAt
  <2>3. EpochsStored'
    <3> SUFFICES ASSUME NEW s \in GateSlots, HasOwner(s)'
                 PROVE  (reg[s].epoch \in DOMAIN inits /\ StoredOf(reg[s].epoch) = [res |-> reg[s].res, src |-> reg[s].src])'
      BY <2>1 DEF EpochsStored
    <3>1. PICK cell, k : cell = reg[s] /\ k = cell.epoch
      OBVIOUS
    <3>2. k \in DOMAIN inits /\ StoredOf(k) = [res |-> cell.res, src |-> cell.src]
      BY <3>1 DEF GateInv, EpochsStored, HasOwner
    <3>3. StoredOf(reg[s].epoch)' = StoredOf(k)'
      BY <3>1 DEF StoredOf
    <3> QED BY <2>2, <3>1, <3>2, <3>3
  <2> QED BY <2>1, <2>3
<1>4. Noted(p)'
  BY DEF Noted
<1>5. PICK m : m = Len(gateStream) + 1
  OBVIOUS
<1>6. ResolvedNote(p, m)' = p.answer
  <2>1. ResolvedNote(p, m) = p.answer
    BY <1>5
  <2>2. Gate!StateAt(p.vepoch, p.vevent)' = Gate!StateAt(p.vepoch, p.vevent)
    BY DEF Gate!StateAt
  <2> QED BY <2>1, <2>2 DEF ResolvedNote, Gate!Answered
<1>7. Grows
  BY NothingMoves
<1> QED BY <1>2, <1>3, <1>4, <1>5, <1>6, <1>7, NotesStay DEF GateInv

\* A packet that the memo answers.
LEMMA FromMemoInv == ASSUME GateInv, NEW f, Gate!FromMemo(f) PROVE GateInv'
<1>1. PICK d \in gateMemo : Gate!Note(f, "memo", 0, 0, d.res, [res |-> d.res, src |-> Gate!Memo])
  BY DEF Gate!FromMemo
<1>2. PICK p : p = [flow |-> f, vkind |-> "memo", vepoch |-> 0, vevent |-> 0, memo_val |-> d.res,
                    answer |-> [res |-> d.res, src |-> Gate!Memo]]
  OBVIOUS
<1>3. gateStream' = Append(gateStream, p)
  BY <1>1, <1>2 DEF Gate!Note
<1>4. Noted(p) /\ ResolvedNote(p, Len(gateStream) + 1) = p.answer
  BY <1>2 DEF Noted, ResolvedNote
<1> QED BY <1>3, <1>4, OnlyNoted DEF Gate!FromMemo

\* A packet that is answered without a slot.
LEMMA WithoutSlotInv == ASSUME GateInv, NEW f, Gate!WithoutSlot(f) PROVE GateInv'
<1>1. PICK p : p = [flow |-> f, vkind |-> "pkt", vepoch |-> 0, vevent |-> 0, memo_val |-> 0,
                    answer |-> Gate!Answered(0, Gate!Pkt, Gate!Now)]
  OBVIOUS
<1>2. gateStream' = Append(gateStream, p)
  BY <1>1 DEF Gate!Note, Gate!WithoutSlot
<1>3. Noted(p) /\ ResolvedNote(p, Len(gateStream) + 1) = p.answer
  BY <1>1 DEF Noted, ResolvedNote, Gate!Now
<1> QED BY <1>2, <1>3, OnlyNoted DEF Gate!WithoutSlot

\* A takeover: an epoch more, which no other slot is in.
LEMMA TakesSlotInv == ASSUME GateInv, NEW f \in GateFlows, Gate!TakesSlot(f) PROVE GateInv'
<1> DEFINE n == Len(inits)
<1>1. n \in Nat /\ DOMAIN inits = 1 .. n /\ Len(epoch_events) = n
  BY ListHasLength DEF GateInv, GateLists
<1>2. PICK i, e : i = Gate!Now /\ e = n + 1
  OBVIOUS
<1>3. IsAppended(inits', inits, i) /\ IsAppended(epoch_events', epoch_events, << >>)
  BY <1>2, ListAppend DEF GateInv, GateLists, Gate!TakesSlot
<1>4. /\ DOMAIN inits' = 1 .. e /\ inits'[e] = i /\ epoch_events'[e] = << >>
      /\ \A k \in 1 .. n : epoch_events'[k] = epoch_events[k]
  BY <1>1, <1>2, <1>3 DEF IsAppended
<1>5. PICK p : p = [flow |-> f, vkind |-> "pkt", vepoch |-> 0, vevent |-> 0, memo_val |-> 0,
                    answer |-> Gate!Answered(0, Gate!Pkt, Gate!Now)]
  OBVIOUS
<1>6. gateStream' = Append(gateStream, p) /\ pc' = pc /\ slot' = slot /\ events' = events
  BY <1>5 DEF Gate!Note, Gate!TakesSlot
<1>7. IsList(gateStream')
  <2>1. IsAppended(gateStream', gateStream, p)
    BY <1>6, ListAppend DEF GateInv, GateLists
  <2> QED BY <2>1 DEF IsAppended
<1>8. ASSUME NEW k \in 1 .. e
      PROVE  IsList(epoch_events'[k]) /\ \A j \in DOMAIN epoch_events'[k] : epoch_events'[k][j] \in DOMAIN events
  <2>1. CASE k \in 1 .. n
    BY <1>1, <1>4, <2>1 DEF GateInv, GateLists
  <2>2. CASE k = e
    <3>1. << >> = [j \in 1 .. 0 |-> << >>[j]] /\ DOMAIN << >> = {}
      OBVIOUS
    <3> QED BY <1>4, <2>2, <3>1 DEF IsList
  <2> QED BY <1>1, <1>2, <2>1, <2>2
<1>9. GateLists'
  BY <1>1, <1>3, <1>4, <1>6, <1>7, <1>8 DEF GateInv, GateLists, IsAppended
<1>10. Grows
  <2>1. Prolongs(inits', inits) /\ Prolongs(events', events)
    BY <1>3, <1>6, AppendProlongs, SameProlongs DEF GateInv, GateLists
  <2>2. \A k \in DOMAIN inits : Prolongs(epoch_events[k], epoch_events[k])
    BY SameProlongs DEF GateInv, GateLists
  <2> QED BY <1>1, <1>4, <1>6, <2>1, <2>2 DEF Grows
<1>11. PICK s : s = slot[f] /\ s \in GateSlots
  BY DEF GateSlots
<1>12. PICK cell : cell = [owner |-> {f}, pk |-> 1, res |-> pc[i], src |-> Gate!Pkt, epoch |-> e]
  OBVIOUS
<1>13. reg' = [reg EXCEPT ![s] = cell]
  BY <1>2, <1>11, <1>12 DEF Gate!TakesSlot
<1>14. /\ reg' = [t \in GateSlots |-> reg'[t]] /\ reg'[s] = cell
       /\ \A t \in GateSlots : t # s => reg'[t] = reg[t]
  BY <1>11, <1>13 DEF GateInv, GateRegs
<1>15. GateSlots' = GateSlots
  BY <1>6 DEF GateSlots
<1>16. IsReg(cell) /\ cell.owner # {} /\ cell.epoch = e /\ cell.res = pc[i] /\ cell.src = Gate!Pkt
  BY <1>12 DEF IsReg
<1>17. GateRegs'
  BY <1>14, <1>15, <1>16 DEF GateInv, GateRegs
<1>18. ASSUME NEW t \in GateSlots, HasOwner(t)'
       PROVE  /\ reg'[t].epoch \in 1 .. e /\ (t # s => HasOwner(t) /\ reg'[t].epoch \in 1 .. n)
              /\ StoredOf(reg[t].epoch)' = [res |-> reg'[t].res, src |-> reg'[t].src]
  <2>1. CASE t # s
    <3>1. PICK u, k : u = reg[t] /\ k = u.epoch
      OBVIOUS
    <3>2. reg'[t] = u /\ HasOwner(t)
      BY <1>14, <1>18, <2>1, <3>1 DEF HasOwner
    <3>3. k \in DOMAIN inits /\ StoredOf(k) = [res |-> u.res, src |-> u.src]
      BY <3>1, <3>2 DEF GateInv, EpochsStored
    <3>4. epoch_events'[k] = epoch_events[k]
      BY <1>1, <1>4, <3>3
    <3>5. PICK l : l = Len(epoch_events[k]) /\ l \in Nat
      BY <3>3, ListHasLength DEF GateInv, GateLists
    <3>6. Gate!StateAt(k, l)' = Gate!StateAt(k, l)
      <4>1. l \in 0 .. Len(epoch_events[k])
        BY <3>5
      <4> QED BY <1>9, <1>10, <3>3, <4>1, StateIsStable DEF GateInv
    <3>7. StoredOf(k)' = StoredOf(k)
      BY <3>4, <3>5, <3>6 DEF StoredOf
    <3>8. StoredOf(reg[t].epoch)' = StoredOf(k)'
      BY <3>1, <3>2 DEF StoredOf
    <3> QED BY <1>1, <1>2, <2>1, <3>1, <3>2, <3>3, <3>7, <3>8
  <2>2. CASE t = s
    <3>1. StoredOf(e)' = Gate!StateAt(e, 0)'
      BY <1>4 DEF StoredOf
    <3>2. Gate!StateAt(e, 0)' = [res |-> pc[i], src |-> Gate!Pkt]
      BY <1>4, <1>6, StateFirst DEF Gate!StateAt
    <3>3. reg'[t] = cell /\ StoredOf(reg[t].epoch)' = StoredOf(e)'
      BY <1>14, <1>16, <2>2 DEF StoredOf
    <3> QED BY <1>1, <1>2, <1>16, <2>2, <3>1, <3>2, <3>3
  <2> QED BY <2>1, <2>2
<1>19. EpochsStored'
  BY <1>4, <1>15, <1>18 DEF EpochsStored
<1>20. EpochsApart'
  <2> SUFFICES ASSUME NEW t \in GateSlots, NEW u \in GateSlots, HasOwner(t)', HasOwner(u)',
                      reg'[t].epoch = reg'[u].epoch, t # u
               PROVE  FALSE
    BY <1>15 DEF EpochsApart
  <2>1. e \notin 1 .. n
    BY <1>1, <1>2
  <2>2. t # s /\ u # s
    BY <1>14, <1>16, <1>18, <2>1
  <2> QED BY <1>14, <1>18, <2>2 DEF GateInv, EpochsApart
<1>21. PICK m : m = Len(gateStream) + 1
  OBVIOUS
<1>22. Noted(p)' /\ ResolvedNote(p, m)' = p.answer
  BY <1>5, <1>6, <1>21 DEF Noted, ResolvedNote, Gate!Now, Gate!Answered
<1> QED BY <1>6, <1>9, <1>10, <1>17, <1>19, <1>20, <1>21, <1>22, NotesStay DEF GateInv

\* Two slots of which neither changes its epoch keep them apart.
LEMMA RegsStay ==
    ASSUME GateInv, NEW s \in GateSlots, NEW cell, IsReg(cell), slot' = slot, reg' = [reg EXCEPT ![s] = cell],
           HasOwner(s), cell.owner = reg[s].owner, cell.epoch = reg[s].epoch
    PROVE  /\ GateRegs' /\ EpochsApart' /\ GateSlots' = GateSlots /\ reg'[s] = cell
           /\ \A t \in GateSlots : t # s => reg'[t] = reg[t]
<1>1. /\ reg' = [t \in GateSlots |-> reg'[t]] /\ reg'[s] = cell
      /\ \A t \in GateSlots : t # s => reg'[t] = reg[t]
  BY DEF GateInv, GateRegs
<1>2. GateSlots' = GateSlots
  BY DEF GateSlots
<1>3. GateRegs'
  BY <1>1, <1>2 DEF GateInv, GateRegs
<1>4. \A t \in GateSlots : reg'[t].epoch = reg[t].epoch /\ reg'[t].owner = reg[t].owner
  BY <1>1
<1>5. EpochsApart'
  BY <1>2, <1>4 DEF GateInv, EpochsApart, HasOwner
<1> QED BY <1>1, <1>2, <1>3, <1>5

\* A packet of the owner that is no phase, or whose flow is determined.
LEMMA BetweenInv ==
    ASSUME GateInv, NEW f \in GateFlows, HasOwner(slot[f]), NEW after, IsReg(after),
           NEW cell, cell = reg[slot[f]], after.owner = cell.owner, after.epoch = cell.epoch,
           after.res = cell.res, after.src = cell.src,
           reg' = [reg EXCEPT ![slot[f]] = after], UNCHANGED <<slot, pc, inits, events, epoch_events>>,
           Gate!Note(f, "slot", cell.epoch, Len(epoch_events[cell.epoch]), 0, Gate!Answered(cell.res, cell.src, Gate!Now))
    PROVE  GateInv'
<1>1. PICK s, e, n : s = slot[f] /\ e = cell.epoch /\ n = Len(epoch_events[e])
  OBVIOUS
<1>2. s \in GateSlots /\ HasOwner(s) /\ cell = reg[s]
  BY <1>1 DEF GateSlots
<1>3. /\ GateRegs' /\ EpochsApart' /\ GateSlots' = GateSlots /\ reg'[s] = after
      /\ \A t \in GateSlots : t # s => reg'[t] = reg[t]
  BY <1>1, <1>2, RegsStay
<1>4. PICK p : p = [flow |-> f, vkind |-> "slot", vepoch |-> e, vevent |-> n, memo_val |-> 0,
                    answer |-> Gate!Answered(cell.res, cell.src, Gate!Now)]
  OBVIOUS
<1>5. gateStream' = Append(gateStream, p)
  BY <1>1, <1>4 DEF Gate!Note
<1>6. GateLists'
  <2>1. IsAppended(gateStream', gateStream, p)
    BY <1>5, ListAppend DEF GateInv, GateLists
  <2> QED BY <2>1 DEF GateInv, GateLists, IsAppended
<1>7. \A k : StoredOf(k)' = StoredOf(k)
  BY DEF StoredOf, Gate!StateAt
<1>8. EpochsStored'
  <2>1. \A t \in GateSlots : /\ reg'[t].epoch = reg[t].epoch /\ reg'[t].owner = reg[t].owner
                             /\ reg'[t].res = reg[t].res /\ reg'[t].src = reg[t].src
    BY <1>2, <1>3
  <2>2. \A t \in GateSlots : StoredOf(reg[t].epoch)' = StoredOf(reg[t].epoch)
    <3> SUFFICES ASSUME NEW t \in GateSlots PROVE StoredOf(reg[t].epoch)' = StoredOf(reg[t].epoch)
      OBVIOUS
    <3>1. PICK k : k = reg[t].epoch /\ k = reg'[t].epoch
      BY <2>1
    <3> QED BY <1>7, <3>1 DEF StoredOf
  <2> QED BY <1>3, <2>1, <2>2 DEF GateInv, EpochsStored, HasOwner
<1>9. e \in DOMAIN inits /\ Gate!StateAt(e, n) = [res |-> cell.res, src |-> cell.src]
  BY <1>1, <1>2 DEF GateInv, EpochsStored, StoredOf
<1>10. n \in 0 .. Len(epoch_events[e])
  <2>1. Len(epoch_events[e]) \in Nat
    BY <1>9, ListHasLength DEF GateInv, GateLists
  <2> QED BY <1>1, <2>1
<1>11. PICK m : m = Len(gateStream) + 1
  OBVIOUS
<1>12. Noted(p)'
  BY <1>4, <1>9, <1>10 DEF Noted
<1>13. ResolvedNote(p, m)' = p.answer
  <2>1. Gate!StateAt(e, n)' = Gate!StateAt(e, n)
    BY DEF Gate!StateAt
  <2>2. /\ Gate!StateAt(p.vepoch, p.vevent)'.res = cell.res
        /\ Gate!StateAt(p.vepoch, p.vevent)'.src = cell.src
    BY <1>4, <1>9, <2>1
  <2>3. ResolvedNote(p, m)' = Gate!Answered(cell.res, cell.src, m)'
    BY <1>4, <2>2 DEF ResolvedNote, Gate!Answered
  <2> QED BY <1>4, <1>11, <2>3 DEF Gate!Answered, Gate!Now
<1>14. Grows
  BY NothingMoves
<1> QED BY <1>3, <1>5, <1>6, <1>8, <1>11, <1>12, <1>13, <1>14, NotesStay DEF GateInv

\* What a phase packet stores, from what was stored.
StoresAs(cell, n, code, after) ==
    /\ IsReg(after) /\ after.owner = cell.owner /\ after.epoch = cell.epoch
    /\ [res |-> after.res, src |-> after.src]
         = Gate!Sticky(pc, [res |-> cell.res, src |-> cell.src], [phase |-> n, pkt |-> Gate!Now, code |-> code])

\* The switch and the evaluation afterwards store the same.
LEMMA RenewedIsSticky ==
    ASSUME NEW cell, IsReg(cell), NEW n, NEW code, NEW after, after = Gate!Renewed(cell, n, code)
    PROVE  StoresAs(cell, n, code, after)
<1>1. PICK o, k, v, w, e : cell = [owner |-> o, pk |-> k, res |-> v, src |-> w, epoch |-> e]
  BY DEF IsReg
<1>2. PICK own, none : own = pc[Gate!Now] /\ none = Gate!Pkt
  OBVIOUS
<1>3. PICK a : a = [cell EXCEPT !.pk = n]
  OBVIOUS
<1>4. a = [owner |-> o, pk |-> n, res |-> v, src |-> w, epoch |-> e]
  BY <1>1, <1>3
<1>5. ASSUME NEW x, NEW y
      PROVE  [[a EXCEPT !.res = x] EXCEPT !.src = y] = [owner |-> o, pk |-> n, res |-> x, src |-> y, epoch |-> e]
  <2>1. PICK b : b = [a EXCEPT !.res = x]
    OBVIOUS
  <2>2. b = [owner |-> o, pk |-> n, res |-> x, src |-> w, epoch |-> e]
    BY <1>4, <2>1
  <2>3. PICK c : c = [b EXCEPT !.src = y]
    OBVIOUS
  <2>4. c = [owner |-> o, pk |-> n, res |-> x, src |-> y, epoch |-> e]
    BY <2>2, <2>3
  <2> QED BY <2>1, <2>3, <2>4
<1>6. cell.owner = o /\ cell.epoch = e /\ cell.res = v /\ cell.src = w
  BY <1>1
<1>7. ASSUME NEW x, NEW y, after = [owner |-> o, pk |-> n, res |-> x, src |-> y, epoch |-> e]
      PROVE  /\ IsReg(after) /\ after.owner = cell.owner /\ after.epoch = cell.epoch
             /\ [res |-> after.res, src |-> after.src] = [res |-> x, src |-> y]
  BY <1>6, <1>7 DEF IsReg
<1>8. PICK ev, q : ev = [phase |-> n, pkt |-> Gate!Now, code |-> code] /\ q = [res |-> v, src |-> w]
  OBVIOUS
<1>9. /\ ev.code = code /\ ev.phase = n /\ pc[ev.pkt] = own /\ q.res = v
  BY <1>2, <1>8
<1>10. StoresAs(cell, n, code, after) <=>
         /\ IsReg(after) /\ after.owner = cell.owner /\ after.epoch = cell.epoch
         /\ [res |-> after.res, src |-> after.src] = Gate!Sticky(pc, q, ev)
  BY <1>6, <1>8 DEF StoresAs
<1>11. CASE code # 0
  <2>1. after = [[a EXCEPT !.res = code] EXCEPT !.src = n]
    BY <1>3, <1>11 DEF Gate!Renewed
  <2>2. after = [owner |-> o, pk |-> n, res |-> code, src |-> n, epoch |-> e]
    BY <1>5, <2>1
  <2>3. Gate!Sticky(pc, q, ev) = [res |-> code, src |-> n]
    BY <1>9, <1>11 DEF Gate!Sticky
  <2> QED BY <1>7, <1>10, <2>2, <2>3
<1>12. CASE code = 0 /\ v = 0
  <2>1. after = [[a EXCEPT !.res = own] EXCEPT !.src = none]
    BY <1>2, <1>3, <1>6, <1>12 DEF Gate!Renewed
  <2>2. after = [owner |-> o, pk |-> n, res |-> own, src |-> none, epoch |-> e]
    BY <1>5, <2>1
  <2>3. Gate!Sticky(pc, q, ev) = [res |-> own, src |-> none]
    BY <1>2, <1>9, <1>12 DEF Gate!Sticky
  <2> QED BY <1>7, <1>10, <2>2, <2>3
<1>13. CASE code = 0 /\ v # 0
  <2>1. after = a
    BY <1>3, <1>6, <1>13 DEF Gate!Renewed
  <2>2. after = [owner |-> o, pk |-> n, res |-> v, src |-> w, epoch |-> e]
    BY <1>4, <2>1
  <2>3. Gate!Sticky(pc, q, ev) = [res |-> v, src |-> w]
    BY <1>8, <1>9, <1>13 DEF Gate!Sticky
  <2> QED BY <1>7, <1>10, <2>2, <2>3
<1> QED BY <1>11, <1>12, <1>13

\* The owner's packet is the n-th of its flow, and the tree says code.
IsPhase(f, cell, n, code, after) ==
    /\ cell = reg[slot[f]] /\ after = Gate!Renewed(cell, n, code)
    /\ reg' = [reg EXCEPT ![slot[f]] = after] /\ UNCHANGED <<slot, pc, inits>>
    /\ events' = Append(events, [phase |-> n, pkt |-> Gate!Now, code |-> code])
    /\ epoch_events' = [epoch_events EXCEPT ![cell.epoch] = Append(@, Len(events) + 1)]
    /\ Gate!Note(f, "slot", cell.epoch, Len(epoch_events[cell.epoch]) + 1, 0,
                 Gate!Answered(after.res, after.src, Gate!Now))

\* A phase packet: an event more of its epoch, and what the switch then stores
\* is what the epoch does.
LEMMA PhaseInv ==
    ASSUME GateInv, NEW f \in GateFlows, HasOwner(slot[f]), NEW cell, NEW n, NEW code, NEW after,
           IsPhase(f, cell, n, code, after)
    PROVE  GateInv'
<1>0. cell = reg[slot[f]] /\ slot' = slot /\ pc' = pc /\ inits' = inits
  BY DEF IsPhase
<1>1. PICK s, e, l, i, m : /\ s = slot[f] /\ e = cell.epoch /\ l = Len(epoch_events[e])
                           /\ i = Len(events) + 1 /\ m = Gate!Now
  OBVIOUS
<1>2. s \in GateSlots /\ HasOwner(s) /\ cell = reg[s] /\ IsReg(cell)
  BY <1>0, <1>1 DEF GateSlots, GateInv, GateRegs
<1>3. e \in DOMAIN inits /\ Gate!StateAt(e, l) = [res |-> cell.res, src |-> cell.src]
  BY <1>1, <1>2 DEF GateInv, EpochsStored, StoredOf
<1>4. /\ IsReg(after) /\ after.owner = cell.owner /\ after.epoch = cell.epoch
      /\ [res |-> after.res, src |-> after.src]
           = Gate!Sticky(pc, [res |-> cell.res, src |-> cell.src], [phase |-> n, pkt |-> m, code |-> code])
  <2>1. StoresAs(cell, n, code, after)
    BY <1>2, RenewedIsSticky DEF IsPhase
  <2> QED BY <1>1, <2>1 DEF StoresAs
<1>5. /\ GateRegs' /\ EpochsApart' /\ GateSlots' = GateSlots /\ reg'[s] = after
      /\ \A t \in GateSlots : t # s => reg'[t] = reg[t]
  <2>1. reg' = [reg EXCEPT ![s] = after]
    BY <1>1 DEF IsPhase
  <2> QED BY <1>0, <1>2, <1>4, <2>1, RegsStay
<1>6. PICK ev : ev = [phase |-> n, pkt |-> m, code |-> code]
  OBVIOUS
<1>7. IsAppended(events', events, ev)
  <2>1. events' = Append(events, ev)
    BY <1>1, <1>6 DEF IsPhase
  <2>2. IsList(events)
    BY DEF GateInv, GateLists
  <2> QED BY <2>1, <2>2, ListAppend
<1>8. PICK es : es = Append(epoch_events[e], i)
  OBVIOUS
<1>9. IsAppended(es, epoch_events[e], i)
  <2>1. IsList(epoch_events[e])
    BY <1>3 DEF GateInv, GateLists
  <2> QED BY <1>8, <2>1, ListAppend
<1>10. /\ e \in DOMAIN epoch_events /\ DOMAIN epoch_events = DOMAIN inits
       /\ Len(inits) \in Nat /\ DOMAIN inits = 1 .. Len(inits)
  BY <1>3, ListHasLength DEF GateInv, GateLists
<1>11. epoch_events' = [epoch_events EXCEPT ![e] = es]
  BY <1>1, <1>8 DEF IsPhase
<1>12. /\ epoch_events'[e] = es /\ \A k \in DOMAIN inits : k # e => epoch_events'[k] = epoch_events[k]
       /\ IsList(epoch_events') /\ Len(epoch_events') = Len(inits)
  <2>1. epoch_events = [k \in 1 .. Len(inits) |-> epoch_events[k]]
    BY ListHasLength DEF GateInv, GateLists
  <2>2. /\ epoch_events' = [k \in 1 .. Len(inits) |-> epoch_events'[k]]
        /\ epoch_events'[e] = es /\ \A k \in DOMAIN inits : k # e => epoch_events'[k] = epoch_events[k]
    BY <1>10, <1>11, <2>1
  <2>3. IsList(epoch_events')
    BY <1>10, <2>2 DEF IsList
  <2>4. DOMAIN epoch_events' = 1 .. Len(epoch_events') /\ Len(epoch_events') \in Nat
    BY <2>3, ListHasLength
  <2>5. Len(epoch_events') = Len(inits)
    <3>1. PICK a, b : a = Len(epoch_events') /\ b = Len(inits)
      OBVIOUS
    <3>2. a \in Nat /\ b \in Nat /\ 1 .. a = 1 .. b
      BY <1>10, <2>2, <2>4, <3>1
    <3> QED BY <3>1, <3>2
  <2> QED BY <2>2, <2>3, <2>5
<1>13. PICK p : p = [flow |-> f, vkind |-> "slot", vepoch |-> e, vevent |-> l + 1, memo_val |-> 0,
                     answer |-> Gate!Answered(after.res, after.src, Gate!Now)]
  OBVIOUS
<1>14. gateStream' = Append(gateStream, p)
  BY <1>1, <1>13 DEF Gate!Note, IsPhase
<1>15. l \in Nat /\ DOMAIN epoch_events[e] = 1 .. l /\ DOMAIN es = 1 .. l + 1 /\ Len(es) = l + 1
       /\ es[l + 1] = i /\ \A k \in 1 .. l : es[k] = epoch_events[e][k]
  BY <1>1, <1>3, <1>9, ListHasLength DEF GateInv, GateLists, IsAppended
<1>16. /\ DOMAIN events = 1 .. Len(events) /\ DOMAIN events' = 1 .. Len(events) + 1 /\ Len(events) \in Nat
       /\ events'[i] = ev
  BY <1>1, <1>7, ListHasLength DEF GateInv, GateLists, IsAppended
<1>17. GateLists'
  <2>1. IsList(gateStream')
    <3>1. IsAppended(gateStream', gateStream, p)
      BY <1>14, ListAppend DEF GateInv, GateLists
    <3> QED BY <3>1 DEF IsAppended
  <2>2. ASSUME NEW k \in DOMAIN inits
        PROVE  IsList(epoch_events'[k]) /\ \A j \in DOMAIN epoch_events'[k] : epoch_events'[k][j] \in DOMAIN events'
    <3>1. CASE k = e
      <4>1. \A j \in 1 .. l : es[j] \in 1 .. Len(events)
        BY <1>3, <1>15, <1>16 DEF GateInv, GateLists
      <4>2. \A j \in 1 .. l + 1 : es[j] \in 1 .. Len(events) + 1
        <5>1. PICK x : x = Len(events) /\ x \in Nat /\ i = x + 1
          BY <1>1, <1>16
        <5>2. \A j \in 1 .. l : es[j] \in 1 .. x
          BY <4>1, <5>1
        <5>3. \A j \in 1 .. l + 1 : j \in 1 .. l \/ j = l + 1
          BY <1>15
        <5>4. es[l + 1] = x + 1
          BY <1>15, <5>1
        <5>5. \A j \in 1 .. l + 1 : es[j] \in 1 .. x + 1
          BY <5>1, <5>2, <5>3, <5>4
        <5> QED BY <5>1, <5>5
      <4> QED BY <1>9, <1>12, <1>15, <1>16, <3>1, <4>2 DEF IsAppended
    <3>2. CASE k # e
      <4>1. \A j \in DOMAIN epoch_events[k] : epoch_events[k][j] \in 1 .. Len(events)
        BY <1>16 DEF GateInv, GateLists
      <4>2. 1 .. Len(events) \subseteq 1 .. Len(events) + 1
        BY <1>16
      <4> QED BY <1>12, <1>16, <3>2, <4>1, <4>2 DEF GateInv, GateLists
    <3> QED BY <3>1, <3>2
  <2>3. IsList(events') /\ IsList(inits)
    BY <1>7 DEF IsAppended, GateInv, GateLists
  <2> QED BY <1>0, <1>12, <2>1, <2>2, <2>3 DEF GateLists
<1>18. Grows
  <2>1. Prolongs(inits', inits) /\ Prolongs(events', events)
    <3>1. IsList(inits) /\ IsList(events)
      BY DEF GateInv, GateLists
    <3> QED BY <1>0, <1>7, <3>1, AppendProlongs, SameProlongs
  <2>2. \A k \in DOMAIN inits : Prolongs(epoch_events[k], epoch_events[k])
    BY SameProlongs DEF GateInv, GateLists
  <2>3. Prolongs(es, epoch_events[e])
    BY <1>3, <1>9, AppendProlongs DEF GateInv, GateLists
  <2>4. \A k \in DOMAIN inits : Prolongs(epoch_events'[k], epoch_events[k])
    BY <1>12, <2>2, <2>3
  <2> QED BY <1>0, <2>1, <2>4 DEF Grows
<1>19. Gate!StateAt(e, l + 1)' = [res |-> after.res, src |-> after.src]
  <2>1. PICK first, evs : /\ first = [res |-> pc[inits[e]], src |-> Gate!Pkt]
                          /\ evs = [k \in DOMAIN epoch_events'[e] |-> events'[epoch_events'[e][k]]]
    OBVIOUS
  <2>2. \A k : Gate!StateAt(e, k)' = Gate!StateAfter(pc, first, evs, k)
    <3>3. first = [res |-> pc'[inits'[e]], src |-> Gate!Pkt]
      BY <1>0, <2>1
    <3>4. \A k : Gate!StateAt(e, k)' = Gate!StateAfter(pc', first, evs, k)
      BY <2>1, <3>3 DEF Gate!StateAt
    <3> QED BY <1>0, <3>4
  <2>3. Gate!StateAfter(pc, first, evs, l) = [res |-> cell.res, src |-> cell.src]
    <3>1. l \in 0 .. Len(epoch_events[e])
      BY <1>1, <1>15
    <3>2. Gate!StateAt(e, l)' = Gate!StateAt(e, l)
      BY <1>3, <1>17, <1>18, <3>1, StateIsStable DEF GateInv
    <3> QED BY <1>3, <2>2, <3>2
  <2>4. evs[l + 1] = ev
    <3>1. PICK x : x = l + 1 /\ x \in DOMAIN es /\ es[x] = i
      BY <1>15
    <3>2. evs[x] = events'[es[x]]
      <4>1. DOMAIN epoch_events'[e] = DOMAIN es /\ epoch_events'[e][x] = es[x]
        BY <1>12
      <4>2. evs[x] = events'[epoch_events'[e][x]]
        BY <2>1, <3>1, <4>1
      <4> QED BY <4>1, <4>2
    <3> QED BY <1>16, <3>1, <3>2
  <2>5. Gate!StateAfter(pc, first, evs, l + 1) = Gate!Sticky(pc, Gate!StateAfter(pc, first, evs, l), evs[l + 1])
    <3>1. PICK codes : codes = pc
      OBVIOUS
    <3>2. Gate!StateAfter(codes, first, evs, l + 1)
            = Gate!Sticky(codes, Gate!StateAfter(codes, first, evs, l), evs[l + 1])
      <4>1. l \in Nat
        BY <1>15
      <4> QED BY <4>1, StateNext
    <3> QED BY <3>1, <3>2
  <2> QED BY <1>4, <1>6, <2>2, <2>3, <2>4, <2>5
<1>20. EpochsStored'
  <2> SUFFICES ASSUME NEW t \in GateSlots, HasOwner(t)'
               PROVE  (reg[t].epoch \in DOMAIN inits /\ StoredOf(reg[t].epoch) = [res |-> reg[t].res, src |-> reg[t].src])'
    BY <1>5 DEF EpochsStored
  <2>1. PICK u, k : u = reg'[t] /\ k = u.epoch
    OBVIOUS
  <2>2. StoredOf(reg[t].epoch)' = StoredOf(k)'
    BY <2>1 DEF StoredOf
  <2>3. CASE t = s
    <3>1. k = e /\ u = after
      BY <1>1, <1>4, <1>5, <2>1, <2>3
    <3>2. StoredOf(e)' = Gate!StateAt(e, l + 1)'
      BY <1>12, <1>15 DEF StoredOf
    <3> QED BY <1>0, <1>3, <1>19, <2>1, <2>2, <3>1, <3>2
  <2>4. CASE t # s
    <3>1. u = reg[t] /\ HasOwner(t)
      BY <1>5, <2>1, <2>4 DEF HasOwner
    <3>2. k \in DOMAIN inits /\ StoredOf(k) = [res |-> u.res, src |-> u.src]
      BY <2>1, <3>1 DEF GateInv, EpochsStored
    <3>3. k # e
      BY <1>1, <1>2, <2>1, <2>4, <3>1 DEF GateInv, EpochsApart
    <3>4. PICK j : j = Len(epoch_events[k]) /\ j \in Nat
      BY <3>2, ListHasLength DEF GateInv, GateLists
    <3>5. Gate!StateAt(k, j)' = Gate!StateAt(k, j)
      <4>1. j \in 0 .. Len(epoch_events[k])
        BY <3>4
      <4> QED BY <1>17, <1>18, <3>2, <4>1, StateIsStable DEF GateInv
    <3>6. StoredOf(k)' = StoredOf(k)
      BY <1>12, <3>2, <3>3, <3>4, <3>5 DEF StoredOf
    <3> QED BY <1>0, <2>1, <2>2, <3>2, <3>6
  <2> QED BY <2>3, <2>4
<1>21. Noted(p)'
  <2>1. e \in DOMAIN inits' /\ Len(epoch_events'[e]) = l + 1
    BY <1>0, <1>3, <1>12, <1>15
  <2>2. p.vepoch = e /\ p.vevent = l + 1 /\ l + 1 \in 0 .. l + 1
    BY <1>13, <1>15
  <2>3. p.vepoch \in DOMAIN inits' /\ p.vevent \in 0 .. Len(epoch_events'[p.vepoch])
    BY <2>1, <2>2
  <2> QED BY <2>3 DEF Noted
<1>22. ResolvedNote(p, m)' = p.answer
  <2>1. /\ Gate!StateAt(p.vepoch, p.vevent)'.res = after.res
        /\ Gate!StateAt(p.vepoch, p.vevent)'.src = after.src
    BY <1>13, <1>19
  <2>2. ResolvedNote(p, m)' = Gate!Answered(after.res, after.src, m)'
    BY <1>13, <2>1 DEF ResolvedNote, Gate!Answered
  <2> QED BY <1>0, <1>1, <1>13, <2>2 DEF Gate!Answered
<1>23. m = Len(gateStream) + 1
  BY <1>1 DEF Gate!Now
<1> QED BY <1>5, <1>14, <1>17, <1>18, <1>20, <1>21, <1>22, <1>23, NotesStay DEF GateInv

\* A packet of a slot's owner.
LEMMA OwnerPacketInv == ASSUME GateInv, NEW f \in GateFlows, Gate!OwnerPacket(f) PROVE GateInv'
<1>1. PICK cell, k : cell = reg[slot[f]] /\ k = cell.pk + 1
  OBVIOUS
<1>2. slot[f] \in GateSlots /\ IsReg(cell)
  BY <1>1 DEF GateSlots, GateInv, GateRegs
<1>3. HasOwner(slot[f])
  BY <1>1 DEF Gate!OwnerPacket, HasOwner
<1>4. ASSUME NEW after, after = cell \/ after = [cell EXCEPT !.pk = k],
             reg' = [reg EXCEPT ![slot[f]] = after], UNCHANGED <<slot, pc, inits, events, epoch_events>>,
             Gate!Note(f, "slot", cell.epoch, Len(epoch_events[cell.epoch]), 0, Gate!Answered(cell.res, cell.src, Gate!Now))
      PROVE  GateInv'
  <2>1. IsReg(after) /\ after.owner = cell.owner /\ after.epoch = cell.epoch /\ after.res = cell.res /\ after.src = cell.src
    <3>1. PICK o, n, v, w, e : cell = [owner |-> o, pk |-> n, res |-> v, src |-> w, epoch |-> e]
      BY <1>2 DEF IsReg
    <3>2. after = cell \/ after = [owner |-> o, pk |-> k, res |-> v, src |-> w, epoch |-> e]
      BY <1>4, <3>1
    <3> QED BY <3>1, <3>2 DEF IsReg
  <2> QED BY <1>1, <1>3, <1>4, <2>1, BetweenInv
<1>5. ASSUME NEW code, NEW after, IsPhase(f, cell, k, code, after) PROVE GateInv'
  BY <1>3, <1>5, PhaseInv
<1>6. \/ \E after : /\ after = cell \/ after = [cell EXCEPT !.pk = k]
                    /\ reg' = [reg EXCEPT ![slot[f]] = after] /\ UNCHANGED <<slot, pc, inits, events, epoch_events>>
                    /\ Gate!Note(f, "slot", cell.epoch, Len(epoch_events[cell.epoch]), 0,
                                 Gate!Answered(cell.res, cell.src, Gate!Now))
      \/ \E code, after : IsPhase(f, cell, k, code, after)
  BY <1>1 DEF Gate!OwnerPacket, IsPhase
<1> QED BY <1>4, <1>5, <1>6

\* No packet has been answered when the replay begins.
LEMMA GateInitInv == Gate!GateInit => GateInv
<1> SUFFICES ASSUME Gate!GateInit PROVE GateInv
  OBVIOUS
<1>1. /\ inits = << >> /\ events = << >> /\ epoch_events = << >> /\ gateStream = << >>
      /\ reg = [s \in GateSlots |-> [owner |-> {}, pk |-> 0, res |-> 0, src |-> Gate!Pkt, epoch |-> 0]]
  BY DEF Gate!GateInit, GateSlots
<1>2. IsList(<< >>) /\ DOMAIN << >> = {}
  <2>1. << >> = [j \in 1 .. 0 |-> << >>[j]] /\ DOMAIN << >> = {}
    OBVIOUS
  <2> QED BY <2>1 DEF IsList
<1>3. GateLists
  BY <1>1, <1>2 DEF GateLists
<1>4. GateRegs /\ \A s \in GateSlots : ~ HasOwner(s)
  BY <1>1 DEF GateRegs, IsReg, HasOwner
<1>5. Gate!ResolveEqualsSwitch /\ \A i \in DOMAIN gateStream : Noted(gateStream[i])
  BY <1>1, <1>2 DEF Gate!ResolveEqualsSwitch
<1> QED BY <1>3, <1>4, <1>5 DEF GateInv, EpochsStored, EpochsApart

\* Every step of the replay keeps the invariant.
LEMMA GateNextInv == GateInv /\ [Gate!GateNext]_(Gate!gateVars) => GateInv'
<1> SUFFICES ASSUME GateInv, [Gate!GateNext]_(Gate!gateVars) PROVE GateInv'
  OBVIOUS
<1>1. ASSUME UNCHANGED <<slot, pc, reg, inits, events, epoch_events, gateStream>> PROVE GateInv'
  <2>1. GateRegs' /\ GateLists' /\ EpochsApart' /\ GateSlots' = GateSlots
    BY <1>1 DEF GateInv, GateRegs, GateSlots, EpochsApart, HasOwner, GateLists
  <2>2. /\ \A k, n : Gate!StateAt(k, n)' = Gate!StateAt(k, n)
        /\ \A k : StoredOf(k)' = StoredOf(k)
    BY <1>1 DEF StoredOf, Gate!StateAt
  <2>3. EpochsStored'
    <3> SUFFICES ASSUME NEW s \in GateSlots, HasOwner(s)'
                 PROVE  (reg[s].epoch \in DOMAIN inits /\ StoredOf(reg[s].epoch) = [res |-> reg[s].res, src |-> reg[s].src])'
      BY <2>1 DEF EpochsStored
    <3>1. PICK cell, k : cell = reg[s] /\ k = cell.epoch
      OBVIOUS
    <3>2. k \in DOMAIN inits /\ StoredOf(k) = [res |-> cell.res, src |-> cell.src]
      BY <1>1, <3>1 DEF GateInv, EpochsStored, HasOwner
    <3>3. StoredOf(reg[s].epoch)' = StoredOf(k)'
      BY <1>1, <3>1 DEF StoredOf
    <3> QED BY <1>1, <2>2, <3>1, <3>2, <3>3
  <2>4. (\A i \in DOMAIN gateStream : Noted(gateStream[i]))'
    BY <1>1 DEF GateInv, Noted
  <2>5. ASSUME NEW i \in DOMAIN gateStream PROVE Gate!Resolved(i)' = Gate!Resolved(i)
    BY <1>1, <2>2 DEF Gate!Resolved, Gate!Answered
  <2>6. Gate!ResolveEqualsSwitch'
    BY <1>1, <2>5 DEF GateInv, Gate!ResolveEqualsSwitch
  <2> QED BY <2>1, <2>3, <2>4, <2>6 DEF GateInv
<1>2. ASSUME NEW f \in GateFlows, Gate!FromMemo(f) \/ Gate!WithoutSlot(f) \/ Gate!TakesSlot(f) \/ Gate!OwnerPacket(f)
      PROVE  GateInv'
  BY <1>2, FromMemoInv, WithoutSlotInv, TakesSlotInv, OwnerPacketInv
<1>3. CASE Gate!MemoEnters \/ Gate!MemoDrops
  BY <1>1, <1>3 DEF Gate!MemoEnters, Gate!MemoDrops
<1>4. CASE UNCHANGED Gate!gateVars
  BY <1>1, <1>4 DEF Gate!gateVars
<1> QED BY <1>2, <1>3, <1>4 DEF Gate!GateNext

\* In the run of all parts the replay behaves as alone.
LEMMA GateRun ==
  /\ DgradeInit /\ running = "gate" => Gate!GateInit
  /\ [DgradeNext]_DgradeVars => running' = running /\ (running = "gate" => [Gate!GateNext]_(Gate!gateVars))
<1>1. DgradeInit /\ running = "gate" => Gate!GateInit
  BY DEF DgradeInit
<1>2. [DgradeNext]_DgradeVars => running' = running /\ (running = "gate" => [Gate!GateNext]_(Gate!gateVars))
  BY DEF DgradeNext, DgradeVars, LastParts, GateState, Gate!gateVars
<1> QED BY <1>1, <1>2

\* In the run of all parts: verdicts that are put together after the stream are those of
\* the switch.
DeferredAsSwitch == running = "gate" => Gate!ResolveEqualsSwitch

\* Evaluating the phase trees after the stream (NetBeaconSim._evaluate_events,
\* _resolve) gives every packet the verdict and the source that the switch
\* answered it with: for any flows, slots, phases, trees and interleaving with the
\* memo.
THEOREM DeferredAlwaysAsSwitch == DgradeSpec => []DeferredAsSwitch
<1> DEFINE Inv == running = "gate" => GateInv
<1>1. DgradeInit => Inv
  BY GateRun, GateInitInv
<1>2. Inv /\ [DgradeNext]_DgradeVars => Inv'
  BY GateRun, GateNextInv
<1>3. Inv => DeferredAsSwitch
  BY DEF DeferredAsSwitch, GateInv
<1> HIDE DEF Inv
<1> QED BY <1>1, <1>2, <1>3, PTL DEF DgradeSpec

-----------------------------------------------------------------------------
(* SlotPlacement in the run of all parts, for any hash functions, streams  *)
(* and jobs: what a runner forces is what the emulator derives.            *)

\* The instance counts as FiniteSets does.
LEMMA PlaceCard == \A S : Placements!Cardinality(S) = Cardinality(S)
  BY Zenon DEF Placements!Cardinality, Cardinality, Placements!IsFiniteSet, IsFiniteSet

\* The inputs stay what they were.
PlaceTypes ==
    /\ hash \in Hashes /\ placePk \in Streams /\ job \in Jobs
    /\ runner \in {"emulator", "forced", "compiled"}

\* Which jobs a runner takes.
RunnerTakes ==
    /\ runner = "forced" => job.kind # "iso"
    /\ runner = "compiled" => job.kind = "crc" /\ job.rekey = 0 /\ job.dfn \in {"und", "d4c"}
    /\ runner = "emulator" => job.rekey = 0 /\ job.dfn # "d4s"

\* What a runner places a packet by.
OwnPlace(i) ==
    IF runner = "compiled" THEN Placements!CompiledSlot(i)
    ELSE IF runner = "forced" THEN Placements!ForcedSlot(i)
    ELSE IF Placements!Table = "isolated" THEN Placements!IsolatedSlot(i)
    ELSE Placements!Derived(job.kind, job.seed, Placements!SimSeed2, i)

\* The places of all packets.
OwnPlaces == [i \in DOMAIN placePk |-> OwnPlace(i)]

\* What is known of a job on its way: nothing is placed before it runs, then all
\* is placed by its runner, and holders meet their victim.
PlaceInv ==
    /\ PlaceTypes
    /\ placeStage = "job" => placed = <<>>
    /\ placeStage # "job" => RunnerTakes
    /\ placeStage = "run" => placed = <<>> /\ forced = IF runner = "emulator" THEN <<>> ELSE OwnPlaces
    /\ placeStage \notin {"job", "run"} => placed = OwnPlaces /\ (placeStage = "raised" <=> Placements!SameHash)
    /\ placeStage = "held" => runner = "forced"
    /\ Placements!HoldersMeetVictims

\* What is known of the job, the stream and the hashes.
LEMMA JobMeant ==
  ASSUME Placements!PlacementAssumption, PlaceTypes
  PROVE  /\ Placements!JobIsMeant(job) /\ Placements!StreamIsMeant(placePk)
         /\ Placements!KeysUsed(job, placePk) \subseteq Keys /\ hash \in [Keys -> [Tuples -> Nat]]
  BY DEF Placements!PlacementAssumption, PlaceTypes

\* The hashes that a job takes are numbers, and a tuple has one of each.
LEMMA HashIsNat ==
  ASSUME Placements!PlacementAssumption, PlaceTypes, NEW i \in DOMAIN placePk, NEW kind, NEW seed,
         <<kind, seed>> \in Placements!KeysUsed(job, placePk)
  PROVE  Placements!flow_hash(kind, seed, i) \in Nat
  <1>1. PICK key : key = <<kind, seed>> /\ key \in Keys
    BY JobMeant
  <1>2. placePk[i] \in [tuple : Tuples, ts : Nat]
    <2>1. PICK P : P = [tuple : Tuples, ts : Nat]
      OBVIOUS
    <2>2. placePk \in Seq(P)
      BY <2>1, JobMeant, Zenon DEF Placements!StreamIsMeant
    <2>3. placePk[i] \in P
      BY <2>2
    <2> QED BY <2>1, <2>3
  <1>3. placePk[i].tuple \in Tuples
    BY <1>2
  <1>4. hash[key] \in [Tuples -> Nat]
    BY <1>1, JobMeant
  <1>5. hash[key][placePk[i].tuple] \in Nat
    BY <1>3, <1>4
  <1> QED BY <1>1, <1>5 DEF Placements!flow_hash

\* A table of two is half as long, and a remainder lies in it.
LEMMA HalfIs ==
  ASSUME Placements!PlacementAssumption, PlaceTypes, Placements!TwoTables(job.dfn)
  PROVE  /\ Placements!half \in Nat \ {0} /\ job.n = 2 * Placements!half /\ job.n % 2 = 0
         /\ \A x \in Nat : x % Placements!half \in Nat /\ x % Placements!half < Placements!half
  <1>1. PICK n \in Nat \ {0} : n = job.n /\ n % 2 = 0
    BY JobMeant DEF Placements!JobIsMeant
  <1>2. PICK m : m = n \div 2
    OBVIOUS
  <1>3. m \in Nat \ {0} /\ n = 2 * m
    BY <1>1, <1>2
  <1>4. Placements!half = m
    BY <1>1, <1>2 DEF Placements!half
  <1>5. \A x \in Nat : x % m \in Nat /\ x % m < m
    BY <1>3
  <1> QED BY <1>1, <1>3, <1>4, <1>5

\* The seeds of the second hash.
LEMMA SeedsAreUsed ==
  ASSUME Placements!PlacementAssumption, PlaceTypes, NEW i \in DOMAIN placePk
  PROVE  /\ <<"crc", 0>> \in Placements!KeysUsed(job, placePk)
         /\ job.kind # "iso" => <<job.kind, job.seed>> \in Placements!KeysUsed(job, placePk)
         /\ <<"polyirr", Hash2Seed>> \in Placements!KeysUsed(job, placePk)
         /\ <<"polyirr", Placements!DrawSeed(job.g)>> \in Placements!KeysUsed(job, placePk)
         /\ <<"polyirr", Placements!EpochSeed(Placements!Epoch(i))>> \in Placements!KeysUsed(job, placePk)
  <1>1. PICK s : s = Placements!RekeySeed(Placements!EpochOf(placePk, i, job.rekey), job.g)
    OBVIOUS
  <1>2. <<"polyirr", s>> \in Placements!KeysUsed(job, placePk)
    BY <1>1, Zenon DEF Placements!KeysUsed
  <1>3. /\ <<"polyirr", Hash2Seed>> \in Placements!KeysUsed(job, placePk)
        /\ <<"polyirr", Placements!DrawSeed(job.g)>> \in Placements!KeysUsed(job, placePk)
        /\ <<"crc", 0>> \in Placements!KeysUsed(job, placePk)
        /\ job.kind # "iso" => <<job.kind, job.seed>> \in Placements!KeysUsed(job, placePk)
    BY Zenon DEF Placements!KeysUsed
  <1>4. Placements!EpochSeed(Placements!Epoch(i)) \in {Hash2Seed, Placements!DrawSeed(job.g), s}
    BY <1>1, Zenon DEF Placements!EpochSeed, Placements!Epoch, Placements!h2seed
  <1> QED BY <1>2, <1>3, <1>4, Zenon

\* Everything that is placed lies in its table.
LEMMA PlacedInTable ==
  ASSUME Placements!PlacementAssumption, PlaceTypes, RunnerTakes, NEW i \in DOMAIN placePk
  PROVE  ~ Placements!OutOfTable(OwnPlace(i))
  <1> DEFINE h == Placements!half
             tag == Placements!flow_hash("crc", 0, i)
             own == Placements!flow_hash(job.kind, job.seed, i)
             new == Placements!flow_hash("polyirr", Placements!DrawSeed(job.g), i)
             old == Placements!flow_hash("polyirr", Hash2Seed, i)
             turned == Placements!flow_hash("polyirr", Placements!EpochSeed(Placements!Epoch(i)), i)
  <1>1. SUFFICES ASSUME Placements!Table = "two"
                 PROVE  /\ OwnPlace(i).slot < h /\ h <= OwnPlace(i).slot2 /\ OwnPlace(i).slot2 < job.n
    BY DEF Placements!OutOfTable
  <1>2. Placements!TwoTables(job.dfn) /\ ~ (job.kind = "iso" /\ runner = "emulator") /\ job.kind # "iso"
    BY <1>1 DEF Placements!Table, RunnerTakes, PlaceTypes
  <1>3. tag \in Nat /\ own \in Nat /\ new \in Nat /\ old \in Nat /\ turned \in Nat
    BY <1>2, HashIsNat, SeedsAreUsed, Zenon
  <1> HIDE DEF h, tag, own, new, old, turned
  <1>4. ASSUME NEW a, NEW b, NEW x \in Nat, NEW y \in Nat, a = x % h, b = h + (y % h)
        PROVE  a < h /\ h <= b /\ b < job.n
    <2>1. PICK m \in Nat \ {0} : m = h /\ job.n = 2 * m /\ \A z \in Nat : z % m \in Nat /\ z % m < m
      BY <1>2, HalfIs, Zenon DEF h
    <2>2. PICK u \in Nat, v \in Nat : u = x % m /\ v = y % m /\ u < m /\ v < m
      BY <2>1
    <2>3. a = u /\ b = m + v
      BY <1>4, <2>1, <2>2, Zenon
    <2> QED BY <2>1, <2>2, <2>3
  <1>5. CASE runner = "compiled"
    <2>1. job.dfn = "d4c"
      BY <1>2, <1>5 DEF RunnerTakes, Placements!TwoTables
    <2>2. OwnPlace(i) = [hash |-> tag, slot |-> tag % h, slot2 |-> h + (new % h)]
      BY <1>5, <2>1 DEF OwnPlace, Placements!CompiledSlot, tag, new, h
    <2>3. OwnPlace(i).slot = tag % h /\ OwnPlace(i).slot2 = h + (new % h)
      BY <2>2
    <2> QED BY <1>3, <1>4, <2>3
  <1>6. CASE runner = "forced"
    <2>1. OwnPlace(i) = Placements!ForcedSlot(i)
      BY <1>6, Zenon DEF OwnPlace
    <2>2. Placements!ForcedSlot(i) =
             [hash |-> own, slot |-> own % h,
              slot2 |-> h + (IF job.dfn = "d4s" THEN own % h ELSE (turned % h))]
      BY <1>2, Zenon DEF Placements!ForcedSlot, own, turned, h
    <2>3. OwnPlace(i).slot = own % h
          /\ (OwnPlace(i).slot2 = h + (own % h) \/ OwnPlace(i).slot2 = h + (turned % h))
      BY <2>1, <2>2
    <2> QED BY <1>3, <1>4, <2>3
  <1>7. CASE runner = "emulator"
    <2>1. Placements!Table # "isolated"
      BY <1>1
    <2>2. OwnPlace(i) = Placements!Derived(job.kind, job.seed, Hash2Seed, i)
      BY <1>7, <2>1 DEF OwnPlace, Placements!SimSeed2
    <2>3. Placements!Derived(job.kind, job.seed, Hash2Seed, i) =
             [hash |-> own, slot |-> own % h, slot2 |-> h + (old % h)]
      BY <1>2, Zenon DEF Placements!Derived, own, old, h
    <2>4. OwnPlace(i).slot = own % h /\ OwnPlace(i).slot2 = h + (old % h)
      BY <2>2, <2>3
    <2> QED BY <1>3, <1>4, <2>4
  <1> QED BY <1>5, <1>6, <1>7 DEF PlaceTypes

\* Where packets belong depends on hashes, stream, job and runner alone.
LEMMA SamePlaces ==
  ASSUME UNCHANGED <<hash, placePk, job, runner>>
  PROVE  OwnPlaces' = OwnPlaces /\ (Placements!SameHash' <=> Placements!SameHash) /\ (RunnerTakes' <=> RunnerTakes)
  <1>1. \A i : Placements!CompiledSlot(i)' = Placements!CompiledSlot(i)
    BY DEF Placements!CompiledSlot, Placements!flow_hash, Placements!half
  <1>2. \A i : Placements!ForcedSlot(i)' = Placements!ForcedSlot(i)
    BY DEF Placements!ForcedSlot, Placements!flow_hash, Placements!half, Placements!EpochSeed, Placements!Epoch,
           Placements!h2seed, Placements!EpochOf
  <1>3. \A i : Placements!IsolatedSlot(i)' = Placements!IsolatedSlot(i)
    BY DEF Placements!IsolatedSlot, Placements!FlowId
  <1>4. \A i : Placements!Derived(job.kind, job.seed, Placements!SimSeed2, i)'
                  = Placements!Derived(job.kind, job.seed, Placements!SimSeed2, i)
    BY DEF Placements!Derived, Placements!flow_hash, Placements!half, Placements!SimSeed2, Placements!h2seed
  <1>5. Placements!Table' = Placements!Table
    BY DEF Placements!Table
  <1>6. \A i : OwnPlace(i)' = OwnPlace(i)
    BY <1>1, <1>2, <1>3, <1>4, <1>5 DEF OwnPlace
  <1>7. OwnPlaces' = OwnPlaces
    BY <1>6 DEF OwnPlaces
  <1>8. Placements!SameHash' <=> Placements!SameHash
    BY DEF Placements!SameHash, Placements!SimSeed2, Placements!h2seed
  <1>9. RunnerTakes' <=> RunnerTakes
    BY DEF RunnerTakes
  <1> QED BY <1>7, <1>8, <1>9

\* A stream has packets, so places are no empty sequence.
LEMMA PlacesAreSome ==
  ASSUME Placements!PlacementAssumption, PlaceTypes
  PROVE  OwnPlaces # <<>> /\ DOMAIN OwnPlaces = DOMAIN placePk
  <1>1. DOMAIN OwnPlaces = DOMAIN placePk
    BY DEF OwnPlaces
  <1>2. \E P : placePk \in Seq(P) /\ placePk # <<>>
    BY JobMeant, Zenon DEF Placements!StreamIsMeant
  <1>3. 1 \in DOMAIN placePk
    BY <1>2
  <1> QED BY <1>1, <1>3

\* A runner takes a job.
LEMMA RunJobInv ==
  ASSUME Placements!PlacementAssumption, PlaceInv, Placements!RunJob
  PROVE  PlaceInv'
  <1>1. UNCHANGED <<hash, placePk, job, runner, placed, held>> /\ placeStage = "job" /\ placeStage' = "run"
    BY DEF Placements!RunJob
  <1>2. PlaceTypes' /\ placed' = <<>>
    BY <1>1 DEF PlaceInv, PlaceTypes
  <1>3. RunnerTakes /\ forced' = IF runner = "emulator" THEN <<>> ELSE OwnPlaces
    <2>1. CASE runner = "forced" /\ job.kind # "iso"
               /\ forced' = [i \in DOMAIN placePk |-> Placements!ForcedSlot(i)]
      <3>1. OwnPlaces = [i \in DOMAIN placePk |-> Placements!ForcedSlot(i)]
        BY <2>1 DEF OwnPlaces, OwnPlace
      <3> QED BY <2>1, <3>1 DEF RunnerTakes
    <2>2. CASE /\ runner = "compiled" /\ job.kind = "crc" /\ job.rekey = 0 /\ job.dfn \in {"und", "d4c"}
               /\ forced' = [i \in DOMAIN placePk |-> Placements!CompiledSlot(i)]
      <3>1. OwnPlaces = [i \in DOMAIN placePk |-> Placements!CompiledSlot(i)]
        BY <2>2 DEF OwnPlaces, OwnPlace
      <3> QED BY <2>2, <3>1 DEF RunnerTakes
    <2>3. CASE runner = "emulator" /\ job.rekey = 0 /\ job.dfn # "d4s" /\ forced' = <<>>
      BY <2>3 DEF RunnerTakes
    <2> QED BY <2>1, <2>2, <2>3 DEF Placements!RunJob
  <1>4. Placements!HoldersMeetVictims'
    BY <1>1 DEF Placements!HoldersMeetVictims
  <1>5. RunnerTakes' /\ OwnPlaces' = OwnPlaces
    BY <1>1, <1>3, SamePlaces
  <1> QED BY <1>1, <1>2, <1>3, <1>4, <1>5 DEF PlaceInv

\* The emulator takes what is forced, or derives it; it refuses one hash for two
\* tables and nothing else.
LEMMA PlaceInvStep ==
  ASSUME Placements!PlacementAssumption, PlaceInv, Placements!Place
  PROVE  PlaceInv'
  <1>1. UNCHANGED <<hash, placePk, job, runner, forced, held>> /\ placeStage = "run" /\ runner # "compiled"
    BY DEF Placements!Place
  <1>2. PlaceTypes /\ RunnerTakes /\ forced = IF runner = "emulator" THEN <<>> ELSE OwnPlaces
    BY <1>1 DEF PlaceInv
  <1>3. PICK all : /\ all = IF forced # <<>> THEN forced
                            ELSE [i \in DOMAIN placePk |->
                                     IF Placements!Table = "isolated" THEN Placements!IsolatedSlot(i)
                                     ELSE Placements!Derived(job.kind, job.seed, Placements!SimSeed2, i)]
                   /\ placed' = all
                   /\ placeStage' = IF \/ Placements!TwoTables(job.dfn) /\ job.n % 2 # 0
                                       \/ Placements!SameHash
                                       \/ \E i \in DOMAIN all : Placements!OutOfTable(all[i])
                                    THEN "raised" ELSE "placed"
    BY Zenon DEF Placements!Place
  <1>4. all = OwnPlaces
    <2>1. CASE runner = "forced"
      BY <1>2, <1>3, <2>1, PlacesAreSome, Zenon
    <2>2. CASE runner = "emulator"
      <3>1. all = [i \in DOMAIN placePk |->
                      IF Placements!Table = "isolated" THEN Placements!IsolatedSlot(i)
                      ELSE Placements!Derived(job.kind, job.seed, Placements!SimSeed2, i)]
        BY <1>2, <1>3, <2>2, Zenon
      <3> QED BY <2>2, <3>1 DEF OwnPlaces, OwnPlace
    <2> QED BY <1>1, <1>2, <2>1, <2>2 DEF PlaceTypes
  <1>5. ~ (Placements!TwoTables(job.dfn) /\ job.n % 2 # 0)
    BY <1>2, HalfIs
  <1>6. \A i \in DOMAIN all : ~ Placements!OutOfTable(all[i])
    BY <1>2, <1>4, PlacedInTable, PlacesAreSome DEF OwnPlaces
  <1>7. placeStage' \in {"raised", "placed"} /\ (placeStage' = "raised" <=> Placements!SameHash)
    BY <1>3, <1>5, <1>6
  <1>8. OwnPlaces' = OwnPlaces /\ (Placements!SameHash' <=> Placements!SameHash) /\ RunnerTakes'
    BY <1>1, <1>2, SamePlaces
  <1>9. Placements!HoldersMeetVictims'
    BY <1>7 DEF Placements!HoldersMeetVictims
  <1>10. PlaceTypes'
    BY <1>1, <1>2 DEF PlaceTypes
  <1> QED BY <1>3, <1>4, <1>7, <1>8, <1>9, <1>10 DEF PlaceInv

\* The emulator of the compiled program takes what is forced.
LEMMA PlaceCompiledInv ==
  ASSUME Placements!PlacementAssumption, PlaceInv, Placements!PlaceCompiled
  PROVE  PlaceInv'
  <1>1. /\ UNCHANGED <<hash, placePk, job, runner, forced, held>> /\ placeStage = "run" /\ runner = "compiled"
        /\ placed' = forced /\ placeStage' = IF Placements!CompiledRefuses THEN "raised" ELSE "placed"
    BY DEF Placements!PlaceCompiled
  <1>2. PlaceTypes /\ RunnerTakes /\ forced = OwnPlaces
    BY <1>1 DEF PlaceInv
  <1>3. ~ Placements!CompiledRefuses
    <2>1. forced # <<>>
      BY <1>2, PlacesAreSome
    <2>2. \A i \in DOMAIN placePk \ {1} : placePk[i - 1].ts <= placePk[i].ts
      BY <1>2, JobMeant, Zenon DEF Placements!StreamIsMeant
    <2>3. \A i \in DOMAIN placePk \ {1} : ~ (placePk[i].ts < placePk[i - 1].ts)
      <3> SUFFICES ASSUME NEW i \in DOMAIN placePk \ {1} PROVE ~ (placePk[i].ts < placePk[i - 1].ts)
        OBVIOUS
      <3>1. PICK P : P = [tuple : Tuples, ts : Nat]
        OBVIOUS
      <3>2. placePk \in Seq(P)
        BY <1>2, <3>1, JobMeant, Zenon DEF Placements!StreamIsMeant
      <3>3. placePk[i] \in P /\ placePk[i - 1] \in P
        BY <3>2
      <3>4. placePk[i].ts \in Nat /\ placePk[i - 1].ts \in Nat
        BY <3>1, <3>3
      <3> QED BY <2>2, <3>4
    <2>4. Placements!TwoTables(job.dfn) => job.n % 2 = 0
      BY <1>2, HalfIs
    <2>5. \A i \in DOMAIN forced : ~ Placements!OutOfTable(forced[i])
      BY <1>2, PlacedInTable, PlacesAreSome DEF OwnPlaces
    <2> QED BY <2>1, <2>3, <2>4, <2>5, Zenon DEF Placements!CompiledRefuses
  <1>4. ~ Placements!SameHash
    BY <1>1 DEF Placements!SameHash
  <1>5. OwnPlaces' = OwnPlaces /\ (Placements!SameHash' <=> Placements!SameHash) /\ RunnerTakes'
    BY <1>1, <1>2, SamePlaces
  <1>6. placeStage' = "placed"
    BY <1>1, <1>3
  <1>7. Placements!HoldersMeetVictims'
    BY <1>6 DEF Placements!HoldersMeetVictims
  <1>8. PlaceTypes'
    BY <1>1, <1>2 DEF PlaceTypes
  <1> QED BY <1>1, <1>2, <1>4, <1>5, <1>6, <1>7, <1>8 DEF PlaceInv

\* With one key of the second hash a packet's slots follow from its tuple.
LEMMA TupleHasPlace ==
  ASSUME NEW i, NEW k, placePk[i].tuple = placePk[k].tuple, runner = "forced"
  PROVE  /\ OwnPlace(i).slot = OwnPlace(k).slot
         /\ job.rekey = 0 => OwnPlace(i).slot2 = OwnPlace(k).slot2
  <1>1. OwnPlace(i) = Placements!ForcedSlot(i) /\ OwnPlace(k) = Placements!ForcedSlot(k)
    BY Zenon DEF OwnPlace
  <1>2. \A kind, seed : Placements!flow_hash(kind, seed, i) = Placements!flow_hash(kind, seed, k)
    BY DEF Placements!flow_hash
  <1>3. PICK own : own = Placements!flow_hash(job.kind, job.seed, i) /\ own = Placements!flow_hash(job.kind, job.seed, k)
    BY <1>2, Zenon
  <1>4. CASE Placements!TwoTables(job.dfn)
    <2>1. PICK a, b : /\ a = Placements!flow_hash("polyirr", Placements!EpochSeed(Placements!Epoch(i)), i)
                      /\ b = Placements!flow_hash("polyirr", Placements!EpochSeed(Placements!Epoch(k)), k)
      OBVIOUS
    <2>2. job.rekey = 0 => a = b
      <3>1. job.rekey = 0 => Placements!Epoch(i) = 0 /\ Placements!Epoch(k) = 0
        BY DEF Placements!Epoch, Placements!EpochOf
      <3> QED BY <1>2, <2>1, <3>1, Zenon
    <2>3. PICK m : m = Placements!half
      OBVIOUS
    <2>4. Placements!ForcedSlot(i) =
             [hash |-> own, slot |-> own % m, slot2 |-> m + (IF job.dfn = "d4s" THEN own % m ELSE (a % m))]
      BY <1>3, <1>4, <2>1, <2>3, Zenon DEF Placements!ForcedSlot
    <2>5. Placements!ForcedSlot(k) =
             [hash |-> own, slot |-> own % m, slot2 |-> m + (IF job.dfn = "d4s" THEN own % m ELSE (b % m))]
      BY <1>3, <1>4, <2>1, <2>3, Zenon DEF Placements!ForcedSlot
    <2> QED BY <1>1, <2>2, <2>4, <2>5
  <1>5. CASE ~ Placements!TwoTables(job.dfn)
    <2>1. PICK a : a = [hash |-> own, slot |-> Placements!&(own, job.n - 1), slot2 |-> 0]
      OBVIOUS
    <2>2. Placements!ForcedSlot(i) = a /\ Placements!ForcedSlot(k) = a
      BY <1>3, <1>5, <2>1, Zenon DEF Placements!ForcedSlot
    <2> QED BY <1>1, <2>2, Zenon
  <1> QED BY <1>4, <1>5

\* The slots that informed holders choose from: distinct, of table B, the
\* victim's among them.
LEMMA CandidatesAre ==
  ASSUME NEW m \in Nat \ {0}, NEW own \in m .. (2 * m) - 1, NEW c \in 1 .. 3,
         NEW draws \in [1 .. c - 1 -> m .. (2 * m) - 2], \A k, l \in DOMAIN draws : draws[k] = draws[l] => k = l
  PROVE  /\ Placements!IsInjective(Placements!Candidates(own, draws))
         /\ Placements!Range(Placements!Candidates(own, draws)) \subseteq m .. (2 * m) - 1
         /\ 1 \in DOMAIN Placements!Candidates(own, draws) /\ Placements!Candidates(own, draws)[1] = own
  <1> DEFINE t == [k \in DOMAIN draws |-> Placements!Moved(draws[k], own)]
             cand == <<own>> \o t
             B == m .. (2 * m) - 1
  <1>1. \A k \in 1 .. c - 1 : draws[k] \in Int /\ m <= draws[k] /\ draws[k] <= (2 * m) - 2
    OBVIOUS
  <1>2. t = [k \in 1 .. c - 1 |-> Placements!Moved(draws[k], own)]
    OBVIOUS
  <1>3. \A k \in 1 .. c - 1 : t[k] \in B /\ t[k] # own
    BY <1>1, <1>2 DEF Placements!Moved
  <1>4. \A k, l \in 1 .. c - 1 : t[k] = t[l] => k = l
    <2> SUFFICES ASSUME NEW k \in 1 .. c - 1, NEW l \in 1 .. c - 1, t[k] = t[l] PROVE k = l
      OBVIOUS
    <2>1. draws[k] = draws[l]
      BY <1>1, <1>2 DEF Placements!Moved
    <2> QED BY <2>1
  <1>5. t \in Seq(B) /\ Len(t) = c - 1
    BY <1>2, <1>3
  <1>6. <<own>> \in Seq(B) /\ Len(<<own>>) = 1 /\ <<own>>[1] = own
    OBVIOUS
  <1> HIDE DEF t
  <1>7. /\ cand \in Seq(B) /\ Len(cand) = c
        /\ \A k \in 1 .. c : cand[k] = IF k <= 1 THEN <<own>>[k] ELSE t[k - 1]
    BY <1>5, <1>6, ConcatProperties
  <1>8. Placements!Candidates(own, draws) = cand
    BY DEF Placements!Candidates, t
  <1> HIDE DEF cand, B
  <1>9. DOMAIN cand = 1 .. c /\ cand[1] = own /\ \A k \in 2 .. c : cand[k] = t[k - 1]
    BY <1>6, <1>7
  <1>10. \A k, l \in 1 .. c : cand[k] = cand[l] => k = l
    BY <1>3, <1>4, <1>9
  <1>11. \A k \in 1 .. c : cand[k] \in B
    BY <1>7, <1>9
  <1> QED BY <1>8, <1>9, <1>10, <1>11 DEF Placements!IsInjective, Placements!Range, B

\* Holders are placed: all else stays.
LEMMA HeldInv ==
  ASSUME PlaceInv, UNCHANGED <<hash, placePk, job, runner, forced, placed>>, placeStage = "placed", runner = "forced",
         placeStage' = "held", Placements!HoldersMeetVictims'
  PROVE  PlaceInv'
  <1>1. PlaceTypes /\ RunnerTakes /\ placed = OwnPlaces /\ ~ Placements!SameHash
    BY DEF PlaceInv
  <1>2. OwnPlaces' = OwnPlaces /\ (Placements!SameHash' <=> Placements!SameHash) /\ RunnerTakes'
    BY <1>1, SamePlaces
  <1>3. PlaceTypes'
    BY <1>1 DEF PlaceTypes
  <1> QED BY <1>1, <1>2, <1>3 DEF PlaceInv

\* The victim's slot of the one table is that of all its packets.
LEMMA HoldOneInv ==
  ASSUME Placements!PlacementAssumption, PlaceInv, Placements!HoldOneTable
  PROVE  PlaceInv'
  <1>1. /\ UNCHANGED <<hash, placePk, job, runner, forced, placed>> /\ placeStage = "placed" /\ placeStage' = "held"
        /\ runner = "forced" /\ job.kind = "crc" /\ job.dfn = "und"
    BY DEF Placements!HoldOneTable
  <1>2. PlaceTypes /\ placed = OwnPlaces
    BY <1>1 DEF PlaceInv
  <1>3. PICK v \in DOMAIN placePk :
           held' = [victim |-> v, slot |-> Placements!&(Placements!flow_hash("crc", 0, v), job.n - 1),
                    cand |-> <<>>, pick |-> {}]
    BY Zenon DEF Placements!HoldOneTable
  <1>4. job.seed = 0
    BY <1>1, <1>2, JobMeant DEF Placements!JobIsMeant
  <1>5. OwnPlace(v).slot = held'.slot /\ held'.victim = v
    <2>1. ~ Placements!TwoTables(job.dfn)
      BY <1>1 DEF Placements!TwoTables
    <2>2. OwnPlace(v) = Placements!ForcedSlot(v)
      BY <1>1, Zenon DEF OwnPlace
    <2>3. PICK own, at1 : own = Placements!flow_hash("crc", 0, v) /\ at1 = Placements!&(own, job.n - 1)
      OBVIOUS
    <2>4. Placements!ForcedSlot(v) = [hash |-> own, slot |-> at1, slot2 |-> 0]
      BY <1>1, <1>4, <2>1, <2>3, Zenon DEF Placements!ForcedSlot
    <2>5. held' = [victim |-> v, slot |-> at1, cand |-> <<>>, pick |-> {}]
      BY <1>3, <2>3, Zenon
    <2> QED BY <2>2, <2>4, <2>5
  <1>6. ASSUME NEW i \in DOMAIN placePk, placePk[i].tuple = placePk[v].tuple
        PROVE  placed[i].slot = held'.slot
    BY <1>1, <1>2, <1>5, <1>6, TupleHasPlace DEF OwnPlaces
  <1>7. job.dfn # "d4"
    BY <1>1
  <1>8. Placements!HoldersMeetVictims'
    BY <1>1, <1>5, <1>6, <1>7 DEF Placements!HoldersMeetVictims
  <1> QED BY <1>1, <1>8, HeldInv

\* One of the candidates is the victim's slot of table B.
LEMMA HoldTwoInv ==
  ASSUME Placements!PlacementAssumption, PlaceInv, Placements!HoldTwoTables
  PROVE  PlaceInv'
  <1>1. /\ UNCHANGED <<hash, placePk, job, runner, forced, placed>> /\ placeStage = "placed" /\ placeStage' = "held"
        /\ runner = "forced" /\ job.kind = "crc" /\ job.dfn = "d4"
    BY DEF Placements!HoldTwoTables
  <1>2. PlaceTypes /\ placed = OwnPlaces /\ RunnerTakes
    BY <1>1 DEF PlaceInv
  <1>3. PICK m \in Nat \ {0} : m = Placements!half /\ job.n = 2 * m
    BY <1>1, <1>2, HalfIs DEF Placements!TwoTables
  <1>4. PICK v \in DOMAIN placePk, c \in 1 .. 3 :
           \E draws \in [1 .. c - 1 -> Placements!half .. job.n - 2], pick \in SUBSET (1 .. c) :
              /\ \A k, l \in DOMAIN draws : draws[k] = draws[l] => k = l
              /\ held' = [victim |-> v, slot |-> placed[v].slot, cand |-> Placements!Candidates(placed[v].slot2, draws),
                          pick |-> pick]
    BY DEF Placements!HoldTwoTables
  <1>5. PICK draws \in [1 .. c - 1 -> m .. (2 * m) - 2] :
           /\ \A k, l \in DOMAIN draws : draws[k] = draws[l] => k = l
           /\ \E pick : held' = [victim |-> v, slot |-> placed[v].slot,
                                 cand |-> Placements!Candidates(placed[v].slot2, draws), pick |-> pick]
    BY <1>3, <1>4
  <1>6. PICK pick : held' = [victim |-> v, slot |-> placed[v].slot,
                             cand |-> Placements!Candidates(placed[v].slot2, draws), pick |-> pick]
    BY <1>5
  <1>7. PICK own : own = placed[v].slot2 /\ own = OwnPlace(v).slot2
    BY <1>2 DEF OwnPlaces
  <1>8. own \in m .. (2 * m) - 1
    <2>1. ~ Placements!OutOfTable(OwnPlace(v))
      BY <1>2, PlacedInTable
    <2>2. Placements!Table = "two"
      BY <1>1 DEF Placements!Table, Placements!TwoTables
    <2>3. m <= own /\ own < job.n
      BY <1>3, <1>7, <2>1, <2>2 DEF Placements!OutOfTable
    <2>4. own \in Int
      <3>1. OwnPlace(v) = Placements!ForcedSlot(v)
        BY <1>1, Zenon DEF OwnPlace
      <3>2. PICK a \in Nat : a = Placements!flow_hash("polyirr", Placements!EpochSeed(Placements!Epoch(v)), v)
        BY <1>2, HashIsNat, SeedsAreUsed
      <3>3. PICK b \in Nat : b = a % m
        OBVIOUS
      <3>4. Placements!TwoTables(job.dfn) /\ job.dfn # "d4s"
        BY <1>1 DEF Placements!TwoTables
      <3>5. PICK h1, s1 : Placements!ForcedSlot(v) = [hash |-> h1, slot |-> s1, slot2 |-> m + b]
        BY <1>3, <3>2, <3>3, <3>4, Zenon DEF Placements!ForcedSlot
      <3>6. own = m + b
        BY <1>7, <3>1, <3>5
      <3> QED BY <3>6
    <2> QED BY <1>3, <2>3, <2>4
  <1>9. PICK cand : cand = Placements!Candidates(own, draws)
    OBVIOUS
  <1>10. /\ Placements!IsInjective(cand) /\ Placements!Range(cand) \subseteq m .. (2 * m) - 1
         /\ 1 \in DOMAIN cand /\ cand[1] = own
    BY <1>5, <1>8, <1>9, CandidatesAre
  <1>11. held' = [victim |-> v, slot |-> OwnPlace(v).slot, cand |-> cand, pick |-> pick]
    BY <1>2, <1>6, <1>7, <1>9 DEF OwnPlaces
  <1>12. held'.victim = v /\ held'.slot = OwnPlace(v).slot /\ held'.cand = cand /\ held'.pick = pick
    BY <1>11
  <1>13. job.rekey = 0
    BY <1>1, <1>2, JobMeant DEF Placements!JobIsMeant
  <1>14. ASSUME NEW i \in DOMAIN placePk, placePk[i].tuple = placePk[v].tuple
         PROVE  placed[i].slot = held'.slot /\ placed[i].slot2 = own
    BY <1>1, <1>2, <1>7, <1>12, <1>13, <1>14, TupleHasPlace DEF OwnPlaces
  <1>15. Placements!Range(cand) \subseteq Placements!half .. job.n - 1
    BY <1>3, <1>10
  <1>16. pick = DOMAIN cand => own \in {cand[k] : k \in pick}
    BY <1>10
  <1>17. Placements!half' = Placements!half /\ job' = job /\ placePk' = placePk /\ placed' = placed
    BY <1>1 DEF Placements!half
  <1>18. Placements!HoldersMeetVictims'
    <2> SUFFICES ASSUME NEW i \in DOMAIN placePk, placePk[i].tuple = placePk[v].tuple
                 PROVE  /\ placed[i].slot = held'.slot
                        /\ Placements!IsInjective(cand) /\ Placements!Range(cand) \subseteq Placements!half .. job.n - 1
                        /\ pick = DOMAIN cand => placed[i].slot2 \in {cand[k] : k \in pick}
      BY <1>12, <1>17 DEF Placements!HoldersMeetVictims
    <2> QED BY <1>10, <1>14, <1>15, <1>16
  <1> QED BY <1>1, <1>18, HeldInv

\* Nothing is placed at first, and every step keeps what is known.
LEMMA PlaceSpecInv ==
  ASSUME Placements!PlacementAssumption
  PROVE  /\ Placements!PlaceInit => PlaceInv
         /\ PlaceInv /\ [Placements!PlaceNext]_(Placements!placeVars) => PlaceInv'
  <1>1. ASSUME Placements!PlaceInit PROVE PlaceInv
    BY <1>1 DEF Placements!PlaceInit, PlaceInv, PlaceTypes, Placements!HoldersMeetVictims
  <1>2. ASSUME PlaceInv, UNCHANGED Placements!placeVars PROVE PlaceInv'
    <2>1. UNCHANGED <<hash, placePk, job, runner, placeStage, forced, placed, held>>
      BY <1>2 DEF Placements!placeVars
    <2>2. OwnPlaces' = OwnPlaces /\ (Placements!SameHash' <=> Placements!SameHash) /\ (RunnerTakes' <=> RunnerTakes)
      BY <2>1, SamePlaces
    <2>3. PlaceTypes' /\ Placements!HoldersMeetVictims'
      BY <1>2, <2>1 DEF PlaceInv, PlaceTypes, Placements!HoldersMeetVictims, Placements!half
    <2> QED BY <1>2, <2>1, <2>2, <2>3 DEF PlaceInv
  <1>3. ASSUME PlaceInv, Placements!PlaceNext PROVE PlaceInv'
    BY <1>3, RunJobInv, PlaceInvStep, PlaceCompiledInv, HoldOneInv, HoldTwoInv DEF Placements!PlaceNext
  <1> QED BY <1>1, <1>2, <1>3

-----------------------------------------------------------------------------
(* What was placed.                                                        *)

\* g2_mawi.run computes the slots of NetBeaconSim.run under its hashes.
LEMMA ForcedIsDerived ==
  ASSUME Placements!PlacementAssumption, PlaceTypes, NEW i,
         NEW own, own = Placements!Derived(job.kind, job.seed, Placements!h2seed, i),
         NEW got, got = Placements!ForcedSlot(i)
  PROVE  /\ got.hash = own.hash /\ got.slot = own.slot
         /\ job.dfn = "d4s" => got.slot2 = Placements!half + own.slot
         /\ job.dfn # "d4s" /\ Placements!Epoch(i) = 0 => got = own
  <1>1. PICK x, m : x = Placements!flow_hash(job.kind, job.seed, i) /\ m = Placements!half
    OBVIOUS
  <1>2. PICK y, z : /\ y = Placements!flow_hash("polyirr", Placements!EpochSeed(Placements!Epoch(i)), i)
                    /\ z = Placements!flow_hash("polyirr", Placements!h2seed, i)
    OBVIOUS
  <1>3. Placements!Epoch(i) = 0 => y = z
    <2>1. Placements!Epoch(i) = 0 => Placements!EpochSeed(Placements!Epoch(i)) = Placements!h2seed
      BY Zenon DEF Placements!EpochSeed
    <2> QED BY <1>2, <2>1, Zenon
  <1>4. CASE Placements!TwoTables(job.dfn)
    <2>1. own = [hash |-> x, slot |-> x % m, slot2 |-> m + (z % m)]
      BY <1>1, <1>2, <1>4, Zenon DEF Placements!Derived
    <2>2. got = [hash |-> x, slot |-> x % m, slot2 |-> m + (IF job.dfn = "d4s" THEN x % m ELSE (y % m))]
      BY <1>1, <1>2, <1>4, Zenon DEF Placements!ForcedSlot
    <2> QED BY <1>1, <1>3, <2>1, <2>2
  <1>5. CASE ~ Placements!TwoTables(job.dfn)
    <2>1. PICK a : a = Placements!&(x, job.n - 1)
      OBVIOUS
    <2>2. Placements!PowerOfTwo(job.n)
      BY JobMeant DEF Placements!JobIsMeant
    <2>3. own = [hash |-> x, slot |-> a, slot2 |-> 0]
      BY <1>1, <1>5, <2>1, <2>2, Zenon DEF Placements!Derived
    <2>4. got = [hash |-> x, slot |-> a, slot2 |-> 0]
      BY <1>1, <1>5, <2>1, Zenon DEF Placements!ForcedSlot
    <2>5. job.dfn # "d4s"
      BY <1>5 DEF Placements!TwoTables
    <2> QED BY <2>3, <2>4, <2>5
  <1> QED BY <1>4, <1>5

\* g8_mawi.run computes them once more.
LEMMA CompiledIsForced ==
  ASSUME Placements!PlacementAssumption, PlaceTypes, RunnerTakes, runner = "compiled", NEW i
  PROVE  Placements!CompiledSlot(i) = Placements!ForcedSlot(i)
  <1>1. job.kind = "crc" /\ job.seed = 0 /\ job.rekey = 0 /\ job.dfn \in {"und", "d4c"}
    BY JobMeant DEF RunnerTakes, Placements!JobIsMeant
  <1>2. PICK x, m, y : /\ x = Placements!flow_hash("crc", 0, i) /\ m = Placements!half
                       /\ y = Placements!flow_hash("polyirr", Placements!DrawSeed(job.g), i)
    OBVIOUS
  <1>3. Placements!EpochSeed(Placements!Epoch(i)) = Placements!h2seed
    BY <1>1 DEF Placements!Epoch, Placements!EpochOf, Placements!EpochSeed
  <1>4. Placements!h2seed = Placements!DrawSeed(job.g)
    BY <1>1 DEF Placements!h2seed
  <1>5. CASE job.dfn = "d4c"
    <2>1. Placements!CompiledSlot(i) = [hash |-> x, slot |-> x % m, slot2 |-> m + (y % m)]
      BY <1>2, <1>5, Zenon DEF Placements!CompiledSlot
    <2>2. Placements!TwoTables(job.dfn) /\ job.dfn # "d4s"
      BY <1>5 DEF Placements!TwoTables
    <2>3. Placements!ForcedSlot(i) = [hash |-> x, slot |-> x % m, slot2 |-> m + (y % m)]
      BY <1>1, <1>2, <1>3, <1>4, <2>2, Zenon DEF Placements!ForcedSlot
    <2> QED BY <2>1, <2>3, Zenon
  <1>6. CASE job.dfn = "und"
    <2>1. PICK a : a = Placements!&(x, job.n - 1)
      OBVIOUS
    <2>2. job.dfn # "d4c" /\ ~ Placements!TwoTables(job.dfn)
      BY <1>6 DEF Placements!TwoTables
    <2>3. Placements!CompiledSlot(i) = [hash |-> x, slot |-> a, slot2 |-> 0]
      BY <1>2, <2>1, <2>2, Zenon DEF Placements!CompiledSlot
    <2>4. Placements!ForcedSlot(i) = [hash |-> x, slot |-> a, slot2 |-> 0]
      BY <1>1, <1>2, <2>1, <2>2, Zenon DEF Placements!ForcedSlot
    <2> QED BY <2>3, <2>4, Zenon
  <1> QED BY <1>1, <1>5, <1>6

\* flow_ids numbers the flows apart, by their first packets.
LEMMA FlowIdsApart ==
  ASSUME Placements!PlacementAssumption, PlaceTypes, NEW i \in DOMAIN placePk, NEW k \in DOMAIN placePk
  PROVE  /\ Placements!FlowId(i) \in Int
         /\ Placements!FlowId(i) = Placements!FlowId(k) => placePk[i].tuple = placePk[k].tuple
  <1> DEFINE First(j) == \A x \in 1 .. j - 1 : placePk[x].tuple # placePk[j].tuple
             IsOwn(y, j) == j \in DOMAIN placePk /\ First(j) /\ placePk[j].tuple = placePk[y].tuple
             Own(y) == CHOOSE j \in DOMAIN placePk : First(j) /\ placePk[j].tuple = placePk[y].tuple
             Firsts(j) == {x \in 1 .. j : First(x)}
  <1>1. PICK len \in Nat : DOMAIN placePk = 1 .. len
    <2>1. \E P : placePk \in Seq(P)
      BY JobMeant, Zenon DEF Placements!StreamIsMeant
    <2>2. DOMAIN placePk = 1 .. Len(placePk) /\ Len(placePk) \in Nat
      BY <2>1
    <2> QED BY <2>2
  <1>2. ASSUME NEW y \in DOMAIN placePk PROVE \E j : IsOwn(y, j)
    <2> DEFINE S == {j \in 1 .. len : placePk[j].tuple = placePk[y].tuple}
    <2>1. S \in SUBSET (0 .. len) /\ S # {}
      BY <1>1, <1>2
    <2>2. PICK j \in S : \A x \in S : j <= x
      <3> HIDE DEF S
      <3> QED BY <2>1, Least
    <2>3. First(j)
      BY <2>2
    <2> QED BY <1>1, <2>2, <2>3
  <1>3. ASSUME NEW y \in DOMAIN placePk PROVE IsOwn(y, Own(y))
    <2>1. \E j \in DOMAIN placePk : First(j) /\ placePk[j].tuple = placePk[y].tuple
      BY <1>2, <1>3
    <2> HIDE DEF First
    <2> QED BY <2>1, Zenon
  <1>4. \A y : Placements!FlowId(y) = Cardinality(Firsts(Own(y))) - 1
    BY PlaceCard, Zenon DEF Placements!FlowId
  <1>5. PICK a, b : a = Own(i) /\ b = Own(k) /\ IsOwn(i, a) /\ IsOwn(k, b)
    <2>1. IsOwn(i, Own(i)) /\ IsOwn(k, Own(k))
      BY <1>3
    <2> HIDE DEF IsOwn, Own
    <2> QED BY <2>1, Zenon
  <1>6. a \in 1 .. len /\ b \in 1 .. len /\ First(a) /\ First(b)
    BY <1>1, <1>5
  <1>7. IsFiniteSet(Firsts(a)) /\ IsFiniteSet(Firsts(b))
    <2>1. ASSUME NEW x \in Nat PROVE IsFiniteSet(Firsts(x))
      <3>1. IsFiniteSet(1 .. x) /\ Firsts(x) \in SUBSET (1 .. x)
        BY FS_Interval
      <3> HIDE DEF Firsts
      <3> QED BY <3>1, FS_Subset
    <2> HIDE DEF Firsts
    <2> QED BY <1>6, <2>1
  <1>8. ASSUME a < b PROVE Firsts(a) \in SUBSET Firsts(b) /\ Firsts(a) # Firsts(b)
    <2>1. b \in Firsts(b) /\ b \notin Firsts(a)
      BY <1>6, <1>8
    <2> HIDE DEF First
    <2>2. Firsts(a) \subseteq Firsts(b)
      BY <1>6, <1>8
    <2> QED BY <2>1, <2>2
  <1>9. ASSUME b < a PROVE Firsts(b) \in SUBSET Firsts(a) /\ Firsts(b) # Firsts(a)
    <2>1. a \in Firsts(a) /\ a \notin Firsts(b)
      BY <1>6, <1>9
    <2> HIDE DEF First
    <2>2. Firsts(b) \subseteq Firsts(a)
      BY <1>6, <1>9
    <2> QED BY <2>1, <2>2
  <1>10. Placements!FlowId(i) = Cardinality(Firsts(a)) - 1 /\ Placements!FlowId(k) = Cardinality(Firsts(b)) - 1
    BY <1>4, <1>5
  <1>11. placePk[a].tuple = placePk[i].tuple /\ placePk[b].tuple = placePk[k].tuple
    BY <1>5
  <1> HIDE DEF Firsts, Own, IsOwn, First
  <1>12. PICK u \in Nat, w \in Nat : u = Cardinality(Firsts(a)) /\ w = Cardinality(Firsts(b))
    <2>1. Cardinality(Firsts(a)) \in Nat /\ Cardinality(Firsts(b)) \in Nat
      BY <1>7, FS_CardinalityType
    <2> QED BY <2>1
  <1>13. a # b => u # w
    <2>1. a < b => u # w
      BY <1>7, <1>8, <1>12, FS_Subset, Zenon
    <2>2. b < a => u # w
      BY <1>7, <1>9, <1>12, FS_Subset, Zenon
    <2> QED BY <1>6, <2>1, <2>2
  <1>14. Placements!FlowId(i) = u - 1 /\ Placements!FlowId(k) = w - 1
    BY <1>10, <1>12
  <1>15. u - 1 = w - 1 => u = w
    OBVIOUS
  <1> QED BY <1>11, <1>13, <1>14, <1>15

\* So placements agree.
LEMMA PlacementsDoAgree ==
  ASSUME Placements!PlacementAssumption, PlaceInv
  PROVE  Placements!PlacementsAgree
  <1>1. SUFFICES ASSUME placed # <<>>
                 PROVE  Placements!PlacementsAgree
    BY DEF Placements!PlacementsAgree
  <1>2. placeStage \notin {"job", "run"}
    BY <1>1 DEF PlaceInv
  <1>3. /\ PlaceTypes /\ RunnerTakes /\ placed = OwnPlaces /\ (placeStage = "raised" <=> Placements!SameHash)
        /\ Placements!HoldersMeetVictims
    BY <1>2 DEF PlaceInv
  <1>4. ASSUME runner # "emulator", NEW i \in DOMAIN placePk,
               NEW own, own = Placements!Derived(job.kind, job.seed, Placements!h2seed, i)
        PROVE  /\ placed[i].hash = own.hash /\ placed[i].slot = own.slot
               /\ job.dfn = "d4s" => placed[i].slot2 = Placements!half + own.slot
               /\ job.dfn # "d4s" /\ Placements!Epoch(i) = 0 => placed[i] = own
               /\ runner = "compiled" => placed[i] = Placements!ForcedSlot(i)
    <2>1. OwnPlace(i) = Placements!ForcedSlot(i)
      <3>1. CASE runner = "compiled"
        BY <1>3, <3>1, CompiledIsForced, Zenon DEF OwnPlace
      <3>2. CASE runner = "forced"
        BY <3>2, Zenon DEF OwnPlace
      <3> QED BY <1>3, <1>4, <3>1, <3>2 DEF PlaceTypes
    <2>2. placed[i] = Placements!ForcedSlot(i)
      BY <1>3, <2>1 DEF OwnPlaces
    <2>3. PICK got : got = Placements!ForcedSlot(i)
      OBVIOUS
    <2>4. /\ got.hash = own.hash /\ got.slot = own.slot
          /\ job.dfn = "d4s" => got.slot2 = Placements!half + own.slot
          /\ job.dfn # "d4s" /\ Placements!Epoch(i) = 0 => got = own
      BY <1>3, <1>4, <2>3, ForcedIsDerived, Zenon
    <2> QED BY <2>2, <2>3, <2>4, Zenon
  <1>5. ASSUME Placements!Table = "isolated", NEW i \in DOMAIN placePk, NEW k \in DOMAIN placePk,
               placed[i].slot = placed[k].slot \/ placed[i].hash = placed[k].hash
        PROVE  placePk[i].tuple = placePk[k].tuple
    <2>1. runner = "emulator"
      BY <1>5 DEF Placements!Table
    <2>2. placed[i] = Placements!IsolatedSlot(i) /\ placed[k] = Placements!IsolatedSlot(k)
      BY <1>3, <1>5, <2>1 DEF OwnPlaces, OwnPlace
    <2>3. PICK x \in Int, y \in Int : x = Placements!FlowId(i) /\ y = Placements!FlowId(k)
      BY <1>3, FlowIdsApart
    <2>4. placed[i] = [hash |-> x + 1, slot |-> x, slot2 |-> 0] /\ placed[k] = [hash |-> y + 1, slot |-> y, slot2 |-> 0]
      BY <2>2, <2>3, Zenon DEF Placements!IsolatedSlot
    <2>5. x = y
      BY <1>5, <2>4
    <2> QED BY <1>3, <2>3, <2>5, FlowIdsApart
  <1> QED BY <1>3, <1>4, <1>5, Zenon DEF Placements!PlacementsAgree

\* In the run of all parts.
LEMMA PlacementRuns ==
  /\ DgradeInit /\ running = "placement" => Placements!PlaceInit
  /\ [DgradeNext]_DgradeVars =>
        running' = running /\ (running = "placement" => [Placements!PlaceNext]_(Placements!placeVars))
<1>1. DgradeInit /\ running = "placement" => Placements!PlaceInit
  BY DEF DgradeInit
<1>2. [DgradeNext]_DgradeVars =>
         running' = running /\ (running = "placement" => [Placements!PlaceNext]_(Placements!placeVars))
  BY DEF DgradeNext, DgradeVars, LastParts, PlacementsState, Placements!placeVars
<1>3. QED
  BY <1>1, <1>2

-----------------------------------------------------------------------------
(* JobGrids, for any clock starts below a thousand: what the lists hold.   *)

\* What is known of a job: its fields.
IsJob(x, days, gates, fs, C, arms, ns) ==
    /\ x = Job(x.day, x.gate, x.f, x.g, x.arm, x.n)
    /\ x.day \in days /\ x.gate \in gates /\ x.f \in fs /\ x.g \in C /\ x.arm \in arms /\ x.n \in ns

SmallSizes == {32768, 16384, 8192}
BudgetLoads == {20, 40, 80}
Doubled == 131072

\* The fields of a job are what it was made of.
LEMMA JobIs ==
  ASSUME NEW days, NEW gates, NEW fs, NEW C, NEW arms, NEW ns,
         NEW day \in days, NEW gate \in gates, NEW f \in fs, NEW g \in C, NEW arm \in arms, NEW n \in ns
  PROVE  IsJob(Job(day, gate, f, g, arm, n), days, gates, fs, C, arms, ns)
  BY DEF Job, IsJob

\* The jobs of a pair, with the fields that are theirs.
LEMMA PairIs ==
  ASSUME NEW day, NEW f, NEW C, NEW arm, NEW n, NEW x, x \in Pair(day, f, C, arm, n)
  PROVE  IsJob(x, {day}, {"oracle"}, {0, f}, C, {arm}, {n})
  <1>1. PICK y \in {0, f}, g \in C : x = Job(day, "oracle", y, g, arm, n)
    BY DEF Pair
  <1> QED BY <1>1, JobIs

\* A size and its load.
LEMMA BudgetIs ==
  ASSUME NEW b \in FixedBudget
  PROVE  b[1] \in SmallSizes /\ b[2] \in BudgetLoads
  BY DEF FixedBudget, SmallSizes, BudgetLoads

\* Every small size has a load.
LEMMA SizeHasBudget ==
  ASSUME NEW n \in SmallSizes
  PROVE  \E b \in FixedBudget : b[1] = n
  <1>1. n = <<32768, 20>>[1] \/ n = <<16384, 40>>[1] \/ n = <<8192, 80>>[1]
    BY DEF SmallSizes
  <1> QED BY <1>1 DEF FixedBudget

\* The jobs of every list, by their fields.
LEMMA MawiJobsAre ==
  ASSUME NEW x, x \in MawiJobs
  PROVE  \/ IsJob(x, {"p"}, {"oracle"}, {0, 10}, C3, {"d4", "d5", "d4s"}, {Full})
         \/ IsJob(x, {"p"}, {"oracle"}, {25, 50}, C10, {"d4"}, {Full})
         \/ IsJob(x, {"r"}, {"oracle"}, {0, 10, 25}, C10, {"d4"}, {Full})
         \/ IsJob(x, {"p"}, {"oracle"}, {0, 10}, C10, {"und", "d4"}, SmallSizes)
  <1>1. CASE x \in Pair("p", 10, C3, "d4", Full)
    <2>1. IsJob(x, {"p"}, {"oracle"}, {0, 10}, C3, {"d4"}, {Full})
      BY <1>1, PairIs
    <2> QED BY <2>1 DEF IsJob
  <1>2. CASE x \in {Job("p", "oracle", f, g, "d4", Full) : f \in {25, 50}, g \in C10}
    <2>1. PICK f \in {25, 50}, g \in C10 : x = Job("p", "oracle", f, g, "d4", Full)
      BY <1>2
    <2> QED BY <2>1, JobIs
  <1>3. CASE x \in Pair("r", 10, C10, "d4", Full) \cup Pair("r", 25, C10, "d4", Full)
    <2>1. \/ IsJob(x, {"r"}, {"oracle"}, {0, 10}, C10, {"d4"}, {Full})
          \/ IsJob(x, {"r"}, {"oracle"}, {0, 25}, C10, {"d4"}, {Full})
      BY <1>3, PairIs
    <2> QED BY <2>1 DEF IsJob
  <1>4. CASE x \in UNION {Pair("p", 10, C3, arm, Full) : arm \in {"d5", "d4s"}}
    <2>1. PICK arm \in {"d5", "d4s"} : x \in Pair("p", 10, C3, arm, Full)
      BY <1>4
    <2>2. IsJob(x, {"p"}, {"oracle"}, {0, 10}, C3, {arm}, {Full})
      BY <2>1, PairIs
    <2> QED BY <2>2 DEF IsJob
  <1>5. CASE x \in UNION {Pair("p", 10, C10, arm, n) : arm \in {"und", "d4"}, n \in {32768, 16384, 8192}}
    <2>1. PICK arm \in {"und", "d4"}, n \in {32768, 16384, 8192} : x \in Pair("p", 10, C10, arm, n)
      BY <1>5
    <2>2. IsJob(x, {"p"}, {"oracle"}, {0, 10}, C10, {arm}, {n})
      BY <2>1, PairIs
    <2> QED BY <2>1, <2>2 DEF IsJob, SmallSizes
  <1> QED BY <1>1, <1>2, <1>3, <1>4, <1>5 DEF MawiJobs

\* mawi2: the fixed budget, the model gate, the doubled table and the arm d4a.
LEMMA Mawi2JobsAre ==
  ASSUME NEW x, x \in Mawi2Jobs
  PROVE  \/ IsJob(x, {"p"}, {"oracle"}, BudgetLoads, C10, {"und", "d4"}, SmallSizes)
         \/ IsJob(x, {"p"}, {"model"}, {10}, C10, {"und", "d4"}, {Full})
         \/ IsJob(x, {"p"}, {"model"}, {0}, C10, {"d4"}, {Full})
         \/ IsJob(x, {"r"}, {"oracle"}, {0, 10}, C10, {"d4s"}, {Full})
         \/ IsJob(x, {"p"}, {"oracle"}, {0, 5}, C3, {"und"}, {Doubled})
         \/ IsJob(x, {"r"}, {"oracle"}, {0, 5}, C10, {"und"}, {Doubled})
         \/ IsJob(x, {"p"}, {"oracle"}, {0, 10}, C3, {"d4a"}, {Full})
  <1>1. CASE x \in {Job("p", "oracle", b[2], g, arm, b[1]) : b \in FixedBudget, g \in C10, arm \in {"und", "d4"}}
    <2>1. PICK b \in FixedBudget, g \in C10, arm \in {"und", "d4"} : x = Job("p", "oracle", b[2], g, arm, b[1])
      BY <1>1
    <2> QED BY <2>1, BudgetIs, JobIs
  <1>2. CASE x \in {Job("p", "model", 10, g, arm, Full) : g \in C10, arm \in {"und", "d4"}}
    <2>1. PICK g \in C10, arm \in {"und", "d4"} : x = Job("p", "model", 10, g, arm, Full)
      BY <1>2
    <2> QED BY <2>1, JobIs
  <1>3. CASE x \in {Job("p", "model", 0, g, "d4", Full) : g \in C10}
    <2>1. PICK g \in C10 : x = Job("p", "model", 0, g, "d4", Full)
      BY <1>3
    <2> QED BY <2>1, JobIs
  <1>4. CASE x \in Pair("r", 10, C10, "d4s", Full)
    BY <1>4, PairIs
  <1>5. CASE x \in Pair("p", 5, C3 \ C10, "und", 131072)
    <2>1. IsJob(x, {"p"}, {"oracle"}, {0, 5}, C3 \ C10, {"und"}, {131072})
      BY <1>5, PairIs
    <2> QED BY <2>1 DEF IsJob, Doubled
  <1>6. CASE x \in Pair("r", 5, C10, "und", 131072)
    <2>1. IsJob(x, {"r"}, {"oracle"}, {0, 5}, C10, {"und"}, {131072})
      BY <1>6, PairIs
    <2> QED BY <2>1 DEF IsJob, Doubled
  <1>7. CASE x \in Pair("p", 10, C3, "d4a", Full)
    BY <1>7, PairIs
  <1> QED BY <1>1, <1>2, <1>3, <1>4, <1>5, <1>6, <1>7 DEF Mawi2Jobs

\* mawi3: the arm d4c.
LEMMA Mawi3JobsAre ==
  ASSUME NEW x, x \in Mawi3Jobs
  PROVE  \/ IsJob(x, {"p"}, {"oracle"}, {0, 10}, C3, {"d4c"}, {Full})
         \/ IsJob(x, {"r"}, {"oracle"}, {0, 10}, C10, {"d4c"}, {Full})
  BY PairIs DEF Mawi3Jobs

\* mawi4: the arms of the third addendum.
LEMMA Mawi4JobsAre ==
  ASSUME NEW x, x \in Mawi4Jobs
  PROVE  \/ IsJob(x, {"p"}, {"oracle"}, {0, 10}, C10, {"d4d1", "d4age"}, {Full})
         \/ IsJob(x, {"p"}, {"oracle"}, {0} \cup BudgetLoads, C10, {"d4d1", "d4age"}, SmallSizes)
  <1>1. PICK arm \in {"d4d1", "d4age"} :
           x \in Pair("p", 10, C10, arm, Full) \cup (UNION {Pair("p", b[2], C10, arm, b[1]) : b \in FixedBudget})
    BY DEF Mawi4Jobs
  <1>2. CASE x \in Pair("p", 10, C10, arm, Full)
    <2>1. IsJob(x, {"p"}, {"oracle"}, {0, 10}, C10, {arm}, {Full})
      BY <1>2, PairIs
    <2> QED BY <1>1, <2>1 DEF IsJob
  <1>3. CASE x \in UNION {Pair("p", b[2], C10, arm, b[1]) : b \in FixedBudget}
    <2>1. PICK b \in FixedBudget : x \in Pair("p", b[2], C10, arm, b[1])
      BY <1>3
    <2>2. IsJob(x, {"p"}, {"oracle"}, {0, b[2]}, C10, {arm}, {b[1]})
      BY <2>1, PairIs
    <2> QED BY <1>1, <2>2, BudgetIs DEF IsJob
  <1> QED BY <1>1, <1>2, <1>3

\* mawi5: the arm d4c on the fixed budget.
LEMMA Mawi5JobsAre ==
  ASSUME NEW x, x \in Mawi5Jobs
  PROVE  IsJob(x, {"p"}, {"oracle"}, {0} \cup BudgetLoads, C10, {"d4c"}, SmallSizes)
  <1>1. PICK b \in FixedBudget : x \in Pair("p", b[2], C10, "d4c", b[1])
    BY DEF Mawi5Jobs
  <1>2. IsJob(x, {"p"}, {"oracle"}, {0, b[2]}, C10, {"d4c"}, {b[1]})
    BY <1>1, PairIs
  <1> QED BY <1>2, BudgetIs DEF IsJob

\* pr: PeerRush.
LEMMA PrJobsAre ==
  ASSUME NEW x, x \in PrJobs
  PROVE  IsJob(x, {"pr"}, {"model"}, {0, 10, 25}, C3, {"und", "d4", "d4s", "d5"}, {8192})
  <1>1. \E f \in {0, 10, 25}, arm \in {"und", "d4", "d4s", "d5"}, g \in C3 : x = PrJob(f, arm, g)
    BY GridAssumption DEF PrJobs
  <1>2. PICK f \in {0, 10, 25}, arm \in {"und", "d4", "d4s", "d5"}, g \in C3 : x = PrJob(f, arm, g)
    BY <1>1
  <1> QED BY <1>2, JobIs DEF PrJob

\* The results of the gates before, by their fields.
LEMMA EarlierAre ==
  ASSUME NEW x, x \in EarlierResults
  PROVE  \/ IsJob(x, {"p", "r"}, {"oracle"}, {0, 10, 50}, C3, {"und"}, {Full})
         \/ IsJob(x, {"p", "r"}, {"oracle"}, {25}, C10, {"und"}, {Full})
         \/ IsJob(x, {"p"}, {"model"}, {0}, C10, {"und"}, {Full})
         \/ IsJob(x, {"p"}, {"oracle"}, {0, 5}, C10, {"und"}, {Doubled})
         \/ IsJob(x, {"pr"}, {"model"}, {0, 10, 25}, C3, {"und"}, {8192})
  <1>1. CASE x \in {Job(day, "oracle", f, g, "und", Full) : day \in {"p", "r"}, f \in {0, 10, 50}, g \in C3}
    <2>1. PICK day \in {"p", "r"}, f \in {0, 10, 50}, g \in C3 : x = Job(day, "oracle", f, g, "und", Full)
      BY <1>1
    <2> QED BY <2>1, JobIs
  <1>2. CASE x \in {Job(day, "oracle", 25, g, "und", Full) : day \in {"p", "r"}, g \in C10}
    <2>1. PICK day \in {"p", "r"}, g \in C10 : x = Job(day, "oracle", 25, g, "und", Full)
      BY <1>2
    <2> QED BY <2>1, JobIs
  <1>3. CASE x \in {Job("p", "model", 0, g, "und", Full) : g \in C10}
    <2>1. PICK g \in C10 : x = Job("p", "model", 0, g, "und", Full)
      BY <1>3
    <2> QED BY <2>1, JobIs
  <1>4. CASE x \in Pair("p", 5, C10, "und", 131072)
    <2>1. IsJob(x, {"p"}, {"oracle"}, {0, 5}, C10, {"und"}, {131072})
      BY <1>4, PairIs
    <2> QED BY <2>1 DEF Doubled
  <1>5. CASE x \in {PrJob(f, "und", g) : f \in {0, 10}, g \in C3} \cup {PrJob(25, "und", g) : g \in C10 \cup C25}
    <2>1. \E f \in {0, 10, 25}, g \in C3 : x = PrJob(f, "und", g)
      BY <1>5, GridAssumption
    <2>2. PICK f \in {0, 10, 25}, g \in C3 : x = PrJob(f, "und", g)
      BY <2>1
    <2> QED BY <2>2, JobIs DEF PrJob
  <1> QED BY <1>1, <1>2, <1>3, <1>4, <1>5 DEF EarlierResults

Kinds == {"mawi", "mawi2", "mawi3", "mawi4", "mawi5", "pr"}

\* The lists by their names.
LEMMA ListsAre ==
  /\ DOMAIN Lists = Kinds
  /\ Lists["mawi"] = MawiJobs /\ Lists["mawi2"] = Mawi2Jobs /\ Lists["mawi3"] = Mawi3Jobs
  /\ Lists["mawi4"] = Mawi4Jobs /\ Lists["mawi5"] = Mawi5Jobs /\ Lists["pr"] = PrJobs
  BY DEF Lists, Kinds

\* What is known of any job.
JobDays == {"p", "r", "pr"}
JobArms == {"und", "d4", "d5", "d4s", "d4a", "d4c", "d4d1", "d4age"}
JobSizes == {Full, Doubled} \cup SmallSizes
IsAnyJob(x) == IsJob(x, JobDays, {"oracle", "model"}, Nat, C3, JobArms, JobSizes)

\* A job of fewer kinds is a job.
LEMMA JobWidens ==
  ASSUME NEW x, NEW days, NEW gates, NEW fs, NEW C, NEW arms, NEW ns, IsJob(x, days, gates, fs, C, arms, ns),
         days \subseteq JobDays, gates \subseteq {"oracle", "model"}, fs \subseteq Nat, C \subseteq C3,
         arms \subseteq JobArms, ns \subseteq JobSizes
  PROVE  IsAnyJob(x)
  BY DEF IsJob, IsAnyJob

\* Whatever a list asks for is a job.
LEMMA ListedIsJob ==
  ASSUME NEW kind \in Kinds, NEW x \in Lists[kind]
  PROVE  IsAnyJob(x)
  <1>1. \A g \in C10 : g \in C3
    BY GridAssumption
  <1>2. \A f \in BudgetLoads : f \in Nat
    BY DEF BudgetLoads
  <1>3. Full \in JobSizes /\ Doubled \in JobSizes /\ 8192 \in JobSizes /\ \A n \in SmallSizes : n \in JobSizes
    BY DEF JobSizes, SmallSizes
  <1>4. "p" \in JobDays /\ "r" \in JobDays /\ "pr" \in JobDays
    BY DEF JobDays
  <1>5. /\ "und" \in JobArms /\ "d4" \in JobArms /\ "d5" \in JobArms /\ "d4s" \in JobArms
        /\ "d4a" \in JobArms /\ "d4c" \in JobArms /\ "d4d1" \in JobArms /\ "d4age" \in JobArms
    BY DEF JobArms
  <1>6. CASE kind = "mawi"
    <2>1. x \in MawiJobs
      BY <1>6, ListsAre
    <2> QED BY <1>1, <1>2, <1>3, <1>4, <1>5, <2>1, MawiJobsAre DEF IsJob, IsAnyJob
  <1>7. CASE kind = "mawi2"
    <2>1. x \in Mawi2Jobs
      BY <1>7, ListsAre
    <2> QED BY <1>1, <1>2, <1>3, <1>4, <1>5, <2>1, Mawi2JobsAre DEF IsJob, IsAnyJob
  <1>8. CASE kind = "mawi3"
    <2>1. x \in Mawi3Jobs
      BY <1>8, ListsAre
    <2> QED BY <1>1, <1>2, <1>3, <1>4, <1>5, <2>1, Mawi3JobsAre DEF IsJob, IsAnyJob
  <1>9. CASE kind = "mawi4"
    <2>1. x \in Mawi4Jobs
      BY <1>9, ListsAre
    <2> QED BY <1>1, <1>2, <1>3, <1>4, <1>5, <2>1, Mawi4JobsAre DEF IsJob, IsAnyJob
  <1>10. CASE kind = "mawi5"
    <2>1. x \in Mawi5Jobs
      BY <1>10, ListsAre
    <2> QED BY <1>1, <1>2, <1>3, <1>4, <1>5, <2>1, Mawi5JobsAre DEF IsJob, IsAnyJob
  <1>11. CASE kind = "pr"
    <2>1. x \in PrJobs
      BY <1>11, ListsAre
    <2> QED BY <1>1, <1>2, <1>3, <1>4, <1>5, <2>1, PrJobsAre DEF IsJob, IsAnyJob
  <1> QED BY <1>6, <1>7, <1>8, <1>9, <1>10, <1>11 DEF Kinds

\* The other jobs of a row.
LEMMA PartnersAre ==
  ASSUME NEW x, IsAnyJob(x)
  PROVE  /\ Undefended(x) = Job(x.day, x.gate, x.f, x.g, "und", x.n) /\ IsAnyJob(Undefended(x))
         /\ NoHolders(x) = Job(x.day, x.gate, 0, x.g, x.arm, x.n) /\ IsAnyJob(NoHolders(x))
         /\ NoHolders(Undefended(x)) = Job(x.day, x.gate, 0, x.g, "und", x.n)
         /\ IsAnyJob(NoHolders(Undefended(x)))
  <1>1. x = [day |-> x.day, gate |-> x.gate, f |-> x.f, g |-> x.g, arm |-> x.arm, n |-> x.n]
    BY DEF IsAnyJob, IsJob, Job
  <1>2. /\ Undefended(x) = Job(x.day, x.gate, x.f, x.g, "und", x.n)
        /\ NoHolders(x) = Job(x.day, x.gate, 0, x.g, x.arm, x.n)
    BY <1>1 DEF Undefended, NoHolders, Job
  <1>3. NoHolders(Undefended(x)) = Job(x.day, x.gate, 0, x.g, "und", x.n)
    BY <1>2 DEF NoHolders, Job
  <1>4. "und" \in JobArms /\ 0 \in Nat
    BY DEF JobArms
  <1>5. /\ x.day \in JobDays /\ x.gate \in {"oracle", "model"} /\ x.f \in Nat /\ x.g \in C3
        /\ x.arm \in JobArms /\ x.n \in JobSizes
    BY DEF IsAnyJob, IsJob
  <1> QED BY <1>2, <1>3, <1>4, <1>5, JobIs DEF IsAnyJob

-----------------------------------------------------------------------------
(* JobGrids: what is known of the results.                                 *)

\* Every list that was run was complete when it was checked; what it lacks has
\* failed, and every result is an earlier one or of a list that was run.
GridInv ==
    /\ ran \subseteq Kinds /\ EarlierResults \subseteq have
    /\ \A kind \in ran : Lists[kind] \ have \subseteq failed
    /\ \A x \in have : x \in EarlierResults \/ \E kind \in ran : x \in Lists[kind]
    /\ \A kind \in ran : \A x \in Defended(Lists[kind]) : Partners(x) \subseteq have \cup Lists[kind]

\* Before any list, the results are the earlier ones.
LEMMA GridInitInv == GridInit => GridInv
  BY DEF GridInit, GridInv

\* A list that passes its check leaves what is known in place.
LEMMA GridNextInv ==
  ASSUME GridInv, [\E kind \in DOMAIN Lists : RunList(kind)]_gridVars
  PROVE  GridInv'
  <1>1. CASE UNCHANGED gridVars
    BY <1>1 DEF gridVars, GridInv
  <1>2. ASSUME NEW kind \in Kinds, RunList(kind) PROVE GridInv'
    <2>1. PICK lost : /\ have' = have \cup (Lists[kind] \ lost)
                      /\ failed' = (failed \ Lists[kind]) \cup lost
      BY <1>2 DEF RunList
    <2>2. ran' = ran \cup {kind} /\ Check(Lists[kind])
      BY <1>2 DEF RunList
    <2>3. ran' \subseteq Kinds /\ EarlierResults \subseteq have'
      BY <2>1, <2>2 DEF GridInv
    <2>4. \A k \in ran' : Lists[k] \ have' \subseteq failed'
      BY <2>1, <2>2 DEF GridInv
    <2>5. \A x \in have' : x \in EarlierResults \/ \E k \in ran' : x \in Lists[k]
      BY <2>1, <2>2 DEF GridInv
    <2>6. \A k \in ran' : \A x \in Defended(Lists[k]) : Partners(x) \subseteq have' \cup Lists[k]
      BY <2>1, <2>2 DEF GridInv, Check
    <2> QED BY <2>3, <2>4, <2>5, <2>6 DEF GridInv
  <1> QED BY <1>1, <1>2, ListsAre

\* A result of a smaller table without holders under D4 is of the first list.
LEMMA MawiWasRun ==
  ASSUME GridInv, NEW x \in have, IsJob(x, {"p"}, {"oracle"}, {0}, C10, {"d4"}, SmallSizes)
  PROVE  "mawi" \in ran
  <1>1. x.day = "p" /\ x.gate = "oracle" /\ x.f = 0 /\ x.arm = "d4" /\ x.n \in SmallSizes
    BY DEF IsJob
  <1>2. x.n # Full /\ x.n # Doubled
    BY <1>1, SMT DEF SmallSizes, Full, Doubled
  <1>3. 0 \notin BudgetLoads
    BY DEF BudgetLoads
  <1>4. x \notin EarlierResults
    BY <1>1, EarlierAre DEF IsJob
  <1>5. PICK kind \in ran : x \in Lists[kind]
    BY <1>4 DEF GridInv
  <1>6. kind \in Kinds
    BY <1>5 DEF GridInv
  <1>7. x \notin Mawi2Jobs
    BY <1>1, <1>2, <1>3, Mawi2JobsAre, SMT DEF IsJob
  <1>8. x \notin Mawi3Jobs /\ x \notin Mawi4Jobs /\ x \notin Mawi5Jobs /\ x \notin PrJobs
    BY <1>1, Mawi3JobsAre, Mawi4JobsAre, Mawi5JobsAre, PrJobsAre, SMT DEF IsJob
  <1> QED BY <1>5, <1>6, <1>7, <1>8, ListsAre DEF Kinds

\* A result of a smaller table with more holders, undefended, is of the second.
LEMMA Mawi2WasRun ==
  ASSUME GridInv, NEW x \in have, IsJob(x, {"p"}, {"oracle"}, BudgetLoads, C10, {"und"}, SmallSizes)
  PROVE  "mawi2" \in ran
  <1>1. x.day = "p" /\ x.gate = "oracle" /\ x.f \in BudgetLoads /\ x.arm = "und" /\ x.n \in SmallSizes
    BY DEF IsJob
  <1>2. x.n # Full /\ x.n # Doubled
    BY <1>1, SMT DEF SmallSizes, Full, Doubled
  <1>3. x.f # 0 /\ x.f # 10 /\ x.f # 25 /\ x.f # 50
    BY <1>1, SMT DEF BudgetLoads
  <1>4. x \notin EarlierResults
    BY <1>1, <1>2, EarlierAre, SMT DEF IsJob
  <1>5. PICK kind \in ran : x \in Lists[kind]
    BY <1>4 DEF GridInv
  <1>6. kind \in Kinds
    BY <1>5 DEF GridInv
  <1>7. x \notin MawiJobs
    BY <1>1, <1>2, <1>3, MawiJobsAre, SMT DEF IsJob
  <1>8. x \notin Mawi3Jobs /\ x \notin Mawi4Jobs /\ x \notin Mawi5Jobs /\ x \notin PrJobs
    BY <1>1, Mawi3JobsAre, Mawi4JobsAre, Mawi5JobsAre, PrJobsAre, SMT DEF IsJob
  <1> QED BY <1>5, <1>6, <1>7, <1>8, ListsAre DEF Kinds

\* The undefended runs without holders of the smaller tables are in the first list.
LEMMA SmallInMawi ==
  ASSUME NEW g \in C10, NEW n \in SmallSizes
  PROVE  Job("p", "oracle", 0, g, "und", n) \in MawiJobs
  <1>1. Job("p", "oracle", 0, g, "und", n) \in Pair("p", 10, C10, "und", n)
    BY DEF Pair
  <1>2. n \in {32768, 16384, 8192} /\ "und" \in {"und", "d4"}
    BY DEF SmallSizes
  <1>3. Job("p", "oracle", 0, g, "und", n)
            \in UNION {Pair("p", 10, C10, arm, m) : arm \in {"und", "d4"}, m \in {32768, 16384, 8192}}
    BY <1>1, <1>2
  <1> QED BY <1>3 DEF MawiJobs

\* The fixed budget under D4 asks for the run without holders, which is the
\* first list's: so that one has been run before.
LEMMA Mawi2NeedsMawi ==
  ASSUME GridInv, "mawi2" \in ran, NEW x \in Mawi2Jobs, IsJob(x, {"p"}, {"oracle"}, BudgetLoads, C10, {"d4"}, SmallSizes)
  PROVE  "mawi" \in ran
  <1>1. x.day = "p" /\ x.gate = "oracle" /\ x.f \in BudgetLoads /\ x.g \in C10 /\ x.arm = "d4" /\ x.n \in SmallSizes
    BY DEF IsJob
  <1>2. x.f > 0
    BY <1>1 DEF BudgetLoads
  <1>3. x \in Defended(Lists["mawi2"])
    BY <1>1, <1>2, ListsAre DEF Defended
  <1>4. NoHolders(x) \in have \cup Mawi2Jobs
    BY <1>3, ListsAre DEF GridInv, Partners
  <1>5. IsAnyJob(x)
    BY ListedIsJob, ListsAre DEF Kinds
  <1>6. IsJob(NoHolders(x), {"p"}, {"oracle"}, {0}, C10, {"d4"}, SmallSizes)
    BY <1>1, <1>5, PartnersAre, JobIs
  <1>7. NoHolders(x) \notin Mawi2Jobs
    <2> DEFINE y == NoHolders(x)
    <2>1. y.day = "p" /\ y.gate = "oracle" /\ y.f = 0 /\ y.arm = "d4" /\ y.n \in SmallSizes
      BY <1>6 DEF IsJob
    <2>2. y.n # Full /\ y.n # Doubled
      BY <2>1, SMT DEF SmallSizes, Full, Doubled
    <2>3. 0 \notin BudgetLoads
      BY DEF BudgetLoads
    <2> QED BY <2>1, <2>2, <2>3, Mawi2JobsAre, SMT DEF IsJob
  <1> QED BY <1>4, <1>6, <1>7, MawiWasRun

\* The second list's load of a smaller table.
LEMMA BudgetInMawi2 ==
  ASSUME NEW g \in C10, NEW n \in SmallSizes
  PROVE  \E x \in Mawi2Jobs : IsJob(x, {"p"}, {"oracle"}, BudgetLoads, C10, {"d4"}, SmallSizes)
  <1>1. PICK b \in FixedBudget : b[1] = n
    BY SizeHasBudget
  <1> DEFINE x == Job("p", "oracle", b[2], g, "d4", b[1])
  <1>2. x \in Mawi2Jobs
    BY DEF Mawi2Jobs
  <1>3. IsJob(x, {"p"}, {"oracle"}, BudgetLoads, C10, {"d4"}, SmallSizes)
    BY BudgetIs, JobIs
  <1> HIDE DEF x
  <1> QED BY <1>2, <1>3

\* A run of the later lists on a smaller table has its fourth job: the second
\* list was run for its undefended partner, and the first before that.
LEMMA LaterNeedsMawi ==
  ASSUME GridInv, NEW x, IsJob(x, {"p"}, {"oracle"}, BudgetLoads, C10, JobArms, SmallSizes), Undefended(x) \in have,
         IsAnyJob(x)
  PROVE  NoHolders(Undefended(x)) \in MawiJobs /\ "mawi" \in ran
  <1>1. x.day = "p" /\ x.gate = "oracle" /\ x.f \in BudgetLoads /\ x.g \in C10 /\ x.n \in SmallSizes
    BY DEF IsJob
  <1>2. IsJob(Undefended(x), {"p"}, {"oracle"}, BudgetLoads, C10, {"und"}, SmallSizes)
    BY <1>1, PartnersAre, JobIs
  <1>3. "mawi2" \in ran
    BY <1>2, Mawi2WasRun
  <1>4. "mawi" \in ran
    BY <1>1, <1>3, BudgetInMawi2, Mawi2NeedsMawi
  <1> QED BY <1>1, <1>4, PartnersAre, SmallInMawi

\* Undefended results of the gates before.
LEMMA EarlierHas ==
  /\ \A day \in {"p", "r"}, g \in C3 : Job(day, "oracle", 0, g, "und", Full) \in EarlierResults
  /\ \A g \in C3 : Job("p", "oracle", 10, g, "und", Full) \in EarlierResults
  /\ \A g \in C10 : Job("p", "model", 0, g, "und", Full) \in EarlierResults
  <1>1. 0 \in {0, 10, 50} /\ 10 \in {0, 10, 50}
    OBVIOUS
  <1>2. \A day \in {"p", "r"}, f \in {0, 10, 50}, g \in C3 : Job(day, "oracle", f, g, "und", Full) \in EarlierResults
    BY DEF EarlierResults
  <1>3. \A g \in C10 : Job("p", "model", 0, g, "und", Full) \in EarlierResults
    BY DEF EarlierResults
  <1> QED BY <1>1, <1>2, <1>3

\* The fourth job of a row, which the check of the MAWI lists does not ask for,
\* has a result or has failed.
LEMMA FourthOfRow ==
  ASSUME GridInv, NEW kind \in ran, NEW x \in Defended(Lists[kind])
  PROVE  NoHolders(Undefended(x)) \in have \cup failed
  <1> DEFINE y == NoHolders(Undefended(x))
  <1>1. kind \in Kinds /\ x \in Lists[kind] /\ x.arm # "und" /\ x.f > 0 /\ x.f # 0
    BY DEF GridInv, Defended
  <1>2. IsAnyJob(x)
    BY <1>1, ListedIsJob
  <1>3. y = Job(x.day, x.gate, 0, x.g, "und", x.n)
    BY <1>2, PartnersAre
  <1>4. x.g \in C3
    BY <1>2 DEF IsAnyJob, IsJob
  <1>5. "mawi" \in ran => \A z \in MawiJobs : z \in have \cup failed
    BY ListsAre DEF GridInv
  <1>6. \A z \in EarlierResults : z \in have
    BY DEF GridInv
  <1>7. x.day \in {"p", "r"} /\ x.gate = "oracle" /\ x.n = Full => y \in have
    BY <1>3, <1>4, <1>6, EarlierHas
  <1>8. Partners(x) \subseteq have \cup Lists[kind]
    BY DEF GridInv
  <1> SUFFICES y \in have \cup failed
    OBVIOUS
  <1> HIDE DEF y
  <1>9. CASE kind = "mawi"
    <2>1. x \in MawiJobs
      BY <1>1, <1>9, ListsAre
    <2>2. \/ x.day \in {"p", "r"} /\ x.gate = "oracle" /\ x.n = Full
          \/ x.day = "p" /\ x.gate = "oracle" /\ x.g \in C10 /\ x.n \in SmallSizes
      BY <2>1, MawiJobsAre DEF IsJob
    <2>3. x.day = "p" /\ x.gate = "oracle" /\ x.g \in C10 /\ x.n \in SmallSizes => y \in MawiJobs
      BY <1>3, SmallInMawi
    <2> QED BY <1>5, <1>7, <1>9, <2>2, <2>3
  <1>10. CASE kind = "mawi2"
    <2>1. x \in Mawi2Jobs
      BY <1>1, <1>10, ListsAre
    <2>2. \/ x.day \in {"p", "r"} /\ x.gate = "oracle" /\ x.n = Full
          \/ x.day = "p" /\ x.gate = "model" /\ x.g \in C10 /\ x.n = Full
          \/ IsJob(x, {"p"}, {"oracle"}, BudgetLoads, C10, {"und", "d4"}, SmallSizes)
      BY <1>1, <2>1, Mawi2JobsAre DEF IsJob
    <2>3. CASE x.day = "p" /\ x.gate = "model" /\ x.g \in C10 /\ x.n = Full
      BY <1>3, <1>6, <2>3, EarlierHas
    <2>4. CASE IsJob(x, {"p"}, {"oracle"}, BudgetLoads, C10, {"und", "d4"}, SmallSizes)
      <3>1. IsJob(x, {"p"}, {"oracle"}, BudgetLoads, C10, {"d4"}, SmallSizes)
        BY <1>1, <2>4 DEF IsJob
      <3>2. "mawi" \in ran
        BY <1>10, <2>1, <3>1, Mawi2NeedsMawi
      <3>3. y \in MawiJobs
        BY <1>3, <3>1, SmallInMawi DEF IsJob
      <3> QED BY <1>5, <3>2, <3>3
    <2> QED BY <1>7, <2>2, <2>3, <2>4
  <1>11. CASE kind = "mawi3"
    <2>1. x \in Mawi3Jobs
      BY <1>1, <1>11, ListsAre
    <2>2. x.day \in {"p", "r"} /\ x.gate = "oracle" /\ x.n = Full
      BY <2>1, Mawi3JobsAre DEF IsJob
    <2> QED BY <1>7, <2>2
  <1>12. ASSUME IsJob(x, {"p"}, {"oracle"}, {0} \cup BudgetLoads, C10, {"d4d1", "d4age", "d4c"}, SmallSizes),
                kind \in {"mawi4", "mawi5"}
         PROVE  y \in have \cup failed
    <2>1. IsJob(x, {"p"}, {"oracle"}, BudgetLoads, C10, JobArms, SmallSizes)
      BY <1>1, <1>12 DEF IsJob, JobArms
    <2>2. Undefended(x).arm = "und"
      BY <1>2, PartnersAre DEF Job
    <2>3. Undefended(x) \notin Mawi4Jobs /\ Undefended(x) \notin Mawi5Jobs
      BY <2>2, Mawi4JobsAre, Mawi5JobsAre DEF IsJob
    <2>4. Undefended(x) \in have
      BY <1>8, <1>12, <2>3, ListsAre DEF Partners
    <2>5. y \in MawiJobs /\ "mawi" \in ran
      BY <1>2, <2>1, <2>4, LaterNeedsMawi DEF y
    <2> QED BY <1>5, <2>5
  <1>13. CASE kind = "mawi4"
    <2>1. x \in Mawi4Jobs
      BY <1>1, <1>13, ListsAre
    <2>2. CASE IsJob(x, {"p"}, {"oracle"}, {0, 10}, C10, {"d4d1", "d4age"}, {Full})
      BY <1>7, <2>2 DEF IsJob
    <2>3. CASE IsJob(x, {"p"}, {"oracle"}, {0} \cup BudgetLoads, C10, {"d4d1", "d4age"}, SmallSizes)
      <3>1. IsJob(x, {"p"}, {"oracle"}, {0} \cup BudgetLoads, C10, {"d4d1", "d4age", "d4c"}, SmallSizes)
        BY <2>3 DEF IsJob
      <3> QED BY <1>12, <1>13, <3>1
    <2> QED BY <2>1, <2>2, <2>3, Mawi4JobsAre
  <1>14. CASE kind = "mawi5"
    <2>1. x \in Mawi5Jobs
      BY <1>1, <1>14, ListsAre
    <2>2. IsJob(x, {"p"}, {"oracle"}, {0} \cup BudgetLoads, C10, {"d4d1", "d4age", "d4c"}, SmallSizes)
      BY <2>1, Mawi5JobsAre DEF IsJob
    <2> QED BY <1>12, <1>14, <2>2
  <1>15. CASE kind = "pr"
    <2>1. x \in PrJobs
      BY <1>1, <1>15, ListsAre
    <2>2. x.day = "pr"
      BY <2>1, PrJobsAre DEF IsJob
    <2>3. y \in have \cup Lists[kind]
      BY <1>8, <2>2 DEF Partners, y
    <2> QED BY <2>3 DEF GridInv
  <1> QED BY <1>1, <1>9, <1>10, <1>11, <1>13, <1>14, <1>15 DEF Kinds

\* Nothing but the first list runs D5, or D4s on the primary day.
LEMMA RedrawnNeedsMawi ==
  ASSUME GridInv, NEW x \in have, x.day = "p", x.arm = "d5" \/ x.arm = "d4s"
  PROVE  "mawi" \in ran
  <1>1. x \notin EarlierResults
    BY EarlierAre DEF IsJob
  <1>2. PICK kind \in ran : x \in Lists[kind]
    BY <1>1 DEF GridInv
  <1>3. kind \in Kinds
    BY <1>2 DEF GridInv
  <1>4. x \notin Mawi2Jobs
    BY Mawi2JobsAre, SMT DEF IsJob
  <1>5. x \notin Mawi3Jobs /\ x \notin Mawi4Jobs /\ x \notin Mawi5Jobs /\ x \notin PrJobs
    BY Mawi3JobsAre, Mawi4JobsAre, Mawi5JobsAre, PrJobsAre, SMT DEF IsJob
  <1> QED BY <1>2, <1>3, <1>4, <1>5, ListsAre DEF Kinds

\* The draws of the arms that are compared by position.
LEMMA DrawsAgree ==
  ASSUME GridInv, failed = {}
  PROVE  /\ Draws("p", 10, "d5") = Draws("p", 10, "d4s")
         /\ "mawi" \in ran => Draws("p", 10, "d5") = Draws("p", 10, "d4")
  <1>1. CASE "mawi" \in ran
    <2>1. \A z \in MawiJobs \cup EarlierResults : z \in have
      BY <1>1, ListsAre DEF GridInv
    <2>2. ASSUME NEW arm \in {"d4", "d5", "d4s"}, NEW g \in C3
          PROVE  RowNeeds(Job("p", "oracle", 10, g, arm, Full)) \subseteq have
      <3> DEFINE x == Job("p", "oracle", 10, g, arm, Full)
      <3>1. x.day = "p" /\ x.gate = "oracle" /\ x.f = 10 /\ x.g = g /\ x.arm = arm /\ x.n = Full
        BY DEF Job
      <3>2. IsAnyJob(x)
        BY JobIs DEF IsAnyJob, JobDays, JobArms, JobSizes
      <3>3. x \in Pair("p", 10, C3, arm, Full) /\ Job("p", "oracle", 0, g, arm, Full) \in Pair("p", 10, C3, arm, Full)
        BY DEF Pair
      <3>4. Pair("p", 10, C3, arm, Full) \subseteq MawiJobs
        BY DEF MawiJobs
      <3>5. Job("p", "oracle", 10, g, "und", Full) \in EarlierResults /\ Job("p", "oracle", 0, g, "und", Full) \in EarlierResults
        BY EarlierHas
      <3> HIDE DEF x
      <3>6. Undefended(x) \in have /\ NoHolders(x) \in have /\ NoHolders(Undefended(x)) \in have
        BY <2>1, <3>1, <3>2, <3>3, <3>4, <3>5, PartnersAre
      <3>7. RowNeeds(x) \subseteq have
        BY <2>1, <3>3, <3>4, <3>6 DEF RowNeeds
      <3> QED BY <3>7 DEF x
    <2>3. Draws("p", 10, "d4") = C3 /\ Draws("p", 10, "d5") = C3 /\ Draws("p", 10, "d4s") = C3
      BY <2>2 DEF Draws
    <2> QED BY <2>3
  <1>2. CASE "mawi" \notin ran
    <2>1. ASSUME NEW arm \in {"d5", "d4s"}, NEW g \in Draws("p", 10, arm)
          PROVE  FALSE
      <3>1. Job("p", "oracle", 10, g, arm, Full) \in have
        BY DEF Draws, RowNeeds
      <3>2. Job("p", "oracle", 10, g, arm, Full).day = "p" /\ Job("p", "oracle", 10, g, arm, Full).arm = arm
        BY DEF Job
      <3> QED BY <1>2, <3>1, <3>2, RedrawnNeedsMawi
    <2>2. Draws("p", 10, "d5") = {} /\ Draws("p", 10, "d4s") = {}
      BY <2>1
    <2> QED BY <1>2, <2>2
  <1> QED BY <1>1, <1>2

\* No row lacks a run that was not asked for.
LEMMA RowsDoComplete ==
  ASSUME GridInv
  PROVE  RowsAreComplete
  <1>1. ASSUME NEW kind \in ran, NEW x \in Defended(Lists[kind])
        PROVE  RowNeeds(x) \ have \subseteq failed
    <2>1. x \in Lists[kind] /\ Lists[kind] \ have \subseteq failed
      BY DEF GridInv, Defended
    <2>2. Undefended(x) \in have \cup Lists[kind] /\ NoHolders(x) \in have \cup Lists[kind]
      BY DEF GridInv, Partners
    <2> QED BY <2>1, <2>2, FourthOfRow DEF RowNeeds
  <1> QED BY <1>1, DrawsAgree DEF RowsAreComplete

-----------------------------------------------------------------------------
(* JobGrids: the settings of the jobs.                                     *)

\* The seeds of the holders of a job.
HoldersOf(x) == IF x.f > 0 THEN {Draw(x.f, x.g)} ELSE {}

\* All runners set a job up alike.
LEMMA SettingsAre ==
  ASSUME NEW x
  PROVE  Settings(x) = [two |-> Two(x.arm), clock |-> x.g, hash2 |-> SecondHash(x.arm, x.g), draw |-> HoldersOf(x)]
  <1> DEFINE t == Two(x.arm)
             h == SecondHash(x.arm, x.g)
             d == {Draw(x.f, x.g)}
  <1>1. RunWithoutHolders(x) = [two |-> t, clock |-> x.g, hash2 |-> h, draw |-> {}]
    BY DEF RunWithoutHolders
  <1>2. RunWithHolders(x) = [[two |-> t, clock |-> x.g, hash2 |-> h, draw |-> {}] EXCEPT !.draw = d]
    BY <1>1 DEF RunWithHolders
  <1>3. HoldersOf(x) = IF x.f > 0 THEN d ELSE {}
    BY DEF HoldersOf
  <1>4. Settings(x) = IF x.f > 0 THEN RunWithHolders(x) ELSE RunWithoutHolders(x)
    BY DEF Settings, RunPeerRush
  <1> HIDE DEF t, h, d
  <1>5. RunWithHolders(x) = [two |-> t, clock |-> x.g, hash2 |-> h, draw |-> d]
    BY <1>2
  <1>6. Settings(x) = [two |-> t, clock |-> x.g, hash2 |-> h, draw |-> HoldersOf(x)]
    BY <1>1, <1>3, <1>4, <1>5
  <1> QED BY <1>6 DEF t, h

\* The runner of the compiled program sets the table of one way and the arm d4c
\* up in the same way.
LEMMA CompiledAre ==
  ASSUME NEW x, x.arm = "und" \/ x.arm = "d4c"
  PROVE  Compiled(x) = [two |-> Two(x.arm), clock |-> x.g, hash2 |-> SecondHash(x.arm, x.g), draw |-> HoldersOf(x)]
  <1> DEFINE t == Two(x.arm)
             h == SecondHash(x.arm, x.g)
             d == {Draw(x.f, x.g)}
             common == [two |-> t, clock |-> x.g, hash2 |-> h, draw |-> {}]
  <1>1. h = DrawSeed(x.g)
    BY SMT DEF SecondHash
  <1>2. t = (x.arm = "d4c")
    BY DEF Two
  <1>3. [two |-> x.arm = "d4c", clock |-> x.g, hash2 |-> DrawSeed(x.g), draw |-> {}] = common
    BY <1>1, <1>2
  <1>4. RunCompiled(x) = IF x.f > 0 THEN [common EXCEPT !.draw = d] ELSE common
    BY <1>3 DEF RunCompiled
  <1>5. HoldersOf(x) = IF x.f > 0 THEN d ELSE {}
    BY DEF HoldersOf
  <1>6. Compiled(x) = IF x.day = "pr" THEN [RunCompiled(x) EXCEPT !.hash2 = h] ELSE RunCompiled(x)
    BY DEF Compiled, RunCompiledPeerRush
  <1> HIDE DEF t, h, d
  <1>7. RunCompiled(x) = [two |-> t, clock |-> x.g, hash2 |-> h, draw |-> HoldersOf(x)]
    BY <1>4, <1>5
  <1>8. Compiled(x) = [two |-> t, clock |-> x.g, hash2 |-> h, draw |-> HoldersOf(x)]
    BY <1>6, <1>7
  <1> QED BY <1>8 DEF t, h

\* Clock starts below a thousand make the seeds of the holders differ ...
LEMMA DrawsApart ==
  ASSUME NEW f \in Nat, NEW g \in C3, NEW e \in Nat, NEW h \in C3, Draw(f, g) = Draw(e, h)
  PROVE  f = e /\ g = h
  <1>1. g \in 0 .. 999 /\ h \in 0 .. 999
    BY GridAssumption
  <1> QED BY <1>1, SMT DEF Draw

\* ... and those of the rotations.
LEMMA RotationsApart ==
  ASSUME NEW g \in C3, NEW h \in C3, NEW e \in Nat, RekeyedHash(e, g) = RekeyedHash(0, h)
  PROVE  g = h /\ e = 0
  <1>1. g \in 0 .. 999 /\ h \in 0 .. 999
    BY GridAssumption
  <1> QED BY <1>1, SMT DEF RekeyedHash

\* The runs of a row differ in what is compared.
LEMMA RowsDoPair ==
  ASSUME GridInv
  PROVE  RowsArePaired
  <1> DEFINE C(x) == Settings(x).clock
             D(x) == Settings(x).draw
             H(x) == Settings(x).hash2
  <1>1. \A x : C(x) = x.g /\ D(x) = HoldersOf(x) /\ H(x) = SecondHash(x.arm, x.g)
    BY SettingsAre
  <1> HIDE DEF C, D, H
  <1>2. ASSUME NEW kind \in ran, NEW x \in Defended(Lists[kind])
        PROVE  IsAnyJob(x) /\ x.f > 0 /\ x.f \in Nat /\ x.g \in C3
    <2>1. kind \in Kinds /\ x \in Lists[kind] /\ x.f > 0
      BY DEF GridInv, Defended
    <2> QED BY <2>1, ListedIsJob DEF IsAnyJob, IsJob
  <1>3. ASSUME NEW kind \in ran, NEW x \in Defended(Lists[kind])
        PROVE  /\ \A y \in RowNeeds(x) : C(y) = C(x)
               /\ D(Undefended(x)) = D(x)
               /\ H(NoHolders(x)) = H(x)
    <2>1. /\ Undefended(x) = Job(x.day, x.gate, x.f, x.g, "und", x.n)
          /\ NoHolders(x) = Job(x.day, x.gate, 0, x.g, x.arm, x.n)
          /\ NoHolders(Undefended(x)) = Job(x.day, x.gate, 0, x.g, "und", x.n)
      BY <1>2, <1>3, PartnersAre
    <2>2. /\ Undefended(x).g = x.g /\ Undefended(x).f = x.f /\ NoHolders(x).g = x.g
          /\ NoHolders(x).arm = x.arm /\ NoHolders(Undefended(x)).g = x.g
      BY <2>1 DEF Job
    <2>3. HoldersOf(Undefended(x)) = HoldersOf(x)
      BY <2>2 DEF HoldersOf
    <2> QED BY <1>1, <2>2, <2>3, Zenon DEF RowNeeds
  <1>4. ASSUME NEW kind \in ran, NEW x \in Defended(Lists[kind]), NEW y \in Defended(Lists[kind]), D(x) = D(y)
        PROVE  x.f = y.f /\ x.g = y.g
    <2>1. HoldersOf(x) = {Draw(x.f, x.g)} /\ HoldersOf(y) = {Draw(y.f, y.g)}
      BY <1>2 DEF HoldersOf
    <2>2. Draw(x.f, x.g) = Draw(y.f, y.g)
      BY <1>1, <1>4, <2>1
    <2> QED BY <1>2, <2>2, DrawsApart
  <1>5. ASSUME NEW kind \in ran, NEW x \in Defended(Lists[kind]), NEW y \in {[x EXCEPT !.arm = "d4c"], Undefended(x)}
        PROVE  Compiled(y) = Settings(y)
    <2>1. x = [day |-> x.day, gate |-> x.gate, f |-> x.f, g |-> x.g, arm |-> x.arm, n |-> x.n]
      BY <1>2 DEF IsAnyJob, IsJob, Job
    <2>2. [x EXCEPT !.arm = "d4c"].arm = "d4c" /\ [x EXCEPT !.arm = "und"].arm = "und"
      BY <2>1
    <2>3. y.arm = "d4c" \/ y.arm = "und"
      BY <2>2 DEF Undefended
    <2> QED BY <2>3, SettingsAre, CompiledAre
  <1>6. ASSUME NEW kind \in ran, NEW x \in Defended(Lists[kind]), x.arm = "d5"
        PROVE  /\ SecondHash(x.arm, x.g) = RekeyedHash(0, x.g)
               /\ \A g \in C3, e \in 0 .. 24 : RekeyedHash(e, g) = RekeyedHash(0, x.g) => g = x.g /\ e = 0
    <2>1. x.g \in 0 .. 999 /\ x.g \in C3
      BY <1>2, GridAssumption
    <2>2. SecondHash(x.arm, x.g) = RekeyedHash(0, x.g)
      BY <1>6, <2>1, SMT DEF SecondHash, DrawSeed, RekeyedHash
    <2>3. \A e \in 0 .. 24 : e \in Nat
      OBVIOUS
    <2> QED BY <2>1, <2>2, <2>3, RotationsApart
  <1> QED BY <1>3, <1>4, <1>5, <1>6 DEF RowsArePaired, C, D, H

\* The emulator takes every job.
LEMMA RunnersDoAccept ==
  ASSUME GridInv
  PROVE  RunnersAreAccepted
  <1> SUFFICES ASSUME NEW kind \in ran, NEW x \in Lists[kind]
               PROVE  /\ Accepted(DefenceKwargs(x.arm), x.n, Settings(x).two)
                      /\ Settings(x).two <=> DefenceKwargs(x.arm).two_way
    BY DEF RunnersAreAccepted
  <1>1. x.arm \in JobArms /\ x.n \in JobSizes
    BY ListedIsJob DEF GridInv, IsAnyJob, IsJob
  <1>2. x.n % 2 = 0
    BY <1>1, SMT DEF JobSizes, SmallSizes, Full, Doubled
  <1>3. Two(x.arm) <=> x.arm # "und"
    BY <1>1 DEF Two, JobArms
  <1>4. Settings(x).two <=> Two(x.arm)
    BY SettingsAre
  <1>5. DefenceKwargs(x.arm).two_way <=> x.arm # "und"
    BY DEF DefenceKwargs
  <1>6. DefenceKwargs(x.arm).policy \in {"idle", "a_first", "unclaimed_first"}
    BY DEF DefenceKwargs
  <1>7. DefenceKwargs(x.arm).rent # "none" => ~ DefenceKwargs(x.arm).wrap_window
    BY DEF DefenceKwargs
  <1> QED BY <1>2, <1>3, <1>4, <1>5, <1>6, <1>7, Zenon DEF Accepted

-----------------------------------------------------------------------------
(* In the run of all parts.                                                *)

\* What the run of all parts does of the job lists.
LEMMA GridsRun ==
  /\ DgradeInit /\ running = "grids" => GridInit
  /\ [DgradeNext]_DgradeVars =>
        running' = running /\ (running = "grids" => [\E kind \in DOMAIN Lists : RunList(kind)]_gridVars)
<1>1. DgradeInit /\ running = "grids" => GridInit
  BY DEF DgradeInit
<1>2. [DgradeNext]_DgradeVars =>
         running' = running /\ (running = "grids" => [\E kind \in DOMAIN Lists : RunList(kind)]_gridVars)
  BY DEF DgradeNext, DgradeVars, FirstParts, gridVars
<1> QED BY <1>1, <1>2

\* What is known of the results, and of a placement.
JobInv == (running = "grids" => GridInv) /\ (running = "placement" => PlaceInv)

\* Whatever lists of g6_jobs.py are run, in whatever order and again, no row of
\* a report lacks a run that was not asked for, its runs differ in what is
\* compared and the emulator takes them; and whatever slots a runner computes
\* for a job are those that the emulator derives.
THEOREM JobsAlwaysPaired == DgradeSpec => []JobsArePaired
<1>1. DgradeInit => JobInv
  BY GridsRun, GridInitInv, PlacementRuns, PlaceSpecInv, PlacementsFit DEF JobInv
<1>2. JobInv /\ [DgradeNext]_DgradeVars => JobInv'
  BY GridsRun, GridNextInv, PlacementRuns, PlaceSpecInv, PlacementsFit DEF JobInv
<1>3. JobInv => JobsArePaired
  BY RowsDoComplete, RowsDoPair, RunnersDoAccept, PlacementsDoAgree, PlacementsFit DEF JobInv, JobsArePaired
<1> QED BY <1>1, <1>2, <1>3, PTL DEF DgradeSpec
=============================================================================
