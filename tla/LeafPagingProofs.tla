-------------------------- MODULE LeafPagingProofs --------------------------
(* Theorems about LeafPaging, for every tree, workload, K and network.     *)
EXTENDS LeafPaging, FiniteSetTheorems, TLAPS

\* The empty sequence is the empty function.
LEMMA EmptySequence == DOMAIN <<>> = {} /\ \A S : <<>> \in Seq(S)
  OBVIOUS

\* There is a first query, whose identifier is 0.
LEMMA FirstQuery == 0 \in Qids /\ Qids \subseteq Nat
  BY QueriesAssumption DEF Qids

\* A crash of the controller leaves a natural number of crashes.
LEMMA CrashCount == ASSUME TypeOK, Crash PROVE crashes' \in Nat
  <1>1. crashes \in Nat /\ crashes' = crashes + 1
    BY DEF TypeOK, Crash
  <1>2. QED
    BY <1>1

\* A match in leaf_tbl keeps the types: it counts the hit and writes the answer.
LEMMA SwitchHitTypes == ASSUME TypeOK, NEW q \in Qids, SwitchHit(q) PROVE TypeOK'
  <1> DEFINE l == LeafOf[q]
             e == leaf_tbl[l]
  <1>1. l \in Installed /\ l \in Leaves /\ e \in Entry
    BY QueriesAssumption DEF SwitchHit, TypeOK
  <1>2. Counted(e) \in Entry
    BY <1>1 DEF Entry, Counted
  <1>3. leaf_tbl' = [leaf_tbl EXCEPT ![l] = Counted(e)]
    BY DEF SwitchHit
  <1>4. Installed' \subseteq Leaves /\ \A x \in Installed' : leaf_tbl'[x] \in Entry
    <2>1. Installed \subseteq Leaves /\ \A x \in Installed : leaf_tbl[x] \in Entry
      BY DEF TypeOK
    <2>2. QED
      BY <1>1, <1>2, <1>3, <2>1 DEF Installed
  <1>5. hits' \in [Leaves -> Nat]
    <2>1. hits \in [Leaves -> Nat] /\ hits' = [hits EXCEPT ![l] = @ + 1]
      BY DEF TypeOK, SwitchHit
    <2>2. QED
      BY <1>1, <2>1
  <1>6. wire' \in [Qids -> Answer] /\ at' \in [Qids -> Places]
    <2>1. [leaf |-> e.leaf, klass |-> e.klass] \in Answer
      BY <1>1 DEF Entry, Answer
    <2>2. QED
      BY <2>1 DEF TypeOK, SwitchHit, Places
  <1>7. QED
    BY <1>4, <1>5, <1>6
       DEF TypeOK, SwitchHit, clientVars, mainVars, policyVars, pollerVars

\* Serving a digest keeps the types of the policy and of the keys.
LEMMA MissTypes == ASSUME TypeOK, Miss PROVE TypeOK'
  <1> DEFINE q == Head(digests)
             l == LeafOf[q]
             s == [score EXCEPT ![l] = @ + Gain[q]]
  <1>1. q \in Qids /\ Tail(digests) \in Seq(Qids)
    BY DEF Miss, TypeOK
  <1>2. l \in Leaves /\ Gain[q] \in Nat
    BY <1>1, QueriesAssumption, GainAssumption
  <1>3. /\ digests' = Tail(digests) /\ serving' = q /\ t_now' = Time(q)
        /\ score' = s /\ last' = [last EXCEPT ![l] = q]
    BY DEF Miss
  <1>4. s \in [Leaves -> Nat]
    <2>1. score \in [Leaves -> Nat]
      BY DEF TypeOK
    <2>2. QED
      BY <1>2, <2>1
  <1>5. last' \in [Leaves -> Qids] /\ t_now' \in Qids
    BY <1>1, <1>3 DEF Time, TypeOK
  <1>6. \A out \in MissEvicts(s) : out \subseteq resident
    <2> HIDE DEF s
    <2>1. Victims(s) \subseteq resident
      BY DEF Victims
    <2>2. QED
      BY <2>1 DEF MissEvicts
  <1>7. /\ main' \in {"serve", "add", "del"}
        /\ resident' \in SUBSET Leaves /\ keys_of' \in SUBSET Leaves
        /\ evicting' \in SUBSET Leaves
    <2>1. resident \in SUBSET Leaves /\ keys_of \in SUBSET Leaves
      BY DEF TypeOK
    <2>2. CASE ~ Installs(l)
      BY <2>1, <2>2 DEF Miss
    <2>3. CASE Installs(l)
      <3>1. PICK out \in MissEvicts(s) :
               /\ evicting' = out
               /\ resident' = (resident \ out) \cup {l}
               /\ main' = IF out = {} THEN "add" ELSE "del"
               /\ keys_of' = KeysAfterMiss(l, out)
        BY <2>3 DEF Miss
      <3>2. QED
        BY <2>1, <3>1, <1>2, <1>6 DEF KeysAfterMiss
    <2>4. QED
      BY <2>2, <2>3
  <1>8. UNCHANGED <<clientVars, frameVars, leaf_tbl, stop, last_count, pollerVars,
                    historyVars, crashes>>
    BY DEF Miss
  <1>9. score' \in [Leaves -> Nat] /\ digests' \in Seq(Qids) /\ serving' \in Qids
    BY <1>1, <1>3, <1>4
  <1> HIDE DEF q, l, s
  <1>10. QED
    BY <1>5, <1>7, <1>8, <1>9
       DEF TypeOK, Installed, clientVars, frameVars, pollerVars, historyVars

\* Crediting the counters that the poller has read keeps the types.
LEMMA PollApplyTypes == ASSUME TypeOK, PollApply PROVE TypeOK'
  <1>1. /\ score \in [Leaves -> Nat] /\ credited \in [Leaves -> Nat] /\ t_now \in Qids
        /\ last_count \in [Leaves -> Nat]
        /\ \A l \in DOMAIN counts : counts[l] \in Nat
        /\ DOMAIN counts \subseteq Leaves
    BY DEF TypeOK
  <1>2. \A l \in Leaves : Credit(l) \in Nat
    BY <1>1 DEF Credit, Gained
  <1>3. \A l \in Leaves : Credit(l) * Gain[t_now] \in Nat
    <2>1. Gain[t_now] \in Nat
      BY <1>1, GainAssumption
    <2>2. \A m, n \in Nat : m * n \in Nat
      OBVIOUS
    <2>3. QED
      BY <1>2, <2>1, <2>2
  <1>4. score' \in [Leaves -> Nat] /\ credited' \in [Leaves -> Nat]
    <2>1. /\ score' = [l \in Leaves |-> score[l] + Credit(l) * Gain[t_now]]
          /\ credited' = [l \in Leaves |-> credited[l] + Credit(l)]
      BY DEF PollApply
    <2>2. \A m, n \in Nat : m + n \in Nat
      OBVIOUS
    <2>3. QED
      BY <1>1, <1>2, <1>3, <2>1, <2>2
  <1>5. last' \in [Leaves -> Qids] /\ last_count' \in [Leaves -> Nat]
    <2>1. last \in [Leaves -> Qids]
      BY DEF TypeOK
    <2>2. QED
      BY <1>1, <2>1 DEF PollApply
  <1>6. poller' \in {"sleep", "dead"} /\ lateWrite' \in BOOLEAN /\ stale' \in BOOLEAN
    BY DEF PollApply, PollerWrites, NextRound, LogClosed, TypeOK
  <1>7. DOMAIN counts' \subseteq Leaves /\ \A l \in DOMAIN counts' : counts'[l] \in Nat
    BY EmptySequence DEF PollApply
  <1>8. UNCHANGED <<clientVars, frameVars, leaf_tbl, digests, mainVars, resident, t_now,
                    keys_of, toRead, crashes, gone, outdated, hits>>
    BY DEF PollApply
  <1>9. QED
    BY <1>4, <1>5, <1>6, <1>7, <1>8 DEF TypeOK, Installed, clientVars, frameVars, mainVars

\* Every variable keeps its type.
THEOREM TypeCorrect == Spec => []TypeOK
<1> USE QueriesAssumption
<1>1. Init => TypeOK
  <2> SUFFICES ASSUME Init PROVE TypeOK
    OBVIOUS
  <2>1. Installed \subseteq Leaves /\ \A l \in Installed : leaf_tbl[l] \in Entry
    <3>1. PICK S \in SUBSET Leaves : leaf_tbl = Leftover(S)
      BY DEF Init
    <3>2. QED
      BY <3>1 DEF Leftover, Installed, Entry
  <2>2. /\ digests \in Seq(Qids)
        /\ DOMAIN counts \subseteq Leaves /\ \A l \in DOMAIN counts : counts[l] \in Nat
    BY EmptySequence DEF Init
  <2>3. QED
    BY <2>1, <2>2, FirstQuery DEF Init, TypeOK, Places, NoAnswer, Answer
<1>2. TypeOK /\ [Next]_vars => TypeOK'
  <2> SUFFICES ASSUME TypeOK, [Next]_vars PROVE TypeOK'
    OBVIOUS
  <2> USE DEF TypeOK, Answer, Entry, Places, Installed, clientVars, frameVars,
              controllerVars, mainVars, policyVars, pollerVars, historyVars
  <2>1. ASSUME NEW q \in Qids, SwitchHit(q) PROVE TypeOK'
    BY <2>1, SwitchHitTypes
  <2>2. ASSUME NEW q \in Qids, SwitchMiss(q) PROVE TypeOK'
    <3>1. Append(digests, q) \in Seq(Qids)
      OBVIOUS
    <3>2. digests' \in Seq(Qids)
      BY <2>2, <3>1 DEF SwitchMiss
    <3>3. QED
      BY ZenonT(60), <2>2, <3>2 DEF SwitchMiss
  <2>3. ASSUME NEW q \in Qids, SwitchForward(q) PROVE TypeOK'
    BY ZenonT(60), <2>3 DEF SwitchForward, First
  <2>4. ASSUME NEW q \in Qids, HulkClassify(q) PROVE TypeOK'
    BY ZenonT(60), <2>4 DEF HulkClassify, First, HulkAnswer, TreeAnswer
  <2>5. ASSUME NEW q \in Qids, ClientSend(q) PROVE TypeOK'
    BY <2>5 DEF ClientSend, First
  <2>6. ASSUME NEW q \in Qids, ClientReceive(q) PROVE TypeOK'
    BY ZenonT(60), <2>6 DEF ClientReceive
  <2>7. CASE ClientStart
    BY <2>7 DEF ClientStart
  <2>8. CASE ClientClose
    BY <2>8 DEF ClientClose
  <2>9. CASE Connect
    BY <2>9, EmptySequence, FirstQuery DEF Connect
  <2>10. CASE ClearTable
    BY <2>10, EmptySequence, FirstQuery DEF ClearTable, EmptyTable
  <2>11. CASE Miss
    BY <2>11, MissTypes
  <2>12. CASE DeleteVictim
    BY ZenonT(60), <2>12 DEF DeleteVictim, WithoutVictim, Restrict
  <2>13. CASE AddEntry
    BY ZenonT(60), <2>13 DEF AddEntry, NewEntry, CountAfterAdd, AfterAdd
  <2>14. CASE LeaveLoop
    BY <2>14 DEF LeaveLoop
  <2>15. CASE CloseLog
    BY <2>15 DEF CloseLog
  <2>16. CASE Exit
    BY <2>16, EmptySequence, FirstQuery DEF Exit, NewProcess
  <2>17. CASE PollSnapshot
    BY <2>17, EmptySequence, FirstQuery DEF PollSnapshot, ContinueWhenEmpty, NextRound
  <2>18. CASE PollKeys
    BY ZenonT(60), <2>18 DEF PollKeys
  <2>19. ASSUME NEW l \in Leaves, PollRead(l) PROVE TypeOK'
    BY <2>19 DEF PollRead
  <2>20. CASE PollError
    BY <2>20, EmptySequence, FirstQuery DEF PollError, PollerWrites, NextRound, LogClosed
  <2>21. CASE PollApply
    BY <2>21, PollApplyTypes
  <2>22. CASE Terminate
    BY <2>22 DEF Terminate
  <2>23. CASE Crash
    <3>1. crashes' \in Nat
      BY <2>23, CrashCount
    <3>2. QED
      BY <2>23, <3>1, EmptySequence, FirstQuery DEF Crash, NewProcess
  <2>24. ASSUME NEW q \in Qids, Lose(q) PROVE TypeOK'
    BY ZenonT(60), <2>24 DEF Lose
  <2>25. CASE UNCHANGED vars
    BY ZenonT(60), <2>25 DEF vars
  <2>26. QED
    BY <2>1, <2>2, <2>3, <2>4, <2>5, <2>6, <2>7, <2>8, <2>9, <2>10, <2>11, <2>12, <2>13,
       <2>14, <2>15, <2>16, <2>17, <2>18, <2>19, <2>20, <2>21, <2>22, <2>23, <2>24, <2>25
       DEF Next, SwitchStep, ClientStep, MainStep, PollerStep, Environment
<1>3. QED
  BY <1>1, <1>2, PTL DEF Spec

-----------------------------------------------------------------------------
(* The table and the policy.  OccupancyBound and TableMirrorsPolicy are not  *)
(* inductive: between entry_del and entry_add they say nothing of the leaf   *)
(* on its way in and the one on its way out.  TableInv does.                 *)

Missed == LeafOf[serving]

TableInv ==
    /\ Cardinality(resident) <= K
    /\ main \in {"down", "starting"} => resident = {} /\ keys_of = {}
    /\ main \in {"serve", "closing", "closed"} => Installed = resident /\ keys_of = resident
    /\ main = "del" =>
          /\ \E v \in Leaves \ resident : evicting = {v}
          /\ Missed \in resident
          /\ Installed = (resident \ {Missed}) \cup evicting
          /\ keys_of = resident \ {Missed}
    /\ main = "add" =>
          /\ Missed \in resident
          /\ Installed = resident \ {Missed}
          /\ keys_of = resident

\* The state that TableInv speaks of.
tableVars == <<main, evicting, serving, resident, keys_of, Installed>>

\* A step that touches none of these keeps TableInv.
LEMMA TableInvStutters == ASSUME TableInv, UNCHANGED tableVars PROVE TableInv'
  BY DEF TableInv, tableVars, Missed, Installed

\* A set of leaves is finite; replacing or adding a leaf moves its size by at
\* most one.
LEMMA LeafSets ==
  ASSUME NEW S \in SUBSET Leaves, NEW l \in Leaves
  PROVE  /\ IsFiniteSet(S) /\ Cardinality(S) \in Nat
         /\ l \notin S => Cardinality(S \cup {l}) = Cardinality(S) + 1
         /\ l \in S => Cardinality(S \ {l}) = Cardinality(S) - 1
         /\ Cardinality({}) = 0
  BY LeavesAssumption, FS_Subset, FS_CardinalityType, FS_AddElement, FS_RemoveElement,
     FS_EmptySet

\* The decision to install, with or without a victim, keeps TableInv.
LEMMA MissKeepsTableInv == ASSUME TypeOK, TableInv, Miss PROVE TableInv'
  <1> DEFINE q == Head(digests)
             l == LeafOf[q]
             s == [score EXCEPT ![l] = @ + Gain[q]]
  <1>1. q \in Qids /\ l \in Leaves
    <2>1. q \in Qids
      BY DEF Miss, TypeOK
    <2>2. QED
      BY <2>1, QueriesAssumption
  <1>2. /\ main = "serve" /\ serving' = q /\ Installed' = Installed
        /\ Installed = resident /\ keys_of = resident
        /\ resident \in SUBSET Leaves /\ Cardinality(resident) <= K
    BY DEF Miss, TableInv, TypeOK, Installed
  <1>3. Missed' = l
    BY <1>2 DEF Missed
  <1>4. CASE ~ Installs(l)
    <2>1. main' = main /\ resident' = resident /\ keys_of' = keys_of
      BY <1>4 DEF Miss
    <2>2. QED
      BY <1>2, <2>1 DEF TableInv
  <1>5. CASE Installs(l)
    <2>1. PICK out \in MissEvicts(s) :
             /\ evicting' = out
             /\ resident' = (resident \ out) \cup {l}
             /\ main' = IF out = {} THEN "add" ELSE "del"
             /\ keys_of' = KeysAfterMiss(l, out)
      BY <1>5 DEF Miss
    <2>2. K # 0 /\ l \notin resident
      BY <1>5 DEF Installs
    <2> HIDE DEF q, l, s
    <2>3. CASE Cardinality(resident) >= K
      <3>1. PICK v \in resident : out = {v}
        BY <2>1, <2>3 DEF MissEvicts, Victims
      <3>2. v \in Leaves /\ resident \ {v} \in SUBSET Leaves
        BY <1>2
      <3>3. Cardinality(resident \ {v}) = Cardinality(resident) - 1
        BY <1>2, <3>2, LeafSets
      <3>4. Cardinality(resident') = Cardinality(resident)
        <4>1. Cardinality((resident \ {v}) \cup {l}) = Cardinality(resident \ {v}) + 1
          BY <1>1, <2>2, <3>2, LeafSets
        <4>2. Cardinality(resident) \in Nat
          BY <1>1, <1>2, LeafSets
        <4>3. QED
          BY <2>1, <3>1, <3>3, <4>1, <4>2
      <3>5. main' = "del" /\ evicting' = {v} /\ v \in Leaves \ resident'
        BY <2>1, <2>2, <3>1, <3>2
      <3>6. Installed' = (resident' \ {l}) \cup {v} /\ keys_of' = resident' \ {l}
        BY <1>2, <2>1, <2>2, <3>1 DEF KeysAfterMiss
      <3>7. l \in resident'
        BY <2>1
      <3>8. QED
        BY <1>2, <1>3, <3>4, <3>5, <3>6, <3>7 DEF TableInv
    <2>4. CASE ~ Cardinality(resident) >= K
      <3>1. out = {}
        BY <2>1, <2>4 DEF MissEvicts
      <3>2. resident' = resident \cup {l} /\ main' = "add" /\ keys_of' = resident'
        BY <1>2, <2>1, <3>1 DEF KeysAfterMiss
      <3>3. Cardinality(resident') <= K
        <4>1. Cardinality(resident') = Cardinality(resident) + 1
          BY <1>1, <1>2, <2>2, <3>2, LeafSets
        <4>2. Cardinality(resident) \in Nat
          BY <1>1, <1>2, LeafSets
        <4>3. QED
          BY <2>4, <4>1, <4>2, KAssumption
      <3>4. Installed' = resident' \ {l} /\ l \in resident'
        BY <1>2, <2>2, <3>2
      <3>5. QED
        BY <1>3, <3>2, <3>3, <3>4 DEF TableInv
    <2>5. QED
      BY <2>3, <2>4
  <1>6. QED
    BY <1>4, <1>5

\* TableInv holds of a process that has just ended.
LEMMA NewProcessTableInv == ASSUME NewProcess, main' = "down" PROVE TableInv'
  <1>1. resident' = {} /\ keys_of' = {}
    BY DEF NewProcess
  <1>2. Cardinality({}) <= K
    BY FS_EmptySet, KAssumption
  <1>3. QED
    BY <1>1, <1>2 DEF TableInv

\* TableInv is an invariant: through every install, eviction, crash and restart
\* the table, the policy and the keys differ at most by the miss being served.
THEOREM TableCorrect == Spec => []TableInv
<1>1. Init => TableInv
  <2> SUFFICES ASSUME Init PROVE TableInv
    OBVIOUS
  <2>1. main = "down" /\ resident = {} /\ keys_of = {}
    BY DEF Init
  <2>2. Cardinality({}) <= K
    BY FS_EmptySet, KAssumption
  <2>3. QED
    BY <2>1, <2>2 DEF TableInv
<1>2. TypeOK /\ TableInv /\ [Next]_vars => TableInv'
  <2> SUFFICES ASSUME TypeOK, TableInv, [Next]_vars PROVE TableInv'
    OBVIOUS
  <2> USE DEF tableVars, Installed, clientVars, frameVars, controllerVars, mainVars,
              policyVars, pollerVars, historyVars
  <2>1. ASSUME NEW q \in Qids, SwitchHit(q) PROVE TableInv'
    BY <2>1, TableInvStutters DEF SwitchHit, TypeOK
  <2>2. ASSUME NEW q \in Qids, SwitchMiss(q) \/ SwitchForward(q) PROVE TableInv'
    BY <2>2, TableInvStutters DEF SwitchMiss, SwitchForward
  <2>3. ASSUME NEW q \in Qids, HulkClassify(q) PROVE TableInv'
    BY <2>3, TableInvStutters DEF HulkClassify
  <2>4. ASSUME NEW q \in Qids, ClientStep(q) PROVE TableInv'
    BY <2>4, TableInvStutters DEF ClientStep, ClientSend, ClientReceive
  <2>5. CASE ClientStart \/ ClientClose
    BY <2>5, TableInvStutters DEF ClientStart, ClientClose
  <2>6. CASE Connect
    BY <2>6 DEF Connect, TableInv
  <2>7. CASE ClearTable
    BY <2>7, EmptySequence DEF ClearTable, EmptyTable, TableInv
  <2>8. CASE Miss
    BY <2>8, MissKeepsTableInv
  <2>9. CASE DeleteVictim
    <3>1. PICK v \in Leaves \ resident : evicting = {v}
      BY <2>9 DEF DeleteVictim, TableInv
    <3>2. main' = "add" /\ resident' = resident /\ Missed' = Missed
      BY <2>9 DEF DeleteVictim, Missed
    <3>3. Installed' = Installed \ {v} /\ keys_of' = keys_of \cup {Missed}
      BY <2>9, <3>1 DEF DeleteVictim, WithoutVictim, Restrict, Missed
    <3>4. /\ Missed \in resident /\ Installed = (resident \ {Missed}) \cup {v}
          /\ keys_of = resident \ {Missed} /\ Cardinality(resident) <= K
      BY <2>9, <3>1 DEF DeleteVictim, TableInv
    <3> HIDE DEF Installed
    <3>5. Installed' = resident \ {Missed} /\ keys_of' = resident
      BY <3>1, <3>3, <3>4
    <3>6. QED
      BY <3>2, <3>4, <3>5 DEF TableInv
  <2>10. CASE AddEntry
    <3>1. main' = "serve" /\ resident' = resident /\ keys_of' = keys_of
      BY <2>10 DEF AddEntry, AfterAdd
    <3>2. Installed' = Installed \cup {Missed}
      BY <2>10 DEF AddEntry, Missed
    <3>3. /\ Missed \in resident /\ Installed = resident \ {Missed}
          /\ keys_of = resident /\ Cardinality(resident) <= K
      BY <2>10 DEF AddEntry, TableInv
    <3> HIDE DEF Installed
    <3>4. QED
      BY <3>1, <3>2, <3>3 DEF TableInv
  <2>11. CASE LeaveLoop \/ CloseLog
    BY <2>11 DEF LeaveLoop, CloseLog, TableInv
  <2>12. CASE Exit \/ Crash
    BY <2>12, NewProcessTableInv DEF Exit, Crash
  <2>13. CASE PollerStep
    BY <2>13, TableInvStutters
       DEF PollerStep, PollSnapshot, PollKeys, PollRead, PollError, PollApply
  <2>14. CASE Terminate
    BY <2>14, TableInvStutters DEF Terminate
  <2>15. ASSUME NEW q \in Qids, Lose(q) PROVE TableInv'
    BY <2>15, TableInvStutters DEF Lose
  <2>16. CASE UNCHANGED vars
    BY <2>16, TableInvStutters DEF vars
  <2>17. QED
    BY <2>1, <2>2, <2>3, <2>4, <2>5, <2>6, <2>7, <2>8, <2>9, <2>10, <2>11, <2>12, <2>13,
       <2>14, <2>15, <2>16 DEF Next, SwitchStep, MainStep, Environment
<1>3. QED
  BY <1>1, <1>2, TypeCorrect, PTL DEF Spec

\* What TableInv says of a state in the words of the properties.
LEMMA TableInvImplies ==
  ASSUME TypeOK, TableInv PROVE OccupancyBound /\ TableMirrorsPolicy /\ CallsSucceed
  <1>1. resident \in SUBSET Leaves /\ Missed \in Leaves
    BY QueriesAssumption DEF TypeOK, Missed
  <1>2. OccupancyBound
    <2>1. CASE main = "del"
      <3>1. PICK v \in Leaves \ resident : evicting = {v}
        BY <2>1 DEF TableInv
      <3>2. Installed = (resident \ {Missed}) \cup {v} /\ Missed \in resident
            /\ Cardinality(resident) <= K
        BY <2>1, <3>1 DEF TableInv
      <3>3. Cardinality(resident \ {Missed}) = Cardinality(resident) - 1
        BY <1>1, <3>2, LeafSets
      <3>4. Cardinality((resident \ {Missed}) \cup {v}) = Cardinality(resident \ {Missed}) + 1
        BY <1>1, <3>1, LeafSets
      <3>5. Cardinality(resident) \in Nat
        BY <1>1, LeafSets
      <3>6. QED
        BY <3>2, <3>3, <3>4, <3>5 DEF OccupancyBound
    <2>2. CASE main = "add"
      <3>1. Installed = resident \ {Missed} /\ Missed \in resident /\ Cardinality(resident) <= K
        BY <2>2 DEF TableInv
      <3>2. Cardinality(resident \ {Missed}) = Cardinality(resident) - 1
            /\ Cardinality(resident) \in Nat
        BY <1>1, <3>1, LeafSets
      <3>3. QED
        BY <3>1, <3>2, KAssumption DEF OccupancyBound
    <2>3. CASE main \in {"serve", "closing"}
      BY <2>3 DEF TableInv, OccupancyBound
    <2>4. QED
      BY <2>1, <2>2, <2>3 DEF OccupancyBound, Live
  <1>3. TableMirrorsPolicy
    BY DEF TableMirrorsPolicy, TableInv, Live, Free
  <1>4. CallsSucceed
    BY DEF CallsSucceed, TableInv, Missed
  <1>5. QED
    BY <1>2, <1>3, <1>4

\* At most K leaves are in the table whenever a controller serves.
THEOREM Occupancy == Spec => []OccupancyBound
  BY TypeCorrect, TableCorrect, TableInvImplies, PTL

\* With the lock free, the switch, the policy and keys_of agree.
THEOREM Mirror == Spec => []TableMirrorsPolicy
  BY TypeCorrect, TableCorrect, TableInvImplies, PTL

\* No entry_del or entry_add of the main thread can fail.
THEOREM Calls == Spec => []CallsSucceed
  BY TypeCorrect, TableCorrect, TableInvImplies, PTL

-----------------------------------------------------------------------------
(* Exactness.  An answer is right because the entry, or Hulk, that wrote it  *)
(* is; it is recorded once because the frame that carries it exists once.    *)

ExactInv ==
    /\ \A l \in Installed : leaf_tbl[l].leaf = l /\ leaf_tbl[l].klass = Klass[l]
    /\ \A q \in Qids :
          at[q] \in {"fromHulk", "toVision", "received"} => wire[q] = TreeAnswer(LeafOf[q])
    /\ \A q \in Qids : recs[q] # NoAnswer =>
          at[q] = "received" /\ recs[q] = TreeAnswer(LeafOf[q])

exactVars == <<leaf_tbl, at, wire, recs>>

\* A step that touches none of these keeps ExactInv.
LEMMA ExactInvStutters == ASSUME ExactInv, UNCHANGED exactVars PROVE ExactInv'
  BY DEF ExactInv, exactVars, Installed

\* ExactInv is an invariant: every entry, every answer on the wire and every
\* record carries the tree's own answer.
THEOREM ExactInvariant == Spec => []ExactInv
<1>1. Init => ExactInv
  <2> SUFFICES ASSUME Init PROVE ExactInv
    OBVIOUS
  <2>1. \A l \in Installed : leaf_tbl[l].leaf = l /\ leaf_tbl[l].klass = Klass[l]
    <3>1. PICK S \in SUBSET Leaves : leaf_tbl = Leftover(S)
      BY DEF Init
    <3>2. QED
      BY <3>1 DEF Leftover, Installed
  <2>2. QED
    BY <2>1 DEF Init, ExactInv
<1>2. TypeOK /\ ExactInv /\ [Next]_vars => ExactInv'
  <2> SUFFICES ASSUME TypeOK, ExactInv, [Next]_vars PROVE ExactInv'
    OBVIOUS
  <2> USE DEF exactVars, clientVars, frameVars, controllerVars, mainVars, policyVars,
              pollerVars, historyVars
  <2>0. /\ at \in [Qids -> Places] /\ wire \in [Qids -> Answer] /\ recs \in [Qids -> Answer]
        /\ LeafOf \in [Qids -> Leaves]
    BY QueriesAssumption DEF TypeOK
  <2>1. ASSUME NEW q \in Qids, SwitchHit(q) PROVE ExactInv'
    <3> DEFINE l == LeafOf[q]
    <3>1. l \in Installed /\ leaf_tbl[l].leaf = l /\ leaf_tbl[l].klass = Klass[l]
      BY <2>1 DEF SwitchHit, ExactInv
    <3>2. leaf_tbl' = [leaf_tbl EXCEPT ![l] = Counted(leaf_tbl[l])]
      BY <2>1 DEF SwitchHit
    <3>3. \A x \in Installed' : leaf_tbl'[x].leaf = x /\ leaf_tbl'[x].klass = Klass[x]
      BY <3>1, <3>2 DEF Installed, Counted, ExactInv
    <3>4. wire' = [wire EXCEPT ![q] = TreeAnswer(l)]
      BY <2>1, <3>1 DEF SwitchHit, TreeAnswer
    <3>5. at[q] = "toSwitch" /\ at' = [at EXCEPT ![q] = "toVision"] /\ recs' = recs
      BY <2>1 DEF SwitchHit, First
    <3>6. QED
      BY <2>0, <3>3, <3>4, <3>5 DEF ExactInv
  <2>2. ASSUME NEW q \in Qids, SwitchMiss(q) PROVE ExactInv'
    BY <2>0, <2>2 DEF SwitchMiss, First, ExactInv, Installed
  <2>3. ASSUME NEW q \in Qids, SwitchForward(q) PROVE ExactInv'
    BY <2>0, <2>3 DEF SwitchForward, First, ExactInv, Installed
  <2>4. ASSUME NEW q \in Qids, HulkClassify(q) PROVE ExactInv'
    BY <2>0, <2>4 DEF HulkClassify, HulkAnswer, First, ExactInv, Installed
  <2>5. ASSUME NEW q \in Qids, ClientSend(q) PROVE ExactInv'
    BY <2>0, <2>5 DEF ClientSend, First, ExactInv, Installed
  <2>6. ASSUME NEW q \in Qids, ClientReceive(q) PROVE ExactInv'
    BY <2>0, <2>6 DEF ClientReceive, ExactInv, Installed
  <2>7. CASE ClientStart \/ ClientClose
    BY <2>7, ExactInvStutters DEF ClientStart, ClientClose
  <2>8. CASE ClearTable
    BY <2>8, EmptySequence DEF ClearTable, EmptyTable, ExactInv, Installed
  <2>9. CASE Miss
    BY <2>9, ExactInvStutters DEF Miss
  <2>10. CASE DeleteVictim
    BY <2>10 DEF DeleteVictim, WithoutVictim, Restrict, ExactInv, Installed
  <2>11. CASE AddEntry
    <3>1. \A x \in Installed' : leaf_tbl'[x].leaf = x /\ leaf_tbl'[x].klass = Klass[x]
      BY <2>11 DEF AddEntry, NewEntry, ExactInv, Installed
    <3>2. UNCHANGED <<at, wire, recs>>
      BY <2>11 DEF AddEntry
    <3>3. QED
      BY <3>1, <3>2 DEF ExactInv
  <2>12. CASE Connect \/ LeaveLoop \/ CloseLog \/ Exit \/ Terminate \/ Crash
    BY <2>12, ExactInvStutters DEF Connect, LeaveLoop, CloseLog, Exit, Terminate, Crash
  <2>13. CASE PollerStep
    BY <2>13, ExactInvStutters
       DEF PollerStep, PollSnapshot, PollKeys, PollRead, PollError, PollApply
  <2>14. ASSUME NEW q \in Qids, Lose(q) PROVE ExactInv'
    BY <2>0, <2>14 DEF Lose, OnTheWire, ExactInv, Installed
  <2>15. CASE UNCHANGED vars
    BY <2>15, ExactInvStutters DEF vars
  <2>16. QED
    BY <2>1, <2>2, <2>3, <2>4, <2>5, <2>6, <2>7, <2>8, <2>9, <2>10, <2>11, <2>12, <2>13,
       <2>14, <2>15 DEF Next, SwitchStep, ClientStep, MainStep, Environment
<1>3. QED
  BY <1>1, <1>2, TypeCorrect, PTL DEF Spec

\* The two steps that the host sees.
Asked == {q \in Qids : at[q] # "unsent"}

\* A step that sends no query leaves the set of queries asked as it is.
LEMMA AskedSame ==
  ASSUME TypeOK, NEW q \in Qids, at[q] # "unsent", NEW p, p # "unsent",
         at' = [at EXCEPT ![q] = p]
  PROVE  Asked' = Asked
  BY DEF TypeOK, Asked

\* Every behaviour of the deployment is one of ExactInference: sending a query
\* asks it, receiving the frame that answers it answers it, and nothing else
\* the switch, Hulk or the controller does can be seen in the records.
THEOREM Refinement == Spec => ExactAnswers
<1>1. Init => Exact!Init
  BY DEF Init, Exact!Init, Exact!NoAnswer, NoAnswer
<1>2. TypeOK /\ ExactInv /\ [Next]_vars => [Exact!Next]_(Exact!vars)
  <2> SUFFICES ASSUME TypeOK, ExactInv, [Next]_vars
               PROVE  Exact!Next \/ (Asked' = Asked /\ recs' = recs)
    BY DEF Exact!vars, Asked
  <2> USE DEF clientVars, frameVars, controllerVars, mainVars, policyVars, pollerVars,
              historyVars
  <2>1. ASSUME NEW q \in Qids, ClientSend(q) PROVE Exact!Next
    <3>1. q \notin Asked /\ recs' = recs /\ Asked' = Asked \cup {q}
      BY <2>1 DEF ClientSend, First, Asked, TypeOK
    <3>2. Exact!Ask(q)
      BY <3>1 DEF Exact!Ask, Asked
    <3>3. QED
      BY <3>2 DEF Exact!Next
  <2>2. ASSUME NEW q \in Qids, ClientReceive(q) PROVE Exact!Next
    <3>1. at[q] = "toVision" /\ recs[q] = NoAnswer /\ wire[q] = TreeAnswer(LeafOf[q])
      BY <2>2 DEF ClientReceive, ExactInv
    <3>2. recs' = [recs EXCEPT ![q] = TreeAnswer(LeafOf[q])]
      BY <2>2, <3>1 DEF ClientReceive
    <3>3. q \in Asked /\ Asked' = Asked
      BY <2>2, <3>1, AskedSame DEF ClientReceive, Asked
    <3>4. Exact!Answer(q)
      BY <3>1, <3>2, <3>3
         DEF Exact!Answer, Exact!TreeAnswer, Exact!NoAnswer, TreeAnswer, NoAnswer, Asked
    <3>5. QED
      BY <3>4 DEF Exact!Next
  <2>3. ASSUME NEW q \in Qids, SwitchStep(q) \/ HulkClassify(q) \/ Lose(q)
        PROVE  Asked' = Asked /\ recs' = recs
    <3>1. CASE SwitchHit(q)
      BY <3>1, AskedSame DEF SwitchHit, First
    <3>2. CASE SwitchMiss(q)
      BY <3>2, AskedSame DEF SwitchMiss, First
    <3>3. CASE SwitchForward(q)
      BY <3>3, AskedSame DEF SwitchForward, First
    <3>4. CASE HulkClassify(q)
      BY <3>4, AskedSame DEF HulkClassify, First
    <3>5. CASE Lose(q)
      BY <3>5, AskedSame DEF Lose, OnTheWire
    <3>6. QED
      BY <2>3, <3>1, <3>2, <3>3, <3>4, <3>5 DEF SwitchStep
  <2>4. CASE ClientStart \/ ClientClose
    BY <2>4 DEF ClientStart, ClientClose, Asked
  <2>5. CASE MainStep
    BY <2>5 DEF MainStep, Connect, ClearTable, Miss, DeleteVictim, AddEntry, LeaveLoop,
                CloseLog, Exit, Asked
  <2>6. CASE PollerStep
    BY <2>6 DEF PollerStep, PollSnapshot, PollKeys, PollRead, PollError, PollApply, Asked
  <2>7. CASE Terminate \/ Crash
    BY <2>7 DEF Terminate, Crash, Asked
  <2>8. CASE UNCHANGED vars
    BY <2>8 DEF vars, Asked
  <2>9. QED
    BY <2>1, <2>2, <2>3, <2>4, <2>5, <2>6, <2>7, <2>8 DEF Next, ClientStep, Environment
<1>3. QED
  BY <1>1, <1>2, TypeCorrect, ExactInvariant, PTL DEF Spec, ExactAnswers, Exact!Spec

-----------------------------------------------------------------------------
(* The poller beside the main thread.  It looks at keys, entries and       *)
(* counters without the lock, so each of its steps is weighed against each *)
(* step of the main thread.                                                *)

-----------------------------------------------------------------------------
(* Rounds that fail.  PollErrorMeansEviction speaks of keys and of entries *)
(* in turn; what holds through both is that a leaf still to be read is     *)
(* installed unless it was evicted since the snapshot.                     *)

RoundInv ==
    /\ main \in {"down", "starting"} => poller = "dead"
    /\ poller \in {"keys", "read"} => toRead \ Installed \subseteq gone

\* The state that RoundInv speaks of.
roundVars == <<main, poller, toRead, Installed, gone>>

\* A step that touches none of these keeps RoundInv.
LEMMA RoundInvStutters == ASSUME RoundInv, UNCHANGED roundVars PROVE RoundInv'
  BY DEF RoundInv, roundVars, Installed

\* A new process has no poller.
LEMMA NewProcessRoundInv == ASSUME NewProcess PROVE RoundInv'
  BY DEF NewProcess, RoundInv

\* Every step of the main thread and the switch keeps RoundInv: only
\* entry_del takes entries away, and it marks them as gone.
LEMMA MainKeepsRoundInv ==
  ASSUME TypeOK, TableInv, RoundInv, MainStep PROVE RoundInv'
  <1> USE DEF Installed, mainVars, policyVars, pollerVars, historyVars
  <1>1. CASE Connect
    BY <1>1 DEF Connect, RoundInv
  <1>2. CASE ClearTable
    BY <1>2 DEF ClearTable, RoundInv
  <1>3. CASE Miss
    <2>1. main = "serve" /\ main' \in {"serve", "add", "del"}
      BY <1>3 DEF Miss
    <2>2. UNCHANGED <<poller, toRead, leaf_tbl, gone>>
      BY <1>3 DEF Miss
    <2>3. QED
      BY <2>1, <2>2 DEF RoundInv
  <1>4. CASE DeleteVictim
    <2>1. /\ main = "del" /\ main' = "add"
          /\ gone' = gone \cup evicting /\ UNCHANGED <<poller, toRead>>
      BY <1>4 DEF DeleteVictim
    <2>2. Installed' = Installed \ evicting
      BY <1>4 DEF DeleteVictim, WithoutVictim, Restrict
    <2> HIDE DEF Installed
    <2>3. QED
      BY <2>1, <2>2 DEF RoundInv
  <1>5. CASE AddEntry
    <2>1. /\ main = "add" /\ main' = "serve" /\ UNCHANGED <<poller, toRead, gone>>
          /\ Installed \subseteq Installed'
      BY <1>5 DEF AddEntry, AfterAdd
    <2> HIDE DEF Installed
    <2>2. QED
      BY <2>1 DEF RoundInv
  <1>6. CASE LeaveLoop \/ CloseLog
    BY <1>6 DEF LeaveLoop, CloseLog, RoundInv
  <1>7. CASE Exit
    BY <1>7, NewProcessRoundInv DEF Exit
  <1>8. QED
    BY <1>1, <1>2, <1>3, <1>4, <1>5, <1>6, <1>7 DEF MainStep

\* Every step of the poller keeps RoundInv.
LEMMA PollerKeepsRoundInv ==
  ASSUME TypeOK, TableInv, RoundInv, PollerStep PROVE RoundInv'
  <1>1. main \notin {"down", "starting"} /\ main' = main /\ Installed' = Installed
    BY DEF PollerStep, PollSnapshot, PollKeys, PollRead, PollError, PollApply, RoundInv,
           mainVars, Installed
  <1>2. CASE PollSnapshot
    <2>1. Installed = resident /\ toRead' = resident
      BY <1>1, <1>2 DEF PollSnapshot, Free, TableInv, TypeOK
    <2>2. QED
      BY <1>1, <2>1 DEF RoundInv
  <1>3. CASE PollKeys
    BY <1>1, <1>3 DEF PollKeys, RoundInv, historyVars
  <1>4. ASSUME NEW l \in Leaves, PollRead(l) PROVE RoundInv'
    BY <1>1, <1>4 DEF PollRead, RoundInv, historyVars
  <1>5. CASE PollError
    BY <1>1, <1>5 DEF PollError, PollerWrites, NextRound, RoundInv
  <1>6. CASE PollApply
    BY <1>1, <1>6 DEF PollApply, PollerWrites, NextRound, RoundInv
  <1>7. QED
    BY <1>2, <1>3, <1>4, <1>5, <1>6 DEF PollerStep

\* RoundInv holds in every state.
LEMMA RoundsCorrect == Spec => []RoundInv
<1>1. Init => RoundInv
  BY DEF Init, RoundInv
<1>2. TypeOK /\ TableInv /\ RoundInv /\ [Next]_vars => RoundInv'
  <2> SUFFICES ASSUME TypeOK, TableInv, RoundInv, [Next]_vars PROVE RoundInv'
    OBVIOUS
  <2> USE DEF roundVars, Installed, clientVars, frameVars, controllerVars, mainVars,
              policyVars, pollerVars, historyVars
  <2>1. ASSUME NEW q \in Qids, SwitchHit(q) PROVE RoundInv'
    BY <2>1, RoundInvStutters DEF SwitchHit
  <2>2. ASSUME NEW q \in Qids, SwitchMiss(q) \/ SwitchForward(q) PROVE RoundInv'
    BY <2>2, RoundInvStutters DEF SwitchMiss, SwitchForward
  <2>3. ASSUME NEW q \in Qids, HulkClassify(q) \/ ClientStep(q) PROVE RoundInv'
    BY <2>3, RoundInvStutters DEF HulkClassify, ClientStep, ClientSend, ClientReceive
  <2>4. CASE ClientStart \/ ClientClose
    BY <2>4, RoundInvStutters DEF ClientStart, ClientClose
  <2>5. CASE MainStep
    BY <2>5, MainKeepsRoundInv
  <2>6. CASE PollerStep
    BY <2>6, PollerKeepsRoundInv
  <2>7. CASE Terminate
    BY <2>7, RoundInvStutters DEF Terminate
  <2>8. CASE Crash
    BY <2>8, NewProcessRoundInv DEF Crash
  <2>9. ASSUME NEW q \in Qids, Lose(q) PROVE RoundInv'
    BY <2>9, RoundInvStutters DEF Lose
  <2>10. CASE UNCHANGED vars
    BY <2>10, RoundInvStutters DEF vars
  <2>11. QED
    BY <2>1, <2>2, <2>3, <2>4, <2>5, <2>6, <2>7, <2>8, <2>9, <2>10
       DEF Next, SwitchStep, Environment
<1>3. QED
  BY <1>1, <1>2, TypeCorrect, TableCorrect, PTL DEF Spec

\* A poll round is given up only because a leaf of its snapshot was evicted
\* since ("entry evicted between snapshot and read").
THEOREM ErrorsAreEvictions == Spec => []PollErrorMeansEviction
<1>1. TypeOK /\ TableInv /\ RoundInv => PollErrorMeansEviction
  <2> SUFFICES ASSUME TypeOK, TableInv, RoundInv PROVE PollErrorMeansEviction
    OBVIOUS
  <2>1. poller = "read" => toRead \ Installed \subseteq gone
    BY DEF RoundInv
  <2>2. poller = "keys" => Installed \ keys_of \subseteq evicting
    <3> SUFFICES ASSUME poller = "keys" PROVE Installed \ keys_of \subseteq evicting
      OBVIOUS
    <3>1. main \in {"serve", "del", "add", "closing", "closed"}
      BY DEF TypeOK, RoundInv
    <3>2. QED
      BY <3>1 DEF TableInv
  <2>3. poller = "keys" => toRead \ Installed \subseteq gone
    BY DEF RoundInv
  <2>4. QED
    BY <2>1, <2>2, <2>3 DEF PollErrorMeansEviction
<1>2. QED
  BY <1>1, TypeCorrect, TableCorrect, RoundsCorrect, PTL

-----------------------------------------------------------------------------
(* Credits.  A hit is in credited, in a counter beyond last_count, or in   *)
(* the past of an evicted entry.  CreditsAreHits says so of resident       *)
(* leaves; CreditInv adds the leaves on their way out, and what the poller *)
(* holds in its hands: a count lies between last_count and the counter     *)
(* unless the leaf was evicted since it was read.                          *)

Counting == main \notin {"down", "starting"}

\* The counter of l is not behind last_count, and the hits beyond it are hits
\* not yet credited.
CounterIsAhead(l) ==
    /\ last_count[l] <= leaf_tbl[l].pkts
    /\ credited[l] + (leaf_tbl[l].pkts - last_count[l]) <= hits[l]

\* The count that the poller holds of l is one the counter has passed.
CountIsFresh(l) ==
    /\ l \in Installed
    /\ last_count[l] <= counts[l]
    /\ counts[l] <= leaf_tbl[l].pkts

CreditInv ==
    /\ ~ Counting => DOMAIN counts = {} /\ \A l \in Leaves : credited[l] = 0
    /\ ~ stale => /\ \A l \in Leaves : credited[l] <= hits[l]
                  /\ Counting => \A l \in Installed : CounterIsAhead(l)
                  /\ \A l \in DOMAIN counts \ outdated : CountIsFresh(l)

\* The state that CreditInv speaks of.
creditVars == <<main, leaf_tbl, counts, outdated, last_count, hits, credited, stale>>

\* A step that touches none of these keeps CreditInv.
LEMMA CreditInvStutters == ASSUME CreditInv, UNCHANGED creditVars PROVE CreditInv'
  BY DEF CreditInv, creditVars, Counting, CounterIsAhead, CountIsFresh, Installed

\* A step that only moves main within a serving process keeps CreditInv.
LEMMA CreditInvMoves ==
  ASSUME CreditInv, Counting, Counting',
         UNCHANGED <<leaf_tbl, counts, outdated, last_count, hits, credited, stale>>
  PROVE  CreditInv'
  BY DEF CreditInv, CounterIsAhead, CountIsFresh, Installed

\* A new process has credited nothing and read nothing.
LEMMA NewProcessCreditInv == ASSUME NewProcess, main' = "down" PROVE CreditInv'
  BY EmptySequence DEF NewProcess, CreditInv, Counting

\* A hit moves the counter and the hits of its leaf alike.
LEMMA HitKeepsCreditInv ==
  ASSUME TypeOK, CreditInv, NEW q \in Qids, SwitchHit(q) PROVE CreditInv'
  <1> DEFINE l == LeafOf[q]
  <1>1. /\ l \in Installed /\ l \in Leaves
        /\ leaf_tbl' = [leaf_tbl EXCEPT ![l] = Counted(@)]
        /\ hits' = [hits EXCEPT ![l] = @ + 1]
        /\ UNCHANGED <<main, counts, outdated, last_count, credited, stale>>
    BY QueriesAssumption DEF SwitchHit, TypeOK, mainVars, pollerVars
  <1>2. /\ \A x \in Installed : leaf_tbl[x].pkts \in Nat
        /\ \A x \in Leaves : hits[x] \in Nat /\ credited[x] \in Nat /\ last_count[x] \in Nat
        /\ \A x \in DOMAIN counts : counts[x] \in Nat /\ x \in Leaves
        /\ Installed \subseteq Leaves
        /\ hits \in [Leaves -> Nat]
    BY DEF TypeOK, Entry
  <1> HIDE DEF l
  <1>3. Installed' = Installed /\ Counting' = Counting
    BY <1>1 DEF Installed, Counting
  <1>4. \A x \in Leaves : hits'[x] = IF x = l THEN hits[x] + 1 ELSE hits[x]
    BY <1>1, <1>2
  <1>5. \A x \in Installed : leaf_tbl'[x].pkts = IF x = l THEN leaf_tbl[x].pkts + 1
                                                       ELSE leaf_tbl[x].pkts
    BY <1>1 DEF Installed, Counted
  <1>6. ASSUME NEW x \in Installed, CounterIsAhead(x) PROVE CounterIsAhead(x)'
    <2>1. x \in Leaves /\ leaf_tbl[x].pkts \in Nat
      BY <1>2
    <2>2. last_count[x] \in Nat /\ credited[x] \in Nat /\ hits[x] \in Nat
      BY <1>2, <2>1
    <2>3. leaf_tbl'[x].pkts = (IF x = l THEN leaf_tbl[x].pkts + 1 ELSE leaf_tbl[x].pkts)
          /\ hits'[x] = (IF x = l THEN hits[x] + 1 ELSE hits[x])
      BY <1>4, <1>5, <2>1
    <2>4. QED
      BY <1>1, <1>6, <2>1, <2>2, <2>3 DEF CounterIsAhead
  <1>7. ASSUME NEW x \in DOMAIN counts, CountIsFresh(x) PROVE CountIsFresh(x)'
    <2>1. x \in Installed /\ leaf_tbl[x].pkts \in Nat /\ counts[x] \in Nat
      BY <1>2, <1>7 DEF CountIsFresh
    <2>2. leaf_tbl'[x].pkts \in Nat /\ leaf_tbl[x].pkts <= leaf_tbl'[x].pkts
      BY <1>5, <2>1
    <2>3. QED
      BY <1>1, <1>3, <1>7, <2>1, <2>2 DEF CountIsFresh
  <1>8. \A x \in Leaves : credited[x] <= hits[x] => credited'[x] <= hits'[x]
    BY <1>1, <1>2, <1>4
  <1>9. QED
    BY <1>1, <1>3, <1>6, <1>7, <1>8 DEF CreditInv

\* entry_del: the victim's count, if the poller holds one, is outdated now.
LEMMA DeleteKeepsCreditInv ==
  ASSUME TypeOK, CreditInv, DeleteVictim PROVE CreditInv'
  <1>1. /\ main = "del" /\ main' = "add"
        /\ leaf_tbl' = [x \in Installed \ evicting |-> leaf_tbl[x]]
        /\ last_count' = [x \in Leaves |-> IF x \in evicting THEN 0 ELSE last_count[x]]
        /\ outdated' = outdated \cup (evicting \cap DOMAIN counts)
        /\ UNCHANGED <<counts, hits, credited, stale>>
    BY DEF DeleteVictim, WithoutVictim, Restrict, Installed, pollerVars
  <1>2. /\ Installed' = Installed \ evicting /\ Installed \subseteq Leaves
        /\ Counting /\ Counting' /\ DOMAIN counts \subseteq Leaves
    BY <1>1 DEF Installed, Counting, TypeOK
  <1>3. \A x \in Installed \ evicting :
           leaf_tbl'[x] = leaf_tbl[x] /\ last_count'[x] = last_count[x]
    BY <1>1, <1>2
  <1>4. ASSUME NEW x \in Installed', CounterIsAhead(x) PROVE CounterIsAhead(x)'
    BY <1>1, <1>2, <1>3, <1>4 DEF CounterIsAhead
  <1>5. ASSUME NEW x \in DOMAIN counts' \ outdated', CountIsFresh(x) PROVE CountIsFresh(x)'
    <2>1. x \in Installed \ evicting
      BY <1>1, <1>5 DEF CountIsFresh
    <2>2. QED
      BY <1>1, <1>2, <1>3, <1>5, <2>1 DEF CountIsFresh
  <1>6. QED
    BY <1>1, <1>2, <1>4, <1>5 DEF CreditInv

\* entry_add: counter and last_count start at 0, whatever an outdated count of
\* the leaf has left there.
LEMMA AddKeepsCreditInv ==
  ASSUME TypeOK, TableInv, CreditInv, AddEntry PROVE CreditInv'
  <1> DEFINE l == LeafOf[serving]
  <1>1. /\ main = "add" /\ main' = "serve"
        /\ leaf_tbl' = [x \in Installed \cup {l} |-> IF x = l THEN NewEntry(l) ELSE leaf_tbl[x]]
        /\ last_count' = [last_count EXCEPT ![l] = 0]
        /\ UNCHANGED <<counts, outdated, hits, credited, stale>>
    BY DEF AddEntry, AfterAdd, CountAfterAdd, pollerVars, historyVars
  <1>2. /\ l \in Leaves /\ l \notin Installed /\ Installed \subseteq Leaves
        /\ last_count \in [Leaves -> Nat]
        /\ \A x \in Leaves : credited[x] \in Nat /\ hits[x] \in Nat
        /\ l' = l
    BY <1>1, QueriesAssumption DEF TypeOK, TableInv, Missed, AddEntry, mainVars
  <1> HIDE DEF l
  <1>3. Installed' = Installed \cup {l} /\ Counting /\ Counting'
    BY <1>1 DEF Installed, Counting
  <1>4. \A x \in Installed : leaf_tbl'[x] = leaf_tbl[x] /\ last_count'[x] = last_count[x]
    BY <1>1, <1>2
  <1>5. ASSUME credited[l] <= hits[l] PROVE CounterIsAhead(l)'
    <2>1. leaf_tbl'[l].pkts = 0 /\ last_count'[l] = 0
      BY <1>1, <1>2 DEF NewEntry
    <2>2. credited'[l] = credited[l] /\ hits'[l] = hits[l] /\ credited[l] \in Nat
      BY <1>1, <1>2
    <2>3. QED
      BY <1>2, <1>5, <2>1, <2>2 DEF CounterIsAhead
  <1>6. ASSUME NEW x \in Installed, CounterIsAhead(x) PROVE CounterIsAhead(x)'
    BY <1>1, <1>4, <1>6 DEF CounterIsAhead
  <1>7. ASSUME NEW x \in DOMAIN counts \ outdated, CountIsFresh(x) PROVE CountIsFresh(x)'
    <2>1. x \in Installed
      BY <1>7 DEF CountIsFresh
    <2>2. QED
      BY <1>1, <1>3, <1>4, <1>7, <2>1 DEF CountIsFresh
  <1>8. QED
    BY <1>1, <1>2, <1>3, <1>5, <1>6, <1>7 DEF CreditInv

\* Reading a counter gives a fresh count.
LEMMA ReadKeepsCreditInv ==
  ASSUME TypeOK, RoundInv, CreditInv, NEW l \in Leaves, PollRead(l) PROVE CreditInv'
  <1>1. /\ l \in Installed /\ poller = "read"
        /\ counts' = [x \in DOMAIN counts \cup {l} |->
                        IF x = l THEN leaf_tbl[l].pkts ELSE counts[x]]
        /\ UNCHANGED <<main, leaf_tbl, outdated, last_count, hits, credited, stale>>
    BY DEF PollRead, mainVars, historyVars
  <1>2. Counting /\ Counting' /\ Installed' = Installed
    BY <1>1 DEF RoundInv, Counting, Installed
  <1>3. leaf_tbl[l].pkts \in Nat
    BY <1>1 DEF TypeOK, Entry
  <1>4. ASSUME CounterIsAhead(l) PROVE CountIsFresh(l)'
    <2>1. counts'[l] = leaf_tbl[l].pkts
      BY <1>1
    <2>2. last_count[l] <= leaf_tbl[l].pkts
      BY <1>4 DEF CounterIsAhead
    <2>3. leaf_tbl[l].pkts <= leaf_tbl[l].pkts
      BY <1>3
    <2>4. QED
      BY <1>1, <1>2, <2>1, <2>2, <2>3 DEF CountIsFresh
  <1>5. ASSUME NEW x \in DOMAIN counts, x # l, CountIsFresh(x) PROVE CountIsFresh(x)'
    <2>1. counts'[x] = counts[x]
      BY <1>1, <1>5
    <2>2. QED
      BY <1>1, <1>2, <1>5, <2>1 DEF CountIsFresh
  <1>6. DOMAIN counts' = DOMAIN counts \cup {l}
    BY <1>1
  <1>7. ASSUME NEW x \in Installed, CounterIsAhead(x) PROVE CounterIsAhead(x)'
    BY <1>1, <1>7 DEF CounterIsAhead
  <1>8. QED
    BY <1>1, <1>2, <1>4, <1>5, <1>6, <1>7 DEF CreditInv

\* Applying the counts moves hits from the counters to the credits, none twice
\* unless an outdated count meets a leaf that is resident again.
LEMMA ApplyKeepsCreditInv ==
  ASSUME TypeOK, TableInv, RoundInv, CreditInv, PollApply PROVE CreditInv'
  <1>1. /\ poller = "read" /\ Free
        /\ last_count' = [x \in Leaves |-> IF x \in DOMAIN counts THEN counts[x]
                                                                 ELSE last_count[x]]
        /\ credited' = [x \in Leaves |-> credited[x] + Credit(x)]
        /\ stale' = (stale \/ outdated \cap resident # {})
        /\ counts' = <<>>
        /\ UNCHANGED <<main, leaf_tbl, resident, outdated, hits>>
    BY DEF PollApply, mainVars
  <1>2. /\ main \in {"serve", "closing", "closed"} /\ Installed = resident
        /\ Counting /\ Counting' /\ Installed' = Installed
    BY <1>1 DEF TypeOK, RoundInv, TableInv, Free, Counting, Installed
  <1>3. /\ Installed \subseteq Leaves
        /\ \A x \in Installed : leaf_tbl[x].pkts \in Nat
        /\ \A x \in Leaves : credited[x] \in Nat /\ hits[x] \in Nat /\ last_count[x] \in Nat
        /\ \A x \in DOMAIN counts : counts[x] \in Nat
    BY DEF TypeOK, Entry
  <1>4. DOMAIN counts' = {}
    BY <1>1, EmptySequence
  <1>5. SUFFICES ASSUME ~ stale, outdated \cap resident = {}
                 PROVE  /\ \A x \in Leaves : credited'[x] <= hits'[x]
                        /\ \A x \in Installed : CounterIsAhead(x)'
    BY <1>1, <1>2, <1>4 DEF CreditInv
  <1>6. /\ \A x \in Leaves : credited[x] <= hits[x]
        /\ \A x \in Installed : CounterIsAhead(x)
        /\ \A x \in DOMAIN counts \ outdated : CountIsFresh(x)
    BY <1>2, <1>5 DEF CreditInv
  <1>7. ASSUME NEW x \in Installed PROVE CounterIsAhead(x)' /\ credited'[x] <= hits'[x]
    <2>1. x \in Leaves /\ x \in resident /\ x \notin outdated
      BY <1>2, <1>3, <1>5
    <2>2. /\ leaf_tbl[x].pkts \in Nat /\ credited[x] \in Nat /\ hits[x] \in Nat
          /\ last_count[x] \in Nat
          /\ last_count[x] <= leaf_tbl[x].pkts
          /\ credited[x] + (leaf_tbl[x].pkts - last_count[x]) <= hits[x]
      BY <1>3, <1>6, <2>1 DEF CounterIsAhead
    <2>3. CASE x \in DOMAIN counts
      <3>1. counts[x] \in Nat /\ last_count[x] <= counts[x] /\ counts[x] <= leaf_tbl[x].pkts
        BY <1>3, <1>6, <2>1, <2>3 DEF CountIsFresh
      <3>2. Credit(x) = counts[x] - last_count[x]
        BY <2>1, <2>2, <2>3, <3>1 DEF Credit, Gained
      <3>3. last_count'[x] = counts[x] /\ credited'[x] = credited[x] + (counts[x] - last_count[x])
        BY <1>1, <2>1, <2>3, <3>2
      <3>4. /\ credited'[x] + (leaf_tbl[x].pkts - last_count'[x]) <= hits[x]
            /\ last_count'[x] <= leaf_tbl[x].pkts /\ credited'[x] <= hits[x]
        BY <2>2, <3>1, <3>3
      <3>5. QED
        BY <1>1, <3>4 DEF CounterIsAhead
    <2>4. CASE x \notin DOMAIN counts
      <3>1. Credit(x) = 0
        BY <2>4 DEF Credit
      <3>2. last_count'[x] = last_count[x] /\ credited'[x] = credited[x]
        BY <1>1, <2>1, <2>2, <2>4, <3>1
      <3>3. QED
        BY <1>1, <1>6, <2>1, <2>2, <3>2 DEF CounterIsAhead
    <2>5. QED
      BY <2>3, <2>4
  <1>8. ASSUME NEW x \in Leaves, x \notin Installed PROVE credited'[x] <= hits'[x]
    <2>1. Credit(x) = 0
      BY <1>2, <1>8 DEF Credit
    <2>2. credited'[x] = credited[x]
      BY <1>1, <1>3, <2>1
    <2>3. QED
      BY <1>1, <1>6, <2>2
  <1>9. QED
    BY <1>7, <1>8

\* CreditInv holds in every state.
LEMMA CreditsCorrect == Spec => []CreditInv
<1>1. Init => CreditInv
  BY EmptySequence DEF Init, CreditInv, Counting
<1>2. TypeOK /\ TableInv /\ RoundInv /\ CreditInv /\ [Next]_vars => CreditInv'
  <2> SUFFICES ASSUME TypeOK, TableInv, RoundInv, CreditInv, [Next]_vars PROVE CreditInv'
    OBVIOUS
  <2> USE DEF creditVars, clientVars, frameVars, controllerVars, mainVars, policyVars,
              pollerVars, historyVars
  <2>1. ASSUME NEW q \in Qids, SwitchHit(q) PROVE CreditInv'
    BY <2>1, HitKeepsCreditInv
  <2>2. ASSUME NEW q \in Qids, SwitchMiss(q) \/ SwitchForward(q) PROVE CreditInv'
    BY <2>2, CreditInvStutters DEF SwitchMiss, SwitchForward
  <2>3. ASSUME NEW q \in Qids, HulkClassify(q) \/ ClientStep(q) PROVE CreditInv'
    BY <2>3, CreditInvStutters DEF HulkClassify, ClientStep, ClientSend, ClientReceive
  <2>4. CASE ClientStart \/ ClientClose
    BY <2>4, CreditInvStutters DEF ClientStart, ClientClose
  <2>5. CASE Connect
    BY <2>5 DEF Connect, CreditInv, Counting, CountIsFresh, Installed
  <2>6. CASE ClearTable
    <3>1. /\ main = "starting" /\ leaf_tbl' = <<>> /\ hits' = [l \in Leaves |-> 0]
          /\ UNCHANGED <<counts, outdated, last_count, credited, stale>>
      BY <2>6 DEF ClearTable, EmptyTable
    <3>2. DOMAIN counts = {} /\ \A l \in Leaves : credited[l] = 0
      BY <3>1 DEF CreditInv, Counting
    <3>3. Installed' = {}
      BY <3>1, EmptySequence DEF Installed
    <3>4. QED
      BY <3>1, <3>2, <3>3 DEF CreditInv
  <2>7. CASE Miss \/ LeaveLoop \/ CloseLog
    <3>1. Counting /\ Counting'
      BY <2>7 DEF Miss, LeaveLoop, CloseLog, Counting
    <3>2. UNCHANGED <<leaf_tbl, counts, outdated, last_count, hits, credited, stale>>
      BY <2>7 DEF Miss, LeaveLoop, CloseLog
    <3>3. QED
      BY <3>1, <3>2, CreditInvMoves
  <2>8. CASE DeleteVictim
    BY <2>8, DeleteKeepsCreditInv
  <2>9. CASE AddEntry
    BY <2>9, AddKeepsCreditInv
  <2>10. CASE Exit \/ Crash
    BY <2>10, NewProcessCreditInv DEF Exit, Crash
  <2>11. CASE PollSnapshot \/ PollError
    <3>1. /\ UNCHANGED <<main, leaf_tbl, last_count, hits, credited, stale>>
          /\ DOMAIN counts' = {}
      BY <2>11, EmptySequence DEF PollSnapshot, PollError
    <3>2. QED
      BY <3>1 DEF CreditInv, Counting, CounterIsAhead, Installed
  <2>12. CASE PollKeys \/ Terminate
    BY <2>12, CreditInvStutters DEF PollKeys, Terminate
  <2>13. ASSUME NEW l \in Leaves, PollRead(l) PROVE CreditInv'
    BY <2>13, ReadKeepsCreditInv
  <2>14. CASE PollApply
    BY <2>14, ApplyKeepsCreditInv
  <2>15. ASSUME NEW q \in Qids, Lose(q) PROVE CreditInv'
    BY <2>15, CreditInvStutters DEF Lose
  <2>16. CASE UNCHANGED vars
    BY <2>16, CreditInvStutters DEF vars
  <2>17. QED
    BY <2>1, <2>2, <2>3, <2>4, <2>5, <2>6, <2>7, <2>8, <2>9, <2>10, <2>11, <2>12, <2>13,
       <2>14, <2>15, <2>16 DEF Next, SwitchStep, MainStep, PollerStep, Environment
<1>3. QED
  BY <1>1, <1>2, TypeCorrect, TableCorrect, RoundsCorrect, PTL DEF Spec

\* Credits stand for hits, and the hits beyond last_count are those still to be
\* credited, as long as no outdated count was applied to a reinstalled leaf.
THEOREM CreditsStandForHits == Spec => []CreditsAreHits
<1>1. TypeOK /\ TableInv /\ CreditInv => CreditsAreHits
  <2> SUFFICES ASSUME TypeOK, TableInv, CreditInv, ~ stale
               PROVE  /\ EveryCreditIsAHit
                      /\ \A l \in Installed \cap resident :
                            /\ leaf_tbl[l].pkts >= last_count[l]
                            /\ credited[l] + (leaf_tbl[l].pkts - last_count[l]) <= hits[l]
    BY DEF CreditsAreHits
  <2>1. EveryCreditIsAHit
    BY DEF CreditInv, EveryCreditIsAHit
  <2>2. ASSUME NEW l \in Installed \cap resident PROVE CounterIsAhead(l)
    <3>1. Counting
      BY <2>2 DEF TableInv, Counting
    <3>2. QED
      BY <2>2, <3>1 DEF CreditInv
  <2>3. \A l \in Installed : leaf_tbl[l].pkts \in Nat /\ last_count[l] \in Nat
    BY DEF TypeOK, Entry
  <2>4. QED
    BY <2>1, <2>2, <2>3 DEF CounterIsAhead
<1>2. QED
  BY <1>1, TypeCorrect, TableCorrect, CreditsCorrect, PTL
=============================================================================
