-------------------------- MODULE Bmv2ReplayProofs --------------------------
(***************************************************************************)
(* Theorems about Bmv2Replay, for every list of slices, capacity, weight   *)
(* of an access and size of the benchmark: the client, the switch and the  *)
(* simulator agree on every query, and the benchmark is never refused.     *)
(***************************************************************************)
EXTENDS Bmv2Replay, NumberSets, SequenceTheorems, TLAPS

-----------------------------------------------------------------------------
(* The policy: it evicts one leaf at a time, and only when it is full.     *)

\* The policy after t accesses.
PolicyOK(c, t) ==
    /\ IsFiniteSet(c.resident) /\ Cardinality(c.resident) <= K
    /\ c.resident \subseteq DOMAIN c.weight /\ DOMAIN c.last = DOMAIN c.weight
    /\ \A l \in DOMAIN c.weight : c.weight[l] \in Nat /\ c.last[l] \in 0 .. t - 1
    /\ \A l, m \in DOMAIN c.weight : c.last[l] = c.last[m] => l = m

\* Numbers have a least.
LEMMA LeastOf ==
  ASSUME NEW W \in SUBSET Nat, W # {}
  PROVE  \E w \in W : \A y \in W : w <= y
  <1>1. PICK a \in W : TRUE
    OBVIOUS
  <1>2. PICK T : T = {w \in W : w <= a}
    OBVIOUS
  <1>3. a \in Nat /\ T \in SUBSET (0 .. a) /\ a \in T
    <2>1. a \in Nat /\ \A x \in T : x \in W /\ x \in Nat /\ x <= a
      BY <1>1, <1>2
    <2>2. \A x \in T : x \in 0 .. a
      BY <2>1
    <2>3. T \in SUBSET (0 .. a)
      BY <2>2
    <2>4. a \in T
      BY <1>1, <1>2, <2>1
    <2>5. QED
      BY <2>1, <2>3, <2>4
  <1>4. PICK w \in T : \A y \in T : w <= y
    BY <1>3, Least
  <1>5. \A y \in W : y \in Nat /\ (y \in T \/ a < y)
    BY <1>2, <1>3
  <1>6. w \in Nat /\ w <= a /\ w \in W
    BY <1>2, <1>3
  <1>7. \A y \in W : w <= y
    BY <1>3, <1>4, <1>5, <1>6
  <1>8. QED
    BY <1>6, <1>7

\* A full policy has one victim: of the leaves of least weight, the one that was
\* accessed first.
LEMMA OneVictim ==
  ASSUME NEW c, NEW t \in Nat, PolicyOK(c, t), Cardinality(c.resident) >= K, c.resident # {}
  PROVE  \E v \in c.resident : Victims(c) = {v}
  <1>1. PICK R, w, a : R = c.resident /\ w = c.weight /\ a = c.last
    OBVIOUS
  <1>2. /\ \A l \in R : w[l] \in Nat /\ a[l] \in 0 .. t - 1
        /\ \A l, m \in R : a[l] = a[m] => l = m
    BY <1>1 DEF PolicyOK
  <1>3. PICK u \in R : \A m \in R : w[u] <= w[m]
    <2>1. PICK W : W = {w[m] : m \in R}
      OBVIOUS
    <2>2. W \in SUBSET Nat /\ W # {}
      BY <1>1, <1>2, <2>1
    <2>3. PICK x \in W : \A y \in W : x <= y
      BY <2>2, LeastOf
    <2>4. QED
      BY <2>1, <2>3
  <1>4. PICK v \in R : w[v] = w[u] /\ \A m \in R : w[m] = w[u] => a[v] <= a[m]
    <2>1. PICK A : A = {a[m] : m \in {n \in R : w[n] = w[u]}}
      OBVIOUS
    <2>2. A \in SUBSET Nat /\ A # {}
      BY <1>2, <2>1
    <2>3. PICK x \in A : \A y \in A : x <= y
      BY <2>2, LeastOf
    <2>4. QED
      BY <2>1, <2>3
  <1>5. ASSUME NEW m \in R
        PROVE  /\ ~ (w[m] < w[v] \/ (w[m] = w[v] /\ a[m] < a[v]))
               /\ ~ (w[v] < w[m] \/ (w[v] = w[m] /\ a[v] < a[m])) => m = v
    <2>1. PICK p, q, x, y \in Nat : p = w[m] /\ q = w[v] /\ x = a[m] /\ y = a[v]
      BY <1>2
    <2>2. q <= p /\ (p = q => y <= x)
      BY <1>3, <1>4, <2>1
    <2>3. p = q /\ x = y => m = v
      BY <1>2, <2>1
    <2>4. QED
      BY <2>1, <2>2, <2>3
  <1>6. \A l \in R : l \in Victims(c) <=> \A m \in R : ~ Worse(c, m, l)
    BY <1>1 DEF Victims
  <1>7. v \in Victims(c)
    BY <1>1, <1>5, <1>6 DEF Worse
  <1>8. \A l \in Victims(c) : l = v
    BY <1>1, <1>5, <1>6 DEF Worse, Victims
  <1>9. QED
    BY <1>1, <1>7, <1>8

\* What an access leaves of a policy that knows D.
Accessed(d, c, t, l, D) ==
    /\ d.resident = IF l \in c.resident THEN c.resident ELSE (c.resident \ Victims(c)) \cup {l}
    /\ DOMAIN d.weight = D \cup {l} /\ DOMAIN d.last = D \cup {l}
    /\ \A m \in D \cup {l} : /\ d.weight[m] = (IF m \in D THEN c.weight[m] ELSE 0)
                                             + (IF m = l THEN Gain[t] ELSE 0)
                            /\ d.last[m] = IF m = l THEN t ELSE c.last[m]

\* PolicyAccess does that.
LEMMA AccessIs ==
  ASSUME NEW c, NEW t, NEW l
  PROVE  Accessed(PolicyAccess(c, t, l), c, t, l, DOMAIN c.weight)
  BY DEF PolicyAccess, Credited, Known, Accessed

\* The policy never has more leaves than its capacity, and one that was queried
\* is among them.
LEMMA AccessKeeps ==
  ASSUME BmvAssumption, NEW c, NEW t \in Nat, NEW l, PolicyOK(c, t), Gain[t] \in Nat
  PROVE  PolicyOK(PolicyAccess(c, t, l), t + 1) /\ l \in PolicyAccess(c, t, l).resident
  <1>1. PICK d, D, R, S : /\ d = PolicyAccess(c, t, l) /\ D = DOMAIN c.weight
                          /\ R = c.resident /\ S = d.resident
    OBVIOUS
  <1>2. /\ S = IF l \in R THEN R ELSE (R \ Victims(c)) \cup {l}
        /\ DOMAIN d.weight = D \cup {l} /\ DOMAIN d.last = D \cup {l}
        /\ \A m \in D \cup {l} : /\ d.weight[m] = (IF m \in D THEN c.weight[m] ELSE 0)
                                                  + (IF m = l THEN Gain[t] ELSE 0)
                                 /\ d.last[m] = IF m = l THEN t ELSE c.last[m]
    <2>1. Accessed(d, c, t, l, D)
      BY <1>1, AccessIs
    <2>2. QED
      BY <1>1, <2>1 DEF Accessed
  <1>3. /\ IsFiniteSet(R) /\ Cardinality(R) <= K /\ R \subseteq D
        /\ \A m \in D : c.weight[m] \in Nat /\ c.last[m] \in 0 .. t - 1
        /\ \A m, n \in D : c.last[m] = c.last[n] => m = n
    BY <1>1 DEF PolicyOK
  <1>4. l \in S /\ S \subseteq D \cup {l}
    BY <1>2, <1>3
  <1>5. K \in Nat \ {0}
    BY DEF BmvAssumption
  <1>6. Cardinality(R) \in Nat
    BY <1>3, FS_CardinalityType
  <1>7. IsFiniteSet(S) /\ Cardinality(S) <= K
    <2>1. CASE l \in R
      BY <1>2, <1>3, <2>1
    <2>2. CASE l \notin R /\ Cardinality(R) < K
      <3>1. Victims(c) = {}
        BY <1>1, <1>5, <1>6, <2>2 DEF Victims
      <3>2. S = R \cup {l}
        BY <1>2, <2>2, <3>1
      <3>3. IsFiniteSet(S) /\ Cardinality(S) = Cardinality(R) + 1
        BY <1>3, <2>2, <3>2, FS_AddElement
      <3>4. QED
        BY <1>5, <1>6, <2>2, <3>3
    <2>3. CASE l \notin R /\ ~ (Cardinality(R) < K)
      <3>1. Cardinality(R) = K
        BY <1>3, <1>5, <1>6, <2>3
      <3>2. R # {}
        BY <1>5, <3>1, FS_EmptySet
      <3>3. PICK v \in R : Victims(c) = {v}
        BY <1>1, <1>5, <3>1, <3>2, OneVictim
      <3>4. PICK Q : Q = R \ {v}
        OBVIOUS
      <3>5. IsFiniteSet(Q) /\ Cardinality(Q) = Cardinality(R) - 1
        BY <1>3, <3>4, FS_RemoveElement
      <3>6. S = Q \cup {l} /\ l \notin Q
        BY <1>2, <2>3, <3>3, <3>4
      <3>7. IsFiniteSet(S) /\ Cardinality(S) = Cardinality(Q) + 1
        BY <3>5, <3>6, FS_AddElement
      <3>8. QED
        BY <1>5, <3>1, <3>5, <3>7
    <2>4. QED
      BY <2>1, <2>2, <2>3
  <1>8. ASSUME NEW m \in D \cup {l} PROVE d.weight[m] \in Nat /\ d.last[m] \in 0 .. t
    <2>1. \A p, q \in Nat : p + q \in Nat
      OBVIOUS
    <2>2. PICK p \in Nat : p = IF m \in D THEN c.weight[m] ELSE 0
      BY <1>3
    <2>3. PICK q \in Nat : q = IF m = l THEN Gain[t] ELSE 0
      OBVIOUS
    <2>4. d.weight[m] = p + q
      BY <1>2, <2>2, <2>3
    <2>5. d.last[m] \in 0 .. t
      BY <1>2, <1>3
    <2>6. QED
      BY <2>1, <2>4, <2>5
  <1>9. ASSUME NEW m \in D \cup {l}, NEW n \in D \cup {l}, d.last[m] = d.last[n] PROVE m = n
    <2>1. \A e \in D : c.last[e] # t
      BY <1>3
    <2>2. QED
      BY <1>2, <1>3, <1>9, <2>1
  <1>10. (t + 1) - 1 = t
    OBVIOUS
  <1>11. PolicyOK(d, t + 1)
    BY <1>1, <1>2, <1>4, <1>7, <1>8, <1>9, <1>10 DEF PolicyOK
  <1>12. QED
    BY <1>1, <1>4, <1>11

\* The simulation of a slice: its recursion, and that it has a solution.
IsSim(g, s) ==
    g = [i \in 0 .. Len(s) |-> IF i = 0 THEN NewPolicy ELSE PolicyAccess(g[i - 1], i - 1, s[i])]

\* simulate_fast replays the slice from the first query to the last.
LEMMA SimulatedIs ==
  ASSUME NEW s \in Seq(Nat)
  PROVE  /\ Simulated(s)[0] = NewPolicy
         /\ \A i \in 0 .. Len(s) - 1 : Simulated(s)[i + 1] = PolicyAccess(Simulated(s)[i], i, s[i + 1])
  <1>1. PICK last \in Nat : last = Len(s)
    OBVIOUS
  <1> DEFINE Goes(g, i) == g[i] = IF i = 0 THEN NewPolicy ELSE PolicyAccess(g[i - 1], i - 1, s[i])
             UpTo(m, g) == g = [i \in 0 .. m |-> g[i]] /\ \A i \in 0 .. m : Goes(g, i)
             Good == {m \in 0 .. last : \E g : UpTo(m, g)}
  <1>2. 0 \in Good
    <2> DEFINE h == [i \in 0 .. 0 |-> NewPolicy]
    <2>1. h[0] = NewPolicy /\ h = [i \in 0 .. 0 |-> h[i]] /\ \A i \in 0 .. 0 : i = 0
      OBVIOUS
    <2> HIDE DEF h
    <2>2. UpTo(0, h)
      BY <2>1
    <2>3. QED
      BY <1>1, <2>2
  <1>3. ASSUME NEW m \in Good, m < last PROVE m + 1 \in Good
    <2>1. PICK g : UpTo(m, g)
      OBVIOUS
    <2>2. m \in 0 .. last /\ m + 1 \in 0 .. last
      BY <1>1, <1>3
    <2> DEFINE h == [i \in 0 .. m + 1 |-> IF i = m + 1 THEN PolicyAccess(g[m], m, s[m + 1]) ELSE g[i]]
    <2>3. /\ h[m + 1] = PolicyAccess(g[m], m, s[m + 1])
          /\ \A i \in 0 .. m : h[i] = g[i]
          /\ h = [i \in 0 .. m + 1 |-> h[i]]
      BY <2>2
    <2> HIDE DEF h
    <2>4. ASSUME NEW i \in 0 .. m + 1 PROVE Goes(h, i)
      <3>1. CASE i = m + 1
        <4>1. i # 0 /\ i - 1 = m /\ m \in 0 .. m
          BY <2>2, <3>1
        <4>2. QED
          BY <2>3, <3>1, <4>1
      <3>2. CASE i # m + 1
        <4>1. i \in 0 .. m /\ (i # 0 => i - 1 \in 0 .. m)
          BY <2>2, <3>2
        <4>2. Goes(g, i)
          BY <2>1, <4>1
        <4>3. QED
          BY <2>3, <4>1, <4>2
      <3>3. QED
        BY <3>1, <3>2
    <2> HIDE DEF Goes
    <2>5. QED
      BY <2>2, <2>3, <2>4
  <1>4. last \in Good
    <2>1. Good \in SUBSET (0 .. last)
      OBVIOUS
    <2> HIDE DEF Good
    <2>2. PICK m \in Good : \A y \in Good : y <= m
      BY <1>1, <1>2, <2>1, Greatest
    <2>3. m \in 0 .. last /\ ~ (m + 1 <= m)
      BY <1>1, <2>1
    <2>4. m = last
      BY <1>1, <1>3, <2>2, <2>3
    <2>5. QED
      BY <2>4
  <1>5. PICK g : UpTo(last, g)
    BY <1>4
  <1>6. \E h : IsSim(h, s)
    <2>1. IsSim(g, s)
      <3>1. \A i \in 0 .. last : g[i] = IF i = 0 THEN NewPolicy ELSE PolicyAccess(g[i - 1], i - 1, s[i])
        BY <1>5
      <3>2. g = [i \in 0 .. last |-> g[i]]
        BY <1>5
      <3>3. QED
        BY <1>1, <3>1, <3>2 DEF IsSim
    <2>2. QED
      BY <2>1
  <1>7. PICK f : f = Simulated(s)
    OBVIOUS
  <1>8. IsSim(f, s)
    BY <1>6, <1>7 DEF Simulated, IsSim
  <1>9. f[0] = NewPolicy
    <2>1. 0 \in 0 .. Len(s)
      BY <1>1
    <2>2. QED
      BY <1>8, <2>1 DEF IsSim
  <1>10. ASSUME NEW i \in 0 .. Len(s) - 1 PROVE f[i + 1] = PolicyAccess(f[i], i, s[i + 1])
    <2>1. i + 1 \in 0 .. Len(s) /\ i + 1 # 0 /\ (i + 1) - 1 = i
      BY <1>1
    <2>2. f[i + 1] = PolicyAccess(f[(i + 1) - 1], (i + 1) - 1, s[i + 1])
      BY <1>8, <2>1 DEF IsSim
    <2>3. QED
      BY <2>1, <2>2
  <1>11. QED
    BY <1>7, <1>9, <1>10

-----------------------------------------------------------------------------
(* The replay.                                                             *)

\* Slices whose accesses all have a weight.
Slice == {s \in Seq(Nat) : \A t \in 0 .. Len(s) - 1 : Gain[t] \in Nat}

Record == [switch_hit : BOOLEAN, policy_hit : BOOLEAN, switch_leaf : Nat, served : Nat, n_installed : Nat]

Stages == {"connect", "send", "get", "delete", "insert", "summary", "benchmark", "failed"}

\* The query that is being replayed, and how many the policy has accessed.
Cur == Head(slices)[query + 1]
Busy == stage \in {"get", "delete", "insert"}
Replaying == stage \in {"connect", "send"} \/ Busy
Done == IF stage \in {"delete", "insert"} THEN query + 1 ELSE query

BmvTypes == stage \in Stages /\ slices \in Seq(Slice) /\ query \in Nat /\ recs \in Seq(Record)

\* The messages on the way from the client to the switch and back.
Asking == [id |-> Arbitration]
Asked == [id |-> query, leaf |-> Cur]
Answered == [id |-> query, hit |-> Cur \in leaf_tbl, leaf |-> Cur]

\* At most one message is on the way, and it is about the query that waits for it.
Channel ==
    /\ stage = "connect" =>
          /\ packet_in = <<>>
          /\ \/ ~ mastership /\ requests = <<Asking>> /\ responses = <<>>
             \/ ~ mastership /\ requests = <<>> /\ responses = <<Asking>>
             \/ mastership /\ requests = <<>> /\ responses = <<>>
    /\ stage = "get" =>
          \/ requests = <<Asked>> /\ responses = <<>> /\ packet_in = <<>>
          \/ requests = <<>> /\ responses = <<Answered>> /\ packet_in = <<>>
          \/ requests = <<>> /\ responses = <<>> /\ packet_in = <<Answered>>
    /\ stage \notin {"connect", "get", "failed"} =>
          requests = <<>> /\ responses = <<>> /\ packet_in = <<>>

\* The policy is where the simulator is after as many queries.
InStep ==
    /\ Replaying => PolicyOK(cache, Done) /\ Len(recs) = Done
    /\ Replaying /\ slices # <<>> =>
          query <= Len(Head(slices)) /\ cache = Simulated(Head(slices))[Done]
    /\ Busy => slices # <<>> /\ query < Len(Head(slices))

\* The table is on its way to what the policy keeps.
TableFollows ==
    /\ Replaying => installed = cache.resident
    /\ stage \in {"connect", "send", "get"} => leaf_tbl = installed
    /\ stage = "delete" => dels = leaf_tbl \ installed /\ ins = installed \ leaf_tbl
    /\ stage = "insert" => leaf_tbl \subseteq installed /\ ins = installed \ leaf_tbl
    /\ stage # "benchmark" => IsFiniteSet(leaf_tbl) /\ Cardinality(leaf_tbl) <= K
    /\ stage = "summary" => leaf_tbl = {}

Checked == slices # <<>> => checks

AtConnect == stage = "connect" => query = 0

ReplayInv == BmvTypes /\ AtConnect /\ Channel /\ InStep /\ TableFollows /\ Checked

\* A policy that has accessed nothing.
LEMMA NewPolicyOK ==
  ASSUME BmvAssumption
  PROVE  PolicyOK(NewPolicy, 0) /\ NewPolicy.resident = {}
  <1>1. PICK r, w, a : r = NewPolicy.resident /\ w = NewPolicy.weight /\ a = NewPolicy.last
    OBVIOUS
  <1>2. r = {} /\ w = <<>> /\ a = <<>>
    BY <1>1 DEF NewPolicy
  <1>3. DOMAIN w = {} /\ DOMAIN a = {}
    BY <1>2
  <1>4. IsFiniteSet(r) /\ Cardinality(r) <= K
    BY <1>2, FS_EmptySet DEF BmvAssumption
  <1>5. QED
    BY <1>1, <1>2, <1>3, <1>4 DEF PolicyOK

\* The slices have weights.
LEMMA SlicesAre == ASSUME BmvAssumption, NEW list \in SliceLists PROVE list \in Seq(Slice)
  <1>1. list \in Seq(Seq(Nat))
    BY DEF BmvAssumption
  <1>2. \A i \in 1 .. Len(list) : list[i] \in Slice
    BY <1>1, ElementOfSeq DEF BmvAssumption, Slice
  <1>3. list = [i \in 1 .. Len(list) |-> list[i]] /\ Len(list) \in Nat
    BY <1>1
  <1>4. QED
    BY <1>2, <1>3

\* The client begins with the arbitration.
LEMMA BmvInitInv == ASSUME BmvAssumption, BmvInit PROVE ReplayInv
  <1>1. /\ slices \in SliceLists /\ stage = "connect" /\ query = 0 /\ requests = <<Asking>>
        /\ responses = <<>> /\ mastership = FALSE /\ packet_in = <<>> /\ leaf_tbl = {} /\ installed = {}
        /\ cache = NewPolicy /\ recs = <<>>
    BY DEF BmvInit, Asking
  <1>2. BmvTypes
    BY <1>1, SlicesAre DEF BmvTypes, Stages
  <1>3. Channel
    BY <1>1 DEF Channel
  <1>4. InStep
    <2>1. Done = 0 /\ ~ Busy /\ Len(recs) = 0
      BY <1>1 DEF Done, Busy
    <2>2. PolicyOK(cache, 0)
      BY <1>1, NewPolicyOK
    <2>3. slices # <<>> => 0 <= Len(Head(slices)) /\ cache = Simulated(Head(slices))[0]
      <3>1. ASSUME slices # <<>> PROVE Head(slices) \in Seq(Nat)
        BY <1>2, <3>1, HeadTailProperties DEF BmvTypes, Slice
      <3>2. QED
        BY <1>1, <3>1, SimulatedIs
    <2>4. QED
      BY <1>1, <2>1, <2>2, <2>3 DEF InStep
  <1>5. TableFollows
    <2>1. cache.resident = {}
      BY <1>1, NewPolicyOK
    <2>2. IsFiniteSet(leaf_tbl) /\ Cardinality(leaf_tbl) <= K
      BY <1>1, FS_EmptySet DEF BmvAssumption
    <2>3. QED
      BY <1>1, <2>1, <2>2 DEF TableFollows
  <1>6. Checked
    BY <1>1 DEF Checked, checks
  <1>7. QED
    BY <1>1, <1>2, <1>3, <1>4, <1>5, <1>6 DEF ReplayInv, AtConnect

\* The first of one message.
LEMMA OneMessage ==
  ASSUME NEW m
  PROVE  Head(<<m>>) = m /\ Tail(<<m>>) = <<>> /\ <<m>> # <<>> /\ Append(<<>>, m) = <<m>>
  OBVIOUS

\* Only one of a query's messages has the client's number.
LEMMA QueryIsNoArbitration ==
  ASSUME query \in Nat
  PROVE  /\ Asking.id = Arbitration /\ Asked.id # Arbitration /\ Answered.id # Arbitration
         /\ Asked.id = query /\ Asked.leaf = Cur /\ Answered.id = query /\ Answered.leaf = Cur
         /\ Answered.hit = (Cur \in leaf_tbl)
  BY DEF Asking, Asked, Answered, Arbitration

\* Mastership was granted.
LEMMA ConnectedInv == ASSUME BmvAssumption, ReplayInv, Connected PROVE ReplayInv'
  <1>1. /\ stage = "connect" /\ mastership /\ stage' = "send" /\ leaf_tbl' = {}
        /\ slices' = slices /\ query' = query /\ requests' = requests /\ responses' = responses
        /\ mastership' = mastership /\ packet_in' = packet_in /\ installed' = installed /\ cache' = cache
        /\ recs' = recs
    BY DEF Connected
  <1>2. BmvTypes /\ AtConnect /\ Channel /\ InStep /\ TableFollows /\ Checked
    BY DEF ReplayInv
  <1>3. BmvTypes'
    BY <1>1, <1>2 DEF BmvTypes, Stages
  <1>4. Channel'
    BY <1>1, <1>2 DEF Channel
  <1>5. Replaying /\ Replaying' /\ ~ Busy /\ ~ Busy' /\ Done = query /\ Done' = query
    BY <1>1 DEF Replaying, Busy, Done
  <1>6. InStep'
    BY <1>1, <1>2, <1>5 DEF InStep
  <1>7. TableFollows'
    <2>1. leaf_tbl = installed /\ installed = cache.resident
      BY <1>1, <1>2, <1>5 DEF TableFollows
    <2>2. \A l \in installed : FALSE
      <3>1. PolicyOK(cache, query)
        BY <1>2, <1>5 DEF InStep
      <3>2. query = 0
        BY <1>1, <1>2 DEF AtConnect
      <3>3. \A l \in DOMAIN cache.weight : cache.last[l] \in 0 .. 0 - 1
        BY <3>1, <3>2 DEF PolicyOK
      <3>4. \A i \in 0 .. 0 - 1 : FALSE
        OBVIOUS
      <3>5. QED
        BY <2>1, <3>1, <3>3, <3>4 DEF PolicyOK
    <2>3. IsFiniteSet({}) /\ Cardinality({}) <= K
      BY FS_EmptySet DEF BmvAssumption
    <2>4. leaf_tbl' = installed'
      BY <1>1, <2>2
    <2>5. QED
      BY <1>1, <2>1, <2>3, <2>4 DEF TableFollows
  <1>8. Checked'
    BY <1>1, <1>2 DEF Checked, checks
  <1>9. QED
    BY <1>1, <1>3, <1>4, <1>6, <1>7, <1>8 DEF ReplayInv, AtConnect

\* The query is queued.
LEMMA PacketOutInv == ASSUME BmvAssumption, ReplayInv, PacketOut PROVE ReplayInv'
  <1>1. /\ stage = "send" /\ stage' = "get" /\ slices # <<>> /\ query < Len(Head(slices))
        /\ slices' = slices /\ query' = query /\ responses' = responses
        /\ mastership' = mastership /\ packet_in' = packet_in /\ installed' = installed /\ cache' = cache
        /\ recs' = recs /\ leaf_tbl' = leaf_tbl /\ requests' = Append(requests, Asked)
    BY DEF PacketOut, Asked, Cur
  <1>2. BmvTypes /\ AtConnect /\ Channel /\ InStep /\ TableFollows /\ Checked
    BY DEF ReplayInv
  <1>3. BmvTypes'
    BY <1>1, <1>2 DEF BmvTypes, Stages
  <1>4. Channel'
    <2>1. requests = <<>> /\ responses = <<>> /\ packet_in = <<>>
      BY <1>1, <1>2 DEF Channel
    <2>2. PICK m : m = Asked
      OBVIOUS
    <2>3. requests' = <<m>> /\ Asked' = m
      BY <1>1, <2>1, <2>2, OneMessage DEF Asked, Cur
    <2>4. QED
      BY <1>1, <2>1, <2>3 DEF Channel
  <1>5. Replaying /\ Replaying' /\ Busy' /\ Done = query /\ Done' = query
    BY <1>1 DEF Replaying, Busy, Done
  <1>6. InStep'
    BY <1>1, <1>2, <1>5 DEF InStep
  <1>7. TableFollows'
    BY <1>1, <1>2, <1>5 DEF TableFollows
  <1>8. Checked'
    BY <1>1, <1>2 DEF Checked, checks
  <1>9. QED
    BY <1>1, <1>3, <1>4, <1>6, <1>7, <1>8 DEF ReplayInv, AtConnect

\* Messages that move on change nothing else.
LEMMA OnlyChannel ==
  ASSUME ReplayInv, Channel',
         UNCHANGED <<slices, stage, query, leaf_tbl, installed, cache, dels, ins, recs>>
  PROVE  ReplayInv'
  <1>1. BmvTypes /\ AtConnect /\ Channel /\ InStep /\ TableFollows /\ Checked
    BY DEF ReplayInv
  <1>2. BmvTypes'
    BY <1>1 DEF BmvTypes
  <1>3. (Replaying' <=> Replaying) /\ (Busy' <=> Busy) /\ Done' = Done
    BY DEF Replaying, Busy, Done
  <1>4. InStep'
    BY <1>1, <1>3 DEF InStep
  <1>5. TableFollows'
    BY <1>1, <1>3 DEF TableFollows
  <1>6. Checked'
    BY <1>1 DEF Checked, checks
  <1>7. QED
    BY <1>1, <1>2, <1>4, <1>5, <1>6 DEF ReplayInv, AtConnect

\* The switch answers.
LEMMA SwitchAnswersInv == ASSUME BmvAssumption, ReplayInv, SwitchAnswers PROVE ReplayInv'
  <1>1. /\ stage' = stage /\ slices' = slices /\ query' = query /\ mastership' = mastership
        /\ packet_in' = packet_in /\ installed' = installed /\ cache' = cache /\ recs' = recs
        /\ leaf_tbl' = leaf_tbl /\ dels' = dels /\ ins' = ins
        /\ requests # <<>> /\ requests' = Tail(requests)
    BY DEF SwitchAnswers
  <1>2. BmvTypes /\ Channel
    BY DEF ReplayInv
  <1>3. PICK r : r = Head(requests)
    OBVIOUS
  <1>4. responses' = Append(responses,
           IF r.id = Arbitration THEN r ELSE [id |-> r.id, hit |-> r.leaf \in leaf_tbl, leaf |-> r.leaf])
    BY <1>3 DEF SwitchAnswers
  <1>5. Answered' = Answered /\ Asked' = Asked
    BY <1>1 DEF Answered, Asked, Cur
  <1>6. CASE stage = "connect"
    <2>1. packet_in = <<>> /\ ~ mastership /\ requests = <<Asking>> /\ responses = <<>>
      BY <1>1, <1>2, <1>6 DEF Channel
    <2>2. r = Asking /\ r.id = Arbitration
      BY <1>3, <2>1, OneMessage DEF Asking
    <2>3. responses' = <<Asking>> /\ requests' = <<>>
      BY <1>1, <1>4, <2>1, <2>2, OneMessage
    <2>4. QED
      BY <1>1, <1>6, <2>1, <2>3, OnlyChannel DEF Channel
  <1>7. CASE stage = "get"
    <2>1. packet_in = <<>> /\ requests = <<Asked>> /\ responses = <<>>
      BY <1>1, <1>2, <1>7 DEF Channel
    <2>2. r = Asked /\ r.id # Arbitration
      BY <1>2, <1>3, <2>1, OneMessage, QueryIsNoArbitration DEF BmvTypes
    <2>3. [id |-> r.id, hit |-> r.leaf \in leaf_tbl, leaf |-> r.leaf] = Answered
      BY <2>2 DEF Asked, Answered
    <2>4. responses' = <<Answered>> /\ requests' = <<>>
      BY <1>1, <1>4, <2>1, <2>2, <2>3, OneMessage
    <2>5. QED
      BY <1>1, <1>5, <1>7, <2>1, <2>4, OnlyChannel DEF Channel
  <1>8. CASE stage = "failed"
    BY <1>1, <1>8, OnlyChannel DEF Channel
  <1>9. QED
    BY <1>1, <1>2, <1>6, <1>7, <1>8 DEF Channel

\* The reader empties the stream.
LEMMA ReadInv == ASSUME BmvAssumption, ReplayInv, Read PROVE ReplayInv'
  <1>1. /\ stage' = stage /\ slices' = slices /\ query' = query
        /\ requests' = requests /\ installed' = installed /\ cache' = cache /\ recs' = recs
        /\ leaf_tbl' = leaf_tbl /\ dels' = dels /\ ins' = ins
        /\ responses # <<>> /\ responses' = Tail(responses)
    BY DEF Read
  <1>2. BmvTypes /\ Channel
    BY DEF ReplayInv
  <1>3. PICK r : r = Head(responses)
    OBVIOUS
  <1>4. /\ r.id = Arbitration => mastership' = TRUE /\ packet_in' = packet_in
        /\ r.id # Arbitration => packet_in' = Append(packet_in, r) /\ mastership' = mastership
    BY <1>3 DEF Read
  <1>5. Answered' = Answered /\ Asked' = Asked
    BY <1>1 DEF Answered, Asked, Cur
  <1>6. CASE stage = "connect"
    <2>1. packet_in = <<>> /\ requests = <<>> /\ responses = <<Asking>>
      BY <1>1, <1>2, <1>6 DEF Channel
    <2>2. r.id = Arbitration
      BY <1>3, <2>1, OneMessage DEF Asking
    <2>3. responses' = <<>> /\ mastership' /\ packet_in' = <<>>
      BY <1>1, <1>4, <2>1, <2>2, OneMessage
    <2>4. QED
      BY <1>1, <1>6, <2>1, <2>3, OnlyChannel DEF Channel
  <1>7. CASE stage = "get"
    <2>1. packet_in = <<>> /\ requests = <<>> /\ responses = <<Answered>>
      BY <1>1, <1>2, <1>7 DEF Channel
    <2>2. r = Answered /\ r.id # Arbitration
      BY <1>2, <1>3, <2>1, OneMessage, QueryIsNoArbitration DEF BmvTypes
    <2>3. responses' = <<>> /\ packet_in' = <<Answered>>
      BY <1>1, <1>4, <2>1, <2>2, OneMessage
    <2>4. QED
      BY <1>1, <1>5, <1>7, <2>1, <2>3, OnlyChannel DEF Channel
  <1>8. CASE stage = "failed"
    BY <1>1, <1>8, OnlyChannel DEF Channel
  <1>9. QED
    BY <1>1, <1>2, <1>6, <1>7, <1>8 DEF Channel

\* The slice that is being replayed.
LEMMA SliceIs ==
  ASSUME BmvTypes, slices # <<>>
  PROVE  /\ Head(slices) \in Seq(Nat) /\ Tail(slices) \in Seq(Slice)
         /\ query < Len(Head(slices)) =>
               Cur \in Nat /\ query \in 0 .. Len(Head(slices)) - 1 /\ Gain[query] \in Nat
  <1>1. PICK s : s = Head(slices)
    OBVIOUS
  <1>2. s \in Slice /\ Tail(slices) \in Seq(Slice)
    BY <1>1, HeadTailProperties DEF BmvTypes
  <1>3. s \in Seq(Nat) /\ query \in Nat /\ Len(s) \in Nat
    BY <1>2 DEF Slice, BmvTypes
  <1>4. ASSUME query < Len(s) PROVE s[query + 1] \in Nat /\ query \in 0 .. Len(s) - 1 /\ Gain[query] \in Nat
    <2>1. query + 1 \in 1 .. Len(s) /\ query \in 0 .. Len(s) - 1
      BY <1>3, <1>4
    <2>2. QED
      BY <1>2, <1>3, <2>1, ElementOfSeq DEF Slice
  <1>5. QED
    BY <1>1, <1>2, <1>3, <1>4 DEF Cur

\* The answer is that of the switch, the policy and the simulator.
LEMMA GetAnswerInv == ASSUME BmvAssumption, ReplayInv, GetAnswer PROVE ReplayInv'
  <1>1. /\ stage = "get" /\ stage' = "delete" /\ packet_in # <<>>
        /\ slices' = slices /\ query' = query /\ requests' = requests /\ responses' = responses
        /\ mastership' = mastership /\ leaf_tbl' = leaf_tbl /\ packet_in' = Tail(packet_in)
    BY DEF GetAnswer
  <1>2. BmvTypes /\ AtConnect /\ Channel /\ InStep /\ TableFollows /\ Checked
    BY DEF ReplayInv
  <1>3. slices # <<>> /\ query < Len(Head(slices)) /\ query \in Nat
    BY <1>1, <1>2 DEF InStep, Busy, BmvTypes
  <1>4. PICK s, l, sw, after : /\ s = Head(slices) /\ l = s[query + 1] /\ sw = Head(packet_in)
                               /\ after = PolicyAccess(cache, query, l)
    OBVIOUS
  <1>5. /\ cache' = after
        /\ dels' = IF sw.hit THEN {} ELSE cache.resident \ after.resident
        /\ ins' = IF sw.hit THEN {} ELSE after.resident \ cache.resident
        /\ installed' = (installed \ dels') \cup ins'
        /\ recs' = Append(recs, Rec(sw, l \in cache.resident, IF sw.hit THEN sw.leaf ELSE l, installed'))
    BY <1>4 DEF GetAnswer, AfterQuery
  <1>6. s \in Seq(Nat) /\ l \in Nat /\ l = Cur /\ query \in 0 .. Len(s) - 1 /\ Gain[query] \in Nat
        /\ Len(s) \in Nat
    BY <1>2, <1>3, <1>4, SliceIs DEF Cur
  <1>7. requests = <<>> /\ responses = <<>> /\ packet_in = <<Answered>>
    BY <1>1, <1>2 DEF Channel
  <1>8. sw = Answered /\ packet_in' = <<>>
    BY <1>1, <1>4, <1>7, OneMessage
  <1>9. sw.leaf = l /\ sw.hit = (l \in leaf_tbl)
    BY <1>3, <1>6, <1>8, QueryIsNoArbitration
  <1>10. Replaying /\ Replaying' /\ Busy' /\ Done = query /\ Done' = query + 1
    BY <1>1 DEF Replaying, Busy, Done
  <1>11. PolicyOK(cache, query) /\ Len(recs) = query /\ cache = Simulated(s)[query]
    BY <1>2, <1>3, <1>4, <1>10 DEF InStep
  <1>12. leaf_tbl = installed /\ installed = cache.resident
    BY <1>1, <1>2, <1>10 DEF TableFollows
  <1>13. PolicyOK(after, query + 1) /\ l \in after.resident
    BY <1>3, <1>4, <1>6, <1>11, AccessKeeps
  <1>14. l \in cache.resident => after.resident = cache.resident
    BY <1>4, AccessIs DEF Accessed
  <1>15. sw.hit <=> l \in cache.resident
    BY <1>9, <1>12
  <1>16. installed' = after.resident /\ dels' = leaf_tbl \ installed' /\ ins' = installed' \ leaf_tbl
    <2>1. CASE sw.hit
      BY <1>5, <1>12, <1>14, <1>15, <2>1
    <2>2. CASE ~ sw.hit
      BY <1>5, <1>12, <2>2
    <2>3. QED
      BY <2>1, <2>2
  <1>17. IsFiniteSet(installed') /\ Cardinality(installed') \in Nat /\ Cardinality(installed') <= K
    BY <1>13, <1>16, FS_CardinalityType DEF PolicyOK
  <1>18. PICK r : r = [switch_hit |-> sw.hit, policy_hit |-> l \in cache.resident, switch_leaf |-> sw.leaf,
                       served |-> IF sw.hit THEN sw.leaf ELSE l, n_installed |-> Cardinality(installed')]
    OBVIOUS
  <1>19. recs' = Append(recs, r)
    BY <1>5, <1>18 DEF Rec
  <1>20. /\ r.switch_hit \in BOOLEAN /\ r.policy_hit \in BOOLEAN
         /\ r.switch_hit = (l \in leaf_tbl) /\ r.policy_hit = (l \in cache.resident)
         /\ r.switch_leaf = l /\ r.served = l /\ r.n_installed = Cardinality(installed')
    BY <1>9, <1>18
  <1>21. r \in Record
    <2>1. sw.hit \in BOOLEAN /\ (l \in cache.resident) \in BOOLEAN /\ sw.leaf \in Nat
      BY <1>6, <1>9
    <2>2. (IF sw.hit THEN sw.leaf ELSE l) \in Nat
      BY <1>6, <1>9
    <2>3. QED
      BY <1>17, <1>18, <2>1, <2>2 DEF Record
  <1>22. recs \in Seq(Record)
    BY <1>2 DEF BmvTypes
  <1>23. /\ recs' \in Seq(Record) /\ Len(recs') = query + 1 /\ recs'[query + 1] = r
         /\ \A i \in 1 .. query : recs'[i] = recs[i]
    BY <1>11, <1>19, <1>21, <1>22, AppendProperties
  <1>24. BmvTypes'
    BY <1>1, <1>2, <1>23 DEF BmvTypes, Stages
  <1>25. Channel'
    BY <1>1, <1>7, <1>8 DEF Channel
  <1>26. after = Simulated(s)[query + 1]
    BY <1>4, <1>6, <1>11, SimulatedIs
  <1>27. InStep'
    <2>1. Head(slices') = s /\ slices' # <<>> /\ query' = query
      BY <1>1, <1>3, <1>4
    <2>2. query < Len(s) /\ query <= Len(s)
      BY <1>6
    <2>3. QED
      BY <1>5, <1>10, <1>13, <1>23, <1>26, <2>1, <2>2 DEF InStep
  <1>28. TableFollows'
    <2>1. IsFiniteSet(leaf_tbl') /\ Cardinality(leaf_tbl') <= K
      BY <1>1, <1>2 DEF TableFollows
    <2>2. QED
      BY <1>1, <1>5, <1>16, <2>1 DEF TableFollows
  <1>29. Checked'
    <2>1. Head(slices') = s
      BY <1>1, <1>4
    <2>2. DOMAIN recs = 1 .. query /\ DOMAIN recs' = 1 .. query + 1
      BY <1>3, <1>11, <1>22, <1>23
    <2>3. ASSUME NEW i \in 1 .. query + 1
          PROVE  /\ recs'[i].served = s[i]
                 /\ recs'[i].switch_hit <=> recs'[i].policy_hit
                 /\ recs'[i].switch_hit => recs'[i].switch_leaf = s[i]
                 /\ recs'[i].switch_hit <=> s[i] \in Simulated(s)[i - 1].resident
                 /\ recs'[i].n_installed <= K
      <3>1. CASE i = query + 1
        <4>1. i - 1 = query /\ recs'[i] = r /\ s[i] = l
          BY <1>3, <1>4, <1>23, <3>1
        <4>2. QED
          BY <1>11, <1>12, <1>17, <1>20, <4>1
      <3>2. CASE i # query + 1
        <4>1. i \in 1 .. query /\ i \in DOMAIN recs
          BY <1>3, <2>2, <3>2
        <4>2. recs'[i] = recs[i]
          BY <1>23, <4>1
        <4>3. checks
          BY <1>2, <1>3 DEF Checked
        <4>4. QED
          BY <1>4, <4>1, <4>2, <4>3 DEF checks
      <3>3. QED
        BY <3>1, <3>2
    <2>4. QED
      BY <2>1, <2>2, <2>3 DEF Checked, checks
  <1>30. QED
    BY <1>1, <1>24, <1>25, <1>27, <1>28, <1>29 DEF ReplayInv, AtConnect

\* A run that gives up leaves the table and what was checked.
LEMMA GivesUpInv == ASSUME BmvAssumption, ReplayInv, GivesUp PROVE ReplayInv'
  <1>1. /\ stage \in {"connect", "get", "delete", "insert", "clear"} /\ stage' = "failed"
        /\ slices' = slices /\ query' = query /\ leaf_tbl' = leaf_tbl /\ recs' = recs
    BY DEF GivesUp
  <1>2. BmvTypes /\ TableFollows /\ Checked
    BY DEF ReplayInv
  <1>3. BmvTypes'
    BY <1>1, <1>2 DEF BmvTypes, Stages
  <1>4. ~ Replaying' /\ ~ Busy'
    BY <1>1 DEF Replaying, Busy
  <1>5. Channel' /\ InStep'
    BY <1>1, <1>4 DEF Channel, InStep
  <1>6. TableFollows'
    BY <1>1, <1>2, <1>4 DEF TableFollows
  <1>7. Checked'
    BY <1>1, <1>2 DEF Checked, checks
  <1>8. QED
    BY <1>1, <1>3, <1>5, <1>6, <1>7 DEF ReplayInv, AtConnect

\* A part of a table is no larger.
LEMMA PartFits ==
  ASSUME BmvAssumption, NEW T, NEW P \in SUBSET T, IsFiniteSet(T), Cardinality(T) <= K
  PROVE  IsFiniteSet(P) /\ Cardinality(P) <= K
  <1>1. IsFiniteSet(P) /\ Cardinality(P) <= Cardinality(T)
    BY FS_Subset
  <1>2. Cardinality(P) \in Nat /\ Cardinality(T) \in Nat
    BY <1>1, FS_CardinalityType
  <1>3. QED
    BY <1>1, <1>2 DEF BmvAssumption

\* What the policy evicted is deleted.
LEMMA WriteDeletesInv == ASSUME BmvAssumption, ReplayInv, WriteDeletes PROVE ReplayInv'
  <1>1. /\ stage = "delete" /\ stage' = "insert" /\ leaf_tbl' = leaf_tbl \ dels
        /\ slices' = slices /\ query' = query /\ requests' = requests /\ responses' = responses
        /\ mastership' = mastership /\ packet_in' = packet_in /\ installed' = installed /\ cache' = cache
        /\ recs' = recs /\ ins' = ins
    BY DEF WriteDeletes, channelVars
  <1>2. BmvTypes /\ AtConnect /\ Channel /\ InStep /\ TableFollows /\ Checked
    BY DEF ReplayInv
  <1>3. BmvTypes'
    BY <1>1, <1>2 DEF BmvTypes, Stages
  <1>4. Channel'
    BY <1>1, <1>2 DEF Channel
  <1>5. Replaying /\ Replaying' /\ Busy /\ Busy' /\ Done' = Done
    BY <1>1 DEF Replaying, Busy, Done
  <1>6. InStep'
    BY <1>1, <1>2, <1>5 DEF InStep
  <1>7. TableFollows'
    <2>1. /\ dels = leaf_tbl \ installed /\ ins = installed \ leaf_tbl /\ installed = cache.resident
          /\ IsFiniteSet(leaf_tbl) /\ Cardinality(leaf_tbl) <= K
      BY <1>1, <1>2, <1>5 DEF TableFollows
    <2>2. IsFiniteSet(leaf_tbl') /\ Cardinality(leaf_tbl') <= K
      <3>1. PICK P \in SUBSET leaf_tbl : P = leaf_tbl \ dels
        OBVIOUS
      <3>2. QED
        BY <1>1, <2>1, <3>1, PartFits
    <2>3. leaf_tbl' \subseteq installed /\ ins = installed \ leaf_tbl'
      BY <1>1, <2>1
    <2>4. QED
      BY <1>1, <2>1, <2>2, <2>3 DEF TableFollows
  <1>8. Checked'
    BY <1>1, <1>2 DEF Checked, checks
  <1>9. QED
    BY <1>1, <1>3, <1>4, <1>6, <1>7, <1>8 DEF ReplayInv, AtConnect

\* What it took in is inserted.
LEMMA WriteInsertsInv == ASSUME BmvAssumption, ReplayInv, WriteInserts PROVE ReplayInv'
  <1>1. /\ stage = "insert" /\ stage' = "send" /\ leaf_tbl' = leaf_tbl \cup ins /\ query' = query + 1
        /\ slices' = slices /\ requests' = requests /\ responses' = responses
        /\ mastership' = mastership /\ packet_in' = packet_in /\ installed' = installed /\ cache' = cache
        /\ recs' = recs
    BY DEF WriteInserts, channelVars
  <1>2. BmvTypes /\ AtConnect /\ Channel /\ InStep /\ TableFollows /\ Checked
    BY DEF ReplayInv
  <1>3. BmvTypes'
    BY <1>1, <1>2 DEF BmvTypes, Stages
  <1>4. Channel'
    BY <1>1, <1>2 DEF Channel
  <1>5. Replaying /\ Replaying' /\ Busy /\ ~ Busy' /\ Done = query + 1 /\ Done' = query + 1
    BY <1>1 DEF Replaying, Busy, Done
  <1>6. InStep'
    <2>1. /\ PolicyOK(cache, query + 1) /\ Len(recs) = query + 1 /\ slices # <<>>
          /\ query < Len(Head(slices)) /\ cache = Simulated(Head(slices))[query + 1]
      BY <1>2, <1>5 DEF InStep
    <2>2. query + 1 <= Len(Head(slices))
      <3>1. query \in Nat /\ Len(Head(slices)) \in Nat
        BY <1>2, <2>1, SliceIs DEF BmvTypes
      <3>2. QED
        BY <2>1, <3>1
    <2>3. QED
      BY <1>1, <1>5, <2>1, <2>2 DEF InStep
  <1>7. TableFollows'
    <2>1. leaf_tbl \subseteq installed /\ ins = installed \ leaf_tbl /\ installed = cache.resident
      BY <1>1, <1>2, <1>5 DEF TableFollows
    <2>2. leaf_tbl' = installed
      BY <1>1, <2>1
    <2>3. IsFiniteSet(installed) /\ Cardinality(installed) <= K
      BY <1>2, <1>5, <2>1 DEF InStep, PolicyOK
    <2>4. QED
      BY <1>1, <2>1, <2>2, <2>3 DEF TableFollows
  <1>8. Checked'
    BY <1>1, <1>2 DEF Checked, checks
  <1>9. QED
    BY <1>1, <1>3, <1>4, <1>6, <1>7, <1>8 DEF ReplayInv, AtConnect

\* The next slice begins with nothing.
LEMMA ClearSliceInv == ASSUME BmvAssumption, ReplayInv, ClearSlice PROVE ReplayInv'
  <1>1. /\ stage = "send" /\ slices # <<>> /\ leaf_tbl' = {} /\ slices' = Tail(slices) /\ query' = 0
        /\ recs' = <<>> /\ installed' = {} /\ cache' = NewPolicy
        /\ stage' = (IF Tail(slices) = <<>> THEN "summary" ELSE "send")
        /\ requests' = requests /\ responses' = responses
        /\ mastership' = mastership /\ packet_in' = packet_in
    BY DEF ClearSlice, SliceDone, channelVars
  <1>2. BmvTypes /\ Channel
    BY DEF ReplayInv
  <1>3. slices' \in Seq(Slice)
    BY <1>1, <1>2, SliceIs
  <1>4. stage' \in {"summary", "send"} /\ ~ Busy' /\ Done' = 0
    BY <1>1 DEF Busy, Done
  <1>5. BmvTypes'
    BY <1>1, <1>3, <1>4 DEF BmvTypes, Stages
  <1>6. Channel'
    BY <1>1, <1>2, <1>4 DEF Channel
  <1>7. InStep'
    <2>1. PolicyOK(cache', 0) /\ Len(recs') = 0
      BY <1>1, NewPolicyOK
    <2>2. ASSUME slices' # <<>>
          PROVE  0 <= Len(Head(slices')) /\ cache' = Simulated(Head(slices'))[0]
      <3>1. PICK s : s = Head(slices')
        OBVIOUS
      <3>2. s \in Seq(Nat)
        BY <1>3, <2>2, <3>1, HeadTailProperties DEF Slice
      <3>3. 0 <= Len(s) /\ Simulated(s)[0] = NewPolicy
        BY <3>2, SimulatedIs
      <3>4. QED
        BY <1>1, <3>1, <3>3
    <2>3. QED
      BY <1>1, <1>4, <2>1, <2>2 DEF InStep
  <1>8. TableFollows'
    <2>1. IsFiniteSet({}) /\ Cardinality({}) <= K
      BY FS_EmptySet DEF BmvAssumption
    <2>2. cache'.resident = {}
      BY <1>1, NewPolicyOK
    <2>3. QED
      BY <1>1, <1>4, <2>1, <2>2 DEF TableFollows
  <1>9. Checked'
    BY <1>1 DEF Checked, checks
  <1>10. QED
    BY <1>4, <1>5, <1>6, <1>7, <1>8, <1>9 DEF ReplayInv, AtConnect

\* The benchmark is apart from the replay.
LEMMA BenchmarkInv ==
  ASSUME BmvAssumption, ReplayInv, StartBenchmark \/ BenchmarkWrite
  PROVE  ReplayInv'
  <1>1. /\ stage \in {"summary", "benchmark"} /\ stage' = "benchmark"
        /\ slices' = slices /\ query' = query /\ requests' = requests /\ responses' = responses
        /\ mastership' = mastership /\ packet_in' = packet_in /\ recs' = recs
    BY DEF StartBenchmark, BenchmarkWrite, channelVars
  <1>2. BmvTypes /\ Channel /\ Checked
    BY DEF ReplayInv
  <1>3. ~ Replaying' /\ ~ Busy'
    BY <1>1 DEF Replaying, Busy
  <1>4. BmvTypes'
    BY <1>1, <1>2 DEF BmvTypes, Stages
  <1>5. Channel' /\ InStep' /\ TableFollows'
    BY <1>1, <1>2, <1>3 DEF Channel, InStep, TableFollows
  <1>6. Checked'
    BY <1>1, <1>2 DEF Checked, checks
  <1>7. QED
    BY <1>1, <1>4, <1>5, <1>6 DEF ReplayInv, AtConnect

\* Every step keeps it.
LEMMA ReplayInvHolds == ASSUME BmvAssumption, ReplayInv, [BmvNext]_bmvVars PROVE ReplayInv'
  <1>1. ASSUME UNCHANGED bmvVars PROVE ReplayInv'
    <2>1. UNCHANGED <<slices, stage, query, requests, responses, mastership, packet_in, leaf_tbl, installed,
                      cache, dels, ins, recs>>
      BY <1>1 DEF bmvVars
    <2>2. Channel'
      BY <2>1 DEF ReplayInv, Channel, Asked, Answered, Cur
    <2>3. QED
      BY <2>1, <2>2, OnlyChannel
  <1>2. QED
    BY <1>1, ConnectedInv, PacketOutInv, SwitchAnswersInv, ReadInv, GetAnswerInv, GivesUpInv,
       WriteDeletesInv, WriteInsertsInv, ClearSliceInv, BenchmarkInv DEF BmvNext

-----------------------------------------------------------------------------
(* The write benchmark.                                                    *)

\* The whole part of a quotient.
LEMMA WholePart ==
  ASSUME NEW a \in Nat, NEW n \in Nat \ {0}
  PROVE  \E q \in Nat, r \in 0 .. n - 1 : q = a \div n /\ a = n * q + r
  <1>1. a \div n \in Int /\ a % n \in 0 .. n - 1
    OBVIOUS
  <1>2. PICK q \in Int, r \in 0 .. n - 1 : q = a \div n /\ r = a % n
    BY <1>1
  <1>3. a = n * q + r
    BY <1>2
  <1>4. q >= 0
    <2>1. SUFFICES ASSUME q < 0 PROVE FALSE
      OBVIOUS
    <2>2. PICK z \in Nat : q = -1 - z
      <3>1. -1 - q \in Nat /\ q = -1 - (-1 - q)
        BY <2>1
      <3>2. QED
        BY <3>1
    <2>3. n * z \in Nat /\ n * q = (-n) - n * z
      BY <2>2
    <2>4. PICK v \in Nat : v = n * z
      BY <2>3
    <2>5. QED
      BY <1>3, <2>3, <2>4
  <1>5. QED
    BY <1>2, <1>3, <1>4

\* Every entry is in one of the batches.
NumBatches == (Entries + Batch - 1) \div Batch

LEMMA BatchesAre ==
  ASSUME BmvAssumption
  PROVE  NumBatches \in Nat /\ \A i \in EntryIds : i \div Batch \in 0 .. NumBatches - 1
  <1>1. PICK e, n \in Nat : e = Entries /\ n = Batch /\ n # 0
    BY DEF BmvAssumption
  <1>2. PICK a \in Nat : a = (e + n) - 1 /\ a = Entries + Batch - 1
    <2>1. (e + n) - 1 \in Nat
      BY <1>1
    <2>2. QED
      BY <1>1, <2>1
  <1>3. PICK q \in Nat, r \in 0 .. n - 1 : q = a \div n /\ a = n * q + r
    BY <1>1, WholePart
  <1>4. NumBatches = q
    BY <1>1, <1>2, <1>3 DEF NumBatches
  <1>5. ASSUME NEW i \in EntryIds PROVE i \div Batch \in 0 .. q - 1
    <2>1. i \in Nat /\ i <= e - 1
      BY <1>1 DEF EntryIds
    <2>2. PICK p \in Nat, s \in 0 .. n - 1 : p = i \div n /\ i = n * p + s
      BY <1>1, <2>1, WholePart
    <2>3. p < q
      <3>1. SUFFICES ASSUME p >= q PROVE FALSE
        OBVIOUS
      <3>2. PICK z \in Nat : p = q + z
        <4>1. p - q \in Nat /\ p = q + (p - q)
          BY <3>1
        <4>2. QED
          BY <4>1
      <3>3. n * z \in Nat /\ n * q \in Nat /\ n * p = n * q + n * z
        BY <3>2
      <3>4. PICK u, v \in Nat : u = n * q /\ v = n * z
        BY <3>3
      <3>5. QED
        BY <1>1, <1>2, <1>3, <2>1, <2>2, <3>3, <3>4
    <2>4. QED
      BY <1>1, <2>2, <2>3
  <1>6. QED
    BY <1>4, <1>5

\* The writes of the benchmark, in order.
Count == [op |-> "COUNT", ids |-> EntryIds]
Plan == OneByOne("INSERT") \o OneByOne("DELETE") \o InBatches("INSERT") \o <<Count>> \o InBatches("DELETE")
Write == [op : {"INSERT", "DELETE", "COUNT"}, ids : SUBSET EntryIds]
PlanLen == 2 * Entries + 2 * NumBatches + 1
InBatch(b) == {i \in EntryIds : i \div Batch = b}

\* The write after p others.
Planned(p, w) ==
    /\ p < Entries => w = [op |-> "INSERT", ids |-> {p}]
    /\ Entries <= p /\ p < 2 * Entries => w = [op |-> "DELETE", ids |-> {p - Entries}]
    /\ 2 * Entries <= p /\ p < 2 * Entries + NumBatches =>
          w = [op |-> "INSERT", ids |-> InBatch(p - 2 * Entries)]
    /\ p = 2 * Entries + NumBatches => w = Count
    /\ 2 * Entries + NumBatches < p =>
          w = [op |-> "DELETE", ids |-> InBatch(p - (2 * Entries + NumBatches + 1))]

\* The parts of the plan.
LEMMA PartsOfPlan ==
  ASSUME BmvAssumption, NEW op \in {"INSERT", "DELETE", "COUNT"}
  PROVE  /\ OneByOne(op) \in Seq(Write) /\ Len(OneByOne(op)) = Entries
         /\ \A i \in 1 .. Entries : OneByOne(op)[i] = [op |-> op, ids |-> {i - 1}]
         /\ InBatches(op) \in Seq(Write) /\ Len(InBatches(op)) = NumBatches
         /\ \A b \in 1 .. NumBatches : InBatches(op)[b] = [op |-> op, ids |-> InBatch(b - 1)]
         /\ <<Count>> \in Seq(Write) /\ Len(<<Count>>) = 1 /\ <<Count>>[1] = Count
  <1>1. Entries \in Nat /\ NumBatches \in Nat
    BY BatchesAre DEF BmvAssumption
  <1>2. PICK a : a = OneByOne(op)
    OBVIOUS
  <1>3. a = [i \in 1 .. Entries |-> [op |-> op, ids |-> {i - 1}]]
    BY <1>2 DEF OneByOne
  <1>4. \A i \in 1 .. Entries : a[i] = [op |-> op, ids |-> {i - 1}] /\ {i - 1} \in SUBSET EntryIds
    BY <1>1, <1>3 DEF EntryIds
  <1>5. a \in [1 .. Entries -> Write]
    BY <1>3, <1>4 DEF Write
  <1>6. a \in Seq(Write) /\ Len(a) = Entries
    BY <1>1, <1>5
  <1>7. PICK b : b = InBatches(op)
    OBVIOUS
  <1>8. b = [i \in 1 .. NumBatches |-> [op |-> op, ids |-> InBatch(i - 1)]]
    BY <1>7 DEF InBatches, InBatch, NumBatches
  <1>9. \A i : InBatch(i) \in SUBSET EntryIds
    BY DEF InBatch
  <1>10. b \in [1 .. NumBatches -> Write] /\ \A i \in 1 .. NumBatches : b[i] = [op |-> op, ids |-> InBatch(i - 1)]
    BY <1>8, <1>9 DEF Write
  <1>11. b \in Seq(Write) /\ Len(b) = NumBatches
    BY <1>1, <1>10
  <1>12. Count \in Write
    BY DEF Count, Write
  <1>13. QED
    BY <1>2, <1>4, <1>6, <1>7, <1>10, <1>11, <1>12

\* Two parts in a row, m writes and l altogether.
Joins(u, s, t, m, l) ==
    u = s \o t /\ Len(u) = l /\ \A i \in 1 .. l : u[i] = IF i <= m THEN s[i] ELSE t[i - m]

\* They are again a list of writes.
LEMMA Joined ==
  ASSUME NEW m \in Nat, NEW n \in Nat, NEW s \in Seq(Write), NEW t \in Seq(Write), NEW l,
         Len(s) = m, Len(t) = n, l = m + n
  PROVE  \E u \in Seq(Write) : Joins(u, s, t, m, l) /\ Len(u) = l
  <1>1. PICK u : u = s \o t
    OBVIOUS
  <1>2. u \in Seq(Write) /\ Len(u) = m + n
    BY <1>1, ConcatProperties
  <1>3. \A i \in 1 .. m + n : u[i] = IF i <= m THEN s[i] ELSE t[i - m]
    BY <1>1, ConcatProperties
  <1>4. QED
    BY <1>1, <1>2, <1>3 DEF Joins

\* The plan in order.
LEMMA PlanIs ==
  ASSUME BmvAssumption
  PROVE  /\ Plan \in Seq(Write) /\ Len(Plan) = PlanLen
         /\ \A p \in 0 .. PlanLen - 1 : Planned(p, Plan[p + 1])
  <1>1. PICK e, n \in Nat : e = Entries /\ n = NumBatches
    BY BatchesAre DEF BmvAssumption
  <1>0. PICK e2, k, k1, l \in Nat : e2 = e + e /\ k = e2 + n /\ k1 = k + 1 /\ l = k1 + n
    OBVIOUS
  <1>2. PICK a \in Seq(Write) : /\ a = OneByOne("INSERT") /\ Len(a) = e
                                /\ \A i \in 1 .. e : a[i] = [op |-> "INSERT", ids |-> {i - 1}]
    BY <1>1, PartsOfPlan
  <1>3. PICK b \in Seq(Write) : /\ b = OneByOne("DELETE") /\ Len(b) = e
                                /\ \A i \in 1 .. e : b[i] = [op |-> "DELETE", ids |-> {i - 1}]
    BY <1>1, PartsOfPlan
  <1>4. PICK c \in Seq(Write) : /\ c = InBatches("INSERT") /\ Len(c) = n
                                /\ \A i \in 1 .. n : c[i] = [op |-> "INSERT", ids |-> InBatch(i - 1)]
    BY <1>1, PartsOfPlan
  <1>5. PICK d \in Seq(Write) : d = <<Count>> /\ Len(d) = 1 /\ d[1] = Count
    BY PartsOfPlan
  <1>6. PICK f \in Seq(Write) : /\ f = InBatches("DELETE") /\ Len(f) = n
                                /\ \A i \in 1 .. n : f[i] = [op |-> "DELETE", ids |-> InBatch(i - 1)]
    BY <1>1, PartsOfPlan
  <1>7. PICK u \in Seq(Write) : Joins(u, a, b, e, e2) /\ Len(u) = e2
    <2>1. Len(a) = e /\ Len(b) = e /\ e2 = e + e
      BY <1>0, <1>2, <1>3
    <2>2. e \in Nat /\ e \in Nat
      OBVIOUS
    <2>3. QED
      BY <2>1, <2>2, Joined
  <1>8. PICK v \in Seq(Write) : Joins(v, u, c, e2, k) /\ Len(v) = k
    <2>1. Len(u) = e2 /\ Len(c) = n /\ k = e2 + n
      BY <1>0, <1>4, <1>7
    <2>2. e2 \in Nat /\ n \in Nat
      OBVIOUS
    <2>3. QED
      BY <2>1, <2>2, Joined
  <1>9. PICK w \in Seq(Write) : Joins(w, v, d, k, k1) /\ Len(w) = k1
    <2>1. Len(v) = k /\ Len(d) = 1 /\ k1 = k + 1
      BY <1>0, <1>5, <1>8
    <2>2. k \in Nat /\ 1 \in Nat
      OBVIOUS
    <2>3. PICK o \in Nat : o = 1
      OBVIOUS
    <2>4. Len(d) = o /\ k1 = k + o
      BY <2>1, <2>3
    <2>5. QED
      BY <2>1, <2>4, Joined
  <1>10. PICK z \in Seq(Write) : Joins(z, w, f, k1, l) /\ Len(z) = l
    <2>1. Len(w) = k1 /\ Len(f) = n /\ l = k1 + n
      BY <1>0, <1>6, <1>9
    <2>2. k1 \in Nat /\ n \in Nat
      OBVIOUS
    <2>3. QED
      BY <2>1, <2>2, Joined
  <1>21. \A i \in 1 .. e2 : u[i] = IF i <= e THEN a[i] ELSE b[i - e]
    BY <1>7 DEF Joins
  <1>22. \A i \in 1 .. k : v[i] = IF i <= e2 THEN u[i] ELSE c[i - e2]
    BY <1>8 DEF Joins
  <1>23. \A i \in 1 .. k1 : w[i] = IF i <= k THEN v[i] ELSE d[i - k]
    BY <1>9 DEF Joins
  <1>24. \A i \in 1 .. l : z[i] = IF i <= k1 THEN w[i] ELSE f[i - k1]
    BY <1>10 DEF Joins
  <1>11. z = Plan
    BY <1>2, <1>3, <1>4, <1>5, <1>6, <1>7, <1>8, <1>9, <1>10 DEF Plan, Joins
  <1>12. PlanLen = l /\ 2 * Entries = e2 /\ 2 * Entries + NumBatches = k /\ 2 * Entries + NumBatches + 1 = k1
    BY <1>0, <1>1 DEF PlanLen
  <1>13. ASSUME NEW p \in 0 .. l - 1 PROVE Planned(p, z[p + 1])
    <2>1. PICK i \in 1 .. l : i = p + 1
      BY <1>0
    <2>2. PICK x : x = z[i]
      OBVIOUS
    <2>3. p < e => x = [op |-> "INSERT", ids |-> {p}]
      <3>1. SUFFICES ASSUME p < e PROVE x = [op |-> "INSERT", ids |-> {p}]
        OBVIOUS
      <3>2. /\ i \in 1 .. e /\ i \in 1 .. e2 /\ i \in 1 .. k /\ i \in 1 .. k1 /\ i \in 1 .. l
            /\ i <= e /\ i <= e2 /\ i <= k /\ i <= k1 /\ i - 1 = p
        BY <1>0, <2>1, <3>1
      <3>3. x = a[i]
        <4>1. z[i] = w[i]
          BY <1>24, <3>2
        <4>2. w[i] = v[i]
          BY <1>23, <3>2
        <4>3. v[i] = u[i]
          BY <1>22, <3>2
        <4>4. u[i] = a[i]
          BY <1>21, <3>2
        <4>5. QED
          BY <2>2, <4>1, <4>2, <4>3, <4>4
      <3>4. QED
        BY <1>2, <3>2, <3>3
    <2>4. e <= p /\ p < e2 => x = [op |-> "DELETE", ids |-> {p - e}]
      <3>1. SUFFICES ASSUME e <= p, p < e2 PROVE x = [op |-> "DELETE", ids |-> {p - e}]
        OBVIOUS
      <3>2. PICK j \in 1 .. e : j = i - e /\ j - 1 = p - e
        BY <1>0, <2>1, <3>1
      <3>3. /\ ~ (i <= e) /\ i <= e2 /\ i <= k /\ i <= k1
            /\ i \in 1 .. e2 /\ i \in 1 .. k /\ i \in 1 .. k1 /\ i \in 1 .. l
        BY <1>0, <2>1, <3>1
      <3>4. x = b[j]
        <4>1. z[i] = w[i]
          BY <1>24, <3>3
        <4>2. w[i] = v[i]
          BY <1>23, <3>3
        <4>3. v[i] = u[i]
          BY <1>22, <3>3
        <4>4. u[i] = b[j]
          BY <1>21, <3>2, <3>3
        <4>5. QED
          BY <2>2, <4>1, <4>2, <4>3, <4>4
      <3>5. QED
        BY <1>3, <3>2, <3>4
    <2>5. e2 <= p /\ p < k => x = [op |-> "INSERT", ids |-> InBatch(p - e2)]
      <3>1. SUFFICES ASSUME e2 <= p, p < k PROVE x = [op |-> "INSERT", ids |-> InBatch(p - e2)]
        OBVIOUS
      <3>2. PICK j \in 1 .. n : j = i - e2 /\ j - 1 = p - e2
        BY <1>0, <2>1, <3>1
      <3>3. ~ (i <= e2) /\ i <= k /\ i <= k1 /\ i \in 1 .. k /\ i \in 1 .. k1 /\ i \in 1 .. l
        BY <1>0, <2>1, <3>1
      <3>4. x = c[j]
        <4>1. z[i] = w[i]
          BY <1>24, <3>3
        <4>2. w[i] = v[i]
          BY <1>23, <3>3
        <4>3. v[i] = c[j]
          BY <1>22, <3>2, <3>3
        <4>4. QED
          BY <2>2, <4>1, <4>2, <4>3
      <3>5. QED
        BY <1>4, <3>2, <3>4
    <2>6. p = k => x = Count
      <3>1. SUFFICES ASSUME p = k PROVE x = Count
        OBVIOUS
      <3>2. PICK j \in 1 .. 1 : j = i - k
        BY <1>0, <2>1, <3>1
      <3>3. ~ (i <= k) /\ i <= k1 /\ i \in 1 .. k1 /\ i \in 1 .. l /\ j = 1
        BY <1>0, <2>1, <3>1
      <3>4. x = d[j]
        <4>1. z[i] = w[i]
          BY <1>24, <3>3
        <4>2. w[i] = d[j]
          BY <1>23, <3>2, <3>3
        <4>3. QED
          BY <2>2, <4>1, <4>2
      <3>5. QED
        BY <1>5, <3>3, <3>4
    <2>7. k < p => x = [op |-> "DELETE", ids |-> InBatch(p - k1)]
      <3>1. SUFFICES ASSUME k < p PROVE x = [op |-> "DELETE", ids |-> InBatch(p - k1)]
        OBVIOUS
      <3>2. PICK j \in 1 .. n : j = i - k1 /\ j - 1 = p - k1
        BY <1>0, <2>1, <3>1
      <3>3. ~ (i <= k1) /\ i \in 1 .. l
        BY <1>0, <2>1, <3>1
      <3>4. x = f[j]
        BY <1>24, <2>2, <3>2, <3>3
      <3>5. QED
        BY <1>6, <3>2, <3>4
    <2>8. QED
      BY <1>1, <1>12, <2>1, <2>2, <2>3, <2>4, <2>5, <2>6, <2>7 DEF Planned
  <1>14. QED
    BY <1>10, <1>11, <1>12, <1>13

\* What the table holds after p writes: the entries one by one, all of them,
\* what is not yet deleted; and the same in batches.
Held(p, T) ==
    LET one == 2 * Entries
        full == 2 * Entries + NumBatches
    IN  /\ p <= Entries => T = 0 .. p - 1
        /\ Entries <= p /\ p <= one => T = p - Entries .. Entries - 1
        /\ one <= p /\ p <= full => T = {i \in EntryIds : i \div Batch < p - one}
        /\ full < p => T = {i \in EntryIds : i \div Batch >= p - (full + 1)}

\* The table after a write that is accepted.
Put(w, T) ==
    CASE w.op = "INSERT" -> T \cup w.ids
      [] w.op = "DELETE" -> T \ w.ids
      [] OTHER -> T

Fits(w, T) ==
    CASE w.op = "INSERT" -> w.ids \cap T = {}
      [] w.op = "DELETE" -> w.ids \subseteq T
      [] OTHER -> Cardinality(T) = Entries

\* Every write of the plan is accepted where it stands.
LEMMA PlanFits ==
  ASSUME BmvAssumption, NEW p \in 0 .. PlanLen - 1, NEW T, Held(p, T), NEW w, Planned(p, w)
  PROVE  Fits(w, T) /\ Held(p + 1, Put(w, T))
  <1>1. PICK e, n \in Nat : e = Entries /\ n = NumBatches
    BY BatchesAre DEF BmvAssumption
  <1>2. PICK e2, k, k1, l \in Nat : e2 = e + e /\ k = e2 + n /\ k1 = k + 1 /\ l = k1 + n
    OBVIOUS
  <1>3. PlanLen = l /\ 2 * Entries = e2 /\ 2 * Entries + NumBatches = k /\ 2 * Entries + NumBatches + 1 = k1
    BY <1>1, <1>2 DEF PlanLen
  <1>4. p \in Nat /\ p < l
    BY <1>2, <1>3
  <1>5. PICK E : E = EntryIds /\ E = 0 .. e - 1
    BY <1>1 DEF EntryIds
  <1>6. PICK d \in [E -> 0 .. n - 1] : \A i \in E : d[i] = i \div Batch
    <2>1. [i \in E |-> i \div Batch] \in [E -> 0 .. n - 1]
      BY <1>1, <1>5, BatchesAre
    <2>2. QED
      BY <2>1
  <1>7. ASSUME NEW q, NEW U
        PROVE  Held(q, U) <=> /\ q <= e => U = 0 .. q - 1
                              /\ e <= q /\ q <= e2 => U = q - e .. e - 1
                              /\ e2 <= q /\ q <= k => U = {i \in E : d[i] < q - e2}
                              /\ k < q => U = {i \in E : d[i] >= q - k1}
    <2>1. \A x : {i \in EntryIds : i \div Batch < x} = {i \in E : d[i] < x}
      BY <1>5, <1>6
    <2>2. \A x : {i \in EntryIds : i \div Batch >= x} = {i \in E : d[i] >= x}
      BY <1>5, <1>6
    <2>3. Held(q, U) <=> /\ q <= Entries => U = 0 .. q - 1
                         /\ Entries <= q /\ q <= 2 * Entries => U = q - Entries .. Entries - 1
                         /\ 2 * Entries <= q /\ q <= 2 * Entries + NumBatches =>
                               U = {i \in EntryIds : i \div Batch < q - 2 * Entries}
                         /\ 2 * Entries + NumBatches < q =>
                               U = {i \in EntryIds : i \div Batch >= q - (2 * Entries + NumBatches + 1)}
      BY DEF Held
    <2>4. QED
      BY <1>1, <1>3, <2>1, <2>2, <2>3, Zenon
  <1>8. \A b : InBatch(b) = {i \in E : d[i] = b}
    BY <1>5, <1>6 DEF InBatch
  <1>9. PICK U : U = Put(w, T)
    OBVIOUS
  <1>10. CASE p < e
    <2>1. w = [op |-> "INSERT", ids |-> {p}]
      BY <1>1, <1>10 DEF Planned
    <2>2. T = 0 .. p - 1
      BY <1>4, <1>7, <1>10
    <2>3. {p} \cap T = {}
      BY <1>4, <2>2
    <2>4. Fits(w, T) /\ U = T \cup {p}
      BY <1>9, <2>1, <2>3 DEF Fits, Put
    <2>5. U = 0 .. (p + 1) - 1
      BY <1>4, <2>2, <2>4
    <2>6. e <= p + 1 /\ p + 1 <= e2 => U = (p + 1) - e .. e - 1
      BY <1>4, <1>10, <2>5
    <2>7. e2 <= p + 1 /\ p + 1 <= k => U = {i \in E : d[i] < (p + 1) - e2}
      <3>1. SUFFICES ASSUME e2 <= p + 1 PROVE U = {i \in E : d[i] < (p + 1) - e2}
        OBVIOUS
      <3>2. FALSE \/ (e = 1 /\ p = 0 /\ e2 = 2)
        BY <1>2, <1>4, <1>10, <3>1
      <3>3. QED
        BY <1>4, <3>1, <3>2
    <2>8. ~ (k < p + 1)
      BY <1>2, <1>4, <1>10
    <2>9. Held(p + 1, U)
      BY <1>7, <2>5, <2>6, <2>7, <2>8
    <2>10. QED
      BY <1>9, <2>4, <2>9
  <1>11. CASE e <= p /\ p < e2
    <2>1. w = [op |-> "DELETE", ids |-> {p - e}]
      BY <1>1, <1>3, <1>11 DEF Planned
    <2>2. T = p - e .. e - 1
      BY <1>4, <1>7, <1>11
    <2>3. {p - e} \subseteq T
      BY <1>2, <1>4, <1>11, <2>2
    <2>4. Fits(w, T) /\ U = T \ {p - e}
      BY <1>9, <2>1, <2>3 DEF Fits, Put
    <2>5. U = (p + 1) - e .. e - 1
      BY <1>4, <2>2, <2>4
    <2>6. ~ (p + 1 <= e)
      BY <1>4, <1>11
    <2>7. e2 <= p + 1 /\ p + 1 <= k => U = {i \in E : d[i] < (p + 1) - e2}
      <3>1. SUFFICES ASSUME e2 <= p + 1 PROVE U = {i \in E : d[i] < (p + 1) - e2}
        OBVIOUS
      <3>2. p + 1 = e2 /\ (p + 1) - e2 = 0
        BY <1>2, <1>4, <1>11, <3>1
      <3>3. U = {}
        BY <1>2, <2>5, <3>2
      <3>4. \A i \in E : ~ (d[i] < 0)
        BY <1>6
      <3>5. QED
        BY <3>2, <3>3, <3>4
    <2>8. ~ (k < p + 1)
      BY <1>2, <1>4, <1>11
    <2>9. Held(p + 1, U)
      BY <1>7, <2>5, <2>6, <2>7, <2>8
    <2>10. QED
      BY <1>9, <2>4, <2>9
  <1>12. CASE e2 <= p /\ p < k
    <2>1. PICK b \in Nat : b = p - e2
      BY <1>4, <1>12
    <2>2. w = [op |-> "INSERT", ids |-> InBatch(b)]
      BY <1>3, <1>12, <2>1 DEF Planned
    <2>3. T = {i \in E : d[i] < b}
      BY <1>4, <1>7, <1>12, <2>1
    <2>4. InBatch(b) \cap T = {}
      BY <1>6, <1>8, <2>1, <2>3
    <2>5. Fits(w, T) /\ U = T \cup InBatch(b)
      BY <1>9, <2>2, <2>4 DEF Fits, Put
    <2>6. U = {i \in E : d[i] < b + 1}
      <3>1. \A i \in E : d[i] \in Int /\ (d[i] < b + 1 <=> d[i] < b \/ d[i] = b)
        BY <1>6
      <3>2. QED
        BY <1>8, <2>3, <2>5, <3>1
    <2>7. b + 1 = (p + 1) - e2 /\ ~ (p + 1 <= e2) /\ ~ (p + 1 <= e) /\ ~ (k < p + 1)
      BY <1>2, <1>4, <1>12, <2>1
    <2>8. Held(p + 1, U)
      BY <1>7, <2>6, <2>7
    <2>9. QED
      BY <1>9, <2>5, <2>8
  <1>13. CASE p = k
    <2>1. w = [op |-> "COUNT", ids |-> EntryIds]
      BY <1>3, <1>13 DEF Planned, Count
    <2>2. T = {i \in E : d[i] < k - e2} /\ k - e2 = n
      BY <1>2, <1>7, <1>13
    <2>3. T = E
      BY <1>6, <2>2
    <2>4. Cardinality(T) = e
      BY <1>1, <1>5, <2>3, FS_Interval
    <2>5. Fits(w, T) /\ U = T
      BY <1>1, <1>9, <2>1, <2>4 DEF Fits, Put
    <2>6. (p + 1) - k1 = 0 /\ k < p + 1 /\ ~ (p + 1 <= e) /\ ~ (p + 1 <= e2) /\ ~ (p + 1 <= k)
      BY <1>2, <1>13
    <2>7. U = {i \in E : d[i] >= 0}
      BY <1>6, <2>3, <2>5
    <2>8. Held(p + 1, U)
      BY <1>7, <2>6, <2>7
    <2>9. QED
      BY <1>9, <2>5, <2>8
  <1>14. CASE k < p
    <2>1. PICK b \in Nat : b = p - k1
      BY <1>2, <1>4, <1>14
    <2>2. w = [op |-> "DELETE", ids |-> InBatch(b)]
      BY <1>3, <1>14, <2>1 DEF Planned
    <2>3. T = {i \in E : d[i] >= b}
      BY <1>4, <1>7, <1>14, <2>1
    <2>4. InBatch(b) \subseteq T
      BY <1>6, <1>8, <2>1, <2>3
    <2>5. Fits(w, T) /\ U = T \ InBatch(b)
      BY <1>9, <2>2, <2>4 DEF Fits, Put
    <2>6. U = {i \in E : d[i] >= b + 1}
      <3>1. \A i \in E : d[i] \in Int /\ (d[i] >= b + 1 <=> d[i] >= b /\ d[i] # b)
        BY <1>6
      <3>2. QED
        BY <1>8, <2>3, <2>5, <3>1
    <2>7. /\ b + 1 = (p + 1) - k1 /\ k < p + 1 /\ ~ (p + 1 <= e) /\ ~ (p + 1 <= e2) /\ ~ (p + 1 <= k)
      BY <1>2, <1>4, <1>14, <2>1
    <2>8. Held(p + 1, U)
      BY <1>7, <2>6, <2>7
    <2>9. QED
      BY <1>9, <2>5, <2>8
  <1>15. QED
    BY <1>2, <1>4, <1>10, <1>11, <1>12, <1>13, <1>14

\* What is left of the plan, and what the table holds.
OnPlan ==
    /\ stage = "summary" => leaf_tbl = {}
    /\ stage = "benchmark" =>
          /\ writes \in Seq(Write) /\ Len(writes) <= PlanLen
          /\ \A i \in 1 .. Len(writes) : writes[i] = Plan[(PlanLen - Len(writes)) + i]
          /\ Held(PlanLen - Len(writes), leaf_tbl)

\* The next write, if there is one.
LEMMA NextWrite ==
  ASSUME BmvAssumption, OnPlan, stage = "benchmark", writes # <<>>
  PROVE  \E p \in 0 .. PlanLen - 1 :
            /\ PlanLen - Len(writes) = p /\ Planned(p, Head(writes)) /\ Held(p, leaf_tbl)
            /\ Tail(writes) \in Seq(Write) /\ PlanLen - Len(Tail(writes)) = p + 1
            /\ Len(Tail(writes)) <= PlanLen
            /\ \A i \in 1 .. Len(Tail(writes)) : Tail(writes)[i] = Plan[(p + 1) + i]
  <1>1. PICK N \in Nat : N = PlanLen
    <2>1. PlanLen \in Nat
      BY BatchesAre DEF BmvAssumption, PlanLen
    <2>2. QED
      BY <2>1
  <1>2. PICK m \in Nat : m = Len(writes) /\ m # 0 /\ m <= N /\ writes \in Seq(Write)
    BY <1>1, EmptySeq DEF OnPlan
  <1>3. PICK p \in 0 .. N - 1 : p = N - m
    BY <1>1, <1>2
  <1>4. PICK t : t = Tail(writes)
    OBVIOUS
  <1>5. /\ t \in Seq(Write) /\ Len(t) = m - 1 /\ \A i \in 1 .. Len(t) : t[i] = writes[i + 1]
        /\ Head(writes) = writes[1]
    BY <1>2, <1>4, HeadTailProperties
  <1>6. \A i \in 1 .. m : writes[i] = Plan[p + i]
    BY <1>1, <1>2, <1>3 DEF OnPlan
  <1>7. Head(writes) = Plan[p + 1] /\ Planned(p, Plan[p + 1])
    <2>1. 1 \in 1 .. m
      BY <1>2
    <2>2. Head(writes) = Plan[p + 1]
      BY <1>5, <1>6, <2>1
    <2>3. QED
      BY <1>1, <2>2, PlanIs
  <1>8. Held(p, leaf_tbl)
    BY <1>1, <1>2, <1>3 DEF OnPlan
  <1>9. N - (m - 1) = p + 1 /\ m - 1 <= N
    BY <1>2, <1>3
  <1>10. ASSUME NEW i \in 1 .. m - 1 PROVE t[i] = Plan[(p + 1) + i]
    <2>1. i + 1 \in 1 .. m /\ p + (i + 1) = (p + 1) + i
      BY <1>2
    <2>2. QED
      BY <1>5, <1>6, <2>1
  <1>11. QED
    BY <1>1, <1>2, <1>3, <1>4, <1>5, <1>7, <1>8, <1>9, <1>10

\* The benchmark stays on its plan.
LEMMA OnPlanHolds == ASSUME BmvAssumption, OnPlan, ReplayInv, [BmvNext]_bmvVars PROVE OnPlan'
  <1>1. ASSUME UNCHANGED <<stage, leaf_tbl, writes>> PROVE OnPlan'
    BY <1>1 DEF OnPlan
  <1>2. ASSUME stage' \notin {"summary", "benchmark"} PROVE OnPlan'
    BY <1>2 DEF OnPlan
  <1>3. CASE ClearSlice
    <2>1. leaf_tbl' = {} /\ stage' # "benchmark"
      BY <1>3 DEF ClearSlice
    <2>2. QED
      BY <2>1 DEF OnPlan
  <1>4. CASE StartBenchmark
    <2>1. leaf_tbl = {} /\ leaf_tbl' = leaf_tbl /\ stage' = "benchmark"
      BY <1>4 DEF StartBenchmark, OnPlan
    <2>2. writes' = Plan
      BY <1>4 DEF StartBenchmark, Plan, Count
    <2>3. Plan \in Seq(Write) /\ Len(Plan) = PlanLen /\ PlanLen \in Nat
      BY PlanIs
    <2>4. PlanLen - PlanLen = 0 /\ \A i \in 1 .. PlanLen : 0 + i = i
      BY <2>3
    <2>5. Held(0, {})
      <3>1. PICK e, n \in Nat : e = Entries /\ n = NumBatches
        BY BatchesAre DEF BmvAssumption
      <3>2. 0 .. 0 - 1 = {} /\ (e <= 0 => 0 - e .. e - 1 = {})
        BY <3>1
      <3>3. \A i \in EntryIds : ~ (i \div Batch < 0 - 2 * e)
        BY <3>1, BatchesAre
      <3>4. ~ (2 * e + n < 0)
        BY <3>1
      <3>5. QED
        BY <3>1, <3>2, <3>3, <3>4 DEF Held
    <2>6. QED
      BY <2>1, <2>2, <2>3, <2>4, <2>5 DEF OnPlan
  <1>5. CASE BenchmarkWrite
    <2>1. stage = "benchmark" /\ stage' = stage /\ writes # <<>> /\ writes' = Tail(writes)
      BY <1>5 DEF BenchmarkWrite
    <2>2. leaf_tbl' = Put(Head(writes), leaf_tbl)
      BY <1>5 DEF BenchmarkWrite, Put
    <2>3. PICK p \in 0 .. PlanLen - 1 :
            /\ PlanLen - Len(writes) = p /\ Planned(p, Head(writes)) /\ Held(p, leaf_tbl)
            /\ Tail(writes) \in Seq(Write) /\ PlanLen - Len(Tail(writes)) = p + 1
            /\ Len(Tail(writes)) <= PlanLen
            /\ \A i \in 1 .. Len(Tail(writes)) : Tail(writes)[i] = Plan[(p + 1) + i]
      BY <2>1, NextWrite
    <2>4. Held(p + 1, leaf_tbl')
      BY <2>2, <2>3, PlanFits
    <2>5. QED
      BY <2>1, <2>3, <2>4 DEF OnPlan
  <1>6. QED
    BY <1>1, <1>2, <1>3, <1>4, <1>5 DEF BmvNext, bmvVars, Connected, PacketOut, SwitchAnswers, Read, GetAnswer,
       GivesUp, WriteDeletes, WriteInserts

\* The checks of the replay and of the benchmark.
LEMMA InvChecks == ASSUME BmvAssumption, ReplayInv, OnPlan PROVE ReplayMatchesSimulator
  <1>1. Checked /\ TableFollows
    BY DEF ReplayInv
  <1>2. stage = "send" => leaf_tbl = installed /\ installed = cache.resident
    BY <1>1 DEF TableFollows, Replaying
  <1>3. ASSUME stage = "benchmark", writes # <<>> PROVE Accepted(Head(writes))
    <2>1. Fits(Head(writes), leaf_tbl)
      BY <1>3, NextWrite, PlanFits
    <2>2. QED
      BY <2>1 DEF Fits, Accepted
  <1>4. ASSUME stage = "benchmark", writes = <<>> PROVE leaf_tbl = {}
    <2>1. PICK e, n \in Nat : e = Entries /\ n = NumBatches
      BY BatchesAre DEF BmvAssumption
    <2>2. PlanLen = 2 * e + 2 * n + 1 /\ Len(writes) = 0
      BY <1>4, <2>1 DEF PlanLen
    <2>3. Held(PlanLen, leaf_tbl)
      BY <1>4, <2>1, <2>2 DEF OnPlan
    <2>4. 2 * e + n < PlanLen /\ PlanLen - (2 * e + n + 1) = n
      BY <2>1, <2>2
    <2>5. leaf_tbl = {i \in EntryIds : i \div Batch >= n}
      BY <2>1, <2>3, <2>4 DEF Held
    <2>6. \A i \in EntryIds : ~ (i \div Batch >= n)
      BY <2>1, BatchesAre
    <2>7. QED
      BY <2>5, <2>6
  <1>5. QED
    BY <1>1, <1>2, <1>3, <1>4 DEF Checked, TableFollows, ReplayMatchesSimulator

\* The invariant, and what it is for.
BmvInv == ReplayInv /\ OnPlan

\* It is inductive.
THEOREM BmvInvHolds ==
  ASSUME BmvAssumption
  PROVE  /\ BmvInit => BmvInv
         /\ BmvInv /\ [BmvNext]_bmvVars => BmvInv'
         /\ BmvInv => ReplayMatchesSimulator
  <1>1. BmvInit => OnPlan
    BY DEF BmvInit, OnPlan
  <1>2. QED
    BY <1>1, BmvInitInv, ReplayInvHolds, OnPlanHolds, InvChecks DEF BmvInv

\* No run of the prototype ends with CHECKS FAILED, whatever the slices, the
\* capacity, the weights and the benchmark.
THEOREM ReplayAlwaysMatches == ASSUME BmvAssumption PROVE BmvSpec => []ReplayMatchesSimulator
  <1>1. (BmvInit => BmvInv) /\ (BmvInv /\ [BmvNext]_bmvVars => BmvInv') /\ (BmvInv => ReplayMatchesSimulator)
    BY BmvInvHolds
  <1>2. QED
    BY <1>1, PTL DEF BmvSpec
=============================================================================
