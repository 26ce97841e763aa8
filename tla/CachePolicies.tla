---------------------------- MODULE CachePolicies ----------------------------
(***************************************************************************)
(* The page-replacement policies of MVM-Lite, replayed over a stream of    *)
(* leaves: each step is one iteration of simulate, for every policy and    *)
(* every capacity at once, so that the policies can be compared on the     *)
(* same stream.  LRU, decayed LFU and Belady exist twice in the code, as a *)
(* reference policy and as a fast kernel; simulate_hw_policy is decayed    *)
(* LFU with the delays of the Tofino controller.                           *)
(*                                                                         *)
(* Scores.  The code keeps S and the time of its last update, and orders   *)
(* leaves by log S - last * ln gamma.  Here weight = S * gamma^(-last),    *)
(* the number whose logarithm that key is: an access at time t adds        *)
(* gamma^(-t) to it, and its order is the key's.  Gains holds the          *)
(* functions t |-> gamma^(-t); gamma = 1 (LFU) is the constant 1.          *)
(*                                                                         *)
(* A definition marked "Slip" is not used by Spec: it is a mistake the     *)
(* code could have made in the definition that follows it.                 *)
(***************************************************************************)
EXTENDS Integers, Sequences, FiniteSets, FiniteSetsExt, SequencesExt

CONSTANTS
    NumLeaves,      \* leaf ids are 0 .. NumLeaves - 1
    Streams,        \* the streams replayed, all of the same length
    Length,         \* that length
    MaxK,           \* capacities are 1 .. MaxK
    Gains,          \* one function per gamma
    Window,         \* the window of WindowOracle
    HwSettings      \* arguments of simulate_hw_policy: k, gain, lag, poll, clock

Leaves == 0 .. NumLeaves - 1
Times == 0 .. Length - 1
Caps == 1 .. MaxK

ASSUME SizesAssumption == {NumLeaves, Length, MaxK, Window} \subseteq Nat \ {0}
ASSUME StreamsAssumption == Streams \subseteq [1 .. Length -> Leaves]
ASSUME GainsAssumption == Gains \subseteq [Times -> Nat \ {0}]
ASSUME HwAssumption ==
    HwSettings \subseteq
        [k : 0 .. MaxK, gain : Gains, lag : Nat, poll : Nat, clock : {"miss", "query"}]

VARIABLES
    seq,            \* the stream
    t,              \* the queries answered so far
    lru,            \* for every capacity: LRU
    dlfu, dlfuFast, \* for every gamma and capacity: DecayedLFU and its kernel
    belady, beladyFast,     \* for every capacity: Belady and its kernel
    oracle,         \* for every capacity: WindowOracle
    fenwick,        \* reuse_distance: the positions that hold a 1, last, and rd
    setting, hw,    \* simulate_hw_policy
    best            \* history: the hits of the best cache that changes at most
                    \* one entry per miss, by capacity and final contents

vars == <<seq, t, lru, dlfu, dlfuFast, belady, beladyFast, oracle, fenwick,
          setting, hw, best>>

Never == Length     \* a next use or a due time that does not come
None == -1          \* a leaf not seen yet
Unreachable == -(Length + MaxK)

LeafAt(i) == seq[i + 1]

-----------------------------------------------------------------------------
(* What simulate records: hits, inserts and evictions.                     *)

Hit(c) == [c EXCEPT !.hit = TRUE, !.hits = @ + 1]
Bypass(c) == [c EXCEPT !.hit = FALSE]

\* Slip: evictions are not counted.
InsertOnly(c, evicted) == [c EXCEPT !.hit = FALSE, !.inserts = @ + 1]

Insert(c, evicted) ==
    [c EXCEPT !.hit = FALSE, !.inserts = @ + 1, !.evictions = @ + evicted]

-----------------------------------------------------------------------------
(* LRU: the residents in the order of their last access.                   *)

\* Slip: a hit leaves the leaf where it is.
RefreshedFifo(resident, l) == resident

Refreshed(resident, l) ==
    Append(RemoveAt(resident, CHOOSE i \in DOMAIN resident : resident[i] = l), l)

LruAccess(c, k, l) ==
    LET full == Len(c.resident) >= k IN
    IF Contains(c.resident, l)
    THEN [Hit(c) EXCEPT !.resident = Refreshed(@, l)]
    ELSE [Insert(c, IF full THEN 1 ELSE 0) EXCEPT
             !.resident = Append(IF full THEN Tail(@) ELSE @, l)]

-----------------------------------------------------------------------------
(* Decayed LFU.  Scores persist for leaves that are not resident.          *)

Lower(c, i, j) ==
    \/ c.weight[i] < c.weight[j]
    \/ c.weight[i] = c.weight[j] /\ c.last[i] < c.last[j]

\* score[leaf], last[leaf] = prev + n, now
Scored(c, gain, l, n, now) ==
    [c EXCEPT !.weight[l] = @ + n * gain[now], !.last[l] = now]

DlfuAccess(c, gain, k, l) ==
    LET full == Cardinality(c.resident) >= k
        victims == {v \in c.resident : full /\ \A r \in c.resident : ~Lower(c, r, v)}
    IN  Scored(
            IF l \in c.resident
            THEN Hit(c)
            ELSE [Insert(c, Cardinality(victims)) EXCEPT
                     !.resident = (@ \ victims) \cup {l}],
            gain, l, 1, t)

\* The kernel scans an array for the first slot with the lowest key.
FirstLowest(c, slots) ==
    CHOOSE j \in DOMAIN slots :
        /\ \A i \in DOMAIN slots : ~Lower(c, slots[i], slots[j])
        /\ \A i \in 1 .. j - 1 : Lower(c, slots[j], slots[i])

DlfuKernel(c, gain, k, l) ==
    LET full == Len(c.resident) >= k IN
    Scored(
        IF Contains(c.resident, l)
        THEN Hit(c)
        ELSE [Insert(c, IF full THEN 1 ELSE 0) EXCEPT
                 !.resident = IF full THEN ReplaceAt(@, FirstLowest(c, @), l)
                                   ELSE Append(@, l)],
        gain, l, 1, t)

-----------------------------------------------------------------------------
(* Belady with bypass.  The reference keeps a dict in insertion order, the *)
(* kernel an array; both take the first of the leaves used furthest in the *)
(* future, which need not be the same leaf when several are never used     *)
(* again.                                                                  *)

\* next_use[i]: the next position with the same leaf.
NextUse(i) ==
    Min({u \in i + 1 .. Length - 1 : LeafAt(u) = LeafAt(i)} \cup {Never})

\* _fill_next_use, from the back: LastSeen[j] is last_seen when the positions
\* from j on have been filled.
LastSeen[j \in 1 .. Length] ==
    IF j = Length THEN [l \in Leaves |-> Never]
    ELSE [LastSeen[j + 1] EXCEPT ![LeafAt(j)] = j]

FillNextUse(i) == LastSeen[i + 1][LeafAt(i)]

FirstFurthest(c) ==
    CHOOSE j \in DOMAIN c.resident :
        /\ \A i \in DOMAIN c.resident : c.next[c.resident[i]] <= c.next[c.resident[j]]
        /\ \A i \in 1 .. j - 1 : c.next[c.resident[i]] < c.next[c.resident[j]]

\* Slip: a missed leaf is always installed.
NeverBypassed(c, k, nxt) == FALSE

\* The incoming leaf is needed furthest in the future.
Bypassed(c, k, nxt) ==
    /\ Len(c.resident) >= k
    /\ c.next[c.resident[FirstFurthest(c)]] <= nxt

Used(c, l, nxt) == [c EXCEPT !.next[l] = nxt]

\* swapped is what becomes of the residents when a full cache takes l in.
BeladyStep(c, k, l, nxt, swapped) ==
    LET full == Len(c.resident) >= k IN
    IF Contains(c.resident, l) THEN Used(Hit(c), l, nxt)
    ELSE IF Bypassed(c, k, nxt) THEN Bypass(c)
    ELSE [Used(Insert(c, IF full THEN 1 ELSE 0), l, nxt) EXCEPT
             !.resident = IF full THEN swapped ELSE Append(@, l)]

\* dict: the victim is deleted, the new leaf comes last.
BeladyAccess(c, k, l, nxt) ==
    BeladyStep(c, k, l, nxt, Append(RemoveAt(c.resident, FirstFurthest(c)), l))

\* Slip: the new leaf always takes the first slot.
BeladyKernelFirst(c, k, l, nxt) ==
    BeladyStep(c, k, l, nxt, ReplaceAt(c.resident, 1, l))

\* array: the new leaf takes the victim's slot.
BeladyKernel(c, k, l, nxt) ==
    BeladyStep(c, k, l, nxt, ReplaceAt(c.resident, FirstFurthest(c), l))

-----------------------------------------------------------------------------
(* WindowOracle: each window's K most frequent leaves, ties by leaf id.    *)

Requests(l, from, to) == Cardinality({i \in from .. to : LeafAt(i) = l})

\* np.lexsort((ids, -counts)): count descending, then leaf id ascending.
Ahead(m, l, from, to) ==
    LET more == Requests(m, from, to) - Requests(l, from, to) IN
    more > 0 \/ (more = 0 /\ m < l)

MostFrequent(k, from, to) ==
    {l \in Leaves :
        /\ Requests(l, from, to) > 0
        /\ Cardinality({m \in Leaves : Ahead(m, l, from, to)}) < k}

\* Slip: the window that has just ended is counted.
LastTop(k, i) == MostFrequent(k, Max({0, i - Window}), i - 1)

Top(k, i) == MostFrequent(k, i, Min({i + Window, Length}) - 1)

Reloaded(c, new) ==
    [c EXCEPT !.inserts = @ + Cardinality(new \ c.resident),
              !.evictions = @ + Cardinality(c.resident \ new),
              !.resident = new]

OracleAccess(c, k, l) ==
    LET d == IF t % Window = 0 THEN Reloaded(c, Top(k, t)) ELSE c IN
    IF l \in d.resident THEN Hit(d) ELSE Bypass(d)

\* StaticTopK: the table S stays as it is.
StaticHits(S) == Quantify(0 .. t - 1, LAMBDA i : LeafAt(i) \in S)

-----------------------------------------------------------------------------
(* reuse_distance: the Fenwick tree holds a 1 at each leaf's most recent   *)
(* access; a prefix sum counts the ones.  simulate_fast derives LRU's hits *)
(* from it.                                                                *)

\* Slip: the previous access of the leaf is counted as well.
DistanceInclusive(f, l) ==
    IF f.last[l] = None THEN None
    ELSE Cardinality(f.ones \cap (f.last[l] .. t - 1))

Distance(f, l) ==
    IF f.last[l] = None THEN None
    ELSE Cardinality(f.ones \cap (f.last[l] + 1 .. t - 1))

FenwickAccess(f, l) ==
    [ones |-> (f.ones \ {f.last[l]}) \cup {t},
     last |-> [f.last EXCEPT ![l] = t],
     rd |-> Append(f.rd, Distance(f, l))]

\* simulate_fast of LRU: a hit iff the reuse distance is below k, and the
\* evictions are the inserts less what the cache holds at the end.
FastLru(k) ==
    LET hits == {i \in 1 .. t : fenwick.rd[i] \in 0 .. k - 1}
        inserts == t - Cardinality(hits)
    IN  [hits |-> hits, inserts |-> inserts,
         evictions |-> inserts - Min({k, Cardinality({LeafAt(i) : i \in 0 .. t - 1})})]

-----------------------------------------------------------------------------
(* simulate_hw_policy.  A miss reaches the controller lag queries later as *)
(* a digest; hits are counted in the switch and credited every poll        *)
(* queries.  A query sends at most one digest, so at most one is due when  *)
(* a query arrives (TypeOK) and the loop over the queue runs at most once. *)

\* Slip: the digest of the last possible moment is left for the next query.
DueLater(h) == h.queue # <<>> /\ Head(h.queue).due < t

Due(h) == h.queue # <<>> /\ Head(h.queue).due <= t

\* Residents with the same key and time are taken in the order of a set.
HwInstalls(h, l) ==
    IF setting.k = 0 \/ l \in h.resident THEN {h}
    ELSE IF Cardinality(h.resident) < setting.k
    THEN {[h EXCEPT !.resident = @ \cup {l}]}
    ELSE {[h EXCEPT !.resident = (@ \ {v}) \cup {l}] :
              v \in {v \in h.resident : \A r \in h.resident : ~Lower(h, r, v)}}

HwDigests(h) ==
    IF ~Due(h) THEN {h}
    ELSE LET d == Head(h.queue)
             now == Max({h.t_ctl, d.qid})
         IN  HwInstalls([Scored(h, setting.gain, d.leaf, 1, now) EXCEPT
                            !.queue = Tail(@), !.t_ctl = now],
                        d.leaf)

Polls == setting.poll # 0 /\ t > 0 /\ t % setting.poll = 0

\* Hits of leaves evicted since they were counted are dropped.
HwCredited(h) ==
    LET now == IF setting.clock = "query" THEN t - 1 ELSE h.t_ctl
        read == {l \in h.resident : h.credits[l] > 0}
    IN  [h EXCEPT
            !.weight = [l \in Leaves |-> @[l] + IF l \in read
                                              THEN h.credits[l] * setting.gain[now]
                                              ELSE 0],
            !.last = [l \in Leaves |-> IF l \in read THEN now ELSE @[l]]]

\* Slip: the hits stay in the counters and are credited again.
HwPollKeeping(h) == IF Polls THEN HwCredited(h) ELSE h

HwPoll(h) ==
    IF Polls THEN [HwCredited(h) EXCEPT !.credits = [l \in Leaves |-> 0]] ELSE h

HwAnswer(h, l) ==
    IF l \in h.resident
    THEN [h EXCEPT !.hit = TRUE, !.credits[l] = @ + 1]
    ELSE [h EXCEPT !.hit = FALSE,
                   !.queue = Append(@, [due |-> t + setting.lag, leaf |-> l, qid |-> t])]

-----------------------------------------------------------------------------
(* The reference for Belady: what is the most hits with which a cache can  *)
(* end with given contents, if it starts empty and a miss may replace at   *)
(* most one entry by the leaf missed?                                      *)

BestAfter(b, k, l) ==
    [R \in DOMAIN b |->
        LET rest == R \ {l}
            replacing == {P \in DOMAIN b : l \notin P /\ rest \subseteq P
                                          /\ Cardinality(P) <= Cardinality(rest) + 1}
        IN  IF l \in R THEN Max({b[R] + 1} \cup {b[P] : P \in replacing})
            ELSE b[R]]

Optimum(k) == Max({best[k][R] : R \in DOMAIN best[k]})

-----------------------------------------------------------------------------

Cold(nothing) ==
    [hit |-> FALSE, hits |-> 0, inserts |-> 0, evictions |-> 0, resident |-> nothing]

ColdScored(nothing) ==
    [hit |-> FALSE, hits |-> 0, inserts |-> 0, evictions |-> 0, resident |-> nothing,
     weight |-> [l \in Leaves |-> 0], last |-> [l \in Leaves |-> None]]

ColdBelady ==
    [hit |-> FALSE, hits |-> 0, inserts |-> 0, evictions |-> 0, resident |-> <<>>,
     next |-> [l \in Leaves |-> 0]]

Init ==
    /\ seq \in Streams
    /\ t = 0
    /\ lru = [k \in Caps |-> Cold(<<>>)]
    /\ dlfu = [g \in Gains |-> [k \in Caps |-> ColdScored({})]]
    /\ dlfuFast = [g \in Gains |-> [k \in Caps |-> ColdScored(<<>>)]]
    /\ belady = [k \in Caps |-> ColdBelady]
    /\ beladyFast = [k \in Caps |-> ColdBelady]
    /\ oracle = [k \in Caps |-> Cold({})]
    /\ fenwick = [ones |-> {}, last |-> [l \in Leaves |-> None], rd |-> <<>>]
    /\ setting \in HwSettings
    /\ hw = [weight |-> [l \in Leaves |-> 0], last |-> [l \in Leaves |-> None],
             hit |-> FALSE, resident |-> {}, credits |-> [l \in Leaves |-> 0],
             queue |-> <<>>, t_ctl |-> 0]
    /\ best = [k \in Caps |->
                  [R \in {R \in SUBSET Leaves : Cardinality(R) <= k} |->
                      IF R = {} THEN 0 ELSE Unreachable]]

\* One query, answered by every policy.
Access ==
    LET l == LeafAt(t) IN
    /\ t < Length
    /\ t' = t + 1
    /\ lru' = [k \in Caps |-> LruAccess(lru[k], k, l)]
    /\ dlfu' = [g \in Gains |-> [k \in Caps |-> DlfuAccess(dlfu[g][k], g, k, l)]]
    /\ dlfuFast' = [g \in Gains |-> [k \in Caps |-> DlfuKernel(dlfuFast[g][k], g, k, l)]]
    /\ belady' = [k \in Caps |-> BeladyAccess(belady[k], k, l, NextUse(t))]
    /\ beladyFast' = [k \in Caps |-> BeladyKernel(beladyFast[k], k, l, FillNextUse(t))]
    /\ oracle' = [k \in Caps |-> OracleAccess(oracle[k], k, l)]
    /\ fenwick' = FenwickAccess(fenwick, l)
    /\ \E h \in HwDigests(hw) : hw' = HwAnswer(HwPoll(h), l)
    /\ best' = [k \in Caps |-> BestAfter(best[k], k, l)]
    /\ UNCHANGED <<seq, setting>>

Next == Access

Spec == Init /\ [][Next]_vars

\* check_summary of the sweep: Belady against the demand policies, and more
\* capacity against less.
check_summary ==
    \A k \in Caps :
        /\ belady[k].hits >= lru[k].hits
        /\ \A g \in Gains : belady[k].hits >= dlfu[g][k].hits
        /\ \A m \in k .. MaxK : lru[m].hits >= lru[k].hits /\ belady[m].hits >= belady[k].hits

-----------------------------------------------------------------------------
(* Properties.                                                             *)

\* The values of the variables; a cache never holds more than its capacity
\* and what it inserted and did not evict is what it holds (SimResult's
\* counters); at most one digest of the controller is due at a time.
TypeOK ==
    LET Sound(c, k, held) ==
            /\ c.hits \in 0 .. t
            /\ Cardinality(held) <= k
            /\ c.inserts - c.evictions = Cardinality(held)
    IN  /\ seq \in Streams /\ t \in 0 .. Length /\ setting \in HwSettings
        /\ \A k \in Caps :
               /\ Sound(lru[k], k, ToSet(lru[k].resident))
               /\ Sound(belady[k], k, ToSet(belady[k].resident))
               /\ Sound(beladyFast[k], k, ToSet(beladyFast[k].resident))
               /\ Sound(oracle[k], k, oracle[k].resident)
               /\ \A g \in Gains :
                      /\ Sound(dlfu[g][k], k, dlfu[g][k].resident)
                      /\ Sound(dlfuFast[g][k], k, ToSet(dlfuFast[g][k].resident))
        /\ Cardinality(hw.resident) <= setting.k
        /\ \A i \in 2 .. Len(hw.queue) : hw.queue[i].due > t

\* Belady with bypass, which looks only at next uses, ends with as many hits
\* as any cache that starts empty and changes at most one entry per miss; so
\* it bounds the cold demand policies, whatever they evict, and the sweep's
\* check_summary never fails.
BeladyIsOptimal ==
    t = Length =>
        /\ \A k \in Caps : belady[k].hits = Optimum(k)
        /\ check_summary

\* A query hits in LRU of capacity k exactly when its reuse distance, which
\* the Fenwick tree finds without a capacity, is from 0 to k - 1, and
\* simulate_fast gets the inserts and evictions of LRU from the hits alone.
LruHitsByReuseDistance ==
    \A k \in Caps :
        /\ t > 0 => (lru[k].hit <=> t \in FastLru(k).hits)
        /\ lru[k].inserts = FastLru(k).inserts
        /\ lru[k].evictions = FastLru(k).evictions

\* The kernels agree with the reference policies on every hit, insert and
\* eviction, even where Belady's two forms hold different leaves.
KernelsAgree ==
    LET Agree(c, d) ==
            <<c.hit, c.hits, c.inserts, c.evictions>> = <<d.hit, d.hits, d.inserts, d.evictions>>
    IN  \A k \in Caps :
            /\ Agree(belady[k], beladyFast[k])
            /\ \A g \in Gains : Agree(dlfu[g][k], dlfuFast[g][k])

\* More capacity never costs a hit: LRU's residents are among those of LRU
\* with one more place, and so are those residents of Belady's that are used
\* again (leaves never used again may be kept by the smaller cache only).
HitsGrowWithCapacity ==
    \A k \in Caps \ {MaxK} :
        /\ ToSet(lru[k].resident) \subseteq ToSet(lru[k + 1].resident)
        /\ {l \in ToSet(belady[k].resident) : belady[k].next[l] < Never}
              \subseteq ToSet(belady[k + 1].resident)

\* At the end of a window no fixed table of k leaves (StaticTopK) has served
\* more queries than the window oracle.
NoFixedTableBeatsOracle ==
    t = Length \/ t % Window = 0 =>
        \A k \in Caps : \A S \in kSubset(k, Leaves) :
            StaticHits(S) <= oracle[k].hits

\* Without lag, with a poll at every query and the true clock, the policy of
\* the controller answers every query as decayed LFU does.
HwPolicyReducesToIdeal ==
    setting.lag = 0 /\ setting.poll = 1 /\ setting.clock = "query" /\ setting.k > 0 =>
        hw.hit = dlfu[setting.gain][setting.k].hit

\* As long as the leaves seen fit, a query misses only if its leaf's first
\* query is so recent that its digest has not reached the controller.
HwMissesOnlyWithinLag ==
    t > 0 /\ Cardinality({LeafAt(i) : i \in 0 .. t - 1}) <= setting.k =>
        LET first == Min({i \in 0 .. t - 1 : LeafAt(i) = LeafAt(t - 1)})
        IN  hw.hit <=> t - 1 - first >= Max({setting.lag, 1})

=============================================================================
