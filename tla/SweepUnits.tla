------------------------------ MODULE SweepUnits ------------------------------
(***************************************************************************)
(* One unit of mvm's sweeps over a replay: the locality metrics of every   *)
(* ordering and stream (experiments/w3_locality.py), the static table and  *)
(* the hourly oracle (w4_cache.py) with the hourly series, and the         *)
(* recovery after a change of attack (w4_recovery.py).                     *)
(*                                                                         *)
(* Rates are kept as counts.  A policy's hits, of which recovery is        *)
(* measured, are any sequence: which policy they come from does not matter *)
(* to it.  The entropy H_norm is left out.                                 *)
(***************************************************************************)
EXTENDS Integers, SequencesExt, FiniteSetsExt

CONSTANTS
    Replays,        \* sequences of flows [leaf, type, hour, ts, end]; type 0 is benign
    PhaseReplays,   \* the replays that w4_recovery reads
    HoursPerDay,
    KS,             \* the capacities
    Bin, Horizon,   \* BIN and HORIZON
    MinShare        \* an attack type counts on a day when it is 1/MinShare of it

SweepAssumption ==
    /\ KS \subseteq Nat \ {0} /\ {HoursPerDay, Bin, MinShare} \subseteq Nat \ {0}
    /\ Horizon \in Nat /\ Horizon > Bin /\ Horizon % Bin = 0

VARIABLES
    flows,          \* the replay
    ordering,       \* of w3's run_unit; "cache" and "recovery" are the other scripts
    perm,           \* its permutation of the flows
    todo,           \* streams of this ordering still to be measured
    rows,           \* the part of w3
    summary,        \* the summary of w4, with the hourly series
    recovery        \* the rows of w4_recovery

sweepVars == <<flows, ordering, perm, todo, rows, summary, recovery>>

-----------------------------------------------------------------------------
(* Streams and their leaves.                                               *)

Day(flow) == flow.hour \div HoursPerDay

In(stream, flow) ==
    CASE stream.kind = "full" -> TRUE
      [] stream.kind = "benign" -> flow.type = 0
      [] stream.kind = "day" -> Day(flow) = stream.of
      [] stream.kind = "type" -> flow.type = stream.of

TwoStreams == {[kind |-> "full", of |-> 0], [kind |-> "benign", of |-> 0]}

\* Per-type streams only in file order.
StreamsOf(o) ==
    TwoStreams
    \cup {[kind |-> "day", of |-> Day(flow)] : flow \in ToSet(flows)}
    \cup {[kind |-> "type", of |-> flow.type] : flow \in {g \in ToSet(flows) : o = "file"}}

Ordered(p, stream) ==
    LET all == [i \in DOMAIN p |-> flows[p[i]]]
    IN SelectSeq(all, LAMBDA flow : In(stream, flow))

LeavesOf(s) == [i \in DOMAIN s |-> s[i].leaf]

-----------------------------------------------------------------------------
(* locality.py.                                                            *)

Times(leaf, l) == Cardinality({i \in DOMAIN leaf : leaf[i] = l})

\* np.lexsort((ids, -counts))
Rank(leaf, l) ==
    Cardinality({m \in ToSet(leaf) : Times(leaf, m) > Times(leaf, l)
                                     \/ (Times(leaf, m) = Times(leaf, l) /\ m < l)})

Top(leaf, k) == {l \in ToSet(leaf) : Rank(leaf, l) < k}

coverage(leaf, k) == Cardinality({i \in DOMAIN leaf : leaf[i] \in Top(leaf, k)})

\* W_q, q in hundredths.
working_set(leaf, q) ==
    Min({k \in 1 .. Len(leaf) : 100 * coverage(leaf, k) >= q * Len(leaf)})

reuse_distance(leaf, i) ==
    LET before == {j \in 1 .. i - 1 : leaf[j] = leaf[i]}
    IN IF before = {} THEN -1 ELSE Cardinality({leaf[j] : j \in Max(before) + 1 .. i - 1})

LruHits(leaf) ==
    LET rd == [i \in DOMAIN leaf |-> reuse_distance(leaf, i)]
    IN [k \in KS |-> Cardinality({i \in DOMAIN leaf : rd[i] \in 0 .. k - 1})]

-----------------------------------------------------------------------------
(* w3: the rows of a part.                                                 *)

SweepInit ==
    /\ \/ ordering \in {"file", "cache"} /\ flows \in Replays
       \/ ordering = "recovery" /\ flows \in PhaseReplays
    /\ perm = [i \in DOMAIN flows |-> i]
    /\ todo = IF ordering = "file" THEN StreamsOf("file") ELSE TwoStreams
    /\ rows = {} /\ summary = {} /\ recovery = {}

stream_metrics(leaf) ==
    [visited |-> Cardinality(ToSet(leaf)),
     W90 |-> working_set(leaf, 90), W99 |-> working_set(leaf, 99),
     C |-> [k \in KS |-> coverage(leaf, k)],
     cold |-> Cardinality({i \in DOMAIN leaf : reuse_distance(leaf, i) = -1}),
     lru |-> LruHits(leaf)]

\* A row; an empty stream has no metrics.
StreamRow ==
    /\ ordering \notin {"cache", "recovery"} /\ todo # {}
    /\ LET stream == CHOOSE x \in todo : TRUE
           leaf == LeavesOf(Ordered(perm, stream))
       IN /\ todo' = todo \ {stream}
          /\ rows' = rows \cup
                {[ordering |-> ordering, stream |-> stream, n |-> Len(leaf),
                  metrics |-> IF leaf = <<>> THEN {} ELSE {stream_metrics(leaf)}]}
    /\ UNCHANGED <<flows, ordering, perm, summary, recovery>>

SecondsInOrder(p) == \A i, j \in DOMAIN p : i < j => flows[p[i]].ts <= flows[p[j]].ts

EndsInOrder(p) ==
    \A i, j \in DOMAIN p : i < j =>
        \/ flows[p[i]].end < flows[p[j]].end
        \/ flows[p[i]].end = flows[p[j]].end /\ p[i] < p[j]

Follows(o) == CASE o = "file" -> "shuffle_within_second" [] o = "shuffle_within_second" -> "flow_end"

\* The random order keeps the seconds; the order by end is stable.
NextOrdering ==
    /\ ordering \in {"file", "shuffle_within_second"} /\ todo = {}
    /\ ordering' = Follows(ordering)
    /\ \E p \in SetToSeqs(DOMAIN flows) :
          /\ IF ordering' = "flow_end" THEN EndsInOrder(p) ELSE SecondsInOrder(p)
          /\ perm' = p
    /\ todo' = StreamsOf(ordering')
    /\ UNCHANGED <<flows, rows, summary, recovery>>

\* check_part: a row of NaNs fails, so a replay without benign flows does.
check_part ==
    /\ \A r \in rows : \E x \in r.metrics :
          \A k \in KS : x.lru[k] \in 0 .. r.n /\ \A m \in KS : k <= m => x.lru[k] <= x.lru[m]
    /\ \A r \in {q \in rows : q.ordering = "file"} : \A x \in r.metrics :
          /\ \A k \in KS : x.C[k] \in 0 .. r.n /\ \A m \in KS : k <= m => x.C[k] <= x.C[m]
          /\ x.W90 <= x.visited /\ x.W90 <= x.W99

-----------------------------------------------------------------------------
(* w4: the tables that are fixed, for the stream or for an hour.           *)

WarmUp(s) == {i \in DOMAIN s : s[i].hour = s[1].hour}

static_warm(s, k) ==
    LET top == Top(LeavesOf(SelectSeq(s, LAMBDA flow : flow.hour = s[1].hour)), k)
    IN [hits |-> {i \in DOMAIN s : s[i].leaf \in top} \ WarmUp(s),
        inserts |-> Cardinality(top), evictions |-> 0, table |-> top]

\* The positions where an hour begins, and the one after the last.
Bounds(s) == {i \in DOMAIN s : i = 1 \/ s[i].hour # s[i - 1].hour} \cup {Len(s) + 1}

HourFrom(s, a) == LET b == Min({c \in Bounds(s) : c > a}) IN SubSeq(LeavesOf(s), a, b - 1)

\* Each hour's own top k, preloaded.
window_oracle(s, k) ==
    LET starts == Bounds(s) \ {Len(s) + 1}
        top == [a \in starts |-> Top(HourFrom(s, a), k)]
        prev == [a \in starts |-> IF a = 1 THEN {} ELSE top[Max({c \in starts : c < a})]]
    IN [hits |-> {i \in DOMAIN s : s[i].leaf \in top[Max({a \in starts : a <= i})]},
        inserts |-> MapThenSumSet(LAMBDA a : Cardinality(top[a] \ prev[a]), starts),
        evictions |-> MapThenSumSet(LAMBDA a : Cardinality(prev[a] \ top[a]), starts),
        table |-> top[Max(starts)]]

Hourly(s, hits) ==
    [h \in {flow.hour : flow \in ToSet(s)} |-> Cardinality({i \in hits : s[i].hour = h})]

SummaryRow(stream, policy, k, r) ==
    LET s == Ordered(perm, stream) IN
    [stream |-> stream, policy |-> policy, K |-> k, n |-> Len(s), result |-> r,
     hourly |-> Hourly(s, r.hits)]

\* static_warm reads the first hour: an empty stream raises.
PolicyRows ==
    /\ ordering = "cache" /\ todo # {}
    /\ LET stream == CHOOSE x \in todo : TRUE
           s == Ordered(perm, stream)
       IN /\ s # <<>>
          /\ todo' = todo \ {stream}
          /\ summary' = summary
                \cup {SummaryRow(stream, "static_warm", k, static_warm(s, k)) : k \in KS}
                \cup {SummaryRow(stream, "window_oracle_hour", k, window_oracle(s, k)) : k \in KS}
    /\ UNCHANGED <<flows, ordering, perm, rows, recovery>>

-----------------------------------------------------------------------------
(* w4_recovery.                                                            *)

Days == {Day(flow) : flow \in ToSet(flows)}

\* The attack types of a day; benign flows are one more type.
TypesOn(d) ==
    LET day == SelectSeq(flows, LAMBDA flow : Day(flow) = d)
        types == [i \in DOMAIN day |-> day[i].type]
    IN {x \in ToSet(types) : MinShare * Times(types, x) >= Len(day)}

phase_days == {d \in Days : \E p \in Days : p = Max({c \in Days : c < d} \cup {-1}) /\ TypesOn(p) # TypesOn(d)}

DayStarts(s) == {i \in DOMAIN s : i = 1 \/ Day(s[i]) # Day(s[i - 1])}
DayEnd(s, a) == Min({c \in DayStarts(s) \cup {Len(s) + 1} : c > a})

Misses(hits, a, b) == Cardinality({i \in a .. b - 1 : ~ hits[i]})

\* Slip: any day is long enough.
AnyLength(len) == TRUE

LongEnough(len) == len >= 2 * Horizon

\* Bin n has at most 3/2 of the misses of the steady part, or 2 of 1000 more.
Recovered(hits, a, b, n) ==
    LET steady == Misses(hits, a + Horizon, b)
        len == b - a - Horizon
        bin == Misses(hits, a + n * Bin, a + (n + 1) * Bin)
    IN 2 * bin * len <= 3 * steady * Bin \/ 1000 * bin * len <= (1000 * steady + 2 * len) * Bin

RecoveryRow(s, hits, a) ==
    LET b == DayEnd(s, a)
        bins == 0 .. (b - a) \div Bin - 1
    IN [day |-> Day(s[a]), start |-> a, len |-> b - a,
        to_recover |-> {n * Bin : n \in {m \in bins : Recovered(hits, a, b, m)}}]

Counted(s) ==
    {a \in DayStarts(s) : a # 1 /\ Day(s[a]) \in phase_days /\ LongEnough(DayEnd(s, a) - a)}

RecoveryRows ==
    /\ ordering = "recovery" /\ todo # {}
    /\ LET stream == CHOOSE x \in todo : TRUE
           s == Ordered(perm, stream)
       IN /\ todo' = todo \ {stream}
          /\ \E hits \in [DOMAIN s -> BOOLEAN] :
                recovery' = recovery \cup {RecoveryRow(s, hits, a) : a \in Counted(s)}
    /\ UNCHANGED <<flows, ordering, perm, rows, summary>>

SweepNext == StreamRow \/ NextOrdering \/ PolicyRows \/ RecoveryRows

SweepSpec == SweepInit /\ [][SweepNext]_sweepVars
-----------------------------------------------------------------------------
(* Properties.                                                             *)

\* A part of w3 fails its own check only for a replay without benign flows; and
\* what it measures in file order only, because it is said not to depend on the
\* order, is the same in the others.  The days share out the full stream.
PartsPassTheirCheck ==
    /\ todo = {} /\ (\E i \in DOMAIN flows : flows[i].type = 0) => check_part
    /\ \A r, q \in rows : r.stream = q.stream =>
          \A x \in r.metrics, y \in q.metrics :
             <<x.visited, x.W90, x.W99, x.C, x.cold>> = <<y.visited, y.W90, y.W99, y.C, y.cold>>
    /\ ordering \notin {"cache", "recovery"} /\ todo = {} =>
          Len(flows) = MapThenSumSet(LAMBDA r : r.n,
                           {r \in rows : r.stream.kind = "day" /\ r.ordering = ordering})

\* In every hour the oracle of that hour serves at least as many flows as the
\* table of the warm-up hour, which serves none of that hour; the hours of the
\* series add up to the row, and what was inserted and not evicted is held.
OracleHours ==
    \A r \in summary :
       /\ Cardinality(r.result.hits) = MapThenSumSet(LAMBDA h : r.hourly[h], DOMAIN r.hourly)
       /\ r.result.inserts - r.result.evictions = Cardinality(r.result.table)
       /\ r.policy = "static_warm" =>
             /\ r.hourly[Ordered(perm, r.stream)[1].hour] = 0
             /\ \E q \in summary :
                   /\ q.stream = r.stream /\ q.K = r.K /\ q.policy = "window_oracle_hour"
                   /\ \A h \in DOMAIN r.hourly : r.hourly[h] <= q.hourly[h]

\* Whatever the policy's hits, a phase that is long enough to be counted has a
\* bin that counts as recovered: flows_to_recover is never missing.
RecoveryIsFound == \A r \in recovery : r.to_recover # {}

SweepsAreSound == PartsPassTheirCheck /\ OracleHours /\ RecoveryIsFound
=============================================================================
