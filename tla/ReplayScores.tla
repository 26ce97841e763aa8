----------------------------- MODULE ReplayScores -----------------------------
(***************************************************************************)
(* experiments/w2_rq1.py: for every seed the models are fitted and chosen  *)
(* on the validation pool, then the replay is scored file by file, which   *)
(* writes the leaf streams that the cache experiments read; and the slices *)
(* of the replay that w5_bmv2.py and w8_prepare.py query.                  *)
(*                                                                         *)
(* What fitting returns is any classifier of a small set: a tree as the    *)
(* leaf of a vector and the class of a leaf.                               *)
(***************************************************************************)
EXTENDS Integers, SequencesExt, FiniteSetsExt

CONSTANTS
    Datasets,       \* sequences of rows [file, ts, label, type, hour, x]; x by feature set
    Draws,          \* sequences of pools, one for each row; "replay" is what is left
    SeedLists,      \* what --seeds may be
    FeatureSets, Depths, Alphas,
    Grids,          \* the kinds of model with a grid, and their number of settings
    Fits,           \* functions from <<kind, setting, weight>> to classifiers
    Int16Max, NSide

ScoresAssumption == "dp" \in FeatureSets /\ Depths # {} /\ {Int16Max, NSide} \subseteq Nat \ {0}

VARIABLES
    keys, draw,     \* the rows; the pools of each seed
    seeds,          \* seeds still to run, the first being under way
    stage,          \* "fit", "replay", "done" or "raised"
    choice,         \* grid_choice
    fitted, records,
    file,           \* the last file replayed
    streams, counts,
    saved           \* by seed: mask, leaf streams and counts

scoreVars == <<keys, draw, seeds, stage, choice, fitted, records, file, streams, counts, saved>>

Seed == Head(seeds)
InPool(p) == {i \in DOMAIN keys : draw[Seed][i] = p}
CW == {"None", "balanced"}

-----------------------------------------------------------------------------
(* metrics.py: counts, and a score as a pair <<numerator, denominator>>.   *)

predict(m, fs, i) == m.klass[m.leaf[keys[i].x[fs]]]

_counts(m, fs, is) ==
    LET n(y, p) == Cardinality({i \in is : keys[i].label = y /\ predict(m, fs, i) = p})
    IN [tp |-> n(1, 1), fp |-> n(0, 1), fn |-> n(1, 0), tn |-> n(0, 0)]

\* F1 from precision and recall; 0/0 is NaN, which nan_to_num makes 0.
ClassF1(tp, fp, fn) ==
    LET p == <<tp, tp + fp>>
        r == <<tp, tp + fn>>
        den == p[1] * r[2] + r[1] * p[2]
    IN IF p[2] = 0 \/ r[2] = 0 \/ den = 0 THEN <<0, 1>> ELSE <<2 * p[1] * r[1], den>>

\* Twice the macro-F1.
macro_f1(c) ==
    LET a == ClassF1(c.tp, c.fp, c.fn)
        b == ClassF1(c.tn, c.fn, c.fp)
    IN <<a[1] * b[2] + b[1] * a[2], a[2] * b[2]>>

AtMost(a, b) == a[1] * b[2] <= b[1] * a[2]

\* max: the first of the best.
BestOf(cands, score(_)) ==
    LET best(i) == \A j \in DOMAIN cands : AtMost(score(cands[j]), score(cands[i]))
    IN cands[Min({i \in DOMAIN cands : best(i)})]

-----------------------------------------------------------------------------
(* run_seed.                                                               *)

ScoresInit ==
    /\ keys \in Datasets /\ seeds \in SeedLists
    /\ draw \in [ToSet(seeds) -> Draws]
    /\ stage = "fit" /\ choice = <<>> /\ fitted = <<>> /\ records = {}
    /\ file = 0 /\ streams = <<>> /\ counts = <<>> /\ saved = <<>>

\* Of the rows with a vector, the label that more of them have.
bayes_ceiling(fs, is) ==
    LET of(v, y) == Cardinality({i \in is : keys[i].x[fs] = v /\ keys[i].label = y})
    IN MapThenSumSet(LAMBDA v : Max({of(v, 0), of(v, 1)}), {keys[i].x[fs] : i \in is})

OnVal(m, fs) == macro_f1(_counts(m, fs, InPool("val")))

BestTree(fit, fs, d) ==
    BestOf(<<fit[<<"DT", d, "None">>], fit[<<"DT", d, "balanced">>]>>, LAMBDA m : OnVal(m, fs))

BestSetting(fit, fs, k) ==
    BestOf([g \in 1 .. Grids[k] |-> g], LAMBDA g : OnVal(fit[<<k, g, "None">>], fs))

\* The rows of record, for the validation and the test pool; both carry the
\* ceiling of the test pool.
record(fs, model, config, m) ==
    {[seed |-> Seed, fs |-> fs, model |-> model, config |-> config, split |-> split,
      counts |-> _counts(m, fs, InPool(split)), ceiling |-> bayes_ceiling(fs, InPool("test"))] :
         split \in {"val", "test"}}

Kinds == DOMAIN Grids

\* Seed 0 searches the grids; for a seed that has no choice to refit the key is
\* missing.
RunSeed ==
    /\ stage = "fit" /\ seeds # <<>>
    /\ \E fit \in Fits :
          LET setting == [fk \in FeatureSets \X Kinds |->
                              IF Seed = 0 THEN BestSetting(fit, fk[1], fk[2]) ELSE choice[fk]]
              trees == {<<fs, "DT", d>> : fs \in {f \in FeatureSets : f = "dp" \/ Seed = 0}, d \in Depths}
              others == {<<fs, k, "best">> : fs \in {f \in FeatureSets : Seed = 0}, k \in Kinds}
          IN IF Seed # 0 /\ choice = <<>> /\ Kinds # {}
             THEN stage' = "raised" /\ UNCHANGED <<choice, fitted, records>>
             ELSE /\ stage' = "replay"
                  /\ choice' = setting
                  /\ fitted' = [k \in trees \cup others |->
                                   IF k[2] = "DT" THEN BestTree(fit, k[1], k[3])
                                   ELSE fit[<<k[2], setting[<<k[1], k[2]>>], "None">>]]
                  /\ records' = records
                        \cup UNION {record(fs, "DT", d, BestTree(fit, fs, d)) : fs \in FeatureSets, d \in Depths}
                        \cup UNION {record(fs, "DT-ccp", a, fit[<<"ccp", a, "None">>]) :
                                       fs \in FeatureSets, a \in {b \in Alphas : Seed = 0}}
                        \cup UNION {record(fs, k, setting[<<fs, k>>], fit[<<k, setting[<<fs, k>>], "None">>]) :
                                       fs \in FeatureSets, k \in Kinds}
    /\ file' = 0 /\ streams' = <<>> /\ counts' = <<>>
    /\ UNCHANGED <<keys, draw, seeds, saved>>

-----------------------------------------------------------------------------
(* run_replay.                                                             *)

replay == InPool("replay")
Files == {keys[i].file : i \in DOMAIN keys}

\* Slip: the rows as the file has them.
ChunkAsRead(f) == SetToSortSeq({i \in replay : keys[i].file = f}, <)

Chunk(f) ==
    SetToSortSeq({i \in replay : keys[i].file = f},
                 LAMBDA i, j : keys[i].ts < keys[j].ts \/ (keys[i].ts = keys[j].ts /\ i < j))

\* The next file: an empty one is skipped, and a leaf too large for the file
\* format raises before anything of it is kept.
ReplayFile ==
    /\ stage = "replay" /\ file < Max(Files)
    /\ file' = Min({f \in Files : f > file})
    /\ LET chunk == Chunk(file')
           trees == {k \in DOMAIN fitted : k[1] = "dp" /\ k[2] = "DT"}
           leaf(k) == [n \in DOMAIN chunk |-> fitted[k].leaf[keys[chunk[n]].x["dp"]]]
           in(h, t) == {i \in ToSet(chunk) : keys[i].hour = h /\ keys[i].type = t}
           cells == {<<keys[i].hour, keys[i].type>> : i \in ToSet(chunk)}
           new == {<<k, c>> : k \in DOMAIN fitted, c \in cells}
           before(kc) == IF kc \in DOMAIN counts THEN counts[kc] ELSE [n |-> 0, attack |-> 0]
           added(kc) == LET is == in(kc[2][1], kc[2][2]) IN
                        [n |-> before(kc).n + Cardinality(is),
                         attack |-> before(kc).attack
                                    + Cardinality({i \in is : predict(fitted[kc[1]], kc[1][1], i) = 1})]
       IN IF chunk = <<>> THEN UNCHANGED <<stage, streams, counts>>
          ELSE IF \E k \in trees : \E n \in DOMAIN chunk : leaf(k)[n] >= Int16Max
          THEN stage' = "raised" /\ UNCHANGED <<streams, counts>>
          ELSE /\ streams' = [d \in {k[3] : k \in trees} |->
                                 (IF d \in DOMAIN streams THEN streams[d] ELSE <<>>) \o leaf(<<"dp", "DT", d>>)]
               /\ counts' = [kc \in DOMAIN counts \cup new |-> IF kc \in new THEN added(kc) ELSE counts[kc]]
               /\ UNCHANGED stage
    /\ UNCHANGED <<keys, draw, seeds, choice, fitted, records, saved>>

SaveReplay ==
    /\ stage = "replay" /\ file = Max(Files)
    /\ saved' = [s \in DOMAIN saved \cup {Seed} |->
                    IF s = Seed THEN [mask |-> replay, streams |-> streams, counts |-> counts, fitted |-> fitted]
                    ELSE saved[s]]
    /\ seeds' = Tail(seeds)
    /\ stage' = IF seeds' = <<>> THEN "done" ELSE "fit"
    /\ UNCHANGED <<keys, draw, choice, fitted, records, file, streams, counts>>

ScoresNext == RunSeed \/ ReplayFile \/ SaveReplay

ScoresSpec == ScoresInit /\ [][ScoresNext]_scoreVars
-----------------------------------------------------------------------------
(* The slices.                                                             *)

\* splits.replay_order, from the saved mask.
Order(s) ==
    SetToSortSeq(saved[s].mask,
        LAMBDA i, j : \/ keys[i].file < keys[j].file
                      \/ keys[i].file = keys[j].file /\ keys[i].ts < keys[j].ts
                      \/ keys[i].file = keys[j].file /\ keys[i].ts = keys[j].ts /\ i < j)

Benign(s) == SelectSeq(Order(s), LAMBDA i : keys[i].label = 0)

\* sub[a : b], a and b counted from 0; a below 0 counts from the end.
Sliced(sub, a, b) ==
    LET from == IF a < 0 THEN Max({Len(sub) + a, 0}) ELSE a
    IN SubSeq(sub, from + 1, Min({b, Len(sub)}))

\* The first flow of the hour that is asked for, if another comes before it.
Boundary(sub, hour) == Min({i \in DOMAIN sub : keys[sub[i]].hour = hour}) - 1
HasBoundary(sub, hour) == \E i \in DOMAIN sub : i > 1 /\ keys[sub[i]].hour = hour /\ keys[sub[1]].hour # hour

\* w5_bmv2 and w8_prepare.
W5Slice(sub, hour) == LET b == Boundary(sub, hour) IN Sliced(sub, Max({0, b - NSide}), b + NSide)
W8Slice(sub, hour) == LET b == Boundary(sub, hour) IN Sliced(sub, b - NSide, b + NSide)

-----------------------------------------------------------------------------
(* Properties.                                                             *)

\* The leaf stream saved for a depth is the leaf, under the tree of that depth,
\* of every replayed row in the order that replay_order gives, so that it can be
\* joined with the keys by position; the counts by hour and type are those of
\* the mask, and its attack verdicts those of the leaves.
StreamsFollowMask ==
    \A s \in DOMAIN saved :
       /\ \A d \in Depths :
             LET m == saved[s].fitted[<<"dp", "DT", d>>]
                 stream == IF d \in DOMAIN saved[s].streams THEN saved[s].streams[d] ELSE <<>>
             IN /\ stream = [n \in DOMAIN Order(s) |-> m.leaf[keys[Order(s)[n]].x["dp"]]]
                /\ Cardinality({n \in DOMAIN stream : m.klass[stream[n]] = 1}) =
                      MapThenSumSet(LAMBDA kc : saved[s].counts[kc].attack,
                                    {kc \in DOMAIN saved[s].counts : kc[1] = <<"dp", "DT", d>>})
       /\ \A kc \in DOMAIN saved[s].counts :
             saved[s].counts[kc].n =
                Cardinality({i \in saved[s].mask : <<keys[i].hour, keys[i].type>> = kc[2]})

\* All seeds refit the settings that seed 0 chose; a tree has one record for a seed, depth and pool, which is the one
\* w3_locality joins on; no model beats the ceiling on the test pool;
\* an F1 that is undefined counts as 0.
RecordsAreComparable ==
    /\ \A r, q \in records : r.model = q.model /\ r.fs = q.fs /\ r.model \in Kinds => r.config = q.config
    /\ \A s \in DOMAIN saved : \A d \in Depths :
          Cardinality({r \in records : r.seed = s /\ r.fs = "dp" /\ r.model = "DT"
                                       /\ r.config = d /\ r.split = "test"}) = 1
    /\ \A r \in records :
          /\ r.split = "test" => r.counts.tp + r.counts.tn <= r.ceiling
          /\ LET f(tp, e) == IF tp = 0 THEN <<0, 1>> ELSE <<2 * tp, 2 * tp + e>>
                 e == r.counts.fp + r.counts.fn
             IN /\ f(r.counts.tp, e)[1] * ClassF1(r.counts.tp, r.counts.fp, r.counts.fn)[2] =
                      f(r.counts.tp, e)[2] * ClassF1(r.counts.tp, r.counts.fp, r.counts.fn)[1]
                /\ AtMost(macro_f1(r.counts), <<2, 1>>)

\* "The W5 slices": with enough flows before the boundary the two scripts query
\* the same flows, the boundary in the middle.
SlicesAgree ==
    \A s \in DOMAIN saved : \A sub \in {Order(s), Benign(s)} : \A h \in {keys[i].hour : i \in DOMAIN keys} :
       HasBoundary(sub, h) /\ Boundary(sub, h) >= NSide =>
          LET w5 == W5Slice(sub, h) IN
          /\ w5 = W8Slice(sub, h)
          /\ keys[w5[NSide + 1]].hour = h /\ \A i \in 1 .. NSide : keys[w5[i]].hour # h

ScoresAreSound == StreamsFollowMask /\ RecordsAreComparable /\ SlicesAgree
=============================================================================
