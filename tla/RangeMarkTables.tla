--------------------------- MODULE RangeMarkTables ---------------------------
(***************************************************************************)
(* The two views of NetBeacon's classifiers in dgrade/netbeacon.py: the    *)
(* exported trees, read line by line, and the shipped tables, evaluated as *)
(* the switch matches them: feature table, range-mark code, model table.   *)
(*                                                                         *)
(* The trees' files and the tables are made by NetBeacon's generator,      *)
(* which is external: DotFile, Marks and ModelEntries are what the code    *)
(* expects of it.  Thresholds are in halves, as between integers.          *)
(***************************************************************************)
EXTENDS Integers, SequencesExt

CONSTANTS
    PktKeys,        \* PKT_FEATURES
    KeyMax,         \* the largest value of a key: 2^w - 1
    EncodeBits,     \* feature -> number of bits of its range-mark field
    Classifiers,    \* class trees: node -> [left, right, f, thr, value]; left = -1 at a leaf
    Boosters,       \* XGBoost trees: the same, value being the leaf's
    Score,          \* margin -> round(sigmoid(margin) * 100)
    Phases,         \* PHASES: 2 ^ 1, 2 ^ 2, ... 2048
    Phase           \* the phase of the class table under study

MarksAssumption ==
    /\ KeyMax \in Nat /\ EncodeBits \in [PktKeys -> Nat] /\ Phase \in Phases
    /\ \A m, n \in DOMAIN Score : m <= n => Score[m] <= Score[n]

VARIABLES
    exported,   \* the class tree that was exported
    booster,    \* the booster of the flow-size predictor
    lines,      \* lines of the .dot file still to be read
    dump,       \* lines of the XGBoost dump still to be read
    raw,        \* its nodes, by their ids
    nodes,      \* node -> [f, thr, value]
    children,   \* node -> targets of its edges
    tables      \* NetBeaconTables, once loaded

marksVars == <<exported, booster, lines, dump, raw, nodes, children, tables>>

-----------------------------------------------------------------------------
(* load_dot_tree.                                                          *)

Leaf(t, n) == t[n].left = -1
Up(t, n) == CHOOSE m \in DOMAIN t : n \in {t[m].left, t[m].right}

\* export_graphviz: nodes in preorder, each with the edge that leads to it.
DotFile(t) ==
    LET Node(n) == [kind |-> "node", id |-> n, to |-> n, split |-> ~ Leaf(t, n),
                    f |-> t[n].f, thr |-> t[n].thr, value |-> t[n].value]
        Entry(n) == IF n = 0 THEN <<Node(n)>>
                    ELSE <<Node(n), [Node(n) EXCEPT !.kind = "edge", !.id = Up(t, n)]>>
    IN FlattenSeq([i \in 1 .. Cardinality(DOMAIN t) |-> Entry(i - 1)])

\* dump_model: the nodes of a level, then those of the next.
DumpFile(t) ==
    [i \in 1 .. Cardinality(DOMAIN t) |->
        IF Leaf(t, i - 1) THEN [id |-> i - 1, split |-> FALSE, value |-> t[i - 1].value]
        ELSE [id |-> i - 1, split |-> TRUE, f |-> t[i - 1].f, thr |-> t[i - 1].thr,
              yes |-> t[i - 1].left, no |-> t[i - 1].right]]

MarksInit ==
    /\ exported \in Classifiers
    /\ booster \in Boosters
    /\ lines = DotFile(exported)
    /\ dump = DumpFile(booster) /\ raw = <<>>
    /\ nodes = <<>>
    /\ children = [n \in DOMAIN exported |-> <<>>]
    /\ tables = <<>>

ReadNode ==
    /\ lines # <<>> /\ Head(lines).kind = "node"
    /\ nodes' = [n \in DOMAIN nodes \cup {Head(lines).id} |->
                    IF n = Head(lines).id THEN Head(lines) ELSE nodes[n]]
    /\ lines' = Tail(lines)
    /\ UNCHANGED <<exported, booster, dump, raw, children, tables>>

\* Slip: the edges of a node are collected in reverse.
Prepended(kids, n) == <<n>> \o kids

WithKid(kids, n) == Append(kids, n)

ReadEdge ==
    /\ lines # <<>> /\ Head(lines).kind = "edge"
    /\ children' = [children EXCEPT ![Head(lines).id] = WithKid(@, Head(lines).to)]
    /\ lines' = Tail(lines)
    /\ UNCHANGED <<exported, booster, dump, raw, nodes, tables>>

LoadRaises ==
    \/ DOMAIN nodes # 0 .. Max(DOMAIN nodes)
    \/ \E n \in DOMAIN nodes : nodes[n].split /\ Len(children[n]) # 2

\* load_xgb_dump, after the .dot files: a line matches as a split or as a leaf.
ReadDumpLine ==
    /\ lines = <<>> /\ dump # <<>>
    /\ raw' = [n \in DOMAIN raw \cup {Head(dump).id} |->
                  IF n = Head(dump).id THEN Head(dump) ELSE raw[n]]
    /\ dump' = Tail(dump)
    /\ UNCHANGED <<exported, booster, lines, nodes, children, tables>>

\* The arrays of the booster: an id that no line named is a leaf of 0.
Booster ==
    [n \in 0 .. Max(DOMAIN raw) |->
        IF n \in DOMAIN raw THEN raw[n] ELSE [id |-> n, split |-> FALSE, value |-> 0]]

-----------------------------------------------------------------------------
(* DotTree and XGBModel.                                                   *)

\* np.argmax: the first index of the largest value, from 0.
Argmax(v) == Min({i \in DOMAIN v : \A j \in DOMAIN v : v[j] <= v[i]}) - 1

\* DotTree.apply: left iff x <= threshold.
DotApply(row) ==
    LET walk[n \in DOMAIN nodes] ==
            IF ~ nodes[n].split THEN n
            ELSE walk[children[n][IF 2 * row[nodes[n].f] <= nodes[n].thr THEN 1 ELSE 2]]
    IN walk[0]

DotPredict(row) == Argmax(nodes[DotApply(row)].value)

\* XGBModel.margin: strict <; the sum over one booster, as shipped.
Margin(row) ==
    LET nd == Booster
        walk[n \in DOMAIN nd] ==
            IF ~ nd[n].split THEN nd[n].value
            ELSE walk[IF 2 * row[nd[n].f] < nd[n].thr THEN nd[n].yes ELSE nd[n].no]
    IN walk[0]

score(row) == Score[Margin(row)]

-----------------------------------------------------------------------------
(* The generator's tables.                                                 *)

\* The first integer to the right of a split.
Edge(thr, strict) == IF strict THEN (thr + 1) \div 2 ELSE thr \div 2 + 1

SplitsOn(t, f) == {n \in DOMAIN t : ~ Leaf(t, n) /\ t[n].f = f}

\* Both trees share the feature tables; bit i of a mark: x >= the i-th edge.
Edges(f) ==
    SetToSortSeq({Edge(exported[n].thr, FALSE) : n \in SplitsOn(exported, f)}
                 \cup {Edge(booster[n].thr, TRUE) : n \in SplitsOn(booster, f)}, <)

\* [edge, end) in ternary form: the largest aligned blocks inside.
InsideBlock(b, lo) == b.base >= lo /\ b.base % b.size = 0 /\ b.base + b.size - 1 <= KeyMax
Blocks(lo) ==
    LET all == {b \in [base : 0 .. KeyMax, size : {2 ^ k : k \in 0 .. 4}] : InsideBlock(b, lo)}
        Within(a, b) == b.base <= a.base /\ a.base + a.size <= b.base + b.size /\ a # b
    IN {a \in all : ~ \E b \in all : Within(a, b)}

\* The entries of a feature table; a narrower range has the lower number.
Marks(f) ==
    UNION {{[block |-> b, priority |-> Len(Edges(f)) - i, mark |-> 1 .. i] : b \in Blocks(Edges(f)[i])} :
           i \in DOMAIN Edges(f)}

\* The splits above a leaf, and whether it lies to their right.
Above(t, leaf) ==
    LET up[n \in DOMAIN t] == IF n = 0 THEN {} ELSE up[Up(t, n)] \cup {<<Up(t, n), n = t[Up(t, n)].right>>}
    IN up[leaf]

\* One model-table entry per leaf: the mark bits it wants set and clear.
ModelEntries(t, strict) ==
    LET Bits(leaf, f, right) ==
            {IndexFirstSubSeq(<<Edge(t[s[1]].thr, strict)>>, Edges(f)) :
                s \in {a \in Above(t, leaf) : a[2] = right /\ t[a[1]].f = f}}
    IN {[ones |-> [f \in PktKeys |-> Bits(leaf, f, TRUE)],
         zeros |-> [f \in PktKeys |-> Bits(leaf, f, FALSE)],
         action |-> t[leaf].value] : leaf \in {n \in DOMAIN t : Leaf(t, n)}}

\* The entries of all phases come in one list; those of the other phases, here
\* one that always matches, must not reach the table of this one.
Shipped(entries, always) ==
    {[phase |-> Phase, entry |-> e] : e \in entries}
    \cup {[phase |-> p, entry |-> always] : p \in Phases \ {Phase}}

AnyKey == [block |-> [base |-> 0, size |-> KeyMax + 1], priority |-> 0, mark |-> {}]
AnyMark(v) == [ones |-> [f \in PktKeys |-> {}], zeros |-> [f \in PktKeys |-> {}], action |-> v]

-----------------------------------------------------------------------------
(* load_tables and the run of the loaders.                                 *)

FeatureEntries(f) == {e.entry : e \in {e \in Shipped(Marks(f), AnyKey) : e.phase = Phase}}

\* Slip: the rows are not filtered by phase.
AllRows(rows) == {r.entry : r \in rows}

ModelRows(rows) == {r.entry : r \in {r \in rows : r.phase = Phase}}

\* A TableModel, restricted to the phase; the flow-size table has none.
TableModel(kind, entries) == [kind |-> kind, entries |-> entries, phase |-> IF kind = "class" THEN Phase ELSE 0]

LoadTables ==
    /\ lines = <<>> /\ dump = <<>> /\ tables = <<>>
    /\ tables' = [feat |-> [f \in PktKeys |-> FeatureEntries(f)],
                  pkt |-> TableModel("class", ModelRows(Shipped(ModelEntries(exported, FALSE), AnyMark(<<1>>)))),
                  flow_size |-> TableModel("flow_size", ModelEntries(booster, TRUE))]
    /\ UNCHANGED <<exported, booster, lines, dump, raw, nodes, children>>

MarksNext == ReadNode \/ ReadEdge \/ ReadDumpLine \/ LoadTables

MarksSpec == MarksInit /\ [][MarksNext]_marksVars

-----------------------------------------------------------------------------
(* FeatureTable and TableModel.                                            *)

FeatureHits(f, x) == {e \in tables.feat[f] : x \div e.block.size = e.block.base \div e.block.size}

\* Slip: the highest $MATCH_PRIORITY wins.
Highest(hits) == {e \in hits : \A o \in hits : o.priority <= e.priority}

Lowest(hits) == {e \in hits : \A o \in hits : e.priority <= o.priority}

\* Equal-priority entries with different marks.
EncodeRaises(f, x) == Cardinality({e.mark : e \in Lowest(FeatureHits(f, x))}) > 1

\* A miss leaves the field at 0; a mark is cut to the width of its field.
Encode(f, x) ==
    IF FeatureHits(f, x) = {} THEN {}
    ELSE (CHOOSE e \in Lowest(FeatureHits(f, x)) : TRUE).mark \cap (1 .. EncodeBits[f])

\* TableModel.match: the entries hit; more than one is ambiguous and raises.
Match(table, row) ==
    LET codes == [f \in PktKeys |-> Encode(f, row[f])]
    IN {e \in table.entries : \A f \in PktKeys : e.ones[f] \subseteq codes[f] /\ e.zeros[f] \cap codes[f] = {}}

\* _keys: a key must fit the field of the packet it is read from.
KeysRaise(row) == \E f \in PktKeys : row[f] \notin 0 .. KeyMax

TableRaises(table, row) ==
    \/ KeysRaise(row)
    \/ \E f \in PktKeys : EncodeRaises(f, row[f])
    \/ Cardinality(Match(table, row)) > 1

Action(table, row) == (CHOOSE e \in Match(table, row) : TRUE).action

\* result_codes: 0 on a miss; the controller adds 50 in the last phase.
ResultCode(row) ==
    IF Match(tables.pkt, row) = {} THEN 0
    ELSE Argmax(Action(tables.pkt, row)) + 1 + (IF tables.pkt.phase = 2048 THEN 50 ELSE 0)

\* TableModels.phase_codes: a phase without entries, 1024, gets 0.
PhaseCode(phase, row) == IF phase \notin Phases THEN 0 ELSE ResultCode(row)

\* TableModels.flow_size: a miss leaves flow_size = 0.
FlowSize(row) == IF Match(tables.flow_size, row) = {} THEN 0 ELSE Score[Action(tables.flow_size, row)]

-----------------------------------------------------------------------------
(* Properties.                                                             *)

Rows == [PktKeys -> 0 .. KeyMax]

\* The fidelity of the tables: once the .dot file is read, every row of
\* integer keys gets from the tables the class of the tree that was read, and
\* of the tree that was exported, and the score of the booster that was dumped;
\* no row misses or is ambiguous, also where both trees split the same feature.
TablesEqualModels ==
    tables # <<>> =>
       /\ ~ LoadRaises
       /\ \A row \in Rows :
             /\ ~ TableRaises(tables.pkt, row) /\ ~ TableRaises(tables.flow_size, row)
             /\ PhaseCode(Phase, row) = DotPredict(row) + 1 + (IF Phase = 2048 THEN 50 ELSE 0)
             /\ FlowSize(row) = score(row)
=============================================================================
