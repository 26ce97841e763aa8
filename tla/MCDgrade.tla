------------------------------ MODULE MCDgrade ------------------------------
(***************************************************************************)
(* One run for the parts of dgrade that share no state: `running` says     *)
(* which of them a behaviour is about, the variables of the others are 0.  *)
(* A property of a part is checked in the behaviours of that part.         *)
(***************************************************************************)
EXTENDS FlowHash, FlowAccounting, JobGrids

\* Of SlotPlacement.
CONSTANTS Keys, Tuples, Hashes, Streams, Jobs, Hash2Seed

\* Of PhaseGate.
CONSTANTS GateFlows, Layouts, Verdicts, PhaseList, PhaseCodes, FinalCodes, ForceAfter, Hold

VARIABLES
    running,
    exported, booster, lines, dump, raw, nodes, children, tables,           \* RangeMarkTables
    capture, benign, words, mode, drawn, armStage, merged, saved,           \* ArmRuns
    files, cut, step, at, ends, stats, traceStream,                         \* PcapStream
    hash, placePk, job, runner, placeStage, forced, placed, held,           \* SlotPlacement
    slot, pc, reg, gateMemo, pending, inits, events, epoch_events, gateStream,      \* PhaseGate
    report, result, done, early, seriesMemo, perflow, todo, seriesRows,     \* PairedSeries
    reportPk, reference, unread, iso_cache, perm, reportRows, outs,         \* VerdictReports
    archive, foldStage, foldStream, fold, straddle, train, scored, took, slots      \* CrossFit

-----------------------------------------------------------------------------
(* RangeMarkTables: trees of depth 2 over two features of three bits.      *)

MarkLeaf(v) == [left |-> -1, right |-> -1, f |-> 0, thr |-> 0, value |-> v]
MarkSplit(s, l, h, v) == [left |-> l, right |-> h, f |-> s.f, thr |-> s.thr, value |-> v]
MarkSplits == [f : {0, 1}, thr : {1, 5, 8}]

MarkClassifiers ==
    {0 :> MarkLeaf(<<1, 1>>)}
    \cup {0 :> MarkSplit(a, 1, 2, <<2, 2>>) @@ 1 :> MarkLeaf(<<2, 0>>) @@ 2 :> MarkLeaf(<<0, 2>>) : a \in MarkSplits}
    \cup {0 :> MarkSplit(a, 1, 4, <<2, 2>>) @@ 1 :> MarkSplit(b, 2, 3, <<2, 2>>) @@ 2 :> MarkLeaf(<<0, 1>>)
             @@ 3 :> MarkLeaf(<<1, 0>>) @@ 4 :> MarkLeaf(<<1, 1>>) : a, b \in MarkSplits}

MarkBoosters ==
    {0 :> MarkSplit(a, 1, 2, 0) @@ 1 :> MarkLeaf(-1) @@ 2 :> MarkSplit(b, 3, 4, 0) @@ 3 :> MarkLeaf(0) @@ 4 :> MarkLeaf(1) :
         a \in [f : {0}, thr : {5, 4}], b \in [f : {0, 1}, thr : {1, 8}]}

MarkScore == -1 :> 27 @@ 0 :> 50 @@ 1 :> 73

Marks == INSTANCE RangeMarkTables WITH
    KeyMax <- 7, PktKeys <- {0, 1}, Phase <- 2048, Phases <- {512, 2048}, Classifiers <- MarkClassifiers,
    Boosters <- MarkBoosters, Score <- MarkScore, EncodeBits <- [f \in {0, 1} |-> 5]

-----------------------------------------------------------------------------
(* FlowAccounting: two flows of two slots.  ArmRuns: four packets of flow  *)
(* 1 and others around a gap, and generators with collisions.              *)

MCPlaces == [f \in Flows |-> {"a", "b"}]

ArmPkt(t, f) == [ts |-> t, flow |-> f]

ArmCaptures ==
    {<<ArmPkt(1, 0), ArmPkt(2, 1), ArmPkt(2, 2), ArmPkt(s, 1), ArmPkt(7, 0), ArmPkt(11, 3)>> : s \in {1, 5}}
    \cup {<<ArmPkt(1, 0), ArmPkt(4, 1), ArmPkt(2, 2), ArmPkt(12, 1)>>}

ArmWords == {[i \in 1 .. 60 |-> (a * i * i + i) % 7] : a \in {0, 3}}

ArmPairs == INSTANCE ArmRuns WITH
    Captures <- ArmCaptures, Words <- ArmWords, Modes <- {"fill", "preempt", "reactive"}, Holders <- 2, NSlots <- 4,
    Interval <- 1, Ramp <- 4, Rot <- 5, Life <- 9, MaxPackets <- 9, Lead <- 2, Gap <- 3, React <- 2,
    stage <- armStage

-----------------------------------------------------------------------------
(* PcapStream: frames of every length at which the reader decides, with    *)
(* and without a VLAN tag, three to a trace.                               *)

Frame(caplen, vlan, type, ihl5, frag, proto) ==
    [caplen |-> caplen, vlan |-> vlan, type |-> type, ihl5 |-> ihl5, frag |-> frag, proto |-> proto]
Stamped(t, s, frame) == frame @@ [ts |-> t, src |-> s]

Plain == Frame(58, FALSE, "ipv4", TRUE, FALSE, "tcp")
Frames ==
    {Frame(n, v, "ipv4", TRUE, FALSE, p) : n \in {13, 33, 42, 53, 54, 57, 58}, v \in BOOLEAN, p \in {"tcp", "udp"}}
    \cup {Frame(60, FALSE, "ipv4", FALSE, FALSE, "tcp"), Frame(60, TRUE, "ipv4", TRUE, TRUE, "udp"),
           Frame(60, FALSE, "ipv4", TRUE, FALSE, "icmp"), Frame(60, FALSE, "arp", TRUE, FALSE, "udp")}

TraceDays ==
    {<<Stamped(5, 0, Plain), Stamped(t, 1, first), Stamped(u, 2, second)>> :
        t \in {4, 9}, u \in {5, 6, 8}, first, second \in Frames}

TraceCaptures ==
    {<< <<Stamped(3, i, Plain), Stamped(3, j, Plain)>>, <<Stamped(7, k, Plain), Stamped(t, 1, last)>> >> :
        i, k \in 0 .. 3, j \in {0, 3}, t \in {6, 8}, last \in {Plain, Frame(42, FALSE, "ipv4", TRUE, FALSE, "udp")}}

Traces == INSTANCE PcapStream WITH
    Days <- TraceDays, Cuts <- {0, 1, 12, 58, 60}, Seconds <- 2, Captures <- TraceCaptures, AddressSpace <- 2,
    stream <- traceStream

-----------------------------------------------------------------------------
(* SlotPlacement: four packets of three tuples, hashes that meet in a slot *)
(* of 4 or 8 or not at all.                                                *)

HashKinds == {<<"crc", 0>>} \cup {<<"polyirr", s>> : s \in {0, 7919, 900001, 901001, 902001, 903001}}

PlaceHashes ==
    {[k \in HashKinds |-> IF k[1] = "crc" THEN <<9, a, 2>> ELSE <<k[2] % b, k[2] % 7, (k[2] \div 3) % 16>>] :
        a \in {6, 9}, b \in {13, 11}}

PlacePkt(t, ts) == [tuple |-> t, ts |-> ts]
PlaceStreams ==
    {<<PlacePkt(a, 0), PlacePkt(b, 1), PlacePkt(c, 1), PlacePkt(d, 4)>> : a \in 1 .. 2, b, c, d \in 1 .. 3}

PlaceJob(kinds, seeds, defences, rekeys, sizes) ==
    [kind : kinds, seed : seeds, g : {1}, dfn : defences, rekey : rekeys, n : sizes]
PlaceJobs ==
    PlaceJob({"crc"}, {0}, {"und", "d4", "d4c", "d4s"}, {0}, {4, 8})
    \cup PlaceJob({"crc"}, {0}, {"d5"}, {0, 2}, {8})
    \cup PlaceJob({"iso"}, {0}, {"und", "d4"}, {0}, {8})
    \cup PlaceJob({"polyirr"}, {0, 7919, 900001}, {"und", "d4"}, {0}, {8})

Placements == INSTANCE SlotPlacement WITH pk <- placePk, stage <- placeStage

-----------------------------------------------------------------------------
(* PhaseGate: two flows of one slot or of two.                             *)

GateLayouts == {[f \in GateFlows |-> 0], [f \in GateFlows |-> f]}
GateVerdicts == {<<1, 1, 1, 2, 1, 1>>, <<0, 1, 0, 1, 1, 1>>}
GatePhases == <<2, 3, 4>>

Gate == INSTANCE PhaseGate WITH Flows <- GateFlows, memo <- gateMemo, stream <- gateStream

-----------------------------------------------------------------------------
(* PairedSeries: two draws of one load.  VerdictReports: three packets,    *)
(* seven result files.                                                     *)

SeriesRuns == [f : {0, 10}, arm : {"", "d4", "d5"}, g : 1 .. 2]
SeriesOutcomes ==
    {[k \in SeriesRuns |->
        [flag |-> {w \in {1, 2} : (k.f + k.g + w + (IF k.arm = "" THEN a ELSE 2)) % 3 # 0},
         first |-> [w \in {1, 2} |-> IF (w + k.g) % 2 = 0 THEN 3 ELSE 1]]] : a \in {0, 1}}

Series == INSTANCE PairedSeries WITH
    Clocks <- 2, Arms <- <<"d4", "d5">>, Loads <- <<10>>, KeepFlows <- {10}, Flows <- {1, 2},
    Outcomes <- SeriesOutcomes, MaxLate <- 2,
    memo <- seriesMemo, rows <- seriesRows

ReportPkt(f, t, s) == [flow |-> f, truth |-> t, sec |-> s]
ReportStreams ==
    {<<ReportPkt(1, 0, 0), ReportPkt(2, 1, 0), ReportPkt(f, f - 1, 1)>> : f \in {1, 2}}
ReportReferences == {<<0, 2, 1>>, <<1, 0, 51>>, <<2, 51, 1>>}
ReportRuns ==
    [result : {<<0, 2, 1>>, <<1, 52, 1>>}, flag : {{1}, {2}}] \cup {[result |-> <<1, 0, 51>>, flag |-> {}]}

ReportFile(k, s, g, d) == [kind |-> k, seed |-> s, grid |-> g, defence |-> d]
ReportFiles ==
    <<ReportFile("iso", -1, 0, ""), ReportFile("iso", -1, 1, ""), ReportFile("crc", -1, 0, ""),
      ReportFile("crc", -1, 1, "d1"), ReportFile("poly", 0, 0, ""), ReportFile("poly", 1, 0, ""),
      ReportFile("poly", 1, 1, "")>>

Reports == INSTANCE VerdictReports WITH
    PacketStreams <- ReportStreams, References <- ReportReferences, Runs <- ReportRuns, RunFiles <- ReportFiles,
    NClass <- 2, Keyed <- {"poly"},
    pk <- reportPk, rows <- reportRows

-----------------------------------------------------------------------------
(* CrossFit: three or four captures of two classes.                        *)

FoldCapture(c, g, pk) == [cls |-> c, grp |-> g, pk |-> pk]
FoldPkt(x, t) == [addr |-> x, ts |-> t]
FoldPkts ==
    {<<FoldPkt(0, a), FoldPkt(1, b), FoldPkt(2, c), FoldPkt(d, e)>> :
        a \in 0 .. 1, b \in 1 .. 2, c \in {2, 3}, d \in 0 .. 2, e \in 3 .. 4}

FoldArchives ==
    {<<FoldCapture(0, 1, <<FoldPkt(0, 5), FoldPkt(0, 7)>>), FoldCapture(0, 2, <<FoldPkt(0, 3)>>), FoldCapture(1, 3, p)>> :
        p \in FoldPkts}
    \cup {<<FoldCapture(1, 3, p), FoldCapture(0, 1, <<FoldPkt(1, 2), FoldPkt(0, 2)>>),
             FoldCapture(0, 2, <<FoldPkt(3, 3), FoldPkt(3, 6)>>), FoldCapture(0, 4, <<FoldPkt(3, 3)>>)>> : p \in FoldPkts}

Halves == INSTANCE CrossFit WITH
    Archives <- FoldArchives, Block <- 4, Step <- 1, MinSlots <- 2, MaxSlots <- 8, Percent <- 30,
    stage <- foldStage, stream <- foldStream

ASSUME PlacementsFit == Placements!PlacementAssumption

ASSUME Marks!MarksAssumption /\ ArmPairs!ArmAssumption
ASSUME Gate!GateAssumption /\ Series!SeriesAssumption /\ Reports!ReportAssumption /\ Halves!CrossAssumption

-----------------------------------------------------------------------------
(* The behaviours.                                                         *)

HashOff == width = 0 /\ r = 0 /\ accepted = 0 /\ msgs = 0
MarksOff ==
    /\ exported = 0 /\ booster = 0 /\ lines = 0 /\ dump = 0
    /\ raw = 0 /\ nodes = 0 /\ children = 0 /\ tables = 0
AccountsOff == holder = 0 /\ known = 0 /\ packet = 0 /\ log = 0
ArmPairsOff ==
    /\ capture = 0 /\ benign = 0 /\ words = 0 /\ mode = 0
    /\ drawn = 0 /\ armStage = 0 /\ merged = 0 /\ saved = 0
GridsOff == have = 0 /\ ran = 0 /\ failed = 0
TracesOff == files = 0 /\ cut = 0 /\ step = 0 /\ at = 0 /\ ends = 0 /\ stats = 0 /\ traceStream = 0
PlacementsOff ==
    /\ hash = 0 /\ placePk = 0 /\ job = 0 /\ runner = 0
    /\ placeStage = 0 /\ forced = 0 /\ placed = 0 /\ held = 0
GateOff ==
    /\ slot = 0 /\ pc = 0 /\ reg = 0 /\ gateMemo = 0
    /\ pending = 0 /\ inits = 0 /\ events = 0 /\ epoch_events = 0 /\ gateStream = 0
SeriesOff ==
    /\ report = 0 /\ result = 0 /\ done = 0 /\ early = 0
    /\ seriesMemo = 0 /\ perflow = 0 /\ todo = 0 /\ seriesRows = 0
ReportsOff ==
    /\ reportPk = 0 /\ reference = 0 /\ unread = 0 /\ iso_cache = 0
    /\ perm = 0 /\ reportRows = 0 /\ outs = 0
HalvesOff ==
    /\ archive = 0 /\ foldStage = 0 /\ foldStream = 0 /\ fold = 0 /\ straddle = 0
    /\ train = 0 /\ scored = 0 /\ took = 0 /\ slots = 0

DgradeInit ==
    /\ running \in {"hash", "marks", "accounts", "arms", "grids", "pcap",
                     "placement", "gate", "series", "reports", "folds"}
    /\ IF running = "hash" THEN HashInit ELSE HashOff
    /\ IF running = "marks" THEN Marks!MarksInit ELSE MarksOff
    /\ IF running = "accounts" THEN AccountInit ELSE AccountsOff
    /\ IF running = "arms" THEN ArmPairs!ArmInit ELSE ArmPairsOff
    /\ IF running = "grids" THEN GridInit ELSE GridsOff
    /\ IF running = "pcap" THEN Traces!PcapInit ELSE TracesOff
    /\ IF running = "placement" THEN Placements!PlaceInit ELSE PlacementsOff
    /\ IF running = "gate" THEN Gate!GateInit ELSE GateOff
    /\ IF running = "series" THEN Series!SeriesInit ELSE SeriesOff
    /\ IF running = "reports" THEN Reports!ReportInit ELSE ReportsOff
    /\ IF running = "folds" THEN Halves!CrossInit ELSE HalvesOff

\* The variables of the parts that are instances.
MarksState == <<exported, booster, lines, dump, raw, nodes, children, tables>>
ArmPairsState == <<capture, benign, words, mode, drawn, armStage, merged, saved>>
TracesState == <<files, cut, step, at, ends, stats, traceStream>>
PlacementsState == <<hash, placePk, job, runner, placeStage, forced, placed, held>>
GateState == <<slot, pc, reg, gateMemo, pending, inits, events, epoch_events, gateStream>>
SeriesState == <<report, result, done, early, seriesMemo, perflow, todo, seriesRows>>
ReportsState == <<reportPk, reference, unread, iso_cache, perm, reportRows, outs>>
HalvesState == <<archive, foldStage, foldStream, fold, straddle, train, scored, took, slots>>

FirstParts == <<hashVars, MarksState, accountVars, ArmPairsState, gridVars, TracesState>>
LastParts == <<PlacementsState, GateState, SeriesState, ReportsState, HalvesState>>

DgradeNext ==
    \/ /\ running = "hash" /\ HashNext
       /\ UNCHANGED <<running, MarksState, accountVars, ArmPairsState, gridVars, TracesState, LastParts>>
    \/ /\ running = "marks" /\ Marks!MarksNext
       /\ UNCHANGED <<running, hashVars, accountVars, ArmPairsState, gridVars, TracesState, LastParts>>
    \/ /\ running = "accounts" /\ AccountNext
       /\ UNCHANGED <<running, hashVars, MarksState, ArmPairsState, gridVars, TracesState, LastParts>>
    \/ /\ running = "arms" /\ ArmPairs!ArmNext
       /\ UNCHANGED <<running, hashVars, MarksState, accountVars, gridVars, TracesState, LastParts>>
    \/ /\ running = "grids" /\ \E kind \in DOMAIN Lists : RunList(kind)
       /\ UNCHANGED <<running, hashVars, MarksState, accountVars, ArmPairsState, TracesState, LastParts>>
    \/ /\ running = "pcap" /\ Traces!PcapNext
       /\ UNCHANGED <<running, hashVars, MarksState, accountVars, ArmPairsState, gridVars, LastParts>>
    \/ /\ running = "placement" /\ Placements!PlaceNext
       /\ UNCHANGED <<running, FirstParts, GateState, SeriesState, ReportsState, HalvesState>>
    \/ /\ running = "gate" /\ Gate!GateNext
       /\ UNCHANGED <<running, FirstParts, PlacementsState, SeriesState, ReportsState, HalvesState>>
    \/ /\ running = "series" /\ Series!SeriesNext
       /\ UNCHANGED <<running, FirstParts, PlacementsState, GateState, ReportsState, HalvesState>>
    \/ /\ running = "reports" /\ Reports!ReportNext
       /\ UNCHANGED <<running, FirstParts, PlacementsState, GateState, SeriesState, HalvesState>>
    \/ /\ running = "folds" /\ Halves!CrossNext
       /\ UNCHANGED <<running, FirstParts, PlacementsState, GateState, SeriesState, ReportsState>>

DgradeVars == <<running, FirstParts, LastParts>>

DgradeSpec == DgradeInit /\ [][DgradeNext]_DgradeVars

-----------------------------------------------------------------------------
(* Properties.                                                             *)

\* Trees that went through text files and range-mark tables answer as the trees
\* do, for every packet and every leaf (RangeMarkTables).
TablesEqualModels ==
    running = "marks" => Marks!TablesEqualModels

\* The memo, flow_ids and the hash tables mean the same packets by a flow
\* (FlowKeys).
FlowsHaveOneKey ==
    running = "hash" => KeysAgree

\* The random hash functions are what their names say: irreducible, salted
\* without effect on collisions, folded to no finer key (FlowHash).
HashesAreSound ==
    running = "hash" => AcceptedIffIrreducible /\ SaltChangesNoCollision /\ FoldCoarsensTuple

\* The definitions of a downgraded flow agree, and a downgraded flow met another
\* in its slot (FlowAccounting).
AccountsAgree ==
    running = "accounts" => DefinitionsAgree /\ DowngradedByContention

\* A verdict that was deferred comes back as the switch would have given it, and
\* the reports score it against the isolated run of its own clock (PhaseGate,
\* VerdictReports).
VerdictsReachReports ==
    /\ running = "gate" => Gate!ResolveEqualsSwitch /\ Gate!GateReadsEvents
    /\ running = "reports" =>
          /\ Reports!RowsUseOwnReference /\ Reports!BlocksAddUp /\ Reports!OnlyVerdictsScore
          /\ Reports!ArmsOverlapInOneRun /\ Reports!FullAgreementChangesNothing /\ Reports!ComparedAtOneClock

\* Runs that are compared differ in the arm alone: in their packets and holders,
\* and in the draws of which differences are taken (ArmRuns, PairedSeries).
ArmsArePaired ==
    /\ running = "arms" =>
          /\ ArmPairs!OutcomesReturn /\ ArmPairs!FirstRotationIsPaired
          /\ ArmPairs!LoadIsHeld /\ ArmPairs!HoldersComeInTime
    /\ running = "series" => Series!ArmsArePaired /\ Series!PositionsArePaired /\ Series!ExcessIsSplit

\* Every list of jobs makes the runs that its comparisons need, and the runners
\* put the packets of a job into the slots of the emulator (JobGrids,
\* SlotPlacement).
JobsArePaired ==
    /\ running = "grids" => RowsAreComplete /\ RowsArePaired /\ RunnersAreAccepted
    /\ running = "placement" => Placements!PlacementsAgree

\* Packets stay with their capture, flow and fold from the file to the score
\* (PcapStream, CrossFit).
CapturesStayApart ==
    /\ running = "pcap" => Traces!ReadsOwnBytes /\ Traces!SliceCoversWindow /\ Traces!CapturesStayApart
    /\ running = "folds" => Halves!CrossFitIsSound
=============================================================================
