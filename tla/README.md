# Verification of MVM-Lite and the NetBeacon emulator

TLA+ models of the stateful core of this repository, model-checked with TLC on
small instances and, where stated, proved with TLAPS for every value of the
constants. The sections are: 1 the system, 2 the modules, 3 the runs, 4 fairness,
5 proofs, 6 what the code does not do as it is said to, 7 what is left to do, 8
what is not modelled.

## 1. The system

The repository holds two projects about decision trees in programmable
switches. All parts, also those left out, are listed under "components" in
`PROJECT.json`.

### 1.1 MVM-Lite: a tree whose hot leaves are paged into the switch

A host (Vision) asks queries. The switch answers those whose leaf is in its
table and passes the others to a server (Hulk) that walks the whole tree. A
controller moves leaves in and out of the table. Around this testbed are the
offline experiments: splits and models, cache policies replayed on streams of
leaves, a prototype on BMv2.

| Part | State | Operations | What makes it correct |
|---|---|---|---|
| Client, `hw/vision_client.c` | which queries were sent, one record per query, the receiver's patience | send, receive, give up after 2 s | a query is recorded at most once, with the tree's answer |
| Switch, `hw/build/mvm_tna.p4` | `leaf_tbl`, a direct counter per entry, digests under way | hit (answer, count, reflect), miss (to Hulk, digest), forward Hulk's replies | an entry answers as the tree does |
| Backend, `hw/hulk_backend.c` | frames of one batch | classify and send back | every reply belongs to its frame |
| Controller, `hw/controller.py`, main thread | `DecayedLFU` (resident, score, last), `t_now`, `keys_of`, `last_count`, `stop` | clear the table, serve a digest (`miss`, `entry_del`, `entry_add`), stop | at most K entries; table, policy and keys agree; no call fails |
| Controller, poller thread | the round in progress | snapshot, list keys, read counters, credit | every hit is credited, none twice |
| Controller, `setup`, and `hw/redeploy_switch.sh` | ports, code tables, `model.json` on the switch's host | copy, compile, relaunch, fill the tables call by call | the tables in use are those of one model |
| Table encoding, `src/mvm/tofino_encode.py`, `leaves.py`, `p4encode.py` | - | float32 keys, boundaries, thermometer codes, boxes, ranges | every encoding finds the leaf that `tree.apply` finds |
| Scripts, `hw/run_experiment.sh`, `hw/run_campaign.sh` | - | start controller, backend, client in this order; kill | a new controller copes with what the last one left |
| Cache policies, `src/mvm/cache.py`, `src/mvm/locality.py` | residents and scores of each policy | `access` per query, fast kernels, `simulate_hw_policy`, `reuse_distance` | Belady bounds the others; kernels agree with references |
| BMv2 replay, `src/mvm/p4rt.py`, `experiments/w5_bmv2.py` | the prototype's cache and table, streams of messages | packet-out, packet-in with a time-out, deletes, inserts, a write benchmark | a hit of the prototype is a hit of the simulator |
| Splits and codes, `src/mvm/splits.py`, `features.py` | the pool of each row, category maps | masks, yield a file, fit | nothing that is replayed was trained on |
| Sweeps and scores, `experiments/w2_rq1.py`, `w3_*`, `w4_*`, `overnight.sh` | parts on disk, streams, records | run a unit, retry, resume, merge; fit, score, slice | parts are whole; streams follow their mask |

Interactions: frames in order on each link (client - switch - backend), digests
(switch to controller), BF-RT calls (controller to switch), a lock and shared
dictionaries (the controller's two threads), signals (scripts to controller),
files (experiments to each other).

What is hard: the poller reads keys and counters without the lock while the
main thread evicts and installs; `entry_del` and `entry_add` are two calls with
traffic in between; the controller may be killed between them and restarted
over a populated table; `setup` may be killed half-way, or run beside entries of
another model; frames and digests get lost; several packets of one leaf miss
before its entry exists; a float64 threshold lies between two float32 keys.

### 1.2 dgrade: per-flow slots of a switch

`src/dgrade/netbeacon_sim.py` replays a packet stream against a register table
as the P4 program would: a packet works on the slot its flow hashes to (or, with
`two_way`, on one of two), takes the slot over, is refused, or refreshes it; at
given packet counts a tree renews the flow's verdict; after the last phase the
verdict is *determined* and reaches a bounded memo in the controller by digest.
`netbeacon_tofino.py` emulates the compiled program, in which a takeover is
finished by a recirculated copy of the packet. The scripts build streams, run
arms of experiments on them, and turn results into reports.

| Part | State | Operations | What makes it correct |
|---|---|---|---|
| Slots | `r_hash`, `r_res`, `r_lastc`, `claimed`, `r_t0`, `r_v`, `r_pk` per slot; the clock | arrival, refusal, takeover, refresh, phase, last phase | a flow has one slot and loses it only for a reason; a verdict is determined by its own flow's last phase |
| Memo | entries oldest first, digests in flight | insert, drop the oldest ten, answer | a determined flow's verdict does not change |
| Rent admission | grace, credit, count | pay, evict | who pays stays, who refuses others has paid |
| Compiled program's emulator, `netbeacon_tofino.py` | the above, claims in flight and their list by slot | init, claim, landing, phase claims | without delay it is the emulator above; races leave no slot with mixed state |
| Keys and hashes, `tuple_key`, `flow_ids`, `hashing` | - | hash, salt, fold, find a polynomial | one notion of a flow |
| Placement, runners and targeted holders | forced slots | derive, force, probe | a runner forces what the emulator derives |
| Phase gate, `_evaluate_events`, `g5_gate.py` | events deferred to the end of the replay | note, resolve | a deferred verdict is the switch's |
| Trees and tables, `netbeacon.py` | nodes read so far, tables | parse, look up | tables answer as the trees do |
| Flow accounting, `flowstats.py`, `summarize` | - | which flows count as downgraded | the definitions agree |
| Arms, job grids, `inject*.py`, `g2b_*`, `g5_*`, `g6_*`, `g8_*` | generators, drawn flows, merged stream; result files | draw, merge, run, separate | arms differ in nothing but the defence |
| Reports, `g1b_report.py`, `g6_mawi_report.py`, `g4_diagnose.py`, `v2_agreement.py` | result files read so far | pair, score, split | what is compared belongs together |
| Captures and folds, `pcap.py`, `mawi_slice.py`, `iscx_*.py` | file position, stream, folds | cut, parse, sort, merge, train, score | packets keep their capture, flow and fold |

What is hard: the 32-bit clock wraps every 4.3 s; zeroed registers look active
while the clock is young; a takeover leaves the previous owner's timestamp
behind; placement over two tables weighs four cases; the packet counter wraps
at 2^16; the memo forgets; a digest comes after its flow lost the slot; a claim
lands when its slot has another owner.

The hazards, each at its source line with the properties aimed at it, are the
list "hazards" in `PROJECT.json`.

## 2. Modules

A definition commented "Slip" is never used by a specification. It is the
definition below it with a mistake the code could have made (a reset forgotten,
a guard dropped, an off-by-one), kept so that it can be put in its place: the
property named with it in `PROJECT.json` ("mutants") must then fail, and does.

| Module | Content |
|---|---|
| `ExactInference` | abstract: a query is answered at most once, by the tree |
| `LeafPaging` | client, switch, backend, controller with both threads, composed; implements `ExactInference` |
| `KeyTables`, `LeafTables` | a feature's key to its code; a tree as boxes, ranges, ternary entries |
| `TableSetup` | redeploying and `setup`, with the controller that then runs; uses `KeyTables` |
| `CachePolicies` | every replacement policy and kernel on one stream |
| `Bmv2Replay` | the prototype's P4Runtime client, message by message |
| `ReplaySplits`, `CategoryCodes`, `ReplayScores`, `SweepUnits`, `BatchParts` | splits, encoder, models and streams, one unit of a sweep, the driver of sweeps |
| `SlotOutcomes` | abstract: what packets may be told by slots |
| `SlotAdmission` | the emulator's slots, rent, clocks and memo; implements `SlotOutcomes` |
| `TofinoSim` | the compiled program's emulator; extends `SlotAdmission`, which it implements without delay |
| `FlowKeys`, `FlowHash` | keys of a flow; CRCs, salts, folds and irreducible polynomials |
| `BitWords` | exclusive or and conjunction of words, as recursive functions that proofs can import |
| `SlotPlacement` | derived and forced slots, one table or two, holders beside victims |
| `PhaseGate` | deferred evaluation of phases, and the gate computed from it |
| `RangeMarkTables` | exported trees and shipped tables |
| `FlowAccounting` | flows and downgraded flows, on the log of `SlotOutcomes` |
| `ArmRuns`, `JobGrids`, `PairedSeries`, `VerdictReports` | one run of an arm; lists of jobs and settings; reports |
| `PcapStream`, `CrossFit` | captures to streams; folds of retrained models |
| `MCLeafPaging`, `MCSlotAdmission`, `MCTofinoSim`, `MCArmRuns` | instances for TLC |
| `MCMvm`, `MCDgrade` | the parts that share no state with others, one to a behaviour; `MCMvm` extends `TableSetup`, `MCDgrade` extends `FlowAccounting` |
| `NumberSets` | the least and the greatest number of a set, as lemmas |
| `LeafPagingProofs` | theorems about `LeafPaging`: both threads of the controller |
| `SlotAdmissionProofs` | theorems about `SlotAdmission`: who has a slot and the refinement of `SlotOutcomes`; who is refused, who pays and what becomes of a verdict |
| `TofinoSimProofs` | theorems about `TofinoSim` |
| `CacheProofs` | theorems about `CachePolicies` |
| `Bmv2ReplayProofs` | theorems about `Bmv2Replay` |
| `MvmProofs` | theorems about `KeyTables`, `LeafTables`, `TableSetup`, `BatchParts` and `ReplaySplits`, and with `CacheProofs` and `Bmv2ReplayProofs` about the run of `MCMvm` |
| `DgradeProofs` | theorems about `FlowKeys`, `FlowAccounting`, `PhaseGate`, `SlotPlacement` and `JobGrids`, and so about the run of `MCDgrade` |

### 2.1 LeafPaging

A step is what no other actor can see the middle of. The switch and the backend
handle one frame per step (`SwitchHit`, `SwitchMiss`, `SwitchForward`,
`HulkClassify`). The main thread (`main`) is a program counter over BF-RT calls:
`ClearTable` -> `Miss` -> `DeleteVictim` -> `AddEntry`; it holds the lock in
"del" and "add". The poller goes `PollSnapshot` -> `PollKeys` -> `PollRead`
(one per entry) -> `PollApply`, or `PollError` when a key or an entry is gone.
`Terminate`, `LeaveLoop`, `CloseLog`, `Exit` are the graceful end, `Crash` the
other one; both leave the table as it is. `Lose` loses a frame.

Abstractions:
* a query is its leaf (`LeafOf`); feature codes are in `LeafTables`;
* `score` is `S * gamma^(-last)`, the number whose logarithm `evict_key`
  computes; crediting n hits at t adds `n * Gain[t]` with `Gain[t] = gamma^(-t)`;
* `Miss` merges taking the digest, acquiring the lock, `DecayedLFU.miss` and the
  pop of the victim's key: nothing in between is visible to others, because the
  poller holds the lock only in `PollSnapshot` and `PollApply`, one step each;
* digests arrive one at a time (a digest message is a list that the loop walks);
* an empty key list in `entry_get` may read nothing or everything: both are
  allowed;
* `CloseLog` waits until the poller is not asleep, because the sleep of the main
  thread is two poll periods long; the poller may still be inside a call;
* on a reliable network two seconds are enough for every answer under way.

History variables (`gone`, `outdated`, `hits`, `credited`, `stale`,
`lateWrite`, `crashes`) only record what happened.

### 2.2 SlotAdmission and TofinoSim

Time is counted in units of 2^20 ns: `clock` never wraps, `now` is what the
registers see. `ClockMod` (2^12 units) and `Word` (2^32) are constants, so that
instances scale them down. `Tick` advances the clock, `MemoInsert` delivers a due
digest, and a packet is one of `Reject`, `MemoHit`, `FallbackShort`, `Refuse`,
`TakeOver`, `OwnerDetermined`, `OwnerBetween`, `OwnerPhase`, `OwnerFinal`, as the
branches of `run`. Codes of the three trees are chosen from small sets: any table
is allowed. `r_res` is the value that `_resolve` finds behind the stored
reference. `owner`, `took`, `seen`, `wrote`, `steady` and `last` are history.

Left out: the arithmetic of features, and a flow whose hash is 0
(`HashAssumption`), which the emulator would find stored in untouched registers.
Slots that runners force are in `SlotPlacement`, the deferred evaluation behind
`r_res` is in `PhaseGate`.

`TofinoSim` inherits clock, memo and registers. A takeover initialises the
features in its step and pushes a claim that `Land` writes to tag and result
`delay` units later; phases push claims as well. `listed` is `pend_by_slot`.
Claims due at the same time as a packet may land before or after it, which is
what an equal or nearly equal nanosecond leaves open.

### 2.3 CachePolicies

One step is one query, answered at once by LRU, decayed LFU (one per gamma;
gamma = 1 is LFU), Belady and the window oracle at every capacity, by the
kernels, by the Fenwick tree of `reuse_distance` and by `simulate_hw_policy`, so
that they can be compared on the same stream. `best` is the reference for
Belady: the most hits of any cache that starts empty and changes at most one
entry per miss, for each possible final content, computed forwards. Capacity 0 is left
out for the demand policies (LRU cannot evict from an empty dict) and included
for the controller. Scores are exact numbers; rounding of floats is not modelled.

### 2.4 The other parts of MVM-Lite

* `KeyTables`: a 32-bit key is the pair of its slices of 20 and 12 bits; a code is
  the set of boundaries at most the key, bit by bit; `Fine` and `Coarse` are
  the entries that `FeatureTables` generates. `LeafTables` walks a tree
  (`LeafNext`) collecting boxes as `leaf_regions` does, on floats of as many
  patterns as there are keys (`Word`), whose values are doubled so that a threshold
  can lie between two.
* `TableSetup`: one action per BF-RT call of `setup`; the shell script may fail to
  compile after the copy, gives up by time-out, retries; `Run` clears the leaf
  table and `Install` does what `LeafPaging` models in full.
* `Bmv2Replay`: requests and responses are queues of the stream; the switch and
  gRPC are external. `GivesUp` is the time-out of a packet-in. A credit at t adds
  `Gain[t]`, as in `LeafPaging`.
* `ReplaySplits` numbers rows by their place in the files; vectors, draws and the
  seed's hash are inputs. `CategoryCodes` fits one column; the reference is the
  best of all binary splits.
* `ReplayScores` follows `w2_rq1.py` seed by seed: fit, choose on validation,
  score file by file. What fitting returns is any classifier of a small set.
* `SweepUnits` is one unit of the sweeps, `BatchParts` the driver with processes
  that die between any two steps and a machine that reboots.

### 2.5 The other parts of dgrade

* `FlowKeys` has no state: the keys are operators on five-tuples. `FlowHash` tries
  polynomials one by one and computes CRCs byte by byte, for small widths.
* `SlotPlacement` places a stream packet by packet as `RunJob` forces it and as
  `Derived` would; a hash is any function of the tuple per kind and seed.
* `PhaseGate` keeps both views: the switch's (`reg`) and the emulator's lists
  (`epoch_init`, `epoch_events`), which `StateAfter` evaluates when the stream ends.
* `RangeMarkTables` reads DOT and dump files line by line and matches the shipped
  tables by priority; the generator of these files is external.
* `FlowAccounting` adds a log to `SlotOutcomes`; `DefinitionsAgree` compares
  `summarize`, the report's and the vectorised `downgraded_flows` on it.
* `ArmRuns`: a generator is its list of words and a draw takes the next ones, so
  that the order of draws is visible. An outcome is the packet it belongs to.
* `JobGrids`: a job is the record of what its name says. `PairedSeries` reads
  results while jobs still finish; a file appears whole, by a rename.
* `VerdictReports`: F1 scores are fractions; a report reads the runs in any order.
* `PcapStream`: a record is its time, its length and what the parser looks at.
  `CrossFit`: a flow is its address, a model the set of flows it was trained on.

### 2.6 MCMvm and MCDgrade

The parts of 2.3 to 2.5 run in different programs and share no variables, so one run
per project holds all of them: `running` chooses in the initial state which part a
behaviour is about, the variables of the others are 0 and stay so. A property is
`running = "part" => ...`: it is checked in the part's own behaviours and nowhere
else. Parts end (a stream is finished, a report is written), therefore
`CHECK_DEADLOCK FALSE` there; what must be reached is stated in the properties
as "when done, then ...".

## 3. Runs

| Run | Question | Properties | Instance |
|---|---|---|---|
| `paging_crash` | Do the table bound, the agreement of table, policy and keys, and exact answers survive loss, a crash at any point and a restart? | `OccupancyBound`, `TableMirrorsPolicy`, `CallsSucceed`, `ExactAnswers` | 2 leaves in turn, K = 1, 3 queries, 1 crash |
| `paging_poll` | Are credits hits, and do rounds fail only for evictions? | `TypeOK`, `PollErrorMeansEviction`, `CreditsAreHits` | a leaf installed, evicted and installed again, 4 queries, no loss |
| `paging_live` | Is every query answered, every digest served, every hit credited? | `EveryQueryAnswered`, `DigestsAreServed`, `HitsAreCredited` | 3 queries, the last leaf stays and is hit |
| `paging_stale_credit` | Is every credit a hit? No (finding) | `EveryCreditIsAHit` | as `paging_poll` |
| `slots_shipped` | The default emulator: one table, wrapping clock, 16-bit counter | `TypeOK`, `DeterminedByFinalPhase`, `DisplacedForAReason` | 3 flows on a slot, clock up to 8 with wrap at 6, counter modulo 5 |
| `slots_rent` | Two tables with credit: one home, who pays stays, who stays pays; the abstract table | `OneHome`, `RefusedOnlyIfAllHeld`, `RefusalIsPaidFor`, `PayingFlowKeepsSlot`, `ImplementsSlotOutcomes` | 3 flows, a slot in each table, grace 1, cap 2, 1 unit per packet, last phase 4, clock up to 3 |
| `slots_isolated` | A slot each: never refused; memo overflow | `IsolatedFlowsAreServed`, `DeterminedVerdictIsFrozen` | 2 flows, memo of 1, clock up to 7 with wrap at 6 |
| `compiled_sim` | What may the recirculation race do? Is the emulator the other one without delay? | `SettledSlotIsClean`, `BothWaysOnlyByRace`, `ZeroDelayIsNetBeaconSim` | 2 flows, a slot in each table, delays 0 and 1, 2 claims in flight, clock 3 to 5 with wrap at 4 |
| `compiled_listed` | Is a claim listed until it lands? No (finding) | `ListedUntilLanded` | the same, 3 claims |
| `mvm` | The other parts of MVM-Lite | see below | below |
| `dgrade` | The other parts of dgrade | see below | below |
| `arms_paired` | Do two arms draw the same holders in every rotation? No (finding) | `HoldersShareDraw` | 2 holders, two rotations |

`mvm`:

| Property | Part | Instance |
|---|---|---|
| `BoundsAreBounds`, `FastPoliciesAgree`, `DelayedPolicyAgrees` | `CachePolicies` | all streams of 6 queries over 4 leaves up to renaming, capacities 1 to 3, 14 controller settings |
| `TreeSurvivesEncoding` | `LeafTables`, `KeyTables` | trees of up to 3 leaves over 2 features, thresholds negative, positive and between keys, floats of 4 bits, slices of 2 bits |
| `SweepsEndWhole` | `BatchParts` | 2 units, 2 jobs at a time, 2 attempts, 1 reboot |
| `TrainingIsSound` | `ReplaySplits`, `CategoryCodes` | 7 rows in 2 files with equal vectors, a malformed row, 3 modes; 3 categories of up to 2 rows of each class |
| `PrototypeMatchesSimulator` | `Bmv2Replay` | slices of 5 queries over 3 leaves followed by one of 2, K = 2 |
| `TablesOfOneModel` | `TableSetup` | 2 models of 2 features, 2 tries, 3 changes |
| `ResultsAreComparable` | `SweepUnits`, `ReplayScores` | 5 flows in 2 or 3 days of 2 hours; 8 rows in 3 files, 1 or 2 seeds |

`dgrade`:

| Property | Part | Instance |
|---|---|---|
| `FlowsHaveOneKey` | `FlowKeys` | 3 addresses, 3 ports |
| `HashesAreSound` | `FlowHash` | all polynomials of 3, 4 and 6 bits, messages of up to two bytes |
| `TablesEqualModels` | `RangeMarkTables` | trees of up to 3 leaves over 2 features of 3 bits, boosters |
| `AccountsAgree` | `FlowAccounting` | 2 flows, 2 slots, 3 packets, pauses at and below the limit |
| `VerdictsReachReports` | `PhaseGate`, `VerdictReports` | 2 flows on a slot or two, 6 packets, phases 2, 3, 4; 3 packets, 7 result files |
| `ArmsArePaired` | `ArmRuns`, `PairedSeries` | captures of 4 to 6 packets, 2 generators, 3 modes; 2 draws of 3 arms, 2 late files |
| `JobsArePaired` | `JobGrids`, `SlotPlacement` | the lists of the repository in full; 4 packets of 3 tuples, tables of 4 or 8 |
| `CapturesStayApart` | `PcapStream`, `CrossFit` | 3 records of every critical length, 5 cuts; 3 or 4 captures |

Bounds, and why they are enough to see the interesting cases:
* **Two leaves and K = 1.** Every install then evicts, which is where all
  interleavings with the poller are. Three queries make install, eviction and
  reinstallation; K = 0 and K >= 2 are covered by the theorems.
* **One crash** can fall between any two steps, including between `entry_del`
  and `entry_add`; the initial states already contain every leftover table.
* **Clock** bounds pass the wrap at least once where the clock wraps, and the
  timeout is 1 to 3 units, so that a flow can be active, idle, and wrapped.
  `compiled_sim` starts at 3, one unit before the wrap, where zeroed registers are
  idle. `MaxClock`
  is the only counter bounded by a guard in `SlotAdmission`, with `MaxClaims` in
  `TofinoSim`; `MaxCrashes` and the finite stream of queries are the bounds in
  `LeafPaging`; the lengths of streams and `MaxReboots`, `Attempts`, `MaxTries`,
  `MaxChanges`, `MaxLog` and `MaxLate` those of the other parts.
* **Phases** are scaled down to packets 2 and 3 or 4 (2, 4, ..., 2048 in the code),
  which leaves a phase before the last and, with 4, a packet that is neither.
  `PkMod` is 5 in `slots_shipped`, so a flow whose last phase misses passes it again.
* **Memo**: a size below the number of flows overflows; dropping 1 or 10 covers
  both "some" and "all".
* **Streams of six queries over four leaves** separate FIFO
  from LRU in inclusion and let Belady's two forms hold different leaves.
  Renaming leaves changes nothing but ties between equal counts of the oracle.
* **Datasets** of the batch parts are chosen, not enumerated: each list in `MCMvm` and
  `MCDgrade` contains the cases at which the code decides (a malformed row, a
  day's border, a flow in both folds, a record that a cut divides).

`compiled_sim` has `CHECK_DEADLOCK FALSE`, because the emulator really stops when it
raises (the finding of `compiled_listed`). Its last phase always determines; a last
phase that misses, so that the packet counter goes round, is in `slots_shipped`.

## 4. Fairness

`paging_live` is the only liveness run. Its `FairSpec` assumes weak fairness of
each frame at the switch, the backend and the client, of the client's start, of
the main thread's steps that serve digests, and of the poller. This is what the
code has: threads that are scheduled, an infinite digest loop, links and a
backend that keep up. The network is reliable in this run. Nothing obliges
anyone to start, stop or kill a controller, and without one the queries are
still answered, by the backend. `HitsAreCredited` and `DigestsAreServed` have the
escapes the code has: the controller stops, the leaf is evicted. The poller's
fairness is enough although rounds fail, because every failed round is
caused by an eviction and only finitely many digests exist. The emulators and the
batch parts are sequential programs that end; about them nothing temporal is
asked beyond action properties.

## 5. Proofs

Assumptions are the named ASSUMEs of the modules (finite sets of leaves, natural
bounds, a `Word` wider than the clock plus the timeout, codes on the right side of
50, phases before the last, a list of features without repetition, boundaries among
the keys, streams of one length); TLC evaluates them in every run. A theorem that needs more names it:
`DistinctHashes`, `Isolated`, `PayableRent`, `VerdictsSettle`.

**LeafPaging** (`LeafPagingProofs`), for every tree, workload, K and number of crashes:
* `TypeCorrect`.
* `TableCorrect`: the inductive invariant `TableInv`. The three properties about
  the table are not inductive: while a miss is served table, policy and keys
  disagree, so the invariant says by how much at each value of `main` (in "del"
  the victim is out of `resident` and still installed; in "add" the new leaf is
  resident and not installed) and that `resident` has at most K leaves. From
  it follow `Occupancy`, `Mirror` and `Calls`.
* `Refinement`: `Spec => ExactAnswers`. `ExactInv` says that entries, answers on
  the wire and records carry the tree's answer, and that a record exists only for
  a query received, hence once. Each step maps to sending (`Ask`), recording
  (`Answer`) or a stutter.

**The poller** (also `LeafPagingProofs`), on the same terms:
* `ErrorsAreEvictions` (`PollErrorMeansEviction`). The property speaks of keys
  while keys are looked up and of entries while these are read. `RoundInv` holds
  through both: a leaf still to be read is installed unless it was evicted since
  the snapshot; `TableInv` bounds the difference between entries and keys by the
  leaf being evicted.
* `CreditsStandForHits` (`CreditsAreHits`). `CreditInv`: a counter is not behind
  `last_count`, what it has beyond it is not yet credited, and a count in the
  poller's hands lies between the two unless the leaf was evicted since it was
  read. Applying counts then moves hits and makes none, until an outdated
  count meets a leaf that is resident again, which is the finding.

**SlotAdmission** (`SlotAdmissionProofs`), for every number of flows and slots,
every clock width, timeout, phase set, policy and rent:
* `SlotTypesCorrect`, with the widths of registers.
* `HomeIsOne`: with distinct hashes (`DistinctHashes`) a flow never has two slots.
  `HomeInv` ties `r_hash`, `claimed` and `owner` together: a slot is claimed iff
  its hash is not 0, and then by a flow for which it is a candidate. A takeover
  needs that the flow is in neither slot, which `SlotOf` guarantees by looking
  at A and then at B. Two flows with the same hash could hold a slot each under it.
* `DeterminedOnlyByFinalPhase`: a code above 50 is stored only with the packet
  count at the last phase; the count stands still from then on.
* `DisplacementHasAReason`: with `TimesInv` (took <= seen <= clock, and `r_lastc` is
  `seen` cut to the clock's width once the owner has written it) a displaced,
  undetermined flow was idle, wrapped, unrefreshed or past its grace. The lemma
  `SameLap` says that within a lap of the clock the cut difference is the
  true one.

**Service** (also `SlotAdmissionProofs`), on the same terms:
* `RefusalsAreJust` (`RefusedOnlyIfAllHeld`), from `RefusalInv`: an unclaimed slot
  has time stamp 0, so the placement rule sees it as free. It holds for every
  policy, clock and rent.
* `IsolatedAlwaysServed` (`IsolatedFlowsAreServed`), assuming `Isolated`:
  `OwnSlotInv` says a claimed slot has its one flow's hash.
* `PayingKeepsSlot` (`PayingFlowKeepsSlot`), assuming `PayableRent`: the rent is by
  credit or rate, one unit of it is at most the grace and the cap and shorter than
  the timeout, a takeover refreshes the time stamp, and under rate the last phase
  always determines (else the packet count wraps, see 6). `PaidInv`: a flow that
  keeps its pace has paid for one unit past its last packet, or under rate for
  every unit since the takeover.
* `RefusalsArePaidFor` (`RefusalIsPaidFor`), assuming that the last phase always
  determines: `BankInv` bounds what a slot has banked by what its owner sent.

**Refinement of slots** (`SlotAdmissionProofs`): `SlotsImplementOutcomes`, with
distinct hashes. The mapping is `Outcome == INSTANCE SlotOutcomes WITH Places <-
PlacesOf, holder <- Holding, known <- Remembered, packet <- Reported`: a slot's
holder is its owner, the memo is the set of its flows, clocks and registers are gone.
`HolderInv` adds to `HomeInv` that an unclaimed slot has no owner. What the
refinement gives: every step of any instance, whatever clock, rent and policy
do, tells a packet only what its own slot, the memo or a refusal can tell it.

**Verdicts** (also `SlotAdmissionProofs`): `VerdictsAreFrozen`
(`DeterminedVerdictIsFrozen`), assuming `VerdictsSettle`: every flow has slots of its
own, or hashes are distinct and digests are due at once (`memo_delay_ns = 0`, the
default in `netbeacon_sim.py:314`). `Ownership` says the flow that took a slot
over is the one stored there, and has one. `FrozenInv`: a flow is in the memo once,
and memo, digests under way and a determined slot agree on its verdict; a digest
under way either belongs to a flow that keeps its slot or is due already. The memo
may drop the entry and a newcomer may take the slot, as long as not both views
survive with different verdicts. With shared slots and a delay the property is
false (see 6), and is not claimed.

**The compiled program** (`TofinoSimProofs`), for every delay, table and clock:
* `SettledIsClean` (`SettledSlotIsClean`). The property is about slots with no
  claim in flight, so its invariant is about those that have some: the newest
  takeover in flight to a slot is that of the owner, the flow whose Init last
  reset the features (`SettleInv`). Older ones land before it and are overwritten; what
  is left is a phase of the former owner that was sent later (`retaken`).
* `BothWaysRace` (`BothWaysOnlyByRace`), with distinct hashes. `QueueInv`: claims land
  in the order sent, each within its delay. `RaceInv`: if a flow owns one way while
  its claim for the other is in flight, or owns both, the two were sent within one
  delay of each other.
* `ZeroDelayEqualsNetBeacon` (`ZeroDelayIsNetBeaconSim`), with distinct hashes: the
  emulator's promise that with `claim_delay_ns = 0` its results equal those of
  `NetBeaconSim`. The mapping reads tag and result of a slot as they will be once
  its claims have landed. `DirectInv` adds to `SettleInv` that there is then one claim
  at most, that result register and features agree on "determined", and that a flow
  has one way. A packet maps to the same packet, a landing to a stutter.

**Tables and setup** (`MvmProofs`). `TablesAreExact` and `SwitchComputesCode`, for slices of
any width and any set of boundaries: fine entries of a bucket and coarse runs
cover every key, and all entries a key finds carry its code. `OneModelServed`
(`SetupSpec => []ServesOneModel`) and with it `TablesAlwaysOfOneModel` (`TablesOfOneModel`
in the run of all parts), for any models, features and boundaries: `SetupInv` says
which of setup's calls are still to come (always the last ones of the same
list) and what the switch holds after the others, table by table (`Laid`). A kill leaves
the tables between two values of `Laid`, and only a setup that starts from the
first call reports them installed. Redeploys and failed compiles only exchange the
file or empty the switch. That the tables then answer as the model is `SwitchComputesCode`.

**Trees in tables** (`MvmProofs`). `TreesAlwaysSurvive` (`LeafSpec => [](RegionsPartition /\
EncodingsEqualTree)`) and `TreesAlwaysSurviveEncoding` (`TreeSurvivesEncoding` in the run of
all parts), for any set of trees whose children are numbered after their parents
(`TreesAssumption`, how scikit-learn stores them) and a word of any even size
(`WordAssumption`: it has a sign bit).
* `LeafInv` speaks of every input: at any moment of the walk exactly one region, on the
  stack or boxed, contains it (`Placed`), and a path that goes from node to node on
  the input's side of each threshold passes that region's node. A region gives way to
  two whose borders are a threshold, so what is in it is in one of them.
* That `tree.apply` reaches a leaf at all is its recursion having a solution: each node's
  leaf is that of a child with a larger number, so the node with the largest number that
  had none would have one (`NumberSets`).
* `f32_key` keeps the order of values and meets the two zeros, so "above a threshold" is
  "at least the smallest key above it"; with `TablesAreExact` the codes of a key decide
  every comparison of the tree, in the ternary entries as in the ranges.

**The prototype** (`Bmv2ReplayProofs`): `ReplayAlwaysMatches` (`ReplayMatchesSimulator`), for
every list of slices, capacity, weights and benchmark (`BmvAssumption`), and
`PrototypeAlwaysMatches` (`PrototypeMatchesSimulator`) in the run of all parts.
* `Channel`: at most one message is on its way, and it is about the query that waits for
  it. So an answer is never that of an earlier query.
* `InStep`: the client's policy is where the simulator's recursion is after as many
  queries. The recursion has a solution because every access keeps the policy's shape
  (`PolicyOK`) and its victim is unique: two residents differ in their last access.
* `TableFollows`: what separates the switch's table from `installed` is what is still to be
  deleted and inserted, and deletions come first, so the table holds at most K entries.
* `OnPlan`: what is left of the benchmark is the end of one fixed list of writes, and the
  table holds what the writes before it leave; no insert finds its entry there and
  no delete finds it missing.

**Cache policies** (`CacheProofs`), for every stream, number of leaves, capacity,
discount (any positive weights), window and setting of the controller. `CacheInv` is
kept by every query, and all eight properties of `CachePolicies` follow from it
(`CacheHolds`). Next uses, positions and requests are counted as sizes of sets, so that
no step is an induction over the stream.
* `BeladyAlwaysOptimal` (`BeladyIsOptimal`). The property speaks of the end only. Its
  invariant `Unbeaten` speaks of every prefix of the future: for every cache R
  reached with `best[R]` hits and every position n, what R has hit and could still hit
  up to n without loading anything is no more than what Belady has hit and holds that is
  used up to n. A query moves one leaf of R at most, and Belady evicts the leaf used
  last, which only counts for the largest n. That Belady's own hits are reached
  (`Achieves`) makes it an equality; that the demand policies' are gives
  `check_summary`.
* `HitsAlwaysGrow` (`HitsGrowWithCapacity`): LRU by its order (`LruSeq`: the residents
  are the leaves seen last, in the order of their last query), Belady by
  `BeladyNested`: the larger cache has at most one leaf used again that the
  smaller has not. Without this bound on the difference inclusion is not inductive.
* `OracleAlwaysBest` (`NoFixedTableBeatsOracle`): what any table would have served before
  the present window, with what the oracle's own has served in it, is no more than
  the oracle's hits (`BeatsFixed`); and within a whole window the k most frequent
  leaves serve most (`MostFrequentServesMost`, by exchanging one leaf at a time).
* `KernelsAlwaysAgree` (`KernelsAgree`, `LruHitsByReuseDistance`): the array of decayed
  LFU holds the leaves of its set, and no two residents have the same key and time, so
  both evict the same one. Belady's two forms hold as many leaves and the same
  ones that are used again (`BeladyAlike`); they may differ in leaves that are not. That
  `_fill_next_use` finds the next uses is shown without induction: `NextUse` solves its
  recursion, and at the last position where another solution differed it would not
  be one. The positions with a 1 behind a leaf's last query are the leaves
  seen since (`FenwickInv`), hence LRU's rank.
* `DelayAlwaysExplains` (`HwPolicyReducesToIdeal`, `HwMissesOnlyWithinLag`): the queue
  holds at most one digest per query, in order, each due `lag` later (`HwKept`). While the
  leaves seen fit nothing is evicted, so a leaf is resident from the query at which its
  first digest is due (`HwServes`). Without delays the controller is one
  credit or one digest behind the policy and catches up before the next query
  answers (`HwIdeal`).

`BoundsAlwaysBound`, `FastPoliciesAlwaysAgree` and `DelayedPolicyAlwaysAgrees`
(`MvmProofs`) carry them over to the run of all parts (`BoundsAreBounds`,
`FastPoliciesAgree`, `DelayedPolicyAgrees`).

**Sweeps** (`MvmProofs`): `PartsAlwaysWhole` and `MergedAlwaysComplete` for any units,
jobs, attempts and reboots, from `BatchInv`: a part file is renamed only after its
companion is closed, and while a unit works there is no part. `SweepsAlwaysEndWhole`
(`SweepsEndWhole`) carries both over to the run of all parts.

**Splits** (also `MvmProofs`): `RowsAlwaysApart`, for any rows, feature vectors, draws,
quotas and modes (`SplitAssumption`). It is the first part of `TrainingIsSound`.
`SplitInv` says that a pooled row is a candidate of a type that is done and lies in the
pool that its vector was drawn into; the quotas that a type is given sum to at most
half of its rows, because they are scaled down to fit and rounded down. The mask is made
when all types are done, so no pooled row is replayed, and in forward mode the rank of
a row within its day puts what was pooled before what is replayed.

**Keys and accounts** (`DgradeProofs`): `FlowsAlwaysHaveOneKey` (`FlowsHaveOneKey`), from
`KeysAgree` for all five-tuples. `AccountsAlwaysAgree` (`AccountsAgree`), for any flows,
candidate slots, idle times and logs. `AccountInv`: the slot of a held flow
remembers it until another flow takes it, so who loses a slot lost it to another flow.
`flow_ids` is a recursion over the log, and what a recursion computes is not within
the provers' reach; that it has a solution is therefore part of the
invariant (an entry more extends the solution by one value), and that the solution is
what the definitions of downgrading need follows by looking at the first packet
at which it would not be. `NumberSets` supplies that first packet.

**Deferred verdicts** (also `DgradeProofs`): `DeferredAlwaysAsSwitch`, for any flows, slots,
phases, codes and streams. It is the first conjunct of `VerdictsReachReports`
(`ResolveEqualsSwitch`): what `_resolve` finds for a packet after the stream is what the
switch answered it with. The invariant `GateInv` has what the property does not see:
* the register of an owned slot holds the value of its epoch after all events so far
  (`EpochsStored`), so an event more is one step of the recursion on both sides;
* no two slots are in one epoch (`EpochsApart`), so an event of one changes no other;
* a packet notes an epoch that began and a number of events that this epoch has.

Takeovers, events and the events of an epoch are only ever appended (`Grows`), and what an
epoch stored after n events depends on the first n alone: earlier packets keep what
they were given.

**Jobs and placements** (also `DgradeProofs`): `JobsAlwaysPaired` (`JobsArePaired`).
* `GridInv`, for any clock starts below a thousand: a list that was run passed its check,
  what it still lacks has failed, and every result is an earlier one or of a list that
  was run. The check of the MAWI lists does not ask for the undefended run without
  holders, and for the smaller tables it is in the first list only. It is there
  nevertheless: what the later lists do ask for is in the second, and what that one asks
  for is in the first, so neither passes its check before the first has run
  (`LaterNeedsMawi`). Below a thousand, `1000 * f + g` tells draws apart.
* `PlaceInv`, for any hash functions, streams in time order and jobs on tables that are
  powers of two (`PlacementAssumption`, as every list of jobs has them): the packets
  are placed by what their runner computes (`OwnPlaces`), which lies in the table, so
  that a job is refused only when both tables would share a hash. A packet's place depends
  on its tuple and its epoch alone, so holders on the victim's slots meet all its
  packets (`CandidatesAre`). Isolated flows are numbered by their first packets, of which
  two tuples never have as many (`FlowIdsApart`).

Only model-checked:
* everything temporal with fairness (`EveryQueryAnswered`, `DigestsAreServed`,
  `HitsAreCredited`): liveness and ENABLED are out of the prover's reach;
* `HashesAreSound`, `TablesEqualModels`: divisibility of polynomials, a CRC over bytes, a tree
  read from a list of lines and sums over boosters are recursions or folds over data,
  not steps of a behaviour whose invariant could carry a solution along;
* of `TrainingIsSound` the encoder's best split and the order of chunks, and
  `ResultsAreComparable`: they compare splits and scores with references that sort, sum
  or maximise over finite sets;
* the rest of `VerdictsReachReports`: the gate sorts and sums events, the reports
  average over runs;
* `ArmsArePaired`, `CapturesStayApart`: their inputs are captures and result files
  chosen for their cases, not constants to generalise over.

## 6. Where the code differs from what is said of it

The list "findings" in `PROJECT.json` quotes each sentence. Three have a run:
* `paging_stale_credit`: a count read before an eviction is credited after the
  leaf is installed again with `last_count` 0. `CreditsAreHits` states what is true.
* `compiled_listed`: phase claims are pushed without being listed; if a newcomer's
  claim is listed for the slot when one lands, `remove` raises.
* `arms_paired`: from the second rotation on, the holders of a two-table arm differ
  from those of the undefended one, because one generator has drawn more.
  `FirstRotationIsPaired` states what is true.

Eleven have none: a late write of the poller to the closed log; a young incumbent
that idles is displaced under rent; a late digest brings back an older verdict; an
out-of-window record in a slice; a clipped class index; a report that raises
before its own message; series compared after each lost other draws; addresses
that meet after the remapping of captures; "in-sample" flows that were purged;
a table size capped below what the report says; the packet count that wraps
under rent by rate. For the first three the violated property is kept in the
module (`LogClosedAfterLastWrite`, `YoungFlowIsProtected`, and
`DeterminedVerdictIsFrozen` with a `MemoDelay`).

A remark: `experiments/w4_cache.py:85` says Belady has the inclusion
property. On longer streams the smaller cache may hold a leaf that is never used
again and the larger one not; the residents that are used again are included
(`HitsGrowWithCapacity`), so hits are monotone in K, which is what the
assertion there tests.

## 7. Left to do

1. The P4 source of the program with two tables and leases: D4c exists here through
   its emulator (`TofinoSim`), the leases of P13 have none. A module of its own would have one
   action per pass of the pipeline and `TofinoSim` as its abstraction.
2. Digests that are late: with `MemoDelay` above 0 what remains true of a verdict.
3. Theorems: that arms are paired and captures read apart, for captures other than
   those of the instance.
4. Composition of `PhaseGate` with `SlotAdmission`, so that deferred verdicts are
   resolved against the real rules of takeover.

## 8. Not modelled

* The P4 programs themselves, and the bindings generated for P4Runtime.
* `bench()` and `load_tree()` of the backend, pacing and packet templates of the
  client, log formats: I/O without shared state.
* `data.py` (download and conversion), `sklearn_models.py` (a wrapper of retrained
  trees), `p4/extract.py`, figures, `g8_report.py`, `ga_alias_check.py`, confidence
  intervals and tests: formulas over samples.
* What a model learns, the arithmetic of flow features, inter-packet times of
  injected flows: their results are inputs.
* Floating point in scores (`evict_key` compared for equality), entropy.
* A flow whose CRC is 0, and the wrap of the packet counter under rent by
  rate or credit: it needs 65536 packets of one undetermined flow
  (`RefusalIsPaidFor` is stated with `PkMod` above the packets of the instance).
