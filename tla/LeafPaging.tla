----------------------------- MODULE LeafPaging -----------------------------
(***************************************************************************)
(* MVM-Lite on the Tofino switch: a decision tree whose hot leaves are     *)
(* paged into a switch table.  Vision (the client) sends queries; the      *)
(* switch answers a query whose leaf is in leaf_tbl and counts the hit in  *)
(* the entry's direct counter, otherwise it forwards the query to Hulk     *)
(* (the CPU backend), which walks the tree, and sends a miss digest to the *)
(* controller.  The controller has two threads: the main thread serves     *)
(* digests and installs or evicts leaves under a lock, and the poller      *)
(* reads the direct counters without the lock and credits the hits under   *)
(* it.                                                                     *)
(*                                                                         *)
(* One step is what no other actor can observe in the middle: a frame      *)
(* handled by the switch, one BF-RT call of the main thread, one entry     *)
(* read by the poller, one critical section without a BF-RT call.          *)
(*                                                                         *)
(* A definition marked "Slip" is never used by Spec: it is a mistake the   *)
(* code could have made in the definition that follows it, kept to show    *)
(* that the properties below notice.                                       *)
(***************************************************************************)
EXTENDS Integers, Sequences, FiniteSets, Functions

CONSTANTS
    Leaves,         \* the leaves of the tree
    NumQueries,     \* how many queries the client has to send
    LeafOf,         \* the leaf each query reaches
    Klass,          \* the class of each leaf
    K,              \* args.k: how many leaves may be resident
    Gain,           \* Gain[t] = gamma^(-t): what one access at time t adds to
                    \* the time-free score S * gamma^(-last)
    Unreliable,     \* frames and digests may be lost, answers may be late
    MaxCrashes      \* bound on the crashes of the controller process

Qids == 0 .. NumQueries - 1

ASSUME LeavesAssumption == IsFiniteSet(Leaves)
ASSUME QueriesAssumption == NumQueries \in Nat \ {0} /\ LeafOf \in [Qids -> Leaves]
ASSUME KAssumption == K \in Nat
ASSUME GainAssumption == Gain \in [Qids -> Nat \ {0}]
ASSUME BoundsAssumption == Unreliable \in BOOLEAN /\ MaxCrashes \in Nat

VARIABLES
    \* Vision
    client,         \* "waiting", "sending" or "closed"
    at,             \* where each query is
    recs,           \* the record the client keeps of each query
    \* the frame on the wire carries the answer that the switch or Hulk wrote
    wire,
    \* the switch
    leaf_tbl,       \* the entries: a function on the leaves installed
    digests,        \* miss digests on their way to the controller
    \* the controller: main thread
    main,           \* "down", "starting", "serve", "del", "add", "closing", "closed"
    serving,        \* the query whose digest is being served
    evicting,       \* the leaf being evicted for it
    stop,           \* the stop event
    \* the controller: state shared by its threads
    resident, score, last, t_now, keys_of, last_count,
    \* the controller: poller thread
    poller,         \* "sleep", "keys", "read", "dead"
    toRead,         \* the leaves whose entries are still to be read
    counts,         \* the counters read so far
    \* history
    crashes,        \* crashes so far
    gone,           \* the leaves evicted since the poller's snapshot
    outdated,       \* those evicted after the poller read their counters
    hits,           \* queries each leaf's entries have answered in this run
    credited,       \* hits the poller has credited to each leaf
    stale,          \* an outdated count was applied to a reinstalled leaf
    lateWrite       \* the poller wrote to the log after it was closed

clientVars == <<client, recs>>
frameVars == <<at, wire>>
policyVars == <<resident, score, last, t_now>>
mainVars == <<main, serving, evicting, stop>>
pollerVars == <<poller, toRead, counts>>
historyVars == <<gone, outdated, hits, credited, stale, lateWrite>>
controllerVars ==
    <<mainVars, policyVars, keys_of, last_count, pollerVars, historyVars>>
vars == <<clientVars, frameVars, leaf_tbl, digests, controllerVars, crashes>>

NoAnswer == [leaf |-> "none", klass |-> "none"]
TreeAnswer(l) == [leaf |-> l, klass |-> Klass[l]]
Places == {"unsent", "toSwitch", "toHulk", "fromHulk", "toVision", "received", "lost"}
OnTheWire == {"toSwitch", "toHulk", "fromHulk", "toVision"}

\* Links keep the order of frames: the one handled is the one sent first.
First(q, place) ==
    /\ at[q] = place
    /\ \A p \in Qids : at[p] = place => q <= p

Installed == DOMAIN leaf_tbl

-----------------------------------------------------------------------------
(* The switch.                                                             *)

\* leaf_ctr.count(): the direct counter of the entry that matched.
Counted(e) == [leaf |-> e.leaf, klass |-> e.klass, pkts |-> e.pkts + 1]

\* A match in leaf_tbl: the entry writes the answer, the frame is reflected.
SwitchHit(q) ==
    LET l == LeafOf[q] IN
    /\ First(q, "toSwitch")
    /\ l \in Installed
    /\ at' = [at EXCEPT ![q] = "toVision"]
    /\ wire' = [wire EXCEPT ![q] = [leaf |-> leaf_tbl[l].leaf, klass |-> leaf_tbl[l].klass]]
    /\ leaf_tbl' = [leaf_tbl EXCEPT ![l] = Counted(@)]
    /\ hits' = [hits EXCEPT ![l] = @ + 1]
    /\ UNCHANGED <<clientVars, digests, mainVars, policyVars, keys_of, last_count,
                   pollerVars, crashes, gone, outdated, credited, stale, lateWrite>>

\* No match: the frame goes to Hulk and a digest to a connected controller.
SwitchMiss(q) ==
    /\ First(q, "toSwitch")
    /\ LeafOf[q] \notin Installed
    /\ at' = [at EXCEPT ![q] = "toHulk"]
    /\ \/ main # "down" /\ digests' = Append(digests, q)
       \/ (main = "down" \/ Unreliable) /\ UNCHANGED digests
    /\ UNCHANGED <<clientVars, wire, leaf_tbl, controllerVars, crashes>>

\* Whatever does not come from Vision is forwarded by port: Hulk's replies.
SwitchForward(q) ==
    /\ First(q, "fromHulk")
    /\ at' = [at EXCEPT ![q] = "toVision"]
    /\ UNCHANGED <<clientVars, wire, leaf_tbl, digests, controllerVars, crashes>>

-----------------------------------------------------------------------------
(* Hulk, Vision and the wires.                                             *)

\* Slip: every reply of a batch carries the answer of the batch's last query.
HulkAnswerOfBatch(q) ==
    TreeAnswer(LeafOf[CHOOSE p \in Qids : at[p] = "toHulk"
                        /\ \A r \in Qids : at[r] = "toHulk" => r <= p])

\* classify walks the tree on the keys of the frame itself.
HulkAnswer(q) == TreeAnswer(LeafOf[q])

HulkClassify(q) ==
    /\ First(q, "toHulk")
    /\ at' = [at EXCEPT ![q] = "fromHulk"]
    /\ wire' = [wire EXCEPT ![q] = HulkAnswer(q)]
    /\ UNCHANGED <<clientVars, leaf_tbl, digests, controllerVars, crashes>>

\* The run script starts the client once the controller says it is serving.
ClientStart ==
    /\ client = "waiting"
    /\ main = "serve"
    /\ client' = "sending"
    /\ UNCHANGED <<recs, frameVars, leaf_tbl, digests, controllerVars, crashes>>

ClientSend(q) ==
    /\ client = "sending"
    /\ First(q, "unsent")
    /\ at' = [at EXCEPT ![q] = "toSwitch"]
    /\ UNCHANGED <<clientVars, wire, leaf_tbl, digests, controllerVars, crashes>>

ClientReceive(q) ==
    /\ client # "closed"
    /\ at[q] = "toVision"
    /\ at' = [at EXCEPT ![q] = "received"]
    /\ recs' = [recs EXCEPT ![q] = IF @ = NoAnswer THEN wire[q] ELSE @]
    /\ UNCHANGED <<client, wire, leaf_tbl, digests, controllerVars, crashes>>

\* Slip: the receiver ends with the last send.
NoPatience == TRUE

\* Two seconds without an answer after the last send end the receiver thread:
\* on a reliable network every answer is in by then.
OutOfPatience == Unreliable \/ \A q \in Qids : at[q] \notin OnTheWire

ClientClose ==
    /\ client = "sending"
    /\ \A q \in Qids : at[q] # "unsent"
    /\ OutOfPatience
    /\ client' = "closed"
    /\ UNCHANGED <<recs, frameVars, leaf_tbl, digests, controllerVars, crashes>>

\* A frame lost on a link, by a failed sendmmsg of Hulk, or late at Vision.
Lose(q) ==
    /\ Unreliable
    /\ at[q] \in OnTheWire
    /\ at' = [at EXCEPT ![q] = "lost"]
    /\ UNCHANGED <<clientVars, wire, leaf_tbl, digests, controllerVars, crashes>>

-----------------------------------------------------------------------------
(* DecayedLFU.  score[l] is kept in its time-free form S * gamma^(-last),  *)
(* so that credit(l, t, n) adds n * gamma^(-t) and evict_key compares it.  *)

EvictsBefore(i, j, s) == s[i] < s[j] \/ (s[i] = s[j] /\ last[i] <= last[j])

\* min(self.resident, key = (evict_key, last)); ties in set order.
Victims(s) == {v \in resident : \A j \in resident : EvictsBefore(v, j, s)}

\* Slip: one leaf more than there is room for.
MissEvictsLate(s) == IF Cardinality(resident) > K THEN {{v} : v \in Victims(s)} ELSE {{}}

\* The leaves that a miss evicts: none while there is room.
MissEvicts(s) == IF Cardinality(resident) >= K THEN {{v} : v \in Victims(s)} ELSE {{}}

\* K = 0 is CPU-only mode; a resident leaf's packet raced its install.
Installs(l) == K # 0 /\ l \notin resident

\* Slip: the controller's clock counts the digests.
TimeCounted(q) == t_now + 1

\* t_now[0] = max(t_now[0], qid)
Time(q) == IF q > t_now THEN q ELSE t_now

Free == main \notin {"del", "add"}        \* the lock is free
Live == main \in {"serve", "del", "add", "closing"}

-----------------------------------------------------------------------------
(* The controller's main thread.                                           *)

NewProcess ==
    /\ resident' = {} /\ keys_of' = {} /\ t_now' = 0
    /\ score' = [l \in Leaves |-> 0]
    /\ last' = [l \in Leaves |-> 0]
    /\ last_count' = [l \in Leaves |-> 0]
    /\ poller' = "dead" /\ toRead' = {} /\ counts' = <<>>
    /\ serving' = 0 /\ evicting' = {} /\ stop' = FALSE
    /\ hits' = [l \in Leaves |-> 0]
    /\ credited' = [l \in Leaves |-> 0]
    /\ gone' = {} /\ outdated' = {}
    /\ stale' = FALSE /\ lateWrite' = FALSE

\* connect: from here on digests are queued for this process.
Connect ==
    /\ main = "down"
    /\ main' = "starting"
    /\ digests' = <<>>
    /\ UNCHANGED <<clientVars, frameVars, leaf_tbl, serving, evicting, stop, policyVars,
                   keys_of, last_count, pollerVars, historyVars, crashes>>

\* Slip: the table keeps what an earlier run left in it.
KeepTable == leaf_tbl

\* entry_del without a key empties the table.
EmptyTable == <<>>

\* run: leaf_tbl.entry_del(tgt) before anything else, then the poller starts.
ClearTable ==
    /\ main = "starting"
    /\ leaf_tbl' = EmptyTable
    /\ main' = "serve"
    /\ poller' = "sleep"
    /\ hits' = [l \in Leaves |-> 0]
    /\ UNCHANGED <<clientVars, frameVars, digests, serving, evicting, stop, policyVars,
                   keys_of, last_count, toRead, counts, gone, outdated, credited, stale,
                   lateWrite, crashes>>

\* Slip: a key is recorded only where an old one was removed.
KeysReplaced(l, out) == keys_of \ out

\* The victim's key is popped before entry_del; with no victim to delete, the
\* next assignment records the new leaf's key.
KeysAfterMiss(l, out) == IF out = {} THEN keys_of \cup {l} ELSE keys_of \ out

\* A digest up to pol.miss: credit the leaf, decide, and pop the victim's key.
Miss ==
    /\ main = "serve"
    /\ digests # <<>>
    /\ LET q == Head(digests)
           l == LeafOf[q]
           s == [score EXCEPT ![l] = @ + Gain[q]]
       IN  /\ digests' = Tail(digests)
           /\ serving' = q
           /\ t_now' = Time(q)
           /\ score' = s
           /\ last' = [last EXCEPT ![l] = q]
           /\ \/ /\ ~ Installs(l)
                 /\ evicting' = {}
                 /\ UNCHANGED <<main, resident, keys_of>>
              \/ /\ Installs(l)
                 /\ \E out \in MissEvicts(s) :
                       /\ evicting' = out
                       /\ resident' = (resident \ out) \cup {l}
                       /\ main' = IF out = {} THEN "add" ELSE "del"
                       /\ keys_of' = KeysAfterMiss(l, out)
    /\ UNCHANGED <<clientVars, frameVars, leaf_tbl, stop, last_count, pollerVars,
                   historyVars, crashes>>

\* Slip: the victim leaves the policy but not the switch.
VictimStays == leaf_tbl

\* leaf_tbl.entry_del(tgt, [keys_of.pop(victim)])
WithoutVictim == Restrict(leaf_tbl, Installed \ evicting)

\* leaf_tbl.entry_del of the victim and what follows it up to entry_add.
DeleteVictim ==
    /\ main = "del"
    /\ leaf_tbl' = WithoutVictim
    /\ last_count' = [l \in Leaves |-> IF l \in evicting THEN 0 ELSE last_count[l]]
    /\ keys_of' = keys_of \cup {LeafOf[serving]}
    /\ gone' = gone \cup evicting
    /\ outdated' = outdated \cup (evicting \cap DOMAIN counts)
    /\ main' = "add"
    /\ UNCHANGED <<clientVars, frameVars, digests, serving, evicting, stop, policyVars,
                   pollerVars, crashes, hits, credited, stale, lateWrite>>

\* The action data of a leaf entry and its direct counter, which starts at 0.
NewEntry(l) == [leaf |-> l, klass |-> Klass[l], pkts |-> 0]

\* Slip: eviction is trusted to have cleared the leaf's last count.
CountKept(l) == last_count[l]

\* last_count[leaf] = 0
CountAfterAdd(l) == 0

\* Slip: the install is repeated until the leaf is hit.
AddAgain == "add"

\* With the entry in place the lock is released.
AfterAdd == "serve"

\* leaf_tbl.entry_add with a fresh direct counter, then the lock is released.
AddEntry ==
    LET l == LeafOf[serving] IN
    /\ main = "add"
    /\ leaf_tbl' = [x \in Installed \cup {l} |->
                      IF x = l THEN NewEntry(l) ELSE leaf_tbl[x]]
    /\ last_count' = [last_count EXCEPT ![l] = CountAfterAdd(l)]
    /\ main' = AfterAdd
    /\ UNCHANGED <<clientVars, frameVars, digests, serving, evicting, stop, policyVars,
                   keys_of, pollerVars, crashes, historyVars>>

\* SIGTERM or SIGINT: the handler only sets the event.
Terminate ==
    /\ Live /\ main # "closing"
    /\ ~ stop
    /\ stop' = TRUE
    /\ UNCHANGED <<clientVars, frameVars, leaf_tbl, digests, main, serving, evicting,
                   policyVars, keys_of, last_count, pollerVars, historyVars, crashes>>

\* The loop ends between two digests.
LeaveLoop ==
    /\ main = "serve"
    /\ stop
    /\ main' = "closing"
    /\ UNCHANGED <<clientVars, frameVars, leaf_tbl, digests, serving, evicting, stop,
                   policyVars, keys_of, last_count, pollerVars, historyVars, crashes>>

\* Two poll periods later the log is closed: the poller's own sleep, one period
\* long, is over by then, its entry_get may not be.
CloseLog ==
    /\ main = "closing"
    /\ poller # "sleep"
    /\ main' = "closed"
    /\ UNCHANGED <<clientVars, frameVars, leaf_tbl, digests, serving, evicting, stop,
                   policyVars, keys_of, last_count, pollerVars, historyVars, crashes>>

\* The process ends and its daemon thread with it.
Exit ==
    /\ main = "closed"
    /\ main' = "down"
    /\ digests' = <<>>
    /\ NewProcess
    /\ UNCHANGED <<clientVars, frameVars, leaf_tbl, crashes>>

\* The process is killed at any point; the switch keeps the entries it has.
Crash ==
    /\ Live
    /\ crashes < MaxCrashes
    /\ crashes' = crashes + 1
    /\ main' = "down"
    /\ digests' = <<>>
    /\ NewProcess
    /\ UNCHANGED <<clientVars, frameVars, leaf_tbl>>

-----------------------------------------------------------------------------
(* The poller.                                                             *)

\* The thread tests the stop event before it sleeps again.
NextRound == IF stop THEN "dead" ELSE "sleep"
LogClosed == main = "closed"

\* A write to the log, which ends the thread if the log is closed.
PollerWrites ==
    /\ poller' = IF LogClosed THEN "dead" ELSE NextRound
    /\ lateWrite' = (lateWrite \/ LogClosed)

\* Slip: the thread returns when there is nothing to read.
StopWhenEmpty == "dead"

\* if not res: continue
ContinueWhenEmpty == NextRound

PollSnapshot ==
    /\ poller = "sleep"
    /\ Free
    /\ toRead' = resident
    /\ counts' = <<>>
    /\ gone' = {} /\ outdated' = {}
    /\ poller' = IF resident = {} THEN ContinueWhenEmpty ELSE "keys"
    /\ UNCHANGED <<clientVars, frameVars, leaf_tbl, digests, mainVars, policyVars, keys_of,
                   last_count, hits, credited, stale, lateWrite, crashes>>

\* [keys_of[l] for l in res if l in keys_of], without the lock.  An empty list
\* reads nothing or, as a wildcard, every entry.
PollKeys ==
    /\ poller = "keys"
    /\ poller' = "read"
    /\ \/ toRead' = toRead \cap keys_of
       \/ toRead \cap keys_of = {} /\ toRead' = Installed
    /\ UNCHANGED <<clientVars, frameVars, leaf_tbl, digests, mainVars, policyVars, keys_of,
                   last_count, counts, historyVars, crashes>>

\* entry_get reads the counters one entry after the other.
PollRead(l) ==
    /\ poller = "read"
    /\ l \in toRead
    /\ l \in Installed
    /\ counts' = [x \in DOMAIN counts \cup {l} |->
                    IF x = l THEN leaf_tbl[l].pkts ELSE counts[x]]
    /\ toRead' = toRead \ {l}
    /\ UNCHANGED <<clientVars, frameVars, leaf_tbl, digests, mainVars, policyVars, keys_of,
                   last_count, poller, historyVars, crashes>>

\* An entry, or a key in the list, is gone: the whole round is given up.
PollError ==
    /\ \/ poller = "keys" /\ ~ toRead \subseteq keys_of
       \/ poller = "read" /\ ~ toRead \subseteq Installed
    /\ PollerWrites
    /\ toRead' = {}
    /\ counts' = <<>>
    /\ UNCHANGED <<clientVars, frameVars, leaf_tbl, digests, mainVars, policyVars, keys_of,
                   last_count, crashes, gone, outdated, hits, credited, stale>>

\* d = c - last_count.get(l, 0); if d > 0
Gained(l) == IF counts[l] > last_count[l] THEN counts[l] - last_count[l] ELSE 0

\* Under the lock: what the counters have gained is credited at t_now.
Credit(l) == IF l \in DOMAIN counts \cap resident THEN Gained(l) ELSE 0

PollApply ==
    /\ poller = "read"
    /\ toRead = {}
    /\ Free
    /\ score' = [l \in Leaves |-> score[l] + Credit(l) * Gain[t_now]]
    /\ last' = [l \in Leaves |-> IF Credit(l) > 0 THEN t_now ELSE last[l]]
    /\ last_count' = [l \in Leaves |-> IF l \in DOMAIN counts THEN counts[l]
                                                             ELSE last_count[l]]
    /\ credited' = [l \in Leaves |-> credited[l] + Credit(l)]
    /\ stale' = (stale \/ outdated \cap resident # {})
    /\ IF \E l \in Leaves : Credit(l) > 0
       THEN PollerWrites
       ELSE poller' = NextRound /\ UNCHANGED lateWrite
    /\ counts' = <<>>
    /\ UNCHANGED <<clientVars, frameVars, leaf_tbl, digests, mainVars, resident, t_now,
                   keys_of, toRead, crashes, gone, outdated, hits>>

-----------------------------------------------------------------------------
\* The table a run finds: entries that an earlier run of the same tree left.
Leftover(S) == [l \in S |-> [leaf |-> l, klass |-> Klass[l], pkts |-> 0]]

Init ==
    /\ client = "waiting"
    /\ at = [q \in Qids |-> "unsent"]
    /\ recs = [q \in Qids |-> NoAnswer]
    /\ wire = [q \in Qids |-> NoAnswer]
    /\ \E S \in SUBSET Leaves : leaf_tbl = Leftover(S)
    /\ digests = <<>>
    /\ main = "down" /\ serving = 0 /\ evicting = {} /\ stop = FALSE
    /\ resident = {} /\ keys_of = {} /\ t_now = 0
    /\ score = [l \in Leaves |-> 0]
    /\ last = [l \in Leaves |-> 0]
    /\ last_count = [l \in Leaves |-> 0]
    /\ poller = "dead" /\ toRead = {} /\ counts = <<>>
    /\ crashes = 0
    /\ gone = {} /\ outdated = {}
    /\ hits = [l \in Leaves |-> 0]
    /\ credited = [l \in Leaves |-> 0]
    /\ stale = FALSE /\ lateWrite = FALSE

SwitchStep(q) == SwitchHit(q) \/ SwitchMiss(q) \/ SwitchForward(q)
ClientStep(q) == ClientSend(q) \/ ClientReceive(q)
MainStep == Connect \/ ClearTable \/ Miss \/ DeleteVictim \/ AddEntry
            \/ LeaveLoop \/ CloseLog \/ Exit
PollerStep == PollSnapshot \/ PollKeys \/ (\E l \in Leaves : PollRead(l))
              \/ PollError \/ PollApply
Environment == Terminate \/ Crash \/ (\E q \in Qids : Lose(q))

Next ==
    \/ \E q \in Qids : SwitchStep(q) \/ HulkClassify(q) \/ ClientStep(q)
    \/ ClientStart \/ ClientClose
    \/ MainStep
    \/ PollerStep
    \/ Environment

Spec == Init /\ [][Next]_vars

\* Fairness: threads that run, a switch, links and a backend that keep up.
\* Nobody has to start a controller, stop it or lose a frame.
FairSpec ==
    /\ Spec
    /\ \A q \in Qids : /\ WF_vars(SwitchStep(q))
                       /\ WF_vars(HulkClassify(q))
                       /\ WF_vars(ClientStep(q))
    /\ WF_vars(ClientStart)
    /\ WF_vars(ClearTable \/ Miss \/ DeleteVictim \/ AddEntry)
    /\ WF_vars(PollerStep)

-----------------------------------------------------------------------------
(* Properties.                                                             *)

Entry == [leaf : Leaves, klass : {Klass[l] : l \in Leaves}, pkts : Nat]
Answer == [leaf : Leaves \cup {"none"}, klass : {Klass[l] : l \in Leaves} \cup {"none"}]

\* Every variable has its type: what each part of the deployment can hold.
TypeOK ==
    /\ client \in {"waiting", "sending", "closed"}
    /\ at \in [Qids -> Places]
    /\ recs \in [Qids -> Answer]
    /\ wire \in [Qids -> Answer]
    /\ Installed \subseteq Leaves
    /\ \A l \in Installed : leaf_tbl[l] \in Entry
    /\ digests \in Seq(Qids)
    /\ main \in {"down", "starting", "serve", "del", "add", "closing", "closed"}
    /\ serving \in Qids
    /\ evicting \in SUBSET Leaves
    /\ stop \in BOOLEAN
    /\ resident \in SUBSET Leaves
    /\ score \in [Leaves -> Nat]
    /\ last \in [Leaves -> Qids]
    /\ t_now \in Qids
    /\ keys_of \in SUBSET Leaves
    /\ last_count \in [Leaves -> Nat]
    /\ poller \in {"sleep", "keys", "read", "dead"}
    /\ toRead \in SUBSET Leaves
    /\ DOMAIN counts \subseteq Leaves
    /\ \A l \in DOMAIN counts : counts[l] \in Nat
    /\ crashes \in Nat
    /\ gone \in SUBSET Leaves /\ outdated \in SUBSET Leaves
    /\ hits \in [Leaves -> Nat]
    /\ credited \in [Leaves -> Nat]
    /\ stale \in BOOLEAN /\ lateWrite \in BOOLEAN

\* The deployment implements ExactInference: whatever the controller does to
\* the table while queries are in flight (evicting, reinstalling, crashing
\* between the two, restarting over a populated table), a query is recorded at
\* most once and with the tree's answer ("100 % fidelity").
Exact == INSTANCE ExactInference WITH
            asked <- {q \in Qids : at[q] # "unsent"},
            answer <- recs
ExactAnswers == Exact!Spec

\* On a network that loses nothing, every query sent is answered, from the
\* switch or from Hulk, whether or not a controller is running.
EveryQueryAnswered == Exact!FairSpec

\* At no instant, not even between entry_del and entry_add or after an
\* earlier run left its entries, do more than K leaves occupy the table of a
\* controller that serves (controller.py: "at most K are resident").
OccupancyBound == Live => Cardinality(Installed) <= K

\* Whenever the lock is free, the switch's table, the policy's resident set
\* and keys_of name the same leaves: a graceful stop, unlike a crash, never
\* leaves an install half done.
TableMirrorsPolicy == Live /\ Free => Installed = resident /\ keys_of = resident

\* entry_del always finds the victim and entry_add never finds the leaf there
\* already: no BF-RT call of the main thread fails and ends the process.
CallsSucceed ==
    /\ main = "del" => evicting \subseteq Installed
    /\ main = "add" => LeafOf[serving] \notin Installed

\* A poll round is given up only because a leaf of its snapshot was evicted
\* since ("entry evicted between snapshot and read"): keys and entries are
\* read without the lock, yet nothing else can make them disappear.
PollErrorMeansEviction ==
    /\ poller = "keys" => toRead \ keys_of \subseteq gone \cup evicting
    /\ poller = "read" => toRead \ Installed \subseteq gone

\* Every credit stands for a hit that a direct counter has seen.
EveryCreditIsAHit == \A l \in Leaves : credited[l] <= hits[l]

\* It does, and the hits still to be credited are those beyond last_count, as
\* long as no count has been applied to a leaf evicted and installed again
\* since the poller read it.
CreditsAreHits ==
    ~ stale =>
      /\ EveryCreditIsAHit
      /\ \A l \in Installed \cap resident :
            leaf_tbl[l].pkts >= last_count[l]
            /\ credited[l] + (leaf_tbl[l].pkts - last_count[l]) <= hits[l]

\* The log is closed after the poller's last write.
LogClosedAfterLastWrite == ~ lateWrite

\* The digests of a controller that keeps serving are all handled.
DigestsAreServed == (main = "serve" /\ digests # <<>>) ~> (digests = <<>> \/ stop)

\* The hits of a leaf are credited in the end, unless it is evicted or the
\* controller stops: rounds that fail or come too late do not starve it.
HitsAreCredited ==
    \A l \in Leaves :
        (Live /\ l \in Installed /\ leaf_tbl[l].pkts > last_count[l])
        ~> (~ Live \/ stop \/ l \notin Installed \/ leaf_tbl[l].pkts <= last_count[l])
=============================================================================
