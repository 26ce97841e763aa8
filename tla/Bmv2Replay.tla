----------------------------- MODULE Bmv2Replay -----------------------------
(***************************************************************************)
(* The BMv2 prototype (experiments/w5_bmv2.py, mvm/p4rt.py): a P4Runtime   *)
(* client replays slices of the stream against simple_switch_grpc and      *)
(* keeps the K leaves of a decayed LFU in its table.  A query is the leaf  *)
(* its features fall into; a leaf stands for its entry, its class and its  *)
(* ranges.  The switch and the stream to it are external.                  *)
(***************************************************************************)
EXTENDS Integers, SequencesExt, FiniteSetsExt

CONSTANTS
    SliceLists,     \* lists of slices, each a sequence of leaves
    K,              \* capacity of the policy; the table is larger
    Gain,           \* t -> weight of an access at t, gamma^-t
    Entries, Batch  \* n and batch of the write benchmark

VARIABLES
    slices,         \* the slices that are still to be replayed
    stage,          \* where the client's main thread is
    query,          \* t, the query that is being replayed
    requests,       \* _req: messages for the switch
    responses,      \* the stream from the switch, not yet read
    mastership,     \* the arbitration answer has come
    packet_in,      \* what _reader has queued
    leaf_tbl,       \* the leaves in the switch
    installed,      \* the leaves the client believes are there
    cache,          \* the policy: resident, weight, last
    dels, ins,      \* writes of the query being served
    recs,           \* the records of the slice
    writes          \* the writes of the benchmark that are still to come

bmvVars == <<slices, stage, query, requests, responses, mastership, packet_in,
             leaf_tbl, installed, cache, dels, ins, recs, writes>>

channelVars == <<requests, responses, mastership, packet_in>>

\* The policy and the benchmark have room for something; weights are integers
\* here.
BmvAssumption ==
    /\ K \in Nat \ {0} /\ Entries \in Nat /\ Batch \in Nat \ {0}
    /\ SliceLists \subseteq Seq(Seq(Nat))
    /\ \A list \in SliceLists : \A i \in 1 .. Len(list) : \A t \in 0 .. Len(list[i]) - 1 : Gain[t] \in Nat

-----------------------------------------------------------------------------
(* The policy.                                                             *)

NewPolicy == [resident |-> {}, weight |-> <<>>, last |-> <<>>]

Known(c, l) == l \in DOMAIN c.weight

Worse(c, l, m) == c.weight[l] < c.weight[m] \/ (c.weight[l] = c.weight[m] /\ c.last[l] < c.last[m])

Victims(c) ==
    {l \in c.resident : Cardinality(c.resident) >= K /\ \A m \in c.resident : ~ Worse(c, m, l)}

Credited(c, l, t, resident) ==
    LET known == DOMAIN c.weight \cup {l}
    IN [resident |-> resident,
        weight |-> [m \in known |-> (IF Known(c, m) THEN c.weight[m] ELSE 0) + (IF m = l THEN Gain[t] ELSE 0)],
        last |-> [m \in known |-> IF m = l THEN t ELSE c.last[m]]]

PolicyAccess(c, t, l) ==
    Credited(c, l, t, IF l \in c.resident THEN c.resident ELSE (c.resident \ Victims(c)) \cup {l})

-----------------------------------------------------------------------------
(* The client.                                                             *)

Arbitration == -1

BmvInit ==
    /\ slices \in SliceLists
    /\ stage = "connect" /\ query = 0
    /\ requests = <<[id |-> Arbitration]>> /\ responses = <<>>
    /\ mastership = FALSE /\ packet_in = <<>>
    /\ leaf_tbl = {} /\ installed = {} /\ cache = NewPolicy
    /\ dels = {} /\ ins = {} /\ recs = <<>> /\ writes = <<>>

\* Mastership was granted: the pipeline is set, the first slice begins.
Connected ==
    /\ stage = "connect" /\ mastership
    /\ stage' = "send" /\ leaf_tbl' = {}
    /\ UNCHANGED <<slices, query, requests, responses, mastership, packet_in, installed,
                   cache, dels, ins, recs, writes>>

\* packet_out: the query is queued for the stream.
PacketOut ==
    /\ stage = "send" /\ slices # <<>> /\ query < Len(Head(slices))
    /\ requests' = Append(requests, [id |-> query, leaf |-> Head(slices)[query + 1]])
    /\ stage' = "get"
    /\ UNCHANGED <<slices, query, responses, mastership, packet_in, leaf_tbl, installed,
                   cache, dels, ins, recs, writes>>

\* What the switch answers: arbitration, or whether the leaf is in its table.
SwitchAnswers ==
    /\ requests # <<>>
    /\ LET r == Head(requests) IN
       responses' = Append(responses,
           IF r.id = Arbitration THEN r ELSE [id |-> r.id, hit |-> r.leaf \in leaf_tbl, leaf |-> r.leaf])
    /\ requests' = Tail(requests)
    /\ UNCHANGED <<slices, stage, query, mastership, packet_in, leaf_tbl, installed,
                   cache, dels, ins, recs, writes>>

\* _reader: the thread that empties the stream.
Read ==
    /\ responses # <<>> /\ responses' = Tail(responses)
    /\ IF Head(responses).id = Arbitration
       THEN mastership' = TRUE /\ packet_in' = packet_in
       ELSE packet_in' = Append(packet_in, Head(responses)) /\ mastership' = mastership
    /\ UNCHANGED <<slices, stage, query, requests, leaf_tbl, installed, cache, dels, ins, recs, writes>>

\* Slip: hits do not reach the policy, as on the Tofino controller.
AfterMiss(sw, l) == IF sw.hit THEN cache ELSE PolicyAccess(cache, query, l)

AfterQuery(sw, l) == PolicyAccess(cache, query, l)

Rec(sw, policy_hit, served, after) ==
    [switch_hit |-> sw.hit, policy_hit |-> policy_hit, switch_leaf |-> sw.leaf, served |-> served,
     n_installed |-> Cardinality(after)]

\* packet_in.get: the answer must be the query's.  A hit needs no write.
GetAnswer ==
    /\ stage = "get" /\ packet_in # <<>> /\ Head(packet_in).id = query
    /\ LET sw == Head(packet_in)
           l == Head(slices)[query + 1]
           after == AfterQuery(sw, l)
       IN /\ cache' = after
          /\ dels' = IF sw.hit THEN {} ELSE cache.resident \ after.resident
          /\ ins' = IF sw.hit THEN {} ELSE after.resident \ cache.resident
          /\ dels' \subseteq installed
          /\ installed' = (installed \ dels') \cup ins'
          /\ recs' = Append(recs, Rec(sw, l \in cache.resident, IF sw.hit THEN sw.leaf ELSE l, installed'))
    /\ packet_in' = Tail(packet_in) /\ stage' = "delete"
    /\ UNCHANGED <<slices, query, requests, responses, mastership, leaf_tbl, writes>>

\* No answer for ten seconds, one that is not the query's, an entry to be
\* deleted that was never installed: the run ends without a summary.
GivesUp ==
    /\ stage \in {"connect", "get", "delete", "insert", "clear"}
    /\ stage' = "failed"
    /\ UNCHANGED <<channelVars, slices, query, leaf_tbl, installed, cache, dels, ins, recs, writes>>

WriteDeletes ==
    /\ stage = "delete" /\ dels \subseteq leaf_tbl
    /\ leaf_tbl' = leaf_tbl \ dels /\ stage' = "insert"
    /\ UNCHANGED <<channelVars, slices, query, installed, cache, dels, ins, recs, writes>>

WriteInserts ==
    /\ stage = "insert" /\ ins \cap leaf_tbl = {}
    /\ leaf_tbl' = leaf_tbl \cup ins /\ stage' = "send" /\ query' = query + 1
    /\ UNCHANGED <<channelVars, slices, installed, cache, dels, ins, recs, writes>>

SliceDone == slices # <<>> /\ query = Len(Head(slices))

\* The end of a slice: its entries are deleted, the count read must be zero.
\* The next slice has a new policy and counts its queries from zero.
ClearSlice ==
    /\ stage = "send" /\ SliceDone
    /\ leaf_tbl = installed /\ leaf_tbl' = {}
    /\ slices' = Tail(slices) /\ query' = 0 /\ recs' = <<>>
    /\ installed' = {} /\ cache' = NewPolicy
    /\ stage' = IF Tail(slices) = <<>> THEN "summary" ELSE "send"
    /\ UNCHANGED <<channelVars, dels, ins, writes>>

\* write_benchmark, after the slices: n entries are inserted and deleted one by
\* one, and then in batches, with a count in between.
EntryIds == 0 .. Entries - 1
OneByOne(op) == [i \in 1 .. Entries |-> [op |-> op, ids |-> {i - 1}]]

\* Slip: what does not fill a batch is left out.
FullBatches(op) ==
    [b \in 1 .. Entries \div Batch |-> [op |-> op, ids |-> {i \in EntryIds : i \div Batch = b - 1}]]

InBatches(op) ==
    [b \in 1 .. (Entries + Batch - 1) \div Batch |-> [op |-> op, ids |-> {i \in EntryIds : i \div Batch = b - 1}]]

StartBenchmark ==
    /\ stage = "summary" /\ stage' = "benchmark"
    /\ writes' = OneByOne("INSERT") \o OneByOne("DELETE") \o InBatches("INSERT")
                 \o <<[op |-> "COUNT", ids |-> EntryIds]>> \o InBatches("DELETE")
    /\ UNCHANGED <<channelVars, slices, query, leaf_tbl, installed, cache, dels, ins, recs>>

\* A switch refuses to insert what is there and to delete what is not.
Accepted(w) ==
    CASE w.op = "INSERT" -> w.ids \cap leaf_tbl = {}
      [] w.op = "DELETE" -> w.ids \subseteq leaf_tbl
      [] OTHER -> Cardinality(leaf_tbl) = Entries

BenchmarkWrite ==
    /\ stage = "benchmark" /\ writes # <<>> /\ Accepted(Head(writes))
    /\ writes' = Tail(writes)
    /\ leaf_tbl' = CASE Head(writes).op = "INSERT" -> leaf_tbl \cup Head(writes).ids
                     [] Head(writes).op = "DELETE" -> leaf_tbl \ Head(writes).ids
                     [] OTHER -> leaf_tbl
    /\ UNCHANGED <<channelVars, slices, stage, query, installed, cache, dels, ins, recs>>

BmvNext ==
    \/ Connected \/ PacketOut \/ SwitchAnswers \/ Read \/ GetAnswer \/ GivesUp
    \/ WriteDeletes \/ WriteInserts \/ ClearSlice \/ StartBenchmark \/ BenchmarkWrite

BmvSpec == BmvInit /\ [][BmvNext]_bmvVars
-----------------------------------------------------------------------------
\* simulate_fast over the slice: the policy after each query.
Simulated(s) ==
    LET after[i \in 0 .. Len(s)] ==
            IF i = 0 THEN NewPolicy ELSE PolicyAccess(after[i - 1], i - 1, s[i])
    IN after

\* The checks that main writes into the summary, here after every query: what
\* was served, the policy, the leaf of a hit, the simulator, the occupancy.
checks ==
    LET s == Head(slices)
        sim == Simulated(s)
    IN \A i \in DOMAIN recs :
          /\ recs[i].served = s[i]
          /\ recs[i].switch_hit <=> recs[i].policy_hit
          /\ recs[i].switch_hit => recs[i].switch_leaf = s[i]
          /\ recs[i].switch_hit <=> s[i] \in sim[i - 1].resident
          /\ recs[i].n_installed <= K

-----------------------------------------------------------------------------
(* Properties.                                                             *)

\* No run ends with CHECKS FAILED: the switch hits exactly when the policy and
\* the simulator say so, and answers with the query's leaf.  Between queries
\* the table holds what the client believes and what the policy keeps.  No
\* write of the benchmark is refused, its count is right and it leaves nothing.
ReplayMatchesSimulator ==
    /\ slices # <<>> => checks
    /\ stage # "benchmark" => Cardinality(leaf_tbl) <= K
    /\ stage = "benchmark" /\ writes # <<>> => Accepted(Head(writes))
    /\ stage = "benchmark" /\ writes = <<>> => leaf_tbl = {}
    /\ stage = "send" => leaf_tbl = installed /\ installed = cache.resident
=============================================================================
