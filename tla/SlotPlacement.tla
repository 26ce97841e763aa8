---------------------------- MODULE SlotPlacement ----------------------------
(***************************************************************************)
(* Which slots a packet may use, and under which hash: derived by the      *)
(* emulator from the packet (netbeacon_sim.py), or computed by a runner    *)
(* and forced (g2_mawi.py, g8_mawi.py), for one table or two; and where    *)
(* the holders of the targeted runs are placed to meet their victims       *)
(* (g2b_targeted.py, g6_leak.py).  A hash is any function of the 5-tuple   *)
(* for every kind and seed; a draw of a generator is any of its values.    *)
(***************************************************************************)
EXTENDS Integers, Sequences, FiniteSets, Functions, BitWords

CONSTANTS
    Keys,           \* <<kind, seed>> of the hash functions
    Tuples,         \* 5-tuples
    Hashes,         \* functions: <<kind, seed>> -> tuple -> 32-bit hash
    Streams,        \* sequences of packets [tuple, ts], in time order
    Jobs,           \* [kind, seed, g, dfn, rekey, n]: what a runner is asked for; dfn "und" is none
    Hash2Seed       \* the default of hash2_seed, 7919

PowerOfTwo(n) == n & (n - 1) = 0

TwoTables(dfn) == dfn \in {"d4", "d5", "d4s", "d4c"}

\* Seeds of the second hash: of a draw, and of a later epoch of it.
DrawSeed(g) == 900000 + g
RekeySeed(e, g) == 900000 + 1000 * e + g

EpochOf(s, i, rekey) == IF rekey = 0 THEN 0 ELSE (s[i].ts - s[1].ts) \div rekey

\* The hashes that a job takes of a stream.
KeysUsed(x, s) ==
    {<<"crc", 0>>, <<"polyirr", Hash2Seed>>, <<"polyirr", DrawSeed(x.g)>>}
    \cup (IF x.kind = "iso" THEN {} ELSE {<<x.kind, x.seed>>})
    \cup {<<"polyirr", RekeySeed(EpochOf(s, i, x.rekey), x.g)>> : i \in DOMAIN s}

\* The sizes of every list of jobs are powers of two, those of two tables above
\* one; crc has no seed, and of the defences D5 alone is rekeyed.
JobIsMeant(x) ==
    /\ x.n \in Nat \ {0} /\ PowerOfTwo(x.n) /\ (TwoTables(x.dfn) => x.n % 2 = 0)
    /\ x.kind = "crc" => x.seed = 0
    /\ x.rekey \in Nat /\ (x.rekey # 0 => x.dfn = "d5")

StreamIsMeant(s) ==
    /\ s \in Seq([tuple : Tuples, ts : Nat]) /\ s # <<>>
    /\ \A i \in DOMAIN s \ {1} : s[i - 1].ts <= s[i].ts

PlacementAssumption ==
    /\ \A x \in Jobs : JobIsMeant(x)
    /\ \A s \in Streams : StreamIsMeant(s) /\ \A x \in Jobs : KeysUsed(x, s) \subseteq Keys
    /\ Hashes \subseteq [Keys -> [Tuples -> Nat]]

VARIABLES
    hash,           \* the hash functions
    pk,             \* the stream
    job,
    runner,         \* "emulator", "forced" or "compiled": who runs the job
    stage,          \* "job", "run", then "placed" or "raised", then "held"
    forced,         \* force_hash, force_slot, force_slot2 for every packet, if any
    placed,         \* hash and candidates of every packet
    held            \* a victim's holders: slot and candidates of the second table

placeVars == <<hash, pk, job, runner, stage, forced, placed, held>>

-----------------------------------------------------------------------------
(* The runners.                                                            *)

\* flow_hash: hash_unique over the distinct tuples, gathered back.
flow_hash(kind, seed, i) == hash[<<kind, seed>>][pk[i].tuple]

\* The second hash is the shipped one in D4 alone.
h2seed == IF job.dfn = "d4" THEN Hash2Seed ELSE DrawSeed(job.g)

half == job.n \div 2

Epoch(i) == EpochOf(pk, i, job.rekey)

\* Slip: the rotation of the first epoch is a new key too.
EpochSeedFromOne(e) == IF job.rekey = 0 THEN h2seed ELSE RekeySeed(e + 1, job.g)

EpochSeed(e) == IF e = 0 THEN h2seed ELSE RekeySeed(e, job.g)

\* g2_mawi.run.
ForcedSlot(i) ==
    LET fh == flow_hash(job.kind, job.seed, i)
        a == fh % half
    IN IF TwoTables(job.dfn)
       THEN [hash |-> fh, slot |-> a,
             slot2 |-> half + (IF job.dfn = "d4s" THEN a
                               ELSE (flow_hash("polyirr", EpochSeed(Epoch(i)), i) % half))]
       ELSE [hash |-> fh, slot |-> fh & (job.n - 1), slot2 |-> 0]

\* g8_mawi.run with sorted hashes: two ways for d4c alone.
CompiledSlot(i) ==
    LET tag == flow_hash("crc", 0, i) IN
    IF job.dfn = "d4c"
    THEN [hash |-> tag, slot |-> tag % half,
          slot2 |-> half + (flow_hash("polyirr", DrawSeed(job.g), i) % half)]
    ELSE [hash |-> tag, slot |-> tag & (job.n - 1), slot2 |-> 0]

\* parse_job: a kind other than crc needs a seed.
Parsed == job.kind \in {"iso", "crc"} \/ job.seed # 0

RunJob ==
    /\ stage = "job" /\ Parsed /\ stage' = "run"
    /\ \/ runner = "forced" /\ job.kind # "iso" /\ forced' = [i \in DOMAIN pk |-> ForcedSlot(i)]
       \/ /\ runner = "compiled" /\ job.kind = "crc" /\ job.rekey = 0 /\ job.dfn \in {"und", "d4c"}
          /\ forced' = [i \in DOMAIN pk |-> CompiledSlot(i)]
       \/ runner = "emulator" /\ job.rekey = 0 /\ job.dfn # "d4s" /\ forced' = <<>>
    /\ UNCHANGED <<hash, pk, job, runner, placed, held>>

-----------------------------------------------------------------------------
(* NetBeaconSim.run and TofinoSim.run, up to the first packet.             *)

\* g1_netbeacon.run_job leaves hash2_seed as it is; g2_mawi sets it.
SimSeed2 == IF runner = "emulator" THEN Hash2Seed ELSE h2seed

\* iso: flow_ids without a timeout; a flow's first packet numbers it.
FlowId(i) ==
    LET first(j) == \A k \in 1 .. j - 1 : pk[k].tuple # pk[j].tuple
        own == CHOOSE j \in DOMAIN pk : first(j) /\ pk[j].tuple = pk[i].tuple
    IN Cardinality({j \in 1 .. own : first(j)}) - 1

IsolatedSlot(i) == [hash |-> FlowId(i) + 1, slot |-> FlowId(i), slot2 |-> 0]

Derived(kind, seed, seed2, i) ==
    LET fh == flow_hash(kind, seed, i) IN
    IF TwoTables(job.dfn)
    THEN [hash |-> fh, slot |-> fh % half, slot2 |-> half + (flow_hash("polyirr", seed2, i) % half)]
    ELSE [hash |-> fh, slot |-> IF PowerOfTwo(job.n) THEN fh & (job.n - 1) ELSE fh % job.n, slot2 |-> 0]

Table == IF job.kind = "iso" /\ runner = "emulator" THEN "isolated" ELSE IF TwoTables(job.dfn) THEN "two" ELSE "one"

OutOfTable(x) == Table = "two" /\ ~ (x.slot < half /\ half <= x.slot2 /\ x.slot2 < job.n)

\* One hash for both tables is refused when the emulator draws it itself.
SameHash == job.kind = "polyirr" /\ runner = "emulator" /\ TwoTables(job.dfn) /\ job.seed = SimSeed2

Place ==
    /\ stage = "run" /\ runner # "compiled"
    /\ LET all == IF forced # <<>> THEN forced
                  ELSE [i \in DOMAIN pk |->
                           IF Table = "isolated" THEN IsolatedSlot(i)
                           ELSE Derived(job.kind, job.seed, SimSeed2, i)]
       IN /\ placed' = all
          /\ stage' = IF \/ TwoTables(job.dfn) /\ job.n % 2 # 0
                         \/ SameHash
                         \/ \E i \in DOMAIN all : OutOfTable(all[i])
                      THEN "raised" ELSE "placed"
    /\ UNCHANGED <<hash, pk, job, runner, forced, held>>

\* What TofinoSim.run refuses: nothing forced, packets out of order, or for two
\* ways an odd table or a slot outside its half.
CompiledRefuses ==
    \/ forced = <<>>
    \/ \E i \in DOMAIN pk \ {1} : pk[i].ts < pk[i - 1].ts
    \/ TwoTables(job.dfn) /\ (job.n % 2 # 0 \/ \E i \in DOMAIN forced : OutOfTable(forced[i]))

PlaceCompiled ==
    /\ stage = "run" /\ runner = "compiled"
    /\ placed' = forced
    /\ stage' = IF CompiledRefuses THEN "raised" ELSE "placed"
    /\ UNCHANGED <<hash, pk, job, runner, forced, held>>

-----------------------------------------------------------------------------
(* Holders for a victim: a flow of the slice, by its first packet.         *)

FirstPacket(v) == \A j \in 1 .. v - 1 : pk[j].tuple # pk[v].tuple

\* g2b_targeted.prep takes a victim's slot from the unkeyed hash; the arms
\* preempt and reactive put one holder on it and leave the hash unkeyed.
HoldOneTable ==
    /\ stage = "placed" /\ runner = "forced" /\ job.kind = "crc" /\ job.dfn = "und"
    /\ \E v \in DOMAIN pk :
          /\ FirstPacket(v)
          /\ held' = [victim |-> v, slot |-> flow_hash("crc", 0, v) & (job.n - 1), cand |-> <<>>, pick |-> {}]
    /\ stage' = "held"
    /\ UNCHANGED <<hash, pk, job, runner, forced, placed>>

\* Slip: a draw above the true slot is moved past it, one equal to it is not.
MovedAbove(o, true) == IF o > true THEN o + 1 ELSE o

\* Draws come from one slot fewer than table B has; those from the true slot on
\* move up by one.
Moved(o, true) == IF o >= true THEN o + 1 ELSE o

\* g6_leak.run, informed holders: the true slot first, then c - 1 others.
Candidates(true, draws) == <<true>> \o [k \in DOMAIN draws |-> Moved(draws[k], true)]

\* g6_leak.run: a holder on the victim's slot of table A, and m informed ones on
\* distinct members of the candidates for its slot of table B.
HoldTwoTables ==
    /\ stage = "placed" /\ runner = "forced" /\ job.kind = "crc" /\ job.dfn = "d4"
    /\ \E v \in {v \in DOMAIN pk : FirstPacket(v)}, c \in 1 .. 3 :
          \E draws \in [1 .. c - 1 -> half .. job.n - 2], pick \in SUBSET (1 .. c) :
             /\ \A k, l \in DOMAIN draws : draws[k] = draws[l] => k = l
             /\ held' = [victim |-> v, slot |-> placed[v].slot, cand |-> Candidates(placed[v].slot2, draws), pick |-> pick]
    /\ stage' = "held"
    /\ UNCHANGED <<hash, pk, job, runner, forced, placed>>

PlaceInit ==
    /\ hash \in Hashes /\ pk \in Streams /\ job \in Jobs
    /\ runner \in {"emulator", "forced", "compiled"}
    /\ stage = "job" /\ forced = <<>> /\ placed = <<>> /\ held = <<>>

PlaceNext == RunJob \/ Place \/ PlaceCompiled \/ HoldOneTable \/ HoldTwoTables

PlaceSpec == PlaceInit /\ [][PlaceNext]_placeVars
-----------------------------------------------------------------------------
(* Properties.                                                             *)

\* Holders meet their victim: the slot taken for the victim is that of each of
\* its packets; the candidates given to informed holders are distinct slots of
\* table B with the true one among them, so holders on all of them leave the
\* victim no free slot.
HoldersMeetVictims ==
    stage = "held" =>
       \A i \in {i \in DOMAIN pk : pk[i].tuple = pk[held.victim].tuple} :
          /\ placed[i].slot = held.slot
          /\ job.dfn = "d4" =>
                /\ IsInjective(held.cand) /\ Range(held.cand) \subseteq half .. job.n - 1
                /\ held.pick = DOMAIN held.cand => placed[i].slot2 \in {held.cand[k] : k \in held.pick}

\* No job is refused but one whose tables would share a hash.  What a runner
\* forces is what the emulator derives under the same hashes, so that runs with
\* and without holders differ in the holders alone; redrawing the second hash
\* moves no packet of the first epoch and no candidate of table A; the runner of
\* the compiled program forces the same again.  Isolated flows share no slot.
PlacementsAgree ==
    placed # <<>> =>
       /\ stage = "raised" <=> SameHash
       /\ HoldersMeetVictims
       /\ runner # "emulator" =>
             \A i \in DOMAIN pk :
                LET own == Derived(job.kind, job.seed, h2seed, i) IN
                /\ placed[i].hash = own.hash /\ placed[i].slot = own.slot
                /\ job.dfn = "d4s" => placed[i].slot2 = half + own.slot
                /\ job.dfn # "d4s" /\ Epoch(i) = 0 => placed[i] = own
                /\ runner = "compiled" => placed[i] = ForcedSlot(i)
       /\ Table = "isolated" =>
             \A i, k \in DOMAIN pk :
                (placed[i].slot = placed[k].slot \/ placed[i].hash = placed[k].hash) => pk[i].tuple = pk[k].tuple
=============================================================================
