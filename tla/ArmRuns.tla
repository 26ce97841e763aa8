------------------------------ MODULE ArmRuns ------------------------------
(***************************************************************************)
(* One run of an arm of the experiments (scripts/g2b_mawi.py,              *)
(* g5_peerrush.py, g8_*.py, g2b_targeted.py, g6_*.py): holder flows are    *)
(* drawn (dgrade/inject.py, inject_targeted.py), merged with the benign    *)
(* stream, run through the emulator, and the outcomes are taken apart      *)
(* again.  The arms with one and with two tables draw side by side, from   *)
(* generators with the same seed, since reports pair them.                 *)
(*                                                                         *)
(* A generator is its list of words: a draw of n numbers takes the next n. *)
(* An outcome is the packet that it was computed for, with the slot, the   *)
(* per-packet verdict and the long flag that the emulator was given.       *)
(***************************************************************************)
EXTENDS Integers, SequencesExt, FiniteSetsExt, TLC

CONSTANTS
    Captures,       \* captures in file order: sequences of [ts, flow]
    Words,          \* generators: functions from 1 .. to Nat
    Holders,        \* n_flows of a fill
    Modes,          \* subset of {"fill", "preempt", "reactive"}
    NSlots,         \* n_slots
    Interval,       \* interval_ns
    Ramp,           \* ramp_ns
    Rot,            \* ROT_NS; a run with one rotation has a larger one
    Life,           \* 500 s, the span of one rotation
    MaxPackets,     \* MAX_PACKETS_PER_FLOW
    Lead,           \* LEAD_NS
    Gap,            \* GAP_NS
    React           \* REACT_DELAY_NS

Arms == {"und", "d4", "d4s"}
Two(arm) == arm # "und"
Half == NSlots \div 2

ArmAssumption ==
    /\ NSlots > 0 /\ NSlots % 2 = 0 /\ Interval > 0 /\ Ramp > 0
    /\ React < Gap /\ Life >= Rot + Ramp

VARIABLES
    capture,        \* the capture
    benign,         \* the benign stream, once loaded
    words, mode,
    drawn,          \* arm -> [pos: words taken, parts: rotations, each a sequence of flows]
    stage,          \* arm -> "draw", "merge", "run", "saved" or "raised"
    merged,         \* arm -> [order: merged position -> index into benign \o injected, given]
    saved           \* arm -> [benign, injected]: the outcomes in the result file

armVars == <<capture, benign, words, mode, drawn, stage, merged, saved>>

NotLoaded == <<[ts |-> -1]>>

\* A stable sort by time: position -> index.
ByTime(s) ==
    SortSeq([i \in DOMAIN s |-> i], LAMBDA i, j : s[i].ts < s[j].ts \/ (s[i].ts = s[j].ts /\ i < j))

-----------------------------------------------------------------------------
(* load_day, load_stream.                                                  *)

\* Slip: the packets stay in the order of the file.
FileOrder(s) == s

\* Captures "are not strictly time-ordered": a stable sort; time starts at 0.
TimeOrder(s) ==
    LET first == Min({s[i].ts : i \in DOMAIN s})
        order == ByTime(s)
    IN [p \in DOMAIN s |-> [s[order[p]] EXCEPT !.ts = @ - first]]

Load ==
    /\ benign = NotLoaded
    /\ benign' = TimeOrder(capture)
    /\ UNCHANGED <<capture, words, mode, drawn, stage, merged, saved>>

Span == Max({benign[i].ts : i \in DOMAIN benign}) + 1
BenignSlot(i) == benign[i].flow % NSlots

-----------------------------------------------------------------------------
(* build_fill: the draws, in order.                                        *)

\* Slip: the slots of table B are drawn with those of table A.
SlotsTogether(arm) == IF Two(arm) THEN <<"slot", "slot2", "ident", "start">> ELSE <<"slot", "ident", "start">>

\* "Drawn last, so identities and start times equal those of the one-table draw".
DrawOrder(arm) == IF Two(arm) THEN <<"slot", "ident", "start", "slot2">> ELSE <<"slot", "ident", "start">>

Place(arm, what) == CHOOSE k \in DOMAIN DrawOrder(arm) : DrawOrder(arm)[k] = what
WordAt(arm, pos, what, i) == pos + (Place(arm, what) - 1) * Holders + i
Drawn(arm, pos, what, i) == words[WordAt(arm, pos, what, i)]

\* Distinct identities are drawn: a word stands for its own.
FillFlow(arm, pos, i, r) ==
    LET slot == Drawn(arm, pos, "slot", i) % NSlots IN
    [ident |-> WordAt(arm, pos, "ident", i),
     begins |-> Drawn(arm, pos, "start", i) % Ramp,
     from |-> r * Rot,
     slot |-> IF Two(arm) THEN slot % Half ELSE slot,
     slot2 |-> CASE arm = "und" -> 0
                 [] arm = "d4s" -> Half + (slot % Half)
                 [] OTHER -> Half + (Drawn(arm, pos, "slot2", i) % Half)]

\* Slip: rotations do not overlap.
UntilNext(r) == Min({Rot, Span - r * Rot})

PartSpan(r) == Min({Life, Span - r * Rot})

Sends(flow, span) == Min({(span - flow.begins) \div Interval + 1, MaxPackets})

Rotations == (Span + Rot - 1) \div Rot
Rotation(arm) == Len(drawn[arm].parts)

\* One rotation of rotating_holders; np.repeat refuses a negative count.
DrawFill(arm) ==
    /\ benign # NotLoaded /\ mode = "fill" /\ stage[arm] = "draw" /\ Rotation(arm) < Rotations
    /\ LET r == Rotation(arm)
           part == [i \in 1 .. Holders |->
                       LET flow == FillFlow(arm, drawn[arm].pos, i, r)
                       IN flow @@ [sends |-> Sends(flow, PartSpan(r))]]
       IN IF \E i \in DOMAIN part : part[i].sends < 0
          THEN stage' = [stage EXCEPT ![arm] = "raised"] /\ drawn' = drawn
          ELSE /\ drawn' = [drawn EXCEPT ![arm] =
                              [pos |-> @.pos + Len(DrawOrder(arm)) * Holders, parts |-> Append(@.parts, part)]]
               /\ stage' = [stage EXCEPT ![arm] = IF r + 1 = Rotations THEN "merge" ELSE "draw"]
    /\ UNCHANGED <<capture, benign, words, mode, merged, saved>>

-----------------------------------------------------------------------------
(* select_victims and build_targeted: one holder per victim.               *)

PacketsOf(v) == {i \in DOMAIN benign : benign[i].flow = v}
Victims == {v \in {benign[i].flow : i \in DOMAIN benign} : Cardinality(PacketsOf(v)) > 1}

Follows(i, j) == benign[i].flow = benign[j].flow /\ i < j /\ ~ \E k \in PacketsOf(benign[i].flow) : i < k /\ k < j
LongGaps(v) == {i \in PacketsOf(v) : \E j \in PacketsOf(v) : Follows(i, j) /\ benign[j].ts - benign[i].ts > Gap}

\* Slip: the gap is taken at its end.
EndOfGap(v) ==
    IF mode = "preempt" THEN benign[Min(PacketsOf(v))].ts - Lead
    ELSE benign[Min({j \in PacketsOf(v) : \E i \in LongGaps(v) : Follows(i, j)})].ts + React

HolderStart(v) ==
    IF mode = "preempt" THEN benign[Min(PacketsOf(v))].ts - Lead ELSE benign[Min(LongGaps(v))].ts + React

\* A reactive holder needs a gap; its victims without one have failed.
Targets == IF mode = "preempt" THEN Victims ELSE {v \in Victims : LongGaps(v) # {}}

TargetFlow(v) ==
    [ident |-> - (v + 1), begins |-> HolderStart(v), from |-> 0, slot |-> v % NSlots, slot2 |-> 0]

\* The sends are clipped to 0 here.
DrawTargeted ==
    /\ benign # NotLoaded /\ mode # "fill" /\ stage["und"] = "draw"
    /\ LET victims == SetToSortSeq(Targets, <)
           part == [i \in DOMAIN victims |->
                       LET flow == TargetFlow(victims[i]) IN flow @@ [sends |-> Max({0, Sends(flow, Span)})]]
       IN drawn' = [drawn EXCEPT !["und"].parts = <<part>>]
    /\ stage' = [stage EXCEPT !["und"] = "merge"]
    /\ UNCHANGED <<capture, benign, words, mode, merged, saved>>

-----------------------------------------------------------------------------
(* merge_attack and the rest of run.                                       *)

FlowPackets(flow, name) ==
    [k \in 1 .. flow.sends |-> [ts |-> flow.from + flow.begins + (k - 1) * Interval, flow |-> name]]

\* The injected packets, rotation by rotation and flow by flow.
Injected(arm) ==
    FlattenSeq([r \in DOMAIN drawn[arm].parts |->
        FlattenSeq([i \in DOMAIN drawn[arm].parts[r] |-> FlowPackets(drawn[arm].parts[r][i], <<r, i>>)])])

All(arm) == benign \o Injected(arm)
IsInjected(i) == i > Len(benign)
FlowAt(arm, i) == LET name == All(arm)[i].flow IN drawn[arm].parts[name[1]][name[2]]

\* The slot of packet i of benign \o injected.
SlotOf(arm, i) ==
    IF IsInjected(i) THEN FlowAt(arm, i).slot ELSE IF Two(arm) THEN BenignSlot(i) % Half ELSE BenignSlot(i)

\* Slip: the verdicts of the concatenated packets are not put in merged order.
VerdictUnordered(order, p) == p

\* pc_all and fs_all: whose verdict position p of the merged stream gets.
VerdictAt(order, p) == order[p]

Merge(arm) ==
    /\ stage[arm] = "merge"
    /\ LET order == ByTime(All(arm)) IN
       merged' = [merged EXCEPT ![arm] =
           [order |-> order,
            given |-> [p \in DOMAIN order |->
                          [slot |-> SlotOf(arm, order[p]), verdict |-> VerdictAt(order, p), long |-> IsInjected(order[p])]]]]
    /\ stage' = [stage EXCEPT ![arm] = "run"]
    /\ UNCHANGED <<capture, benign, words, mode, drawn, saved>>

RunAndSave(arm) ==
    /\ stage[arm] = "run"
    /\ LET order == merged[arm].order
           outcome == [p \in DOMAIN order |-> [packet |-> order[p]] @@ merged[arm].given[p]]
           unsorted == SortSeq(outcome, LAMBDA o, q : o.packet < q.packet)
       IN saved' = [saved EXCEPT ![arm] =
              [benign |-> SelectSeq(outcome, LAMBDA o : ~ IsInjected(o.packet)),
               injected |-> SelectSeq(unsorted, LAMBDA o : IsInjected(o.packet))]]
    /\ stage' = [stage EXCEPT ![arm] = "saved"]
    /\ UNCHANGED <<capture, benign, words, mode, drawn, merged>>

ArmInit ==
    /\ capture \in Captures /\ benign = NotLoaded
    /\ words \in Words /\ mode \in Modes
    /\ drawn = [arm \in Arms |-> [pos |-> 0, parts |-> <<>>]]
    /\ stage = [arm \in Arms |-> "draw"]
    /\ merged = [arm \in Arms |-> <<>>]
    /\ saved = [arm \in Arms |-> <<>>]

ArmNext == Load \/ DrawTargeted \/ \E arm \in Arms : DrawFill(arm) \/ Merge(arm) \/ RunAndSave(arm)

ArmSpec == ArmInit /\ [][ArmNext]_armVars
-----------------------------------------------------------------------------
(* Properties.                                                             *)

\* The outcomes of a run line up with those of the run without holders, packet
\* by packet, and each was computed with its own packet's slot and verdict;
\* those of the holders are in the order in which the holders were drawn.
OutcomesReturn ==
    \A arm \in Arms : stage[arm] = "saved" =>
       LET all == saved[arm].benign \o saved[arm].injected IN
       /\ Len(saved[arm].benign) = Len(capture)
       /\ \A i \in DOMAIN all :
             /\ all[i].packet = i /\ all[i].verdict = i
             /\ all[i].slot = SlotOf(arm, i) /\ all[i].long = IsInjected(i)
       /\ \A i \in DOMAIN benign \ {1} : benign[i - 1].ts <= benign[i].ts

FlowsOf(arm) == {f : f \in UNION {Range(p) : p \in Range(drawn[arm].parts)}}

\* "D4 holders share identities and start times with the undefended draw": of
\* one rotation this is so, and a holder's table-A slot is its slot modulo half.
FirstRotationIsPaired ==
    \A arm \in Arms : drawn[arm].parts # <<>> /\ drawn["und"].parts # <<>> /\ mode = "fill" =>
        \A i \in 1 .. Holders :
           LET one == drawn["und"].parts[1][i]
               two == drawn[arm].parts[1][i]
           IN /\ two.ident = one.ident /\ two.begins = one.begins
              /\ two.slot % Half = one.slot % Half

\* The same of every rotation, as the report on PeerRush says; the rotations
\* share one generator, so from the second on it does not hold.
HoldersShareDraw ==
    \A arm \in Arms : \A r \in DOMAIN drawn[arm].parts \cap DOMAIN drawn["und"].parts : mode = "fill" =>
        \A i \in 1 .. Holders :
           /\ drawn[arm].parts[r][i].ident = drawn["und"].parts[r][i].ident
           /\ drawn[arm].parts[r][i].begins = drawn["und"].parts[r][i].begins

Active(flow, t) ==
    flow.from + flow.begins <= t /\ t < flow.from + flow.begins + flow.sends * Interval

\* The load is held through the rotations: from the end of the ramp to the end
\* of the stream there are never fewer holders sending than were asked for.
LoadIsHeld ==
    \A arm \in Arms : mode = "fill" /\ stage[arm] \in {"merge", "run", "saved"} =>
        \A t \in Ramp .. Span - 1 : Cardinality({f \in FlowsOf(arm) : Active(f, t)}) >= Holders

\* A pre-empting holder is there before its victim; a reactive one comes after
\* the slot has been idle for React, and before the victim returns.
HoldersComeInTime ==
    mode # "fill" => \A f \in FlowsOf("und") :
        LET v == - f.ident - 1 IN
        IF mode = "preempt" THEN \A i \in PacketsOf(v) : f.begins < benign[i].ts
        ELSE /\ \A i \in PacketsOf(v) : benign[i].ts <= f.begins - React \/ benign[i].ts > f.begins
             /\ \E i \in PacketsOf(v) : benign[i].ts > f.begins
=============================================================================
