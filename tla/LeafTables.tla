----------------------------- MODULE LeafTables -----------------------------
(***************************************************************************)
(* How a decision tree gets into the tables of a switch: the leaves as     *)
(* boxes (mvm/leaves.py), the boxes as key ranges for BMv2 (p4encode.py),  *)
(* and as ternary entries over thermometer codes for Tofino                *)
(* (tofino_encode.py).  All three must find the leaf that tree.apply does. *)
(*                                                                         *)
(* float32 is sign and magnitude in a word that is as wide as a key; its   *)
(* values are twice the magnitude, so that a float64 threshold can lie     *)
(* between two of them.                                                    *)
(***************************************************************************)
EXTENDS KeyTables, Sequences, FiniteSetsExt

CONSTANTS
    Features,       \* columns of X
    Trees           \* fitted trees: node -> [left, right, f, thr]; left = -1 at a leaf

Word == (K20Max + 1) * (K12Max + 1)

\* A word has a sign bit.
ASSUME WordAssumption == Word % 2 = 0

\* Nodes are numbered as they are split, so children come after their parent;
\* a threshold separates two values of its column.
ASSUME TreesAssumption ==
    \A T \in Trees :
        LET last == Cardinality(DOMAIN T) - 1 IN
        /\ last \in Nat /\ T \in [0 .. last -> [left : Int, right : Int, f : Features, thr : Int]]
        /\ \A n \in 0 .. last : T[n].left # -1 =>
              /\ T[n].left \in n + 1 .. last /\ T[n].right \in n + 1 .. last
              /\ 2 - Word <= T[n].thr /\ T[n].thr < Word - 2

VARIABLES tree, stack, boxes

leafVars == <<tree, stack, boxes>>

-----------------------------------------------------------------------------
(* Keys: float32 to uint32, order-preserving.                              *)

SignBit == Word \div 2
Patterns == 0 .. Word - 1
Negative(bits) == bits >= SignBit
Value(bits) == IF Negative(bits) THEN 2 * (SignBit - bits) ELSE 2 * bits

\* -0.0 + 0.0 is +0.0.
f32_key(bits) ==
    IF Negative(bits) /\ bits # SignBit THEN Word - 1 - bits
    ELSE (bits % SignBit) + SignBit

\* +/- np.inf of an open side, beyond every threshold.
Inf == 2 * Word

SmallestKeyAbove(t) == Min({f32_key(b) : b \in {p \in Patterns : Value(p) > t}})
LargestKeyAtMost(t) == Max({f32_key(b) : b \in {p \in Patterns : Value(p) <= t}})

Sliced(key) == [k20 |-> key \div (K12Max + 1), k12 |-> key % (K12Max + 1)]
BoundaryKey(t) == Sliced(SmallestKeyAbove(t))

-----------------------------------------------------------------------------
(* extract_leaf_boxes: one box per leaf, with an explicit stack.           *)

Root == 0
IsLeaf(n) == tree[n].left = -1
Topmost == stack[Len(stack)]
Popped == SubSeq(stack, 1, Len(stack) - 1)

LeafInit ==
    /\ tree \in Trees
    /\ stack = <<[leaf |-> Root, lo |-> [f \in Features |-> -Inf], hi |-> [f \in Features |-> Inf]]>>
    /\ boxes = {}

PopLeaf ==
    /\ stack # <<>> /\ IsLeaf(Topmost.leaf)
    /\ boxes' = boxes \cup {Topmost}
    /\ stack' = Popped
    /\ UNCHANGED tree

\* Slip: the bound of an ancestor that is tighter is overwritten.
Overwritten(hi, f, thr) == [hi EXCEPT ![f] = thr]

Lowered(hi, f, thr) == [hi EXCEPT ![f] = Min({@, thr})]
Raised(lo, f, thr) == [lo EXCEPT ![f] = Max({@, thr})]

PopSplit ==
    /\ stack # <<>> /\ ~ IsLeaf(Topmost.leaf)
    /\ LET n == tree[Topmost.leaf] IN
       stack' = Popped \o <<[Topmost EXCEPT !.leaf = n.left, !.hi = Lowered(@, n.f, n.thr)],
                            [Topmost EXCEPT !.leaf = n.right, !.lo = Raised(@, n.f, n.thr)]>>
    /\ UNCHANGED <<tree, boxes>>

LeafNext == PopLeaf \/ PopSplit

LeafSpec == LeafInit /\ [][LeafNext]_leafVars
-----------------------------------------------------------------------------
(* The lookups in the finished boxes; x gives the float32 of each feature. *)

contains(box, x) == \A f \in Features : box.lo[f] < Value(x[f]) /\ Value(x[f]) <= box.hi[f]

lookup(x) == {b.leaf : b \in {c \in boxes : contains(c, x)}}

RangeLow(t) == IF t = -Inf THEN 0 ELSE SmallestKeyAbove(t)
RangeHigh(t) == IF t = Inf THEN Word - 1 ELSE LargestKeyAtMost(t)

\* box_key_ranges: one inclusive key range per feature.
InRanges(box, x) ==
    \A f \in Features : RangeLow(box.lo[f]) <= f32_key(x[f]) /\ f32_key(x[f]) <= RangeHigh(box.hi[f])

\* The controller's leaf_of, a scan of the leaves' key ranges; any it may find.
leaf_of(x) == {b.leaf : b \in {c \in boxes : InRanges(c, x)}}

Splits(f) == {n \in DOMAIN tree : ~ IsLeaf(n) /\ tree[n].f = f}
bkeys(f) == {BoundaryKey(tree[n].thr) : n \in Splits(f)}

\* leaf_entries: a bit that must be 1 and one that must be 0.
MustBeSet(box, f) == IF box.lo[f] = -Inf THEN {} ELSE {BoundaryKey(box.lo[f])}
MustBeClear(box, f) == IF box.hi[f] = Inf THEN {} ELSE {BoundaryKey(box.hi[f])}

TernaryHit(box, codes) ==
    \A f \in Features : MustBeSet(box, f) \subseteq codes[f] /\ MustBeClear(box, f) \cap codes[f] = {}

\* The code that the switch computes for each value of a feature.
CodesLikeSwitch ==
    [f \in Features |-> [bits \in Patterns |-> CodeLikeSwitch(bkeys(f), Sliced(f32_key(bits)))]]

\* The emulated switch of w8_prepare: the entries that match the codes.
Emulated(codes, x) ==
    {b.leaf : b \in {c \in boxes : TernaryHit(c, [f \in Features |-> codes[f][x[f]]])}}

\* tree.apply (scikit-learn): left iff x <= threshold.
apply(x) ==
    LET walk[n \in DOMAIN tree] ==
            IF IsLeaf(n) THEN n
            ELSE IF Value(x[tree[n].f]) <= tree[n].thr THEN walk[tree[n].left] ELSE walk[tree[n].right]
    IN walk[Root]

-----------------------------------------------------------------------------
(* Properties.                                                             *)

Points == [Features -> Patterns]
Pending == {stack[i] : i \in 1 .. Len(stack)}

\* "Leaves of one tree are disjoint and cover the feature space": at every
\* turn of the loop each sample is in exactly one box, or one region that is
\* still on the stack.
RegionsPartition ==
    \A x \in Points : Cardinality({r \in boxes \cup Pending : contains(r, x)}) = 1

\* "The result equals tree.apply exactly": boxes, key ranges and ternary codes
\* all find, for every float32 sample, the one leaf that the tree does; on the
\* Tofino whether the key falls into a straddled bucket or not.
EncodingsEqualTree ==
    stack = <<>> =>
       LET codes == CodesLikeSwitch IN
       \A x \in Points :
          /\ lookup(x) = {apply(x)}
          /\ leaf_of(x) = {apply(x)}
          /\ Emulated(codes, x) = {apply(x)}
=============================================================================
