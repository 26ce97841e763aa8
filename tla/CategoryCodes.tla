---------------------------- MODULE CategoryCodes ---------------------------
(***************************************************************************)
(* TreeEncoder (mvm/features.py): a categorical column becomes one number  *)
(* per category, fitted on the training rows only.  A column is given by   *)
(* how many attack and benign training rows each category has; categories  *)
(* are numbered in the order of their names.                               *)
(***************************************************************************)
EXTENDS Integers, FiniteSetsExt

CONSTANTS
    Categories,     \* a set of positive integers
    MaxRows,        \* bound on the attack and on the benign rows of a category
    MinFreq         \* MIN_FREQ

CategoryAssumption == Categories \subseteq Nat \ {0} /\ MinFreq \in Nat

VARIABLES
    attack, benign, \* training rows per category
    maps            \* category -> code, once fitted

codeVars == <<attack, benign, maps>>

NotFitted == <<>>
Infrequent == 0     \* the bucket of the rare categories

Count(c) == attack[c] + benign[c]
Seen == {c \in Categories : Count(c) > 0}
Rare == {c \in Seen : Count(c) < MinFreq}

Bucket(c) == IF c \in Rare THEN Infrequent ELSE c
Buckets == {Bucket(c) : c \in Seen}

In(b) == {c \in Seen : Bucket(c) = b}
Attacks(S) == FoldSet(LAMBDA c, n : n + attack[c], 0, S)
Rows(S) == FoldSet(LAMBDA c, n : n + Count(c), 0, S)

\* Slip: ordered by the number of attack rows.
FewerAttacks(b, d) ==
    Attacks(In(b)) < Attacks(In(d)) \/ (Attacks(In(b)) = Attacks(In(d)) /\ b < d)

\* rate.sort_values(kind="stable"): by attack rate, ties by name.
Lower(b, d) ==
    LET x == Attacks(In(b)) * Rows(In(d))
        y == Attacks(In(d)) * Rows(In(b))
    IN x < y \/ (x = y /\ b < d)

Code(b) == Cardinality({d \in Buckets : Lower(d, b)})

CodesInit ==
    /\ attack \in [Categories -> 0 .. MaxRows] /\ benign \in [Categories -> 0 .. MaxRows]
    /\ maps = NotFitted

Fit ==
    /\ maps = NotFitted /\ Seen # {}
    /\ maps' = [c \in Seen |-> Code(Bucket(c))]
    /\ UNCHANGED <<attack, benign>>

CodesSpec == CodesInit /\ [][Fit]_codeVars

\* transform: a category not seen in training is -1.
Transformed(c) == IF c \in DOMAIN maps THEN maps[c] ELSE -1
-----------------------------------------------------------------------------
(* Properties.                                                             *)

\* The Gini impurity that is left when the categories of S go one way and the
\* others the other way, as a fraction.
Mixed(S) == Attacks(S) * (Rows(S) - Attacks(S))
ImpurityNum(S) == Mixed(S) * Rows(Seen \ S) + Mixed(Seen \ S) * Rows(S)
ImpurityDen(S) == Rows(S) * Rows(Seen \ S)

NoWorse(S, T) == ImpurityNum(S) * ImpurityDen(T) <= ImpurityNum(T) * ImpurityDen(S)

Left(thr) == {c \in Seen : maps[c] <= thr}
Thresholds == {thr \in 0 .. Cardinality(Seen) : Left(thr) # Seen}

\* "Breiman: optimal binary split ordering": of all ways to part the buckets in
\* two, a threshold on the codes leaves the least impurity.  A category that
\* training has not seen goes with the bucket least often an attack.
ThresholdSplitIsBest ==
    maps # NotFitted =>
       /\ \A B \in SUBSET Buckets \ {{}, Buckets} :
             \E thr \in Thresholds : NoWorse(Left(thr), UNION {In(b) : b \in B})
       /\ \A c \in Categories \ Seen, d \in Seen : Transformed(c) < Transformed(d)
=============================================================================
