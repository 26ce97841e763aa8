CONSTANTS
    l1 = l1
    l2 = l2
    c1 = c1
    c2 = c2
    Leaves = {l1, l2}
    NumQueries = 3
    LeafOf <- Alternating
    Klass <- MCKlass
    Gain <- MCGain
    K = 1
    Unreliable = TRUE
    MaxCrashes = 1
SPECIFICATION Spec
INVARIANTS
    OccupancyBound
    TableMirrorsPolicy
    CallsSucceed
PROPERTY ExactAnswers
