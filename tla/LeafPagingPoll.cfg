CONSTANTS
    l1 = l1
    l2 = l2
    c1 = c1
    c2 = c2
    Leaves = {l1, l2}
    NumQueries = 4
    LeafOf <- Returning
    Klass <- MCKlass
    Gain <- MCGain
    K = 1
    Unreliable = FALSE
    MaxCrashes = 0
SPECIFICATION Spec
INVARIANTS
    TypeOK
    PollErrorMeansEviction
    CreditsAreHits
