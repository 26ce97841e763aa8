CONSTANTS
    f1 = f1
    f2 = f2
    f3 = f3
    a1 = a1
    a2 = a2
    b1 = b1
    b2 = b2
    Flows = {f1, f2}
    HashOf <- MCHashOf
    SlotsA = {a1, a2}
    SlotsB = {}
    SlotA <- OwnSlots
    SlotB <- SharedB
    Policy = "idle"
    Timeout = 2
    Isolated = TRUE
    WrapWindow = TRUE
    ClockMod = 6
    Word = 16
    TakeoverRefresh = FALSE
    Rent = "none"
    Grace = 0
    Cap = 0
    CreditUnit = 0
    Phases = {2}
    FinalPhase = 3
    PkMod = 8
    PktCodes = {1}
    PhaseCodes = {2}
    FinalCodes = {60, 61}
    MemoSize = 1
    MemoDrop = 10
    MemoDelay = 0
    Starts = {0}
    MaxClock = 7
SPECIFICATION Spec
PROPERTIES
    IsolatedFlowsAreServed
    DeterminedVerdictIsFrozen
