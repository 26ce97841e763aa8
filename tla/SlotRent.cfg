CONSTANTS
    f1 = f1
    f2 = f2
    f3 = f3
    a1 = a1
    a2 = a2
    b1 = b1
    b2 = b2
    Flows = {f1, f2, f3}
    HashOf <- MCHashOf
    SlotsA = {a1}
    SlotsB = {b1}
    SlotA <- OneSlot
    SlotB <- OneSlotB
    Policy = "unclaimed_first"
    Timeout = 3
    Isolated = FALSE
    WrapWindow = FALSE
    ClockMod = 6
    Word = 16
    TakeoverRefresh = TRUE
    Rent = "credit"
    Grace = 1
    Cap = 2
    CreditUnit = 1
    Phases = {2}
    FinalPhase = 4
    PkMod = 8
    PktCodes = {1}
    PhaseCodes = {2}
    FinalCodes = {60}
    MemoSize = 1
    MemoDrop = 10
    MemoDelay = 0
    Starts = {0}
    MaxClock = 3
SPECIFICATION Spec
INVARIANTS
    OneHome
    RefusedOnlyIfAllHeld
    RefusalIsPaidFor
PROPERTIES
    PayingFlowKeepsSlot
    ImplementsSlotOutcomes
