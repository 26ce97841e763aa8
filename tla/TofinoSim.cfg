CONSTANTS
    f1 = f1
    f2 = f2
    f3 = f3
    a1 = a1
    b1 = b1
    b2 = b2
    Flows = {f1, f2}
    HashOf <- MCHashOf
    SlotsA = {a1}
    SlotsB = {b1}
    SlotA <- OneSlot
    SlotB <- OneSlotB
    Policy = "unclaimed_first"
    Timeout = 1
    Isolated = FALSE
    WrapWindow = TRUE
    ClockMod = 4
    Word = 16
    TakeoverRefresh = FALSE
    Rent = "none"
    Grace = 0
    Cap = 0
    CreditUnit = 99
    Phases = {2}
    FinalPhase = 3
    PkMod = 5
    PktCodes = {1}
    PhaseCodes = {2}
    FinalCodes = {60}
    MemoSize = 1
    MemoDrop = 10
    MemoDelay = 0
    Starts = {3}
    MaxClock = 5
    Delays = {0, 1}
    MaxClaims = 2
SPECIFICATION TofinoSpec
INVARIANTS
    SettledSlotIsClean
    BothWaysOnlyByRace
PROPERTY ZeroDelayIsNetBeaconSim
CHECK_DEADLOCK FALSE
