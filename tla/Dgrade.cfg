CONSTANTS
    Addresses = {0, 1, 2}
    Ports = {0, 1, 2}
    Protos = {6}
    Widths = {3, 4, 6}
    ByteBits = 2
    C3 = {0, 1, 2}
    C10 = {0, 1}
    C10x3 = {0}
    C25 = {0}
    Flows = {"f1", "f2"}
    Places <- MCPlaces
    IdleNs = 2
    Pauses = {1, 2}
    MaxLog = 3
    Keys <- HashKinds
    Tuples = {1, 2, 3}
    Hashes <- PlaceHashes
    Streams <- PlaceStreams
    Jobs <- PlaceJobs
    Hash2Seed = 7919
    GateFlows = {0, 1}
    Layouts <- GateLayouts
    Verdicts <- GateVerdicts
    PhaseList <- GatePhases
    PhaseCodes = {0, 1, 2}
    FinalCodes = {0, 51}
    ForceAfter = {3, 4}
    Hold = 3
SPECIFICATION DgradeSpec
INVARIANTS
    FlowsHaveOneKey
    TablesEqualModels
    HashesAreSound
    AccountsAgree
    VerdictsReachReports
    ArmsArePaired
    JobsArePaired
    CapturesStayApart
CHECK_DEADLOCK FALSE
