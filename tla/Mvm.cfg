CONSTANTS
    NumLeaves = 4
    Length = 6
    MaxK = 3
    Window = 3
    Streams <- MCStreams
    Gains <- MCGains
    HwSettings <- MCHwSettings
    K20Max = 3
    K12Max = 3
    Features = {0, 1}
    Trees <- MCTrees
    Units = {u1, u2}
    WithSide = {u1}
    Models = {"A", "B"}
    Boundaries <- ModelBoundaries
    FeatureOrder <- MCFeatureOrder
    K = 2
    MaxTries = 2
    MaxChanges = 3
    SliceLists <- BmvSlices
    Gain <- BmvGain
    Entries = 3
    Batch = 2
    Datasets <- SplitDatasets
    Vectors = {1, 2, 3}
    TrainMix <- SplitMix
    EvalScale = 1
    Modes = {"random", "grouped", "forward"}
    Jobs = 2
    Attempts = 2
    MaxReboots = 1
SPECIFICATION MvmSpec
INVARIANTS
    BoundsAreBounds
    FastPoliciesAgree
    DelayedPolicyAgrees
    TreeSurvivesEncoding
    SweepsEndWhole
    TrainingIsSound
    PrototypeMatchesSimulator
    TablesOfOneModel
    ResultsAreComparable
CHECK_DEADLOCK FALSE
