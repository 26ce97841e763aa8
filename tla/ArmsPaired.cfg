CONSTANTS
    Captures <- MCCaptures
    Words <- MCWords
    Modes <- HoldersOnly
    Holders = 2
    NSlots = 4
    Interval = 1
    Ramp = 4
    Rot = 5
    Life = 9
    MaxPackets = 9
    Lead = 2
    Gap = 3
    React = 2
SPECIFICATION ArmSpec
INVARIANT HoldersShareDraw
CHECK_DEADLOCK FALSE
