CONSTANTS
    N = 4
    Wide = 8
    Narrow = 4
    Modes <- BothModes
    Alpha = 16
    QScale = 40000
    QZero <- MinusTwo
    MatA <- ValMatrix
    MatB <- SteepMatrix
    Junk <- MinusNine
    Gap = 3
    Rounds = 2
    NUM_SURFACES = 4
    Screen <- MCScreen
    Sizes <- MCSizes
    Rects <- MCRects
    Values = {1}
    Far = 1000
    Pieces = 2
    MaxCalls = 4
SPECIFICATION BoardSpec
CHECK_DEADLOCK FALSE
INVARIANTS
    EngineInv ResultTruthful DriverRight PartsRight
PROPERTIES
    PollEnds
