SPECIFICATION Spec
CONSTANTS
    N = 4
    Wide = 8
    Narrow = 4
    Modes <- WideModes
    Alpha = 16
    QScale = 40000
    QZero <- MinusTwo
    MatA <- ValMatrix
    MatB <- SteepMatrix
    Junk <- MinusNine
    Gap = 3
    Rounds = 1
INVARIANTS
    WritesWithinResult
