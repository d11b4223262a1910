SPECIFICATION Spec
CONSTANTS
    N = 4
    Wide = 8
    Narrow = 4
    Modes <- NarrowModes
    Alpha = 16
    QScale = 40000
    QZero <- MinusTwo
    MatA <- Identity
    MatB <- ValMatrix
    Junk <- MinusNine
    Gap = 3
    Rounds = 1
INVARIANTS
    ByteResultOnPoll
