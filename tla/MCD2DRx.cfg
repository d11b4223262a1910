CONSTANTS
    Depth = 4
    ToGray <- MCToGray
    FromGray <- MCFromGray
    RxControls <- MCControls
    RxAddrs = {0}
    RxLengths = {3}
    MaxFlits = 5
SPECIFICATION RxSpec
CONSTRAINT Bounded
INVARIANT RxInv
PROPERTY ReliableRx
