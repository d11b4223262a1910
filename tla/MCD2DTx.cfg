CONSTANTS
    Depth = 4
    ToGray <- MCToGray
    FromGray <- MCFromGray
    LatchPowerUp = {"SEND"}
    TxControls <- MCControls
    TxAddrs = {0}
    TxLengths = {3}
    MaxFlits = 6
SPECIFICATION TxSpec
CONSTRAINT Bounded
INVARIANTS StrobeFindsRoom TxNoOverwrite TxInv
PROPERTY ReliableTx
