CONSTANTS
    Depth = 4
    ToGray <- MCToGray
    FromGray <- MCFromGray
    LatchPowerUp = {"IDLE"}
    TxControls = {{"TX_START", "TX_ENABLE"}}
    RxControls = {{"RX_START", "RX_ENABLE"}}
    TxAddrs = {0}
    RxAddrs = {0}
    TxLengths = {4}
    RxLengths = {4}
    MinWb = 0
    MaxWb = 2
    MaxD2d = 1
SPECIFICATION Spec
INVARIANTS PacedInv DoneMeansCopied
PROPERTIES ReliableLink
