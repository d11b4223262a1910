CONSTANTS
    Ports <- MCPorts
    FileBlocks = 2
    BlockMod = 4
    TimeoutCount = 2
    RxBds = 2
    MaxBoots = 2
    MaxFaults = 2
SPECIFICATION NetSpec
CHECK_DEADLOCK FALSE
INVARIANTS NetInv BootTruthful
PROPERTY BootEnds
