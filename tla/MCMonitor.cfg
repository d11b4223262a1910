CONSTANTS
    MaxImages = 3
    Block = 2
    FlashBlocks = 7
    ImagesBase = 1
    Lens <- MCLens
    Nums <- MCNums
    MaxDownloads = 4
    MaxCuts = 1
    M = 4
    BlockBytes = 1
    Contents = {2, 5}
    FileLens = {3, 5}
    Modes = {"xmodem", "ymodem"}
    RETRY = 2
    MaxFaults = 2
    Protocols = {"bootp", "dhcp", "rarp"}
    Servers = {1, 2}
    Autoload = {TRUE, FALSE}
    Neighbours = {2}
    Areas <- MCAreas
    TIMEOUT_COUNT = 1
    MaxRequests = 2
    ETH_TXBD_NUM = 2
    ETH_RXBD_NUM = 2
    MaxSends = 5
    MaxArrivals = 4
    MaxInits = 2
SPECIFICATION MonitorSpec
CHECK_DEADLOCK FALSE
INVARIANTS
    ImagesDisjoint ImagesWhole FlashInv
    InputExact FileInPlace NetworkRight AddressOurs RingsExact
PROPERTY OthersStay
