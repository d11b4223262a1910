CONSTANTS
    Addrs <- MCAddrs
    Bad = {1}
    Calls <- MCCalls
    Xilinx = {TRUE, FALSE}
    DeadLink = FALSE
    MaxBusErrors = 2
    NumSoftRetries = 5
    MaxFaults = 2
    MaxLen = 3
    MaxCalls = 2
SPECIFICATION BridgeSpec
CHECK_DEADLOCK FALSE
INVARIANTS BurstInv ScansReachTarget PacketsExact AnswersInOrder SelfTestTruthful
PROPERTIES OlderUnitRight WritesStayInRange CallReturns
