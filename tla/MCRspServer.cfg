CONSTANTS
    Addrs <- MCAddrs
    Targets = {1}
    Requests <- MCRequests
    Faults <- MCFaults
    Spurious = TRUE
    PollErrors = TRUE
    MaxRequests = 2
    MaxBreaks = 1
    MaxSessions = 1
SPECIFICATION RspSpec
CHECK_DEADLOCK FALSE
INVARIANTS RspInv RunningIsFlagged StopReplyTruthful TableMatchesMemory
PROPERTY StopReportedUnlessOvertaken
