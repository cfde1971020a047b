SPECIFICATION FairSpec
CONSTANTS
    MaxRequests = 3
    Sets <- EvenRequests
    Answers = {"uncounted"}
    KHttpRequestDelayCount = 1
    KHttpJudgeLostCount = 0
    MaxBlocks = 1
    Faults = {"cancel", "disconnect", "refuse", "timeout"}
PROPERTY RequestsLeave
