SPECIFICATION Spec
CONSTANTS
    MaxRequests = 3
    Sets <- EvenRequests
    Answers = {"counted"}
    KHttpRequestDelayCount = 1
    KHttpJudgeLostCount = 1
    MaxBlocks = 2
    Faults = {"cancel", "refuse", "close"}
INVARIANT TypeOK
INVARIANT QueueIsServed
INVARIANT CompletedOnce
INVARIANT BacklogIsBounded
INVARIANT NoStall
INVARIANT LossIsKnown
PROPERTY KeepsPromise
