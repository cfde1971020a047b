SPECIFICATION Spec
CONSTANTS
    MaxRequests = 4
    Sets <- EvenRequests
    Answers = {"counted", "empty", "uncounted"}
    KHttpRequestDelayCount = 1
    KHttpJudgeLostCount = 1
    MaxBlocks = 0
    Faults = {"cancel", "close"}
PROPERTY AnswersMatch
CHECK_DEADLOCK FALSE
