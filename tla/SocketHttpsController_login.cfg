SPECIFICATION FairSpec
CONSTANTS
    MaxRequests = 3
    Cmds <- LoginCmds
    PriorityCmds <- IcamCmds
    Answers = {"counted", "uncounted"}
    Faults = {"cancel", "disconnect", "refuse", "timeout", "close"}
CHECK_DEADLOCK FALSE
INVARIANT QueueIsServed
INVARIANT AnswersMatch
PROPERTY CookieNeverGoesBack
PROPERTY OrderKept
PROPERTY QueuesDrain
