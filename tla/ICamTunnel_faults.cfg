SPECIFICATION FairSpec
CONSTANTS
    MaxConns = 2
    KMaxChannelNum = 3
    MaxData = 2
    MaxLinks = 2
    Faults = {"closes", "silent"}
INVARIANT NeverMixed
INVARIANT InOrder
INVARIANT FreeIdIsIdle
PROPERTY EachIsSettled
CHECK_DEADLOCK FALSE
