SPECIFICATION FairSpec
CONSTANTS
    Size = 4
    MaxTasks = 3
    MaxBlocks = 2
    Faults = {"stop", "fail", "nothing"}
CHECK_DEADLOCK FALSE
INVARIANT PausedIsQuiet
PROPERTY ResumesWhereItStopped
PROPERTY DownloadIsDelivered
