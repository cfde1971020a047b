SPECIFICATION FairSpec
CONSTANTS
    MaxStarts = 3
    MaxTimestamp = 6
INVARIANT SlotsKept
INVARIANT FramesStayInTheirFile
PROPERTY PlayableTimes
PROPERTY StopsFinish
CHECK_DEADLOCK FALSE
