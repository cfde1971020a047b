SPECIFICATION Spec
CONSTANTS
    Items <- ThreeItems
    Size = 2
    MaxInfos = 2
    MaxBlocks = 2
    ReAdd = {}
    Faults = {"pause", "cancel", "close", "twice"}
INVARIANT ResumesAtEndOfFile
INVARIANT OneCachedFile
PROPERTY SavesWholeFiles
