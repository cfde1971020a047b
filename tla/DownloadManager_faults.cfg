SPECIFICATION Spec
CONSTANTS
    Items <- TwoFiles
    Size = 1
    MaxInfos = 2
    MaxBlocks = 2
    ReAdd <- Demo
    Faults = {"pause", "cancel", "close", "twice", "diskfull"}
PROPERTY DownloadEnds
PROPERTY NoItemVanishes
INVARIANT TypeOK
INVARIANT DownloadingIsHead
INVARIANT OnePlaceEach
