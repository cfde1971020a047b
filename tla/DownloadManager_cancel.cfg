SPECIFICATION Spec
CONSTANTS
    Items <- TwoFiles
    Size = 1
    MaxInfos = 2
    MaxBlocks = 2
    ReAdd = {}
    Faults = {"cancel"}
PROPERTY SaveFinishesItsItem
