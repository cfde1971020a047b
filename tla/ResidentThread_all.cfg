SPECIFICATION FairSpec
CONSTANTS
    Pushers = {main}
    Worker = worker
    Actions <- GappedActions
    MaxPushes = 3
INVARIANT CounterIsCovered
INVARIANT CancelIsFinal
PROPERTY RunsInOrder
PROPERTY EveryJumpWaits
PROPERTY ActionsAreHandled
CHECK_DEADLOCK FALSE
