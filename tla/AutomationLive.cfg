SPECIFICATION Spec
CONSTANTS
    MaxChanges = 2
    MaxTriggers = 1
    MaxStarts = 2
    MaxDrops = 1
    MaxRefreshes = 0
INVARIANT TriggersAreObserved
CHECK_DEADLOCK FALSE
