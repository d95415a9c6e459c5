CONSTANTS
    MaxSize = 4
    Revs = {1, 2, 3}
    Scenarios <- Rollback
    MaxFaults = 0
SPECIFICATION FairSpec
PROPERTY EventuallyConverges
CHECK_DEADLOCK FALSE
