CONSTANTS
    Size = 1
    Hosts = {h1}
    Opts <- AllOpts
    MaxEdits = 1
    MaxFaults = 1
    PodsFail = FALSE
SPECIFICATION DeletionSpec
INVARIANTS DeletionInv
PROPERTIES DeletionCompletes
CHECK_DEADLOCK FALSE
