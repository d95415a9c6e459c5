SPECIFICATION FairSpec
CONSTANTS
    Pods = {1, 2}
    Values = {1, 2, 3}
    Scenarios <- Edits
    HTTPS = {3}
    OldVersion <- Old
INVARIANT TypeOK
PROPERTIES  EditsReachPods
CHECK_DEADLOCK FALSE
