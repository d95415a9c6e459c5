CONSTANTS
    MaxSize = 3
    Revs = {1, 2}
    Scenarios <- OneEdit
    MaxFaults = 1
    MaxDisruptions = 1
SPECIFICATION FairSpec
INVARIANT TypeOK
PROPERTIES PrimaryMovedFirst PolicyBeforeScaleDown ProxiesSettle
CHECK_DEADLOCK FALSE
