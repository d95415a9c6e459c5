CONSTANTS
    MaxSize = 4
    Revs = {1, 2, 3}
    Scenarios <- Completing
    MaxFaults = 2
SPECIFICATION FairSpec
INVARIANTS TypeOK NoRebalanceInRollout DecommissionMigrates
PROPERTIES OneTargetAtATime DrainedBeforeEviction EventuallyConverges
CHECK_DEADLOCK FALSE
