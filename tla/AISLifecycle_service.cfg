CONSTANTS
    Size = 1
    Hosts = {h1}
    Opts <- AllOpts
    MaxEdits = 2
    MaxFaults = 1
    PodsFail = TRUE
SPECIFICATION ServiceSpec
PROPERTIES ReachesReady
CHECK_DEADLOCK FALSE
