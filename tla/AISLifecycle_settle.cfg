CONSTANTS
    Size = 1
    Hosts = {h1}
    Opts <- PlainOpts
    MaxEdits = 1
    MaxFaults = 0
    PodsFail = FALSE
SPECIFICATION ShutdownSpec
PROPERTIES EventuallySettles
CHECK_DEADLOCK FALSE
