CONSTANTS
    Size = 1
    Hosts = {h1, h2}
    Opts <- AllOpts
    MaxEdits = 2
    MaxFaults = 1
    PodsFail = FALSE
SPECIFICATION LifecycleSpec
INVARIANTS TypeOK CleanupBeforeFinalize GoneMeansClean
PROPERTIES NoReturnToService Implements
SYMMETRY HostSymmetry
CHECK_DEADLOCK FALSE
