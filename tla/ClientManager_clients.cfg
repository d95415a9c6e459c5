CONSTANTS
    Hosts = {h1, h2}
    Buffer = 2
    Lifetime = 4
    MaxTime = 6
    MaxKey = 2
    MaxCalls = 2
    Scenarios <- Stories
SPECIFICATION FairSpec
INVARIANTS TypeOK NoExpiredToken
PROPERTIES NoRefusedClient CallsRecover
CHECK_DEADLOCK FALSE
