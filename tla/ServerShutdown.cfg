CONSTANTS
    c1 = c1
    c2 = c2
    Conns = {c1, c2}
    HelloDeadline = 1
    DialTimeout = 2
    ReloadTimeout = 6
    DrainTimeouts = {1, 3, 6}
    ServerFiles <- MCServerFiles
SPECIFICATION FairSpec
INVARIANTS
    DeviceOutlivesUsers
    DrainNeverExpires
    NothingLeaks
    ResultIsHonest
    SettingsHold
PROPERTIES
    Terminates
CHECK_DEADLOCK FALSE
