CONSTANTS
    MaxNameLen = 2
    MaxMessageLen = 2
    SinkConns <- MCSinkConns
    Jobs <- MCJobs
    Granted <- MCGranted
    MaxCuts = 1
SPECIFICATION Spec
INVARIANTS
    ExitHonest
    AckedIsHandled
    PayloadIntact
    FrameJudged
PROPERTIES
    SenderExits
    SessionEnds
    SinkStops
CHECK_DEADLOCK FALSE
