CONSTANTS
    MaxNameLen = 2
    MaxMessageLen = 2
    SinkConns <- MCSinkConns
    Jobs <- MCJobs
    Granted <- MCGranted
    MaxCuts = 1
SPECIFICATION Spec
INVARIANTS
    DeadlineUnanswered
CHECK_DEADLOCK FALSE
