SPECIFICATION Spec
CONSTANTS
    Second = 2
    TTL = 1
    DefaultTTL = 4
    MinLease = 2
    RegisterTimeout = 2
    MaxDelay = 1
    MaxFaults = 1
    ShutdownTimeout = 1
    HandlerTime = 1
    Horizon = 3
    MaxTime = 7
INVARIANTS
    TypeOK DeregisteredStaysGone RegisteredIsListed FailedRegistrationLeavesNothing
    CleanStop NoReportBlocks RedisOutlivesHandlers ShutdownInTime
PROPERTIES EndpointIsLeased ShutdownEnds
CHECK_DEADLOCK FALSE
