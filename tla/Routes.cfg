SPECIFICATION Spec
CONSTANTS
    c1 = c1
    c2 = c2
    u1 = u1
    u2 = u2
    s1 = s1
    s2 = s2
    Conns = {c1, c2}
    Users = {u1}
    Servers = {s1, s2}
    UserOf <- MCSameUser
    ServerOf <- MCTwoServers
    BucketCount = 1
    BucketOf <- MCOneBucket
    RouteTTL = 3
    Second = 1
    MaxDelay = 1
    Skew <- MCSecondAhead
    MaxSkew = 1
    ValidUsers = {u1}
    PingTimeout = 2
    Horizon = 2
    MaxTime = 3
    MaxFaults = 0
    PollLimit = 1
    Pollers = {s2}
    MaxPollFaults = 0
INVARIANTS
    TypeOK LiveRoutesIndexed HealthyConnectionsListed
PROPERTY PolledUsersExpire
CHECK_DEADLOCK FALSE
