SPECIFICATION HubSpec
CONSTANTS
    c1 = c1
    c2 = c2
    u1 = u1
    u2 = u2
    s1 = s1
    s2 = s2
    Conns = {c1}
    Users = {u1}
    Servers = {s1, s2}
    UserOf <- MCSameUser
    ServerOf <- MCTwoServers
    BucketCount = 1
    BucketOf <- MCOneBucket
    RouteTTL = 1
    Second = 2
    MaxDelay = 1
    Skew <- MCSecondAhead
    MaxSkew = 1
    ValidUsers = {u1}
    PingTimeout = 2
    Horizon = 3
    MaxTime = 6
    MaxFaults = 2
INVARIANTS
    RefreshedListed
CHECK_DEADLOCK FALSE
