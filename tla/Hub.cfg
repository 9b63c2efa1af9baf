SPECIFICATION HubSpec
CONSTANTS
    c1 = c1
    c2 = c2
    u1 = u1
    u2 = u2
    s1 = s1
    s2 = s2
    Conns = {c1, c2}
    Users = {u1, u2}
    Servers = {s1, s2}
    UserOf <- MCOneUserEach
    ServerOf <- MCTwoServers
    BucketCount = 1
    BucketOf <- MCOneBucket
    RouteTTL = 5
    Second = 2
    MaxDelay = 1
    Skew <- MCSecondAhead
    MaxSkew = 1
    ValidUsers = {u1}
    PingTimeout = 2
    Horizon = 4
    MaxTime = 7
    MaxFaults = 2
INVARIANTS
    HubTypeOK StaleRoutesExpire RefreshedListed RefusedLeaveNoTrace HealthyConnectionsListed
PROPERTIES NoResurrection RoutesAreLeased
CHECK_DEADLOCK FALSE
