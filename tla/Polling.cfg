SPECIFICATION FairSpec
CONSTANTS
    c1 = c1
    c2 = c2
    u1 = u1
    u2 = u2
    s1 = s1
    s2 = s2
    Conns = {c1, c2}
    Users = {u1, u2}
    Servers = {s1, s2}
    UserOf <- MCOneUserEach
    ServerOf <- MCTwoServers
    BucketCount = 2
    BucketOf <- MCLastBucket
    RouteTTL = 2
    Second = 1
    MaxDelay = 0
    Skew <- MCNoSkew
    MaxSkew = 0
    ValidUsers = {u1, u2}
    PingTimeout = 1
    Horizon = 1
    MaxTime = 3
    MaxFaults = 0
    PollLimit = 1
    Pollers = {s1}
    MaxPollFaults = 1
PROPERTY DepartedUsersPolled
CHECK_DEADLOCK FALSE
