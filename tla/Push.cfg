SPECIFICATION FairSpec
CONSTANTS
    c1 = c1
    c2 = c2
    u1 = u1
    u2 = u2
    s1 = s1
    s2 = s2
    Conns = {c1, c2}
    Users = {u1, u2}
    Servers = {s1, s2}
    UserOf <- MCUserOf
    GroupOf <- MCGroupOf
    ServerOf <- MCServerOf
    Blank = Blank
    Requests <- MCRequests
    Foreign <- MCForeign
    Callers = {p1}
    UsersChannel = "users"
    GroupChannel = "group"
    BroadcastChannel = "broadcast"
    MaxLog = 2
    MaxFaults = 1
INVARIANTS
    TypeOK InOrder AcceptedIsDispatched
PROPERTIES
    Delivered CatchesUp
CHECK_DEADLOCK FALSE
