SPECIFICATION Spec
CONSTANTS
    Chars <- MCChars
    Blank = " "
    Written <- MCWritten
    Durations <- MCDurations
    URLs <- MCAccepted
    HostPorts <- MCAccepted
    MaxSettings = 2
INVARIANTS
    UnsetChannelIsDerived
CHECK_DEADLOCK FALSE
