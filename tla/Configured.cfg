SPECIFICATION Spec
CONSTANTS
    Chars <- MCChars
    Blank = " "
    Written <- MCWritten
    Durations <- MCDurations
    URLs <- MCAccepted
    HostPorts <- MCAccepted
    MaxSettings = 3
INVARIANTS
    TypeOK AddressNeverPanics BlankChannelIsDerived
CHECK_DEADLOCK FALSE
