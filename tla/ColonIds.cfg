SPECIFICATION Spec
CONSTANTS
    Chars <- MCChars
    Colon = ":"
    Blank = " "
    Ids <- MCColonIds
    Secret = "secret"
    NoSecret = ""
    Expiration = 4
    Second = 2
    Foreign <- MCNone
    MaxTime = 4
INVARIANTS ResolvedIdParses
CHECK_DEADLOCK FALSE
