SPECIFICATION Spec
CONSTANTS
    Chars <- MCChars
    Colon = ":"
    Blank = " "
    Ids <- MCPlainIds
    Secret = "secret"
    NoSecret = ""
    Expiration = 0
    Second = 2
    Foreign <- MCNone
    MaxTime = 4
INVARIANTS IssuedTokenAdmits
CHECK_DEADLOCK FALSE
