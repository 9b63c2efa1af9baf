SPECIFICATION Spec
CONSTANTS
    Chars <- MCChars
    Colon = ":"
    Blank = " "
    Ids <- MCPlainIds
    Secret = "secret"
    NoSecret = ""
    Expiration = 4
    Second = 2
    Foreign <- MCForeign
    MaxTime = 5
INVARIANTS TypeOK IssuedTokenAdmits IssuedTokenDies OneUserPerId
CHECK_DEADLOCK FALSE
