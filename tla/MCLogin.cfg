SPECIFICATION Spec
CONSTANTS
    p1 = p1
    p2 = p2
    Clients = {c1, c2}
    Ports = {p1, p2}
    Strays <- MCStrays
    Scopes <- MCScopes
    MaxKeys = 2
    MaxCodes = 2
INVARIANTS
    SuccessIsOwn
    NoTokenMeansNoCallback
    RefusedForACause

    
CHECK_DEADLOCK FALSE
