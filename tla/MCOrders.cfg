\* Orders of the browser against the session they were sent with.
CONSTANTS
    Empty = Empty
    a = a
    A = A
    b = b
    Texts <- MCTexts
    Typed = {Empty, A, b}
    Normal <- MCNormal
    Addresses = {a, b}
    Accounts = {a, b}
    Nobody = Nobody
    NoCookie = NoCookie
    MaxLookups = 2
    MaxCalls = 2
SPECIFICATION Spec
CHECK_DEADLOCK FALSE
INVARIANTS OrdersMatchSession
