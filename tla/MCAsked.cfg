\* Signing out and entering the same email once more.
CONSTANTS
    Empty = Empty
    a = a
    A = A
    b = b
    Texts <- MCTexts
    Typed = {Empty, A, b}
    Normal <- MCNormal
    Addresses = {a, b}
    Accounts = {a}
    Nobody = Nobody
    NoCookie = NoCookie
    MaxLookups = 3
    MaxCalls = 3
SPECIFICATION Spec
CHECK_DEADLOCK FALSE
INVARIANTS AskedAfterSignOut
