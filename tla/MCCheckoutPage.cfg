\* A registered email, one that is not, three texts entered, two calls besides the first Me.
CONSTANTS
    Empty = Empty
    a = a
    A = A
    b = b
    Texts <- MCTexts
    Typed = {Empty, A, b}
    Normal <- MCNormal
    Addresses = {a, b}
    Accounts = {a}
    Nobody = Nobody
    NoCookie = NoCookie
    MaxLookups = 2
    MaxCalls = 2
SPECIFICATION Spec
CHECK_DEADLOCK FALSE
INVARIANTS
    PageTypeOK
    RecognitionIsCurrent
    CheckingIsUnderWay
    AgreeOnceTold
    MemberOrdersMatch
PROPERTY
    HushedStays
