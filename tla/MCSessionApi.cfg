\* Three calls of a browser that is logged in, while its session may expire.
CONSTANTS
    Emails = {e1}
    Codes = {c1, c2}
    Requests = {r1, r2, r3, r4, r5}
    Browsers = {b1}
    Tokens = {t1, t2, t3}
    SessionLifetime = 1
    MaxClock = 2
    NoCode = NoCode
    NoOne = NoOne
    NoToken = NoToken
    NoCookie = NoCookie
    NoSession = NoSession
    NoArg = NoArg
    Guest = Guest
    Coder = r1
    Login = r2
    FirstToken = t1
SYMMETRY Symmetry
SPECIFICATION LoggedInSpec
INVARIANTS
    ApiTypeOK
    SessionsAreEarned
    SessionsIdentify
    LogoutIsFinal
    GuestMeansNoCookie
    LogoutClears
CHECK_DEADLOCK FALSE
