\* Two calls of any kind for two emails, one of which has been issued a code,
\* from the network through handlers and services to the tables and back.
CONSTANTS
    Emails = {e1, e2}
    Codes = {c1, c2}
    Requests = {r1, r2, r3}
    RateLimitAttempts = 1
    RateLimitWindow = 1
    OtpTTL = 1
    MaxClock = 1
    Browsers = {b1, b2}
    Tokens = {t1, t2}
    SessionLifetime = 1
    NoOtp = NoOtp
    NoCall = NoCall
    NoOne = NoOne
    NoCode = NoCode
    NoToken = NoToken
    NoCookie = NoCookie
    NoSession = NoSession
    NoArg = NoArg
    Guest = Guest
    Coder = r1
SYMMETRY Symmetry
SPECIFICATION RegisteredSpec
INVARIANTS
    VerifiedIsGenuine
    OnlyFailuresCounted
    SessionsHaveCodes
    DeadCodesOpenNothing
    SignedInByCode
    RefusalsAreHonest
PROPERTIES
    StepsOfSessionApi
CHECK_DEADLOCK FALSE
