\* Three calls of any kind from an empty database; codes expire and the
\* rolling window ends within the bound of the clock.
CONSTANTS
    Emails = {e1}
    Codes = {c1, c2}
    Requests = {r1, r2, r3}
    RateLimitAttempts = 1
    RateLimitWindow = 3
    OtpTTL = 2
    MaxClock = 3
    NoOtp = NoOtp
    NoCall = NoCall
    NoOne = NoOne
    NoCode = NoCode
SYMMETRY Symmetry
SPECIFICATION AuthSpec
INVARIANTS
    AuthTypeOK
    ExpiredCodesStayDead
    ShownCodeStands
    AtMostOneRedemption
    SupersededCodesStayDead
PROPERTIES
    ImplementsOneTimeCode
    LateRefusalMeansOverlap
    LimiterSpec
