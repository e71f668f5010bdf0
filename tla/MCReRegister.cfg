\* The comment of the users table against Register.
CONSTANTS
    Emails = {e1}
    Codes = {c1, c2}
    Requests = {r1, r2}
    RateLimitAttempts = 1
    RateLimitWindow = 2
    OtpTTL = 1
    MaxClock = 1
    NoOtp = NoOtp
    NoCall = NoCall
    NoOne = NoOne
    NoCode = NoCode
SYMMETRY Symmetry
SPECIFICATION AuthSpec
INVARIANT
    ReRegisterReplacesCode
