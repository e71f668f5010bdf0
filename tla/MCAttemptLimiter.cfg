\* Two failures per three ticks; two windows and a half pass.  No symmetry,
\* because LockoutEnds is a liveness property.
CONSTANTS
    Emails = {e1, e2}
    Requests = {r1, r2, r3, r4}
    RateLimitAttempts = 2
    RateLimitWindow = 3
    MaxClock = 6
SPECIFICATION FairLimiterSpec
INVARIANTS
    LimiterTypeOK
    RollingWindow
    LockoutExact
PROPERTIES
    LockoutEnds
    ImplementsSlidingWindow
