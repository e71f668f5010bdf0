--------------------------- MODULE AttemptLimiter ---------------------------
(***************************************************************************)
(* The limiter of failed one-time-code submissions kept in the memory of   *)
(* one API process: otpAttemptLimiter in                                   *)
(* src/backend/internal/services/auth.go.  Both of its operations hold the *)
(* mutex from their first statement to their return, so each is one atomic *)
(* action.                                                                 *)
(*                                                                         *)
(* The Go code keeps, per email, a slice of times in the order they were   *)
(* appended and only ever asks for its length, so the slice is a set here. *)
(* A VerifyOTP call records at most one failure; its entry is the time     *)
(* together with the call, which keeps two failures of one instant apart.  *)
(***************************************************************************)
EXTENDS Integers, FiniteSets

CONSTANTS
    Emails,             \* normalised email addresses
    Requests,           \* calls handled by the process
    RateLimitAttempts,  \* otpRateLimitAttempts
    RateLimitWindow,    \* otpRateLimitWindow, in clock ticks
    MaxClock            \* bound: the clock stops there

ASSUME LimiterAssumption ==
    /\ RateLimitAttempts \in Nat \ {0}
    /\ RateLimitWindow \in Nat \ {0}
    /\ MaxClock \in Nat

VARIABLES
    attempts,   \* the map of the limiter: failures it still remembers
    clock,      \* the time that l.now() returns
    failures    \* history: every failure counted since the process started

limiterVars == <<attempts, clock, failures>>

Entries == [at : 0..MaxClock, by : Requests]

NoAttempts == [e \in Emails |-> {}]

\* Mutant: an entry exactly one window old is still kept.
KeptAtCutoff(list, cutoff) == {a \in list : a.at >= cutoff}

\* The entries of one list that cleanupLocked leaves: t.After(cutoff).
Kept(list, cutoff) == {a \in list : a.at > cutoff}

\* Mutant: the window is one tick too short.
cutoffEarly == clock - RateLimitWindow + 1

cutoffNow == clock - RateLimitWindow

\* cleanupLocked prunes the lists of all emails, not only the one asked for.
cleanupLocked == [e \in Emails |-> Kept(attempts[e], cutoffNow)]

\* Mutant: one failure too many is let in.
FullLate(e) == Cardinality(cleanupLocked[e]) > RateLimitAttempts

Full(e) == Cardinality(cleanupLocked[e]) >= RateLimitAttempts

-----------------------------------------------------------------------------
LimiterInit ==
    /\ attempts = NoAttempts
    /\ clock = 0
    /\ failures = NoAttempts

\* The state change of isLimited(e); its answer is Full(e).
isLimited(e) ==
    /\ attempts' = cleanupLocked
    /\ UNCHANGED <<clock, failures>>

\* Mutant: a refused call counts as one more failure.
recordFailureAlways(r, e) ==
    LET entry == [at |-> clock, by |-> r]
    IN  /\ attempts' = [cleanupLocked EXCEPT ![e] = @ \cup {entry}]
        /\ failures' = [failures EXCEPT ![e] = @ \cup {entry}]
        /\ UNCHANGED clock

\* Mutant: the cutoff is appended instead of the time.
recordFailureCutoff(r, e) ==
    LET entry == [at |-> cutoffNow, by |-> r]
    IN  /\ ~Full(e)
        /\ attempts' = [cleanupLocked EXCEPT ![e] = @ \cup {entry}]
        /\ failures' = [failures EXCEPT ![e] = @ \cup {entry}]
        /\ UNCHANGED clock

\* recordFailure(e) called by r: a full list only answers "limited".
recordFailure(r, e) ==
    LET entry == [at |-> clock, by |-> r]
    IN  /\ \/ /\ Full(e)
              /\ attempts' = cleanupLocked
              /\ UNCHANGED failures
           \/ /\ ~Full(e)
              /\ attempts' = [cleanupLocked EXCEPT ![e] = @ \cup {entry}]
              /\ failures' = [failures EXCEPT ![e] = @ \cup {entry}]
        /\ UNCHANGED clock

HasFailed(r) == \E e \in Emails : \E f \in failures[e] : f.by = r

RecordOnce(r, e) == ~HasFailed(r) /\ recordFailure(r, e)

Tick ==
    /\ clock < MaxClock
    /\ clock' = clock + 1
    /\ UNCHANGED <<attempts, failures>>

\* The limiter lives in the memory of the process: a restart empties it.
ResetLimiter ==
    /\ attempts' = NoAttempts
    /\ failures' = NoAttempts
    /\ UNCHANGED clock

LimiterNext ==
    \/ \E e \in Emails : isLimited(e)
    \/ \E r \in Requests, e \in Emails : RecordOnce(r, e)
    \/ Tick
    \/ ResetLimiter

LimiterSpec == LimiterInit /\ [][LimiterNext]_limiterVars

\* Time passes by itself: the only fairness a lockout needs to end.
FairLimiterSpec == LimiterSpec /\ WF_limiterVars(Tick)

-----------------------------------------------------------------------------
\* Failures of e counted in the window that ends at t.
InWindow(e, t) == {f \in failures[e] : t - RateLimitWindow < f.at /\ f.at <= t}

\* The variables have their types.
LimiterTypeOK ==
    /\ clock \in 0..MaxClock
    /\ attempts \in [Emails -> SUBSET Entries]
    /\ failures \in [Emails -> SUBSET Entries]

\* However calls interleave and however lazily the lists are pruned, no
\* window of RateLimitWindow ticks, at any time, holds more than
\* RateLimitAttempts counted failures of one email (auth.go:98-109).
RollingWindow ==
    \A e \in Emails, t \in 0..MaxClock :
        Cardinality(InWindow(e, t)) <= RateLimitAttempts

\* What the pruned lists answer is what the full history of the process
\* says: an email is limited exactly while its last window is full
\* (auth.go:73-96).
LockoutExact ==
    \A e \in Emails :
        Full(e) <=> Cardinality(InWindow(e, clock)) >= RateLimitAttempts

\* A lockout met early enough for the bounded clock to see its end is over
\* some time later, although the locked-out client never stops trying.
LockoutEnds ==
    \A e \in Emails, t \in 0..MaxClock :
        (Full(e) /\ clock = t /\ t + RateLimitWindow <= MaxClock) ~> ~Full(e)

-----------------------------------------------------------------------------
Window == INSTANCE SlidingWindow

\* The lists, pruned at any call for the emails of all others, lose nothing that
\* still counts: a failure is counted exactly as if the whole history were kept
\* and looked at (auth.go:73-109).
ImplementsSlidingWindow == Window!WindowSpec
=============================================================================
