---------------------------- MODULE SlidingWindow ----------------------------
(***************************************************************************)
(* What the limiter of failed submissions promises, without lists and the  *)
(* moments they are pruned at: the process knows every failure it has      *)
(* counted, and counts another one of an email only while fewer than the   *)
(* limit are younger than the window.                                      *)
(* AttemptLimiter implements it (src/backend/internal/services/auth.go).   *)
(***************************************************************************)
EXTENDS Integers, FiniteSets

CONSTANTS
    Emails,             \* normalised email addresses
    Requests,           \* calls handled by the process
    RateLimitAttempts,  \* failures that make an email limited
    RateLimitWindow,    \* how long a failure counts
    MaxClock            \* bound: the clock stops there

VARIABLES
    clock,
    failures    \* every failure counted since the process started

windowVars == <<clock, failures>>

\* Failures of e that count now.
Recent(e) == {f \in failures[e] : clock - f.at < RateLimitWindow}

Limited(e) == Cardinality(Recent(e)) >= RateLimitAttempts

-----------------------------------------------------------------------------
WindowInit ==
    /\ clock = 0
    /\ failures = [e \in Emails |-> {}]

\* Call r, which has not failed before, fails for e and is counted.
Count(r, e) ==
    /\ ~Limited(e)
    /\ \A x \in Emails : \A f \in failures[x] : f.by # r
    /\ failures' = [failures EXCEPT ![e] = @ \cup {[at |-> clock, by |-> r]}]
    /\ UNCHANGED clock

TimeGoesOn ==
    /\ clock < MaxClock
    /\ clock' = clock + 1
    /\ UNCHANGED failures

\* The process starts again and has counted nothing.
ForgetAll ==
    /\ failures' = [e \in Emails |-> {}]
    /\ UNCHANGED clock

WindowNext ==
    \/ \E r \in Requests, e \in Emails : Count(r, e)
    \/ TimeGoesOn
    \/ ForgetAll

WindowSpec == WindowInit /\ [][WindowNext]_windowVars
=============================================================================
