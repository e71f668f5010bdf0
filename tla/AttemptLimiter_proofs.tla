----------------------- MODULE AttemptLimiter_proofs -----------------------
(***************************************************************************)
(* Theorems about AttemptLimiter, for any emails, any number of calls and   *)
(* any limit, window and bound of the clock.                                *)
(***************************************************************************)
EXTENDS AttemptLimiter, FiniteSetTheorems, TLAPS

\* The failures are finitely many and lie in the past; the lists of the
\* limiter hold nothing but failures, and among them all recent ones.
ListsFollowHistory ==
    \A e \in Emails :
        /\ IsFiniteSet(failures[e])
        /\ attempts[e] \subseteq failures[e]
        /\ \A f \in failures[e] :
              /\ f.at <= clock
              /\ f.at > cutoffNow => f \in attempts[e]

LimiterInv == LimiterTypeOK /\ ListsFollowHistory /\ RollingWindow

-----------------------------------------------------------------------------
\* One more element makes a set larger by one at most.
LEMMA AddOne ==
    ASSUME NEW S, IsFiniteSet(S), NEW x
    PROVE  /\ IsFiniteSet(S \cup {x})
           /\ Cardinality(S \cup {x}) \in Nat
           /\ Cardinality(S \cup {x}) <= Cardinality(S) + 1
<1>1. IsFiniteSet(S \cup {x})
    BY FS_AddElement
<1>2. Cardinality(S) \in Nat
    BY FS_CardinalityType
<1>3. Cardinality(S \cup {x}) \in Nat
    BY <1>1, FS_CardinalityType
<1>4. QED
    BY <1>1, <1>2, <1>3, FS_AddElement

\* A window of the history is a finite set.
LEMMA WindowFinite ==
    ASSUME ListsFollowHistory, NEW e \in Emails, NEW t \in Int
    PROVE  IsFiniteSet(InWindow(e, t)) /\ Cardinality(InWindow(e, t)) \in Nat
<1>1. IsFiniteSet(failures[e])
    BY DEF ListsFollowHistory
<1>2. InWindow(e, t) \subseteq failures[e]
    BY DEF InWindow
<1>3. IsFiniteSet(InWindow(e, t))
    BY <1>1, <1>2, FS_Subset
<1>4. QED
    BY <1>3, FS_CardinalityType

\* Pruning leaves exactly the failures of the last window (cleanupLocked).
LEMMA KeptIsLastWindow ==
    ASSUME LimiterInv, NEW e \in Emails
    PROVE  cleanupLocked[e] = InWindow(e, clock)
<1> USE LimiterAssumption
<1>1. \A f \in failures[e] : f.at \in Int
    BY DEF LimiterInv, LimiterTypeOK, Entries
<1>2. cleanupLocked[e] \subseteq InWindow(e, clock)
    BY <1>1 DEF LimiterInv, ListsFollowHistory, cleanupLocked, Kept, InWindow, cutoffNow
<1>3. InWindow(e, clock) \subseteq cleanupLocked[e]
    BY <1>1 DEF LimiterInv, ListsFollowHistory, cleanupLocked, Kept, InWindow, cutoffNow
<1>4. QED
    BY <1>2, <1>3

\* The types of what a step writes.
LEMMA CleanupType ==
    ASSUME LimiterTypeOK
    PROVE  cleanupLocked \in [Emails -> SUBSET Entries]
BY DEF LimiterTypeOK, cleanupLocked, Kept

-----------------------------------------------------------------------------
LEMMA InitEstablishes == LimiterInit => LimiterInv
<1> SUFFICES ASSUME LimiterInit
             PROVE  LimiterInv
    OBVIOUS
<1> USE LimiterAssumption DEF LimiterInit, NoAttempts
<1>1. LimiterTypeOK
    BY DEF LimiterTypeOK
<1>2. ListsFollowHistory
    BY FS_EmptySet DEF ListsFollowHistory
<1>3. RollingWindow
    <2> SUFFICES ASSUME NEW e \in Emails, NEW t \in 0..MaxClock
                 PROVE  Cardinality(InWindow(e, t)) <= RateLimitAttempts
        BY DEF RollingWindow
    <2>1. InWindow(e, t) = {}
        BY DEF InWindow
    <2>2. QED
        BY <2>1, FS_EmptySet
<1>4. QED
    BY <1>1, <1>2, <1>3 DEF LimiterInv

\* Pruning alone preserves the invariant.
LEMMA CleanupPreserves ==
    ASSUME LimiterInv, attempts' = cleanupLocked, UNCHANGED <<clock, failures>>
    PROVE  LimiterInv'
<1> USE LimiterAssumption
<1>1. LimiterTypeOK'
    BY CleanupType DEF LimiterInv, LimiterTypeOK
<1>2. ListsFollowHistory'
    <2> SUFFICES ASSUME NEW e \in Emails
                 PROVE  /\ IsFiniteSet(failures[e])
                        /\ cleanupLocked[e] \subseteq failures[e]
                        /\ \A f \in failures[e] :
                              /\ f.at <= clock
                              /\ f.at > cutoffNow => f \in cleanupLocked[e]
        BY DEF ListsFollowHistory, cutoffNow
    <2>1. QED
        BY DEF LimiterInv, ListsFollowHistory, cleanupLocked, Kept
<1>3. RollingWindow'
    BY DEF LimiterInv, RollingWindow, InWindow
<1>4. QED
    BY <1>1, <1>2, <1>3 DEF LimiterInv

\* A failure recorded now fits into every window.
LEMMA RecordKeepsWindows ==
    ASSUME LimiterInv, NEW r \in Requests, NEW e \in Emails, ~Full(e),
           failures' = [failures EXCEPT ![e] = @ \cup {[at |-> clock, by |-> r]}],
           UNCHANGED clock,
           NEW d \in Emails, NEW t \in 0..MaxClock
    PROVE  Cardinality(InWindow(d, t)') <= RateLimitAttempts
<1> DEFINE entry == [at |-> clock, by |-> r]
           last == InWindow(e, clock)
<1> USE LimiterAssumption
<1>1. Cardinality(InWindow(d, t)) <= RateLimitAttempts
    BY DEF LimiterInv, RollingWindow
<1>2. CASE d # e \/ t < clock
    <2>1. InWindow(d, t)' = InWindow(d, t)
        BY <1>2 DEF LimiterInv, LimiterTypeOK, InWindow
    <2>2. QED
        BY <1>1, <2>1
<1>3. CASE d = e /\ t >= clock
    <2>1. clock \in Int
        BY DEF LimiterInv, LimiterTypeOK
    <2>2. IsFiniteSet(last) /\ Cardinality(last) \in Nat
        BY <2>1, WindowFinite DEF LimiterInv
    <2>3. Cardinality(last) < RateLimitAttempts
        BY <2>2, KeptIsLastWindow DEF Full
    <2>4. InWindow(e, t)' \subseteq last \cup {entry}
        <3> SUFFICES ASSUME NEW f \in InWindow(e, t)', f # entry
                     PROVE  f \in last
            OBVIOUS
        <3>1. f \in failures[e] /\ t - RateLimitWindow < f.at
            BY DEF InWindow, LimiterInv, LimiterTypeOK
        <3>2. f.at <= clock /\ f.at \in Int
            BY <3>1 DEF LimiterInv, LimiterTypeOK, ListsFollowHistory, Entries
        <3>3. QED
            BY <1>3, <2>1, <3>1, <3>2 DEF InWindow
    <2>5. /\ IsFiniteSet(last \cup {entry})
          /\ Cardinality(last \cup {entry}) <= Cardinality(last) + 1
          /\ Cardinality(last \cup {entry}) \in Nat
        BY <2>2, AddOne
    <2>6. /\ Cardinality(InWindow(e, t)') <= Cardinality(last \cup {entry})
          /\ Cardinality(InWindow(e, t)') \in Nat
        BY <2>4, <2>5, FS_Subset, FS_CardinalityType
    <2> HIDE DEF last, entry
    <2>7. QED
        BY <1>3, <2>2, <2>3, <2>5, <2>6
<1>4. QED
    BY <1>2, <1>3 DEF LimiterInv, LimiterTypeOK

\* recordFailure preserves the invariant.
LEMMA RecordPreserves ==
    ASSUME LimiterInv, NEW r \in Requests, NEW e \in Emails, recordFailure(r, e)
    PROVE  LimiterInv'
<1> DEFINE entry == [at |-> clock, by |-> r]
<1> USE LimiterAssumption
<1>1. CASE Full(e)
    BY <1>1, CleanupPreserves DEF recordFailure
<1>2. CASE ~Full(e)
    <2>1. /\ attempts' = [cleanupLocked EXCEPT ![e] = @ \cup {entry}]
          /\ failures' = [failures EXCEPT ![e] = @ \cup {entry}]
          /\ UNCHANGED clock
        BY <1>2 DEF recordFailure
    <2>2. LimiterTypeOK'
        <3>1. entry \in Entries
            BY DEF LimiterInv, LimiterTypeOK, Entries
        <3>2. attempts' \in [Emails -> SUBSET Entries]
            BY <2>1, <3>1, CleanupType DEF LimiterInv
        <3>3. failures' \in [Emails -> SUBSET Entries]
            BY <2>1, <3>1 DEF LimiterInv, LimiterTypeOK
        <3>4. QED
            BY <2>1, <3>2, <3>3 DEF LimiterInv, LimiterTypeOK
    <2>3. ListsFollowHistory'
        <3> SUFFICES ASSUME NEW d \in Emails
                     PROVE  /\ IsFiniteSet(failures'[d])
                            /\ attempts'[d] \subseteq failures'[d]
                            /\ \A f \in failures'[d] :
                                  /\ f.at <= clock
                                  /\ f.at > cutoffNow => f \in attempts'[d]
            BY <2>1 DEF ListsFollowHistory, cutoffNow
        <3>1. /\ IsFiniteSet(failures[d])
              /\ cleanupLocked[d] \subseteq failures[d]
              /\ \A f \in failures[d] :
                    /\ f.at <= clock
                    /\ f.at > cutoffNow => f \in cleanupLocked[d]
            BY DEF LimiterInv, ListsFollowHistory, cleanupLocked, Kept
        <3>2. CASE d # e
            BY <2>1, <3>1, <3>2, CleanupType DEF LimiterInv, LimiterTypeOK
        <3>3. CASE d = e
            <4>1. /\ attempts'[d] = cleanupLocked[d] \cup {entry}
                  /\ failures'[d] = failures[d] \cup {entry}
                BY <2>1, <3>3, CleanupType DEF LimiterInv, LimiterTypeOK
            <4>2. entry.at <= clock
                BY DEF LimiterInv, LimiterTypeOK
            <4> HIDE DEF entry
            <4>3. IsFiniteSet(failures'[d])
                BY <3>1, <4>1, AddOne
            <4>4. QED
                BY <3>1, <4>1, <4>2, <4>3
        <3>4. QED
            BY <3>2, <3>3
    <2>4. RollingWindow'
        <3> SUFFICES ASSUME NEW d \in Emails, NEW t \in 0..MaxClock
                     PROVE  Cardinality(InWindow(d, t)') <= RateLimitAttempts
            BY DEF RollingWindow
        <3>1. QED
            BY <1>2, <2>1, RecordKeepsWindows
    <2>5. QED
        BY <2>2, <2>3, <2>4 DEF LimiterInv
<1>3. QED
    BY <1>1, <1>2

LEMMA TickPreserves == LimiterInv /\ Tick => LimiterInv'
<1> SUFFICES ASSUME LimiterInv, Tick
             PROVE  LimiterInv'
    OBVIOUS
<1> USE LimiterAssumption DEF LimiterInv
<1>1. LimiterTypeOK'
    BY DEF LimiterTypeOK, Tick
<1>2. ListsFollowHistory'
    <2>1. \A e \in Emails : \A f \in failures[e] : f.at \in Int
        BY DEF LimiterTypeOK, Entries
    <2>2. clock \in Int
        BY DEF LimiterTypeOK
    <2>3. QED
        BY <2>1, <2>2 DEF ListsFollowHistory, Tick, cutoffNow
<1>3. RollingWindow'
    BY DEF RollingWindow, InWindow, Tick
<1>4. QED
    BY <1>1, <1>2, <1>3

LEMMA ResetPreserves == LimiterInv /\ ResetLimiter => LimiterInv'
<1> SUFFICES ASSUME LimiterInv, ResetLimiter
             PROVE  LimiterInv'
    OBVIOUS
<1> USE LimiterAssumption DEF ResetLimiter, NoAttempts
<1>1. LimiterTypeOK'
    BY DEF LimiterInv, LimiterTypeOK
<1>2. ListsFollowHistory'
    BY FS_EmptySet DEF ListsFollowHistory
<1>3. RollingWindow'
    <2> SUFFICES ASSUME NEW e \in Emails, NEW t \in 0..MaxClock
                 PROVE  Cardinality(InWindow(e, t)') <= RateLimitAttempts
        BY DEF RollingWindow
    <2>1. InWindow(e, t)' = {}
        BY DEF InWindow
    <2>2. QED
        BY <2>1, FS_EmptySet
<1>4. QED
    BY <1>1, <1>2, <1>3 DEF LimiterInv

LEMMA LimiterNextPreserves == LimiterInv /\ [LimiterNext]_limiterVars => LimiterInv'
<1> SUFFICES ASSUME LimiterInv, [LimiterNext]_limiterVars
             PROVE  LimiterInv'
    OBVIOUS
<1>1. ASSUME NEW e \in Emails, isLimited(e)
      PROVE  LimiterInv'
    BY <1>1, CleanupPreserves DEF isLimited
<1>2. ASSUME NEW r \in Requests, NEW e \in Emails, RecordOnce(r, e)
      PROVE  LimiterInv'
    BY <1>2, RecordPreserves DEF RecordOnce
<1>3. CASE Tick
    BY <1>3, TickPreserves
<1>4. CASE ResetLimiter
    BY <1>4, ResetPreserves
<1>5. CASE UNCHANGED limiterVars
    BY <1>5 DEF limiterVars, LimiterInv, LimiterTypeOK, ListsFollowHistory,
                RollingWindow, InWindow, cutoffNow
<1>6. QED
    BY <1>1, <1>2, <1>3, <1>4, <1>5 DEF LimiterNext

\* The invariant that makes the others inductive.
THEOREM LimiterInvariant == LimiterSpec => []LimiterInv
<1>1. LimiterInit => LimiterInv
    BY InitEstablishes
<1>2. LimiterInv /\ [LimiterNext]_limiterVars => LimiterInv'
    BY LimiterNextPreserves
<1>3. QED
    BY <1>1, <1>2, PTL DEF LimiterSpec

\* No window at any time holds more counted failures of one email than the
\* limit, whatever calls interleave (auth.go:98-109).
THEOREM RollingWindowHolds == LimiterSpec => []RollingWindow
<1>1. LimiterInv => RollingWindow
    BY DEF LimiterInv
<1>2. QED
    BY <1>1, LimiterInvariant, PTL

\* An email is limited exactly while the window that ends now is full
\* (auth.go:73-96): pruning lazily forgets nothing that counts.
THEOREM LockoutExactHolds == LimiterSpec => []LockoutExact
<1>1. LimiterInv => LockoutExact
    BY KeptIsLastWindow DEF LockoutExact, Full
<1>2. QED
    BY <1>1, LimiterInvariant, PTL

\* The lists hold times of calls, none of them beyond the clock's bound.
THEOREM LimiterTypeCorrect == LimiterSpec => []LimiterTypeOK
<1>1. LimiterInv => LimiterTypeOK
    BY DEF LimiterInv
<1>2. QED
    BY <1>1, LimiterInvariant, PTL

-----------------------------------------------------------------------------
(* The limiter implements SlidingWindow. *)

\* What is left after pruning is what counts in the whole history.
LEMMA FullIsLimited ==
    ASSUME LimiterInv, NEW e \in Emails
    PROVE  Full(e) <=> Window!Limited(e)
<1>1. clock \in Int /\ \A f \in failures[e] : f.at \in Int /\ f.at <= clock
    BY LimiterAssumption DEF LimiterInv, LimiterTypeOK, Entries, ListsFollowHistory
<1>2. InWindow(e, clock) = Window!Recent(e)
    <2>1. InWindow(e, clock) \subseteq Window!Recent(e)
        BY <1>1, LimiterAssumption DEF InWindow, Window!Recent
    <2>2. Window!Recent(e) \subseteq InWindow(e, clock)
        BY <1>1, LimiterAssumption DEF InWindow, Window!Recent
    <2>3. QED
        BY <2>1, <2>2
<1>3. ASSUME NEW S
      PROVE  Window!Cardinality(S) = Cardinality(S)
    BY DEF Window!Cardinality, Cardinality
<1>4. QED
    BY <1>2, <1>3, KeptIsLastWindow DEF Full, Window!Limited

\* A failure told to the limiter is counted, or none of the history changes.
LEMMA RecordCounts ==
    ASSUME LimiterInv, NEW r \in Requests, NEW e \in Emails, RecordOnce(r, e)
    PROVE  [Window!WindowNext]_(Window!windowVars)
<1>1. CASE Full(e)
    BY <1>1, FullIsLimited DEF RecordOnce, recordFailure, Window!windowVars
<1>2. CASE ~Full(e)
    <2>1. Window!Count(r, e)
        BY <1>2, FullIsLimited DEF RecordOnce, HasFailed, recordFailure, Window!Count
    <2>2. QED
        BY <2>1 DEF Window!WindowNext
<1>3. QED
    BY <1>1, <1>2

\* Pruning is invisible: with the lists hidden, every step of the limiter counts
\* a failure of an email that is not limited by its history, lets time go on,
\* forgets everything with its process, or does nothing (auth.go:73-109).
THEOREM ImplementsSlidingWindowHolds == LimiterSpec => ImplementsSlidingWindow
<1>1. LimiterInit => Window!WindowInit
    BY DEF LimiterInit, NoAttempts, Window!WindowInit
<1>2. LimiterInv /\ [LimiterNext]_limiterVars => [Window!WindowNext]_(Window!windowVars)
    <2> SUFFICES ASSUME LimiterInv, [LimiterNext]_limiterVars
                 PROVE  [Window!WindowNext]_(Window!windowVars)
        OBVIOUS
    <2>1. ASSUME NEW e \in Emails, isLimited(e)
          PROVE  [Window!WindowNext]_(Window!windowVars)
        BY <2>1 DEF isLimited, Window!windowVars
    <2>2. CASE Tick
        BY <2>2 DEF Tick, Window!TimeGoesOn, Window!WindowNext
    <2>3. CASE ResetLimiter
        BY <2>3 DEF ResetLimiter, NoAttempts, Window!ForgetAll, Window!WindowNext
    <2>4. CASE UNCHANGED limiterVars
        BY <2>4 DEF limiterVars, Window!windowVars
    <2>5. QED
        BY <2>1, <2>2, <2>3, <2>4, RecordCounts DEF LimiterNext
<1>3. QED
    BY <1>1, <1>2, LimiterInvariant, PTL DEF LimiterSpec, ImplementsSlidingWindow, Window!WindowSpec
=============================================================================
