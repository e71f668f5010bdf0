------------------------ MODULE AuthRefinement_proofs ------------------------
(***************************************************************************)
(* AuthService implements OneTimeCode, under the mapping of AuthService,    *)
(* and AttemptLimiter, whose theorems it inherits.                          *)
(***************************************************************************)
EXTENDS AuthCodes_proofs

\* Failures on record are answered calls: each was refused, for the email it
\* is counted under, and consumed no code.
FailuresAreRefusals ==
    \A e \in Emails : \A f \in failures[e] :
        /\ f.by \in Requests
        /\ pc[f.by] = "done"
        /\ call[f.by].email = e
        /\ reply[f.by] \in Failing
        /\ redeemed[f.by] = NoOne

RefinementInv == CodesInv /\ FailuresAreRefusals

-----------------------------------------------------------------------------
(* The limiter. *)

\* Redeemed codes stay redeemed by whoever redeemed them.
LEMMA RedeemedStays ==
    ASSUME CodesInv, [AuthNext]_authVars, NEW q \in Requests, pc[q] = "done"
    PROVE  redeemed'[q] = redeemed[q]
<1>1. CASE Quiet
    BY <1>1 DEF Quiet
<1>2. ASSUME NEW r \in Requests, UpdateOTP(r) \/ VerifyConsume(r)
      PROVE  redeemed'[q] = redeemed[q]
    BY <1>2 DEF UpdateOTP, VerifyConsume, CodesInv, AuthTyping, AuthTypeOK
<1>3. QED
    BY <1>1, <1>2, QuietOrNot DEF CodesInv

\* Seen by the limiter, a step of the service is a step of the limiter.
LEMMA LimiterStep ==
    ASSUME RefinementInv, [AuthNext]_authVars
    PROVE  [LimiterNext]_limiterVars
<1>1. ASSUME NEW r \in Requests, Handle(r)
      PROVE  [LimiterNext]_limiterVars
    <2>1. ASSUME NEW e \in Emails, NEW c \in Codes, VerifyIsLimited(r, e, c)
          PROVE  LimiterNext
        BY <2>1 DEF VerifyIsLimited, LimiterNext
    <2>2. CASE VerifyRecord(r)
        <3>1. pc[r] = "record" /\ recordFailure(r, call[r].email)
            BY <2>2 DEF VerifyRecord
        <3>2. call[r].email \in Emails
            BY <3>1, WorkingCall DEF RefinementInv, CodesInv, Working
        <3>3. ~HasFailed(r)
            BY <3>1 DEF HasFailed, RefinementInv, FailuresAreRefusals
        <3>4. QED
            BY <3>1, <3>2, <3>3 DEF RecordOnce, LimiterNext
    <2>3. CASE UNCHANGED limiterVars
        BY <2>3
    <2>4. QED
        BY <1>1, <2>1, <2>2, <2>3
           DEF Handle, Refuse, RegisterStart, ReissueFind, RegisterInsert,
               UpdateOTP, VerifyFind, VerifyCheck, VerifyConsume, DatabaseError
<1>2. CASE Restart
    BY <1>2 DEF Restart, LimiterNext
<1>3. CASE TimePasses
    BY <1>3 DEF TimePasses, LimiterNext
<1>4. CASE UNCHANGED authVars
    BY <1>4 DEF authVars
<1>5. QED
    BY <1>1, <1>2, <1>3, <1>4 DEF AuthNext

\* What is on record stays true, because it is about answered calls, and a
\* new entry is made by a call that is being refused.
LEMMA FailuresStayRefusals ==
    ASSUME RefinementInv, [AuthNext]_authVars
    PROVE  FailuresAreRefusals'
<1> USE DEF RefinementInv
<1>1. Settled /\ AuthTyping
    BY StepsSettle DEF CodesInv
<1>2. ASSUME NEW e \in Emails, NEW f \in failures[e]
      PROVE  /\ f.by \in Requests
             /\ pc'[f.by] = "done"
             /\ call'[f.by].email = e
             /\ reply'[f.by] \in Failing
             /\ redeemed'[f.by] = NoOne
    BY <1>1, <1>2, RedeemedStays DEF FailuresAreRefusals, Settled
<1>3. CASE failures' = failures \/ failures' = NoAttempts
    BY <1>2, <1>3 DEF FailuresAreRefusals, NoAttempts
<1>4. ASSUME NEW r \in Requests, VerifyRecord(r), ~Full(call[r].email)
      PROVE  FailuresAreRefusals'
    <2> DEFINE d == call[r].email
               entry == [at |-> clock, by |-> r]
    <2>1. /\ pc[r] = "record" /\ pc'[r] = "done" /\ call'[r] = call[r]
          /\ reply'[r] = reply[r] /\ redeemed' = redeemed
          /\ failures' = [failures EXCEPT ![d] = @ \cup {entry}]
        BY <1>1, <1>4 DEF VerifyRecord, recordFailure, Answer, historyVars,
                          AuthTyping, AuthTypeOK
    <2>2. reply[r] \in Failing /\ redeemed[r] = NoOne
        BY <1>1, <2>1 DEF AuthTyping, CallsInPlace, CodesInv, RedeemersAreDone
    <2>3. \A e \in Emails : failures'[e] \subseteq failures[e] \cup {entry}
        BY <1>1, <2>1 DEF AuthTyping, AuthTypeOK, LimiterTypeOK
    <2>4. \A e \in Emails : e # d => failures'[e] = failures[e]
        BY <1>1, <2>1 DEF AuthTyping, AuthTypeOK, LimiterTypeOK
    <2>5. entry.by = r
        OBVIOUS
    <2> HIDE DEF entry
    <2>6. QED
        BY <1>2, <2>1, <2>2, <2>3, <2>4, <2>5 DEF FailuresAreRefusals
<1>5. ASSUME NEW r \in Requests, Handle(r)
      PROVE  \/ failures' = failures
             \/ VerifyRecord(r) /\ ~Full(call[r].email)
    BY <1>5 DEF Handle, Refuse, RegisterStart, ReissueFind, RegisterInsert, UpdateOTP,
                VerifyIsLimited, isLimited, VerifyFind, VerifyCheck, VerifyConsume,
                VerifyRecord, recordFailure, DatabaseError, limiterVars
<1>6. CASE Restart \/ TimePasses \/ UNCHANGED authVars
    BY <1>3, <1>6 DEF Restart, ResetLimiter, TimePasses, Tick, authVars, limiterVars
<1>7. QED
    BY <1>3, <1>4, <1>5, <1>6 DEF AuthNext

\* The invariant of the refinement.
THEOREM RefinementInvariant == AuthSpec => []RefinementInv
<1>1. AuthInit => RefinementInv
    BY AuthInitCodes DEF AuthInit, LimiterInit, NoAttempts, RefinementInv,
                         FailuresAreRefusals
<1>2. RefinementInv /\ [AuthNext]_authVars => RefinementInv'
    BY AuthNextCodes, FailuresStayRefusals DEF RefinementInv
<1>3. QED
    BY <1>1, <1>2, PTL DEF AuthSpec

\* The limiter inside the service behaves as the limiter on its own, so every
\* theorem about it holds of the service.
THEOREM ImplementsLimiter == AuthSpec => LimiterSpec
<1>1. AuthInit => LimiterInit
    BY DEF AuthInit
<1>2. RefinementInv /\ [AuthNext]_authVars => [LimiterNext]_limiterVars
    BY LimiterStep
<1>3. QED
    BY <1>1, <1>2, RefinementInvariant, PTL DEF AuthSpec, LimiterSpec

\* In the running service no window ever holds more counted failures of an
\* email than the limit.
THEOREM ServiceRollingWindow == AuthSpec => []RollingWindow
BY ImplementsLimiter, RollingWindowHolds, PTL

\* Nor do the lists of its limiter lose what still counts.
THEOREM ServiceSlidingWindow == AuthSpec => ImplementsSlidingWindow
BY ImplementsLimiter, ImplementsSlidingWindowHolds, PTL

\* The limiter counts refused submissions and nothing else.
THEOREM OnlyFailuresCountedHolds == AuthSpec => []OnlyFailuresCounted
<1>1. RefinementInv => OnlyFailuresCounted
    BY DEF RefinementInv, FailuresAreRefusals, OnlyFailuresCounted
<1>2. QED
    BY <1>1, RefinementInvariant, PTL

-----------------------------------------------------------------------------
(* The codes. *)

\* The row of an email, mapped.
LEMMA CurrentBar ==
    ASSUME CodesInv, NEW e \in Emails, otp[e] # NoOtp
    PROVE  /\ currentBar[e] = [by |-> otp[e].issuer, email |-> e,
                               code |-> call[otp[e].issuer].code]
           /\ currentBar[e] \in Issuances
<1>1. otp[e].issuer \in issued /\ otp[e].hash = hashOTP(call[otp[e].issuer].code)
    BY DEF CodesInv, TableFollowsHistory
<1>2. otp[e].issuer \in Requests /\ call[otp[e].issuer].code \in Codes
    BY <1>1 DEF CodesInv, IssuersAreDone, AuthTyping, AuthTypeOK, Calls
<1>3. otp[e].hash.sha256 = call[otp[e].issuer].code
    BY <1>1 DEF hashOTP
<1>4. currentBar[e] = [by |-> otp[e].issuer, email |-> e,
                       code |-> call[otp[e].issuer].code]
    BY <1>3 DEF currentBar
<1>5. QED
    BY <1>2, <1>4 DEF Issuances

\* Storing a code issues it.
LEMMA UpdateOTPIssues ==
    ASSUME CodesInv, NEW r \in Requests, UpdateOTP(r)
    PROVE  IssuanceOf(r) \in OTC!Issuances /\ OTC!Issue(IssuanceOf(r))
<1> DEFINE e == call[r].email
           i == IssuanceOf(r)
<1>1. /\ pc[r] = "update" /\ call' = call /\ redeemed' = redeemed
      /\ issued' = issued \cup {r}
      /\ otp' = [otp EXCEPT ![e] = [hash |-> hashOTP(call[r].code),
                    issuedAt |-> call[r].at, used |-> FALSE, issuer |-> r]]
      /\ call[r] \in Calls /\ e \in Emails /\ call[r].code \in Codes
    BY WorkingCall DEF CodesInv, UpdateOTP, Working
<1>2. i \in OTC!Issuances
    BY <1>1 DEF IssuanceOf, OTC!Issuances
<1>3. \A j \in issuedBar : j.by # i.by
    <2>1. r \notin issued
        BY <1>1 DEF CodesInv, IssuersAreDone
    <2>2. QED
        BY <2>1 DEF issuedBar, IssuanceOf
<1>4. currentBar' = [currentBar EXCEPT ![i.email] = i]
    <2>1. [hash |-> hashOTP(call[r].code), issuedAt |-> call[r].at,
           used |-> FALSE, issuer |-> r] \in OtpColumns
        BY <1>1, WorkingCall DEF CodesInv, OtpColumns, Working
    <2>2. \A d \in Emails : currentBar'[d] = IF d = e THEN i ELSE currentBar[d]
        BY <1>1, <2>1, AuthAssumption
           DEF currentBar, IssuanceOf, hashOTP, CodesInv, AuthTyping, AuthTypeOK
    <2>3. i.email = e
        BY DEF IssuanceOf
    <2> HIDE DEF i, e
    <2>4. /\ currentBar' = [d \in Emails |-> currentBar'[d]]
          /\ currentBar = [d \in Emails |-> currentBar[d]]
        BY DEF currentBar
    <2>5. currentBar' = [d \in Emails |-> IF d = e THEN i ELSE currentBar[d]]
        BY <2>2, <2>4, Zenon
    <2>6. [currentBar EXCEPT ![e] = i] = [d \in Emails |-> IF d = e THEN i ELSE currentBar[d]]
        BY <2>4
    <2>7. QED
        BY <2>3, <2>5, <2>6
<1>5. issuedBar' = issuedBar \cup {i}
    BY <1>1 DEF issuedBar, IssuanceOf
<1>6. redeemedBar' = redeemedBar
    BY <1>1 DEF redeemedBar
<1> HIDE DEF i
<1>7. i \in OTC!Issuances /\ OTC!Issue(i)
    BY <1>2, <1>3, <1>4, <1>5, <1>6 DEF OTC!Issue
<1>8. QED
    BY <1>7 DEF i

\* Consuming a code redeems it.
LEMMA ConsumeRedeems ==
    ASSUME CodesInv, NEW r \in Requests, VerifyConsume(r),
           Consumable(call[r].email, call[r].code)
    PROVE  /\ call[r].email \in Emails /\ call[r].code \in Codes
           /\ OTC!Redeem(r, call[r].email, call[r].code)
<1> DEFINE e == call[r].email
           c == call[r].code
           j == otp[e].issuer
<1>1. /\ pc[r] = "consume" /\ call' = call /\ issued' = issued
      /\ call[r] \in Calls /\ e \in Emails /\ c \in Codes
      /\ otp[e] # NoOtp /\ otp[e] \in OtpColumns
      /\ otp' = [otp EXCEPT ![e].used = TRUE]
      /\ redeemed' = [redeemed EXCEPT ![r] = j]
    BY WorkingCall DEF CodesInv, VerifyConsume, Working, Consumable, AuthTyping, AuthTypeOK
<1>2. /\ j \in issued /\ j \in Requests /\ j # NoOne
      /\ \A v \in Requests : redeemed[v] # j
      /\ call[j].code = c
    <2>1. j \in issued /\ \A v \in Requests : redeemed[v] # j
        BY <1>1 DEF Consumable, CodesInv, TableFollowsHistory
    <2>2. hashOTP(call[j].code) = hashOTP(c)
        BY <1>1 DEF Consumable, CodesInv, TableFollowsHistory
    <2>3. j \in Requests
        BY <2>1 DEF CodesInv, AuthTyping, AuthTypeOK
    <2>4. QED
        BY <2>1, <2>2, <2>3, AuthAssumption DEF hashOTP
<1>3. /\ currentBar[e] = [by |-> j, email |-> e, code |-> c]
      /\ currentBar[e] \in Issuances
    BY <1>1, <1>2, CurrentBar
<1>4. currentBar[e] # NoCode
    BY <1>3, AuthAssumption
<1>5. ASSUME NEW w \in Requests
      PROVE  redeemedBar[w] # currentBar[e]
    BY <1>2, <1>3, AuthAssumption DEF redeemedBar
<1>6. redeemed[r] = NoOne /\ redeemedBar[r] = NoOne
    BY <1>1 DEF CodesInv, RedeemersAreDone, redeemedBar
<1>7. redeemedBar' = [redeemedBar EXCEPT ![r] = [by |-> currentBar[e].by, email |-> e, code |-> c]]
    <2>1. currentBar[e].by = j
        BY <1>3
    <2>2. \A v \in Requests : redeemedBar'[v] =
              IF v = r THEN [by |-> j, email |-> e, code |-> c] ELSE redeemedBar[v]
        BY <1>1, <1>2 DEF redeemedBar, CodesInv, AuthTyping, AuthTypeOK
    <2>3. QED
        BY <2>1, <2>2 DEF redeemedBar
<1>8. currentBar' = currentBar
    <2>1. otp'[e] = [otp[e] EXCEPT !.used = TRUE] /\ \A d \in Emails \ {e} : otp'[d] = otp[d]
        BY <1>1 DEF CodesInv, AuthTyping, AuthTypeOK
    <2>2. otp'[e].issuer = j /\ otp'[e].hash = otp[e].hash
        BY <1>1, <2>1 DEF OtpColumns
    <2>3. otp'[e] # NoOtp
        <3>1. [otp[e] EXCEPT !.used = TRUE] \in OtpColumns
            BY <1>1 DEF OtpColumns
        <3>2. QED
            BY <2>1, <3>1, AuthAssumption
    <2>4. QED
        BY <1>1, <2>1, <2>2, <2>3 DEF currentBar
<1>9. issuedBar' = issuedBar
    BY <1>1 DEF issuedBar, IssuanceOf
<1>10. OTC!Redeem(r, e, c)
    BY <1>3, <1>4, <1>5, <1>6, <1>7, <1>8, <1>9 DEF OTC!Redeem
<1>11. QED
    BY <1>1, <1>10

\* Every other step is invisible.
LEMMA QuietStutters ==
    ASSUME CodesInv, Settled, Quiet
    PROVE  UNCHANGED OTC!otcVars
<1>1. currentBar' = currentBar
    BY DEF Quiet, currentBar
<1>2. \A r \in issued : call'[r] = call[r]
    BY DEF CodesInv, IssuersAreDone, Settled, AuthTyping, AuthTypeOK
<1>3. issuedBar' = issuedBar
    BY <1>2 DEF Quiet, issuedBar, IssuanceOf
<1>4. \A v \in Requests : redeemed[v] # NoOne => call'[v] = call[v]
    BY DEF CodesInv, RedeemersAreDone, Settled
<1>5. redeemedBar' = redeemedBar
    BY <1>4 DEF Quiet, redeemedBar
<1>6. QED
    BY <1>1, <1>3, <1>5 DEF OTC!otcVars

\* A step stores a code, consumes one, or is invisible.
LEMMA CodeSteps ==
    ASSUME CodesInv, [AuthNext]_authVars
    PROVE  \/ \E r \in Requests : UpdateOTP(r)
           \/ \E r \in Requests :
                 VerifyConsume(r) /\ Consumable(call[r].email, call[r].code)
           \/ UNCHANGED OTC!otcVars /\ redeemed' = redeemed
<1>1. Settled
    BY StepsSettle DEF CodesInv
<1>2. ASSUME NEW r \in Requests, VerifyConsume(r), ~Consumable(call[r].email, call[r].code)
      PROVE  Quiet
    BY <1>2 DEF VerifyConsume, Fail, Quiet, CodesInv, AuthTyping, AuthTypeOK
<1>3. CASE Quiet
    BY <1>1, <1>3, QuietStutters DEF Quiet
<1>4. QED
    BY <1>2, <1>3, QuietOrNot DEF CodesInv

\* The service, with its stale rows, lost answers, failing statements and
\* restarts, keeps the promise of OneTimeCode.
THEOREM ServiceImplementsOneTimeCode == AuthSpec => ImplementsOneTimeCode
<1>1. AuthInit => OTC!OTCInit
    BY DEF AuthInit, OTC!OTCInit, currentBar, issuedBar, redeemedBar
<1>2. CodesInv /\ [AuthNext]_authVars => [OTC!OTCNext]_OTC!otcVars
    BY CodeSteps, UpdateOTPIssues, ConsumeRedeems DEF OTC!OTCNext
<1>3. QED
    BY <1>1, <1>2, CodesInvariant, PTL DEF AuthSpec, ImplementsOneTimeCode, OTC!OTCSpec

-----------------------------------------------------------------------------
(* The limiter asked twice. *)

\* Submissions the limiter has let pass.
Passed == {"find", "check", "consume", "record"}

\* A submission that passed knew fewer failures than the limit.
SeenIsShort ==
    \A r \in Requests : pc[r] \in Passed =>
        IsFiniteSet(seen[r]) /\ Cardinality(seen[r]) < RateLimitAttempts

\* What the limiter remembers of an email can be counted.
LEMMA KeptIsFinite ==
    ASSUME LimiterInv, NEW e \in Emails
    PROVE  IsFiniteSet(cleanupLocked[e]) /\ Cardinality(cleanupLocked[e]) \in Nat
<1>1. clock \in Int /\ ListsFollowHistory
    BY LimiterAssumption DEF LimiterInv, LimiterTypeOK
<1>2. QED
    BY <1>1, KeptIsLastWindow, WindowFinite

\* The only way past the limiter is its gate.
LEMMA ComesPast ==
    ASSUME AuthTyping, [AuthNext]_authVars, NEW q \in Requests, pc'[q] \in Passed
    PROVE  \/ pc[q] \in Passed /\ seen'[q] = seen[q]
           \/ \E e \in Emails : ~Full(e) /\ seen'[q] = cleanupLocked[e]
<1> USE DEF AuthTyping, AuthTypeOK, Passed
<1>1. ASSUME NEW r \in Requests, \E text : Answer(r, text)
      PROVE  pc[q] \in Passed /\ seen'[q] = seen[q]
    BY <1>1 DEF Answer
<1>2. ASSUME NEW r \in Requests, pc[r] \in Passed,
             \/ \E text : Fail(r, text)
             \/ \E p : Go(r, p)
      PROVE  pc[q] \in Passed /\ seen'[q] = seen[q]
    BY <1>2 DEF Fail, Go
<1>3. ASSUME NEW r \in Requests, Go(r, "insert") \/ Go(r, "update")
      PROVE  pc[q] \in Passed /\ seen'[q] = seen[q]
    BY <1>3 DEF Go
<1>4. ASSUME NEW r \in Requests, NEW e \in Emails, NEW c \in Codes, VerifyIsLimited(r, e, c)
      PROVE  \/ pc[q] \in Passed /\ seen'[q] = seen[q]
             \/ ~Full(e) /\ seen'[q] = cleanupLocked[e]
    BY <1>1, <1>4 DEF VerifyIsLimited
<1>5. ASSUME NEW r \in Requests, VerifyFind(r)
      PROVE  pc[q] \in Passed /\ seen'[q] = seen[q]
    BY <1>2, <1>5 DEF VerifyFind
<1>6. ASSUME NEW r \in Requests, VerifyCheck(r) \/ VerifyConsume(r)
      PROVE  pc[q] \in Passed /\ seen'[q] = seen[q]
    BY <1>1, <1>2, <1>6 DEF VerifyCheck, VerifyConsume
<1>7. ASSUME NEW r \in Requests,
             \/ Refuse(r) \/ RegisterInsert(r) \/ UpdateOTP(r) \/ VerifyRecord(r)
             \/ DatabaseError(r)
             \/ \E e \in Emails, c \in Codes : RegisterStart(r, e, c) \/ ReissueFind(r, e, c)
      PROVE  pc[q] \in Passed /\ seen'[q] = seen[q]
    BY <1>1, <1>3, <1>7 DEF Refuse, RegisterInsert, UpdateOTP, VerifyRecord, DatabaseError,
                            RegisterStart, ReissueFind
<1>8. CASE Restart
    BY <1>8 DEF Restart, Working
<1>9. CASE TimePasses \/ UNCHANGED authVars
    BY <1>9 DEF TimePasses, authVars, localVars
<1>10. QED
    BY <1>4, <1>5, <1>6, <1>7, <1>8, <1>9 DEF AuthNext, Handle

LEMMA SeenStaysShort ==
    LimiterInv /\ CodesInv /\ SeenIsShort /\ [AuthNext]_authVars => SeenIsShort'
<1> SUFFICES ASSUME LimiterInv, CodesInv, SeenIsShort, [AuthNext]_authVars,
                    NEW q \in Requests, pc'[q] \in Passed
             PROVE  IsFiniteSet(seen'[q]) /\ Cardinality(seen'[q]) < RateLimitAttempts
    BY DEF SeenIsShort
<1>1. CASE pc[q] \in Passed /\ seen'[q] = seen[q]
    BY <1>1 DEF SeenIsShort
<1>2. ASSUME NEW e \in Emails, ~Full(e), seen'[q] = cleanupLocked[e]
      PROVE  IsFiniteSet(seen'[q]) /\ Cardinality(seen'[q]) < RateLimitAttempts
    BY <1>2, KeptIsFinite, LimiterAssumption DEF Full
<1>3. QED
    BY <1>1, <1>2, ComesPast DEF CodesInv

\* Only recordFailure answers a submission that passed with the error of the
\* limiter, and only when the list is full.
LEMMA LateRefusal ==
    ASSUME CodesInv, [AuthNext]_authVars, NEW r \in Requests,
           pc[r] = "record", reply'[r] = "rateLimited"
    PROVE  Full(call[r].email)
<1> USE DEF AuthTyping, AuthTypeOK
<1>0. AuthTyping /\ reply[r] \in Failing /\ reply[r] # "rateLimited"
    BY DEF CodesInv, CallsInPlace, Failing
<1>1. ASSUME NEW q \in Requests, q # r, \E text : Answer(q, text) \/ Fail(q, text)
      PROVE  FALSE
    BY <1>0, <1>1 DEF Answer, Fail
<1>2. ASSUME NEW q \in Requests, UNCHANGED reply
      PROVE  FALSE
    BY <1>0, <1>2
<1>3. ASSUME NEW q \in Requests, Handle(q), q # r
      PROVE  FALSE
    <2>1. \/ \E text : Answer(q, text) \/ Fail(q, text)
          \/ UNCHANGED reply
        BY <1>3 DEF Handle, Refuse, RegisterStart, RegisterInsert, ReissueFind, UpdateOTP,
                    VerifyIsLimited, VerifyFind, VerifyCheck, VerifyConsume, VerifyRecord,
                    DatabaseError, Go
    <2>2. QED
        BY <1>1, <1>2, <1>3, <2>1
<1>4. CASE Handle(r)
    <2>1. VerifyRecord(r)
        BY <1>4 DEF Handle, Refuse, RegisterStart, RegisterInsert, ReissueFind, UpdateOTP,
                    VerifyIsLimited, VerifyFind, VerifyCheck, VerifyConsume, DatabaseError, Arrive
    <2>2. QED
        BY <1>0, <2>1 DEF VerifyRecord, Answer
<1>5. CASE Restart
    BY <1>0, <1>5 DEF Restart, Working
<1>6. CASE TimePasses \/ UNCHANGED authVars
    BY <1>0, <1>6 DEF TimePasses, authVars, localVars
<1>7. QED
    BY <1>3, <1>4, <1>5, <1>6 DEF AuthNext

\* A call the limiter let through and refuses at the end was overtaken: the
\* failures it knew were too few to refuse it.
THEOREM LateRefusalMeansOverlapHolds == AuthSpec => LateRefusalMeansOverlap
<1>1. AuthInit => SeenIsShort
    BY DEF AuthInit, SeenIsShort, Passed
<1>2. LimiterInv /\ CodesInv /\ SeenIsShort /\ [AuthNext]_authVars
          => [\A r \in Requests :
                 pc[r] = "record" /\ reply'[r] = "rateLimited" =>
                     cleanupLocked[call[r].email] \ seen[r] # {}]_authVars
    <2> SUFFICES ASSUME LimiterInv, CodesInv, SeenIsShort, [AuthNext]_authVars,
                        NEW r \in Requests, pc[r] = "record", reply'[r] = "rateLimited",
                        cleanupLocked[call[r].email] \ seen[r] = {}
                 PROVE  FALSE
        OBVIOUS
    <2> DEFINE kept == cleanupLocked[call[r].email]
    <2>1. call[r].email \in Emails
        BY WorkingCall DEF CodesInv, Working
    <2>2. Cardinality(kept) >= RateLimitAttempts /\ Cardinality(kept) \in Nat
        BY <2>1, LateRefusal, KeptIsFinite DEF Full
    <2>3. IsFiniteSet(seen[r]) /\ Cardinality(seen[r]) < RateLimitAttempts
        BY DEF SeenIsShort, Passed
    <2>4. kept \in SUBSET seen[r]
        OBVIOUS
    <2>5. Cardinality(kept) <= Cardinality(seen[r]) /\ Cardinality(seen[r]) \in Nat
        BY <2>3, <2>4, FS_Subset, FS_CardinalityType
    <2>6. QED
        BY <2>2, <2>3, <2>5, LimiterAssumption
<1>3. LimiterInv /\ CodesInv /\ SeenIsShort /\ [AuthNext]_authVars => SeenIsShort'
    BY SeenStaysShort
<1>4. QED
    BY <1>1, <1>2, <1>3, CodesInvariant, ImplementsLimiter, LimiterInvariant, PTL
       DEF AuthSpec, LateRefusalMeansOverlap
=============================================================================
