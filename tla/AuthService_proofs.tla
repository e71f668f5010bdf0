-------------------------- MODULE AuthService_proofs --------------------------
(***************************************************************************)
(* Theorems about AuthService, for any emails, codes and number of calls,   *)
(* any limit, window and lifetime, and any bound of the clock.              *)
(***************************************************************************)
EXTENDS AuthService, AttemptLimiter_proofs

\* A call at work has arrived, one that waits for its recordFailure carries
\* the error it will answer, and one with a row to check has read a row.
CallsInPlace ==
    \A r \in Requests :
        /\ pc[r] \in Working => call[r] \in Calls
        /\ pc[r] = "record" => reply[r] \in Failing
        /\ pc[r] = "check" => row[r] \in OtpColumns

AuthTyping == AuthTypeOK /\ CallsInPlace

-----------------------------------------------------------------------------
(* What the building blocks of the actions write. *)

LEMMA AnswerTyping ==
    ASSUME AuthTyping, NEW r \in Requests, NEW text \in Replies, Answer(r, text)
    PROVE  /\ pc' = [pc EXCEPT ![r] = "done"]
           /\ pc' \in [Requests -> Working \cup {"idle", "done"}]
           /\ reply' = [reply EXCEPT ![r] = text]
           /\ reply' \in [Requests -> Replies]
           /\ row' = [row EXCEPT ![r] = NoOtp]
           /\ row' \in [Requests -> OtpColumns \cup {NoOtp}]
           /\ seen' \in [Requests -> SUBSET Entries]
BY DEF AuthTyping, AuthTypeOK, Answer

LEMMA FailTyping ==
    ASSUME AuthTyping, NEW r \in Requests, NEW text \in Failing, Fail(r, text)
    PROVE  /\ pc' = [pc EXCEPT ![r] = "record"]
           /\ pc' \in [Requests -> Working \cup {"idle", "done"}]
           /\ reply' = [reply EXCEPT ![r] = text]
           /\ reply' \in [Requests -> Replies]
           /\ row' = [row EXCEPT ![r] = NoOtp]
           /\ row' \in [Requests -> OtpColumns \cup {NoOtp}]
           /\ seen' \in [Requests -> SUBSET Entries]
BY DEF AuthTyping, AuthTypeOK, Fail, Working, Replies

LEMMA GoTyping ==
    ASSUME AuthTyping, NEW r \in Requests, NEW p \in Working, Go(r, p)
    PROVE  /\ pc' = [pc EXCEPT ![r] = p]
           /\ pc' \in [Requests -> Working \cup {"idle", "done"}]
           /\ reply' = reply /\ reply' \in [Requests -> Replies]
           /\ row' = row /\ row' \in [Requests -> OtpColumns \cup {NoOtp}]
           /\ seen' \in [Requests -> SUBSET Entries]
BY DEF AuthTyping, AuthTypeOK, Go

LEMMA ArriveTyping ==
    ASSUME AuthTyping, NEW r \in Requests, NEW e \in Emails, NEW c \in Codes,
           NEW op \in {"register", "reissue", "verify"}, Arrive(r, op, e, c)
    PROVE  /\ call' \in [Requests -> Calls \cup {NoCall}]
           /\ call'[r] \in Calls
           /\ \A q \in Requests : q # r => call'[q] = call[q]
           /\ call'[r].email = e /\ call'[r].code = c
           /\ call'[r].at = clock /\ call'[r].op = op
           /\ pc[r] = "idle"
<1> DEFINE new == [op |-> op, email |-> e, code |-> c, at |-> clock,
                   before |-> {q \in Requests : pc[q] = "done"}]
<1>1. new \in Calls
    BY DEF AuthTyping, AuthTypeOK, LimiterTypeOK, Calls
<1>2. call' = [call EXCEPT ![r] = new] /\ pc[r] = "idle"
    BY DEF Arrive
<1>3. call'[r] = new
    BY <1>2 DEF AuthTyping, AuthTypeOK
<1>4. call' \in [Requests -> Calls \cup {NoCall}]
    BY <1>1, <1>2 DEF AuthTyping, AuthTypeOK
<1>5. QED
    BY <1>1, <1>2, <1>3, <1>4 DEF AuthTyping, AuthTypeOK

\* Everything of the table and of the history is typed when nothing of it changes.
LEMMA LimiterTyping ==
    ASSUME AuthTyping
    PROVE  /\ UNCHANGED limiterVars => LimiterTypeOK'
           /\ \A e \in Emails : isLimited(e) => LimiterTypeOK'
           /\ \A r \in Requests, e \in Emails : recordFailure(r, e) => LimiterTypeOK'
<1>1. LimiterTypeOK
    BY DEF AuthTyping, AuthTypeOK
<1>2. cleanupLocked \in [Emails -> SUBSET Entries]
    BY <1>1, CleanupType
<1>3. UNCHANGED limiterVars => LimiterTypeOK'
    BY <1>1 DEF limiterVars, LimiterTypeOK
<1>4. ASSUME NEW e \in Emails, isLimited(e)
      PROVE  LimiterTypeOK'
    BY <1>1, <1>2, <1>4 DEF isLimited, LimiterTypeOK
<1>5. ASSUME NEW r \in Requests, NEW e \in Emails, recordFailure(r, e)
      PROVE  LimiterTypeOK'
    <2>1. [at |-> clock, by |-> r] \in Entries
        BY <1>1 DEF LimiterTypeOK, Entries
    <2>2. QED
        BY <1>1, <1>2, <1>5, <2>1 DEF recordFailure, LimiterTypeOK
<1>6. QED
    BY <1>3, <1>4, <1>5

-----------------------------------------------------------------------------
LEMMA AuthInitTyping == AuthInit => AuthTyping
<1> SUFFICES ASSUME AuthInit
             PROVE  AuthTyping
    OBVIOUS
<1>1. LimiterTypeOK
    BY InitEstablishes DEF AuthInit, LimiterInv
<1>2. AuthTypeOK
    BY <1>1, AuthAssumption DEF AuthInit, AuthTypeOK, Replies
<1>3. CallsInPlace
    BY DEF AuthInit, CallsInPlace, Working
<1>4. QED
    BY <1>2, <1>3 DEF AuthTyping

\* Each action preserves the types.
LEMMA RefuseTyping ==
    ASSUME AuthTyping, NEW r \in Requests, Refuse(r)
    PROVE  AuthTyping'
<1>1. PICK text \in {"invalid", "failed"} : Answer(r, text)
    BY DEF Refuse
<1>2. text \in Replies
    BY <1>1 DEF Replies
<1>3. LimiterTypeOK'
    BY LimiterTyping DEF Refuse
<1>4. AuthTypeOK'
    BY <1>1, <1>2, <1>3, AnswerTyping
       DEF Refuse, AuthTyping, AuthTypeOK, tableVars, historyVars
<1>5. CallsInPlace'
    BY <1>1, <1>2, AnswerTyping
       DEF Refuse, AuthTyping, AuthTypeOK, CallsInPlace, Working
<1>6. QED
    BY <1>4, <1>5 DEF AuthTyping

LEMMA RegisterStartTyping ==
    ASSUME AuthTyping, NEW r \in Requests, NEW e \in Emails, NEW c \in Codes,
           RegisterStart(r, e, c)
    PROVE  AuthTyping'
<1>1. Arrive(r, "register", e, c) /\ Go(r, "insert") /\ "insert" \in Working
    BY DEF RegisterStart, Working
<1>2. LimiterTypeOK'
    BY LimiterTyping DEF RegisterStart
<1>3. AuthTypeOK'
    BY <1>1, <1>2, ArriveTyping, GoTyping
       DEF RegisterStart, AuthTyping, AuthTypeOK, tableVars, historyVars
<1>4. CallsInPlace'
    BY <1>1, ArriveTyping, GoTyping DEF AuthTyping, AuthTypeOK, CallsInPlace
<1>5. QED
    BY <1>3, <1>4 DEF AuthTyping

LEMMA ReissueFindTyping ==
    ASSUME AuthTyping, NEW r \in Requests, NEW e \in Emails, NEW c \in Codes,
           ReissueFind(r, e, c)
    PROVE  AuthTyping'
<1>1. Arrive(r, "reissue", e, c)
    BY DEF ReissueFind
<1>2. LimiterTypeOK'
    BY LimiterTyping DEF ReissueFind
<1>3. CASE Go(r, "update")
    <2>1. "update" \in Working
        BY DEF Working
    <2>2. AuthTypeOK'
        BY <1>1, <1>2, <1>3, <2>1, ArriveTyping, GoTyping
           DEF ReissueFind, AuthTyping, AuthTypeOK, tableVars, historyVars
    <2>3. CallsInPlace'
        BY <1>1, <1>3, <2>1, ArriveTyping, GoTyping
           DEF AuthTyping, AuthTypeOK, CallsInPlace
    <2>4. QED
        BY <2>2, <2>3 DEF AuthTyping
<1>4. CASE Answer(r, "notRegistered")
    <2>1. "notRegistered" \in Replies
        BY DEF Replies
    <2>2. AuthTypeOK'
        BY <1>1, <1>2, <1>4, <2>1, ArriveTyping, AnswerTyping
           DEF ReissueFind, AuthTyping, AuthTypeOK, tableVars, historyVars
    <2>3. CallsInPlace'
        BY <1>1, <1>4, <2>1, ArriveTyping, AnswerTyping
           DEF AuthTyping, AuthTypeOK, CallsInPlace, Working
    <2>4. QED
        BY <2>2, <2>3 DEF AuthTyping
<1>5. QED
    BY <1>3, <1>4 DEF ReissueFind

\* A call that stays as it is and is answered, fails or goes on is in place.
LEMMA StepInPlace ==
    ASSUME AuthTyping, NEW r \in Requests, UNCHANGED call, call[r] \in Calls
    PROVE  /\ \A text \in Replies : Answer(r, text) => CallsInPlace'
           /\ \A text \in Failing : Fail(r, text) => CallsInPlace'
           /\ \A p \in Working \ {"record", "check"} : Go(r, p) => CallsInPlace'
<1>1. ASSUME NEW text \in Replies, Answer(r, text)
      PROVE  CallsInPlace'
    BY <1>1, AnswerTyping DEF AuthTyping, AuthTypeOK, CallsInPlace, Working
<1>2. ASSUME NEW text \in Failing, Fail(r, text)
      PROVE  CallsInPlace'
    BY <1>2, FailTyping DEF AuthTyping, AuthTypeOK, CallsInPlace
<1>3. ASSUME NEW p \in Working \ {"record", "check"}, Go(r, p)
      PROVE  CallsInPlace'
    BY <1>3, GoTyping DEF AuthTyping, AuthTypeOK, CallsInPlace
<1>4. QED
    BY <1>1, <1>2, <1>3

\* A working call has arrived.
LEMMA WorkingCall ==
    ASSUME AuthTyping, NEW r \in Requests, pc[r] \in Working
    PROVE  /\ call[r] \in Calls
           /\ call[r].email \in Emails
           /\ call[r].code \in Codes
           /\ call[r].at \in 0..MaxClock
BY DEF AuthTyping, CallsInPlace, Calls

LEMMA RegisterInsertTyping ==
    ASSUME AuthTyping, NEW r \in Requests, RegisterInsert(r)
    PROVE  AuthTyping'
<1>1. pc[r] \in Working /\ {"failed", "alreadyRegistered"} \subseteq Replies
      /\ "update" \in Working \ {"record", "check"}
    BY DEF RegisterInsert, Working, Replies
<1>2. LimiterTypeOK'
    BY LimiterTyping DEF RegisterInsert
<1>3. accounts' \subseteq Emails /\ UNCHANGED <<otp, call, historyVars>>
    BY <1>1, WorkingCall DEF RegisterInsert, AuthTyping, AuthTypeOK
<1>4. \/ \E text \in Replies : Answer(r, text)
      \/ Go(r, "update")
    BY <1>1 DEF RegisterInsert
<1>5. AuthTypeOK'
    BY <1>1, <1>2, <1>3, <1>4, AnswerTyping, GoTyping
       DEF AuthTyping, AuthTypeOK, historyVars
<1>6. CallsInPlace'
    BY <1>1, <1>3, <1>4, WorkingCall, StepInPlace
<1>7. QED
    BY <1>5, <1>6 DEF AuthTyping

LEMMA UpdateOTPTyping ==
    ASSUME AuthTyping, NEW r \in Requests, UpdateOTP(r)
    PROVE  AuthTyping'
<1> DEFINE columns == [hash |-> hashOTP(call[r].code), issuedAt |-> call[r].at,
                       used |-> FALSE, issuer |-> r]
<1>1. pc[r] \in Working /\ {"issued", "failed"} \subseteq Replies
    BY DEF UpdateOTP, Working, Replies
<1>2. LimiterTypeOK'
    BY LimiterTyping DEF UpdateOTP
<1>3. columns \in OtpColumns
    BY <1>1, WorkingCall DEF OtpColumns
<1>4. otp' = [otp EXCEPT ![call[r].email] = columns]
    BY DEF UpdateOTP
<1> HIDE DEF columns
<1>5. otp' \in [Emails -> OtpColumns \cup {NoOtp}]
    BY <1>3, <1>4 DEF AuthTyping, AuthTypeOK
<1>6. PICK text \in Replies : Answer(r, text)
    BY <1>1 DEF UpdateOTP
<1>7. AuthTypeOK'
    BY <1>2, <1>5, <1>6, AnswerTyping DEF UpdateOTP, AuthTyping, AuthTypeOK
<1>8. CallsInPlace'
    BY <1>1, <1>6, WorkingCall, StepInPlace DEF UpdateOTP
<1>9. QED
    BY <1>7, <1>8 DEF AuthTyping

LEMMA VerifyIsLimitedTyping ==
    ASSUME AuthTyping, NEW r \in Requests, NEW e \in Emails, NEW c \in Codes,
           VerifyIsLimited(r, e, c)
    PROVE  AuthTyping'
<1>1. Arrive(r, "verify", e, c)
    BY DEF VerifyIsLimited
<1>2. LimiterTypeOK'
    BY LimiterTyping DEF VerifyIsLimited
<1>3. cleanupLocked[e] \subseteq Entries
    BY CleanupType DEF AuthTyping, AuthTypeOK
<1>4. CASE Answer(r, "rateLimited")
    <2>1. "rateLimited" \in Replies
        BY DEF Replies
    <2>2. AuthTypeOK'
        BY <1>1, <1>2, <1>4, <2>1, ArriveTyping, AnswerTyping
           DEF VerifyIsLimited, AuthTyping, AuthTypeOK, tableVars, historyVars
    <2>3. CallsInPlace'
        BY <1>1, <1>4, <2>1, ArriveTyping, AnswerTyping
           DEF AuthTyping, AuthTypeOK, CallsInPlace, Working
    <2>4. QED
        BY <2>2, <2>3 DEF AuthTyping
<1>5. CASE /\ pc' = [pc EXCEPT ![r] = "find"]
           /\ seen' = [seen EXCEPT ![r] = cleanupLocked[e]]
           /\ UNCHANGED <<row, reply>>
    <2>1. AuthTypeOK'
        BY <1>1, <1>2, <1>3, <1>5, ArriveTyping
           DEF VerifyIsLimited, AuthTyping, AuthTypeOK, tableVars, historyVars, Working
    <2>2. CallsInPlace'
        BY <1>1, <1>5, ArriveTyping DEF AuthTyping, AuthTypeOK, CallsInPlace
    <2>3. QED
        BY <2>1, <2>2 DEF AuthTyping
<1>6. QED
    BY <1>4, <1>5 DEF VerifyIsLimited

LEMMA VerifyFindTyping ==
    ASSUME AuthTyping, NEW r \in Requests, VerifyFind(r)
    PROVE  AuthTyping'
<1>1. pc[r] \in Working /\ "notIssued" \in Failing
    BY DEF VerifyFind, Working, Failing
<1>2. call[r] \in Calls /\ otp[call[r].email] \in OtpColumns \cup {NoOtp}
    BY <1>1, WorkingCall DEF AuthTyping, AuthTypeOK
<1>3. LimiterTypeOK'
    BY LimiterTyping DEF VerifyFind
<1>4. CASE Fail(r, "notIssued")
    <2>1. AuthTypeOK'
        BY <1>1, <1>3, <1>4, FailTyping
           DEF VerifyFind, AuthTyping, AuthTypeOK, tableVars, historyVars
    <2>2. CallsInPlace'
        BY <1>1, <1>2, <1>4, StepInPlace DEF VerifyFind
    <2>3. QED
        BY <2>1, <2>2 DEF AuthTyping
<1>5. CASE /\ otp[call[r].email] # NoOtp
           /\ pc' = [pc EXCEPT ![r] = "check"]
           /\ row' = [row EXCEPT ![r] = otp[call[r].email]]
           /\ UNCHANGED <<reply, seen>>
    <2>1. AuthTypeOK'
        BY <1>2, <1>3, <1>5
           DEF VerifyFind, AuthTyping, AuthTypeOK, tableVars, historyVars, Working
    <2>2. CallsInPlace'
        BY <1>2, <1>5 DEF VerifyFind, AuthTyping, AuthTypeOK, CallsInPlace
    <2>3. QED
        BY <2>1, <2>2 DEF AuthTyping
<1>6. QED
    BY <1>4, <1>5 DEF VerifyFind

LEMMA VerifyCheckTyping ==
    ASSUME AuthTyping, NEW r \in Requests, VerifyCheck(r)
    PROVE  AuthTyping'
<1>1. pc[r] \in Working /\ Failing \subseteq Replies
      /\ {"alreadyUsed", "expired", "incorrect"} \subseteq Failing
      /\ "consume" \in Working \ {"record", "check"}
    BY DEF VerifyCheck, Working, Failing, Replies
<1>2. LimiterTypeOK'
    BY LimiterTyping DEF VerifyCheck
<1>3. (\E text \in Failing : Fail(r, text)) \/ Go(r, "consume")
    BY <1>1 DEF VerifyCheck
<1>4. AuthTypeOK'
    BY <1>1, <1>2, <1>3, FailTyping, GoTyping
       DEF VerifyCheck, AuthTyping, AuthTypeOK, tableVars, historyVars
<1>5. CallsInPlace'
    BY <1>1, <1>3, WorkingCall, StepInPlace DEF VerifyCheck
<1>6. QED
    BY <1>4, <1>5 DEF AuthTyping

LEMMA VerifyConsumeTyping ==
    ASSUME AuthTyping, NEW r \in Requests, VerifyConsume(r)
    PROVE  AuthTyping'
<1> DEFINE e == call[r].email
<1>1. pc[r] \in Working /\ {"verified", "failed"} \subseteq Replies
      /\ "incorrect" \in Failing /\ "incorrect" \in Replies
    BY DEF VerifyConsume, Working, Failing, Replies
<1>2. LimiterTypeOK' /\ UNCHANGED <<accounts, call, issued>>
    BY LimiterTyping DEF VerifyConsume
<1>3. CASE Consumable(e, call[r].code)
    <2>1. otp[e] \in OtpColumns
        BY <1>1, <1>3, WorkingCall DEF Consumable, AuthTyping, AuthTypeOK
    <2>2. /\ otp' = [otp EXCEPT ![e] = [otp[e] EXCEPT !.used = TRUE]]
          /\ redeemed' = [redeemed EXCEPT ![r] = otp[e].issuer]
          /\ \E text \in Replies : Answer(r, text)
        BY <1>1, <1>3 DEF VerifyConsume
    <2>3. [otp[e] EXCEPT !.used = TRUE] \in OtpColumns /\ otp[e].issuer \in Requests
        BY <2>1 DEF OtpColumns
    <2>4. AuthTypeOK'
        BY <1>2, <2>2, <2>3, AnswerTyping DEF AuthTyping, AuthTypeOK
    <2>5. CallsInPlace'
        BY <1>1, <1>2, <2>2, WorkingCall, StepInPlace
    <2>6. QED
        BY <2>4, <2>5 DEF AuthTyping
<1>4. CASE ~Consumable(e, call[r].code)
    <2>1. Fail(r, "incorrect") /\ UNCHANGED <<otp, redeemed>>
        BY <1>4 DEF VerifyConsume
    <2>2. AuthTypeOK'
        BY <1>1, <1>2, <2>1, FailTyping DEF AuthTyping, AuthTypeOK
    <2>3. CallsInPlace'
        BY <1>1, <1>2, <2>1, WorkingCall, StepInPlace
    <2>4. QED
        BY <2>2, <2>3 DEF AuthTyping
<1>5. QED
    BY <1>3, <1>4

LEMMA VerifyRecordTyping ==
    ASSUME AuthTyping, NEW r \in Requests, VerifyRecord(r)
    PROVE  AuthTyping'
<1>1. pc[r] \in Working /\ "rateLimited" \in Replies /\ reply[r] \in Replies
    BY DEF VerifyRecord, Working, Replies, AuthTyping, AuthTypeOK
<1>2. LimiterTypeOK'
    BY <1>1, WorkingCall, LimiterTyping DEF VerifyRecord
<1>3. PICK text \in Replies : Answer(r, text)
    BY <1>1 DEF VerifyRecord
<1>4. AuthTypeOK'
    BY <1>2, <1>3, AnswerTyping
       DEF VerifyRecord, AuthTyping, AuthTypeOK, tableVars, historyVars
<1>5. CallsInPlace'
    BY <1>1, <1>3, WorkingCall, StepInPlace DEF VerifyRecord
<1>6. QED
    BY <1>4, <1>5 DEF AuthTyping

LEMMA DatabaseErrorTyping ==
    ASSUME AuthTyping, NEW r \in Requests, DatabaseError(r)
    PROVE  AuthTyping'
<1>1. pc[r] \in Working /\ "failed" \in Replies /\ Answer(r, "failed")
    BY DEF DatabaseError, Working, Replies
<1>2. LimiterTypeOK'
    BY LimiterTyping DEF DatabaseError
<1>3. AuthTypeOK'
    BY <1>1, <1>2, AnswerTyping
       DEF DatabaseError, AuthTyping, AuthTypeOK, tableVars, historyVars
<1>4. CallsInPlace'
    BY <1>1, WorkingCall, StepInPlace DEF DatabaseError
<1>5. QED
    BY <1>3, <1>4 DEF AuthTyping

LEMMA RestartTyping ==
    ASSUME AuthTyping, Restart
    PROVE  AuthTyping'
<1>1. LimiterTypeOK'
    BY DEF Restart, ResetLimiter, NoAttempts, AuthTyping, AuthTypeOK, LimiterTypeOK
<1>2. AuthTypeOK'
    BY <1>1 DEF Restart, AuthTyping, AuthTypeOK, tableVars, historyVars, Replies
<1>3. CallsInPlace'
    BY DEF Restart, AuthTyping, AuthTypeOK, CallsInPlace, Working
<1>4. QED
    BY <1>2, <1>3 DEF AuthTyping

LEMMA TimePassesTyping ==
    ASSUME AuthTyping, TimePasses
    PROVE  AuthTyping'
<1>1. LimiterTypeOK'
    BY LimiterAssumption DEF TimePasses, Tick, AuthTyping, AuthTypeOK, LimiterTypeOK
<1>2. AuthTypeOK' /\ CallsInPlace'
    BY <1>1 DEF TimePasses, tableVars, localVars, historyVars, AuthTyping,
                AuthTypeOK, CallsInPlace
<1>3. QED
    BY <1>2 DEF AuthTyping

LEMMA AuthNextTyping == AuthTyping /\ [AuthNext]_authVars => AuthTyping'
<1> SUFFICES ASSUME AuthTyping, [AuthNext]_authVars
             PROVE  AuthTyping'
    OBVIOUS
<1>1. ASSUME NEW r \in Requests, Handle(r)
      PROVE  AuthTyping'
    BY <1>1, RefuseTyping, RegisterStartTyping, RegisterInsertTyping,
       ReissueFindTyping, UpdateOTPTyping, VerifyIsLimitedTyping, VerifyFindTyping,
       VerifyCheckTyping, VerifyConsumeTyping, VerifyRecordTyping, DatabaseErrorTyping
       DEF Handle
<1>2. CASE UNCHANGED authVars
    <2>1. LimiterTypeOK'
        BY <1>2, LimiterTyping DEF authVars
    <2>2. QED
        BY <1>2, <2>1 DEF authVars, tableVars, localVars, historyVars, AuthTyping,
                          AuthTypeOK, CallsInPlace
<1>3. QED
    BY <1>1, <1>2, RestartTyping, TimePassesTyping DEF AuthNext

\* The variables keep their types, and every call in flight its arguments.
THEOREM AuthTypeCorrect == AuthSpec => []AuthTypeOK
<1>1. AuthInit => AuthTyping
    BY AuthInitTyping
<1>2. AuthTyping /\ [AuthNext]_authVars => AuthTyping'
    BY AuthNextTyping
<1>3. AuthTyping => AuthTypeOK
    BY DEF AuthTyping
<1>4. QED
    BY <1>1, <1>2, <1>3, PTL DEF AuthSpec
=============================================================================
