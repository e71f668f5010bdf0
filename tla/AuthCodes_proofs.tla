--------------------------- MODULE AuthCodes_proofs ---------------------------
(***************************************************************************)
(* Theorems about the codes of AuthService: each logs in at most one       *)
(* submission, and only one that names the account it was issued to.        *)
(***************************************************************************)
EXTENDS AuthService_proofs

\* What the otp columns of a row say is what the call that wrote them said;
\* a code that is not marked used has not been redeemed.
TableFollowsHistory ==
    \A e \in Emails : otp[e] # NoOtp =>
        /\ otp[e].issuer \in issued
        /\ call[otp[e].issuer].email = e
        /\ otp[e].hash = hashOTP(call[otp[e].issuer].code)
        /\ otp[e].issuedAt = call[otp[e].issuer].at
        /\ ~otp[e].used => \A v \in Requests : redeemed[v] # otp[e].issuer

\* Calls that issued a code are over.
IssuersAreDone == \A r \in issued : pc[r] = "done" /\ call[r] \in Calls

\* Calls that redeemed a code are over and named it.
RedeemersAreDone ==
    \A v \in Requests :
        /\ redeemed[v] # NoOne =>
              /\ redeemed[v] \in issued
              /\ pc[v] = "done" /\ call[v] \in Calls
              /\ call[redeemed[v]].email = call[v].email
              /\ call[redeemed[v]].code = call[v].code
        /\ reply[v] = "verified" => redeemed[v] # NoOne

CodesInv ==
    /\ AuthTyping
    /\ TableFollowsHistory
    /\ IssuersAreDone
    /\ RedeemersAreDone
    /\ AtMostOneRedemption

\* What is over stays as it is, and the arguments of a call never change.
Settled ==
    \A q \in Requests :
        /\ pc[q] # "idle" => call'[q] = call[q]
        /\ pc[q] = "done" => pc'[q] = "done" /\ reply'[q] = reply[q]

\* A step that touches no code and verifies nobody.
Quiet ==
    /\ UNCHANGED <<otp, issued, redeemed>>
    /\ \A q \in Requests : reply'[q] = "verified" => reply[q] = "verified"

-----------------------------------------------------------------------------
\* Every step leaves finished calls alone.
LEMMA StepsSettle ==
    ASSUME AuthTyping, [AuthNext]_authVars
    PROVE  Settled
<1> USE DEF AuthTyping, AuthTypeOK
<1>1. ASSUME NEW r \in Requests, pc[r] # "done", UNCHANGED call,
             NEW text, Answer(r, text) \/ Fail(r, text)
      PROVE  Settled
    BY <1>1 DEF Settled, Answer, Fail
<1>2. ASSUME NEW r \in Requests, pc[r] # "done", UNCHANGED call,
             NEW p, Go(r, p)
      PROVE  Settled
    BY <1>2 DEF Settled, Go
<1>3. ASSUME NEW r \in Requests, Refuse(r)
      PROVE  Settled
    BY <1>1, <1>3 DEF Refuse
<1>4. ASSUME NEW r \in Requests, NEW e \in Emails, NEW c \in Codes,
             RegisterStart(r, e, c) \/ ReissueFind(r, e, c) \/ VerifyIsLimited(r, e, c)
      PROVE  Settled
    BY <1>4 DEF Settled, RegisterStart, ReissueFind, VerifyIsLimited, Arrive, Go, Answer
<1>5. ASSUME NEW r \in Requests, RegisterInsert(r)
      PROVE  Settled
    BY <1>1, <1>2, <1>5 DEF RegisterInsert
<1>6. ASSUME NEW r \in Requests, UpdateOTP(r)
      PROVE  Settled
    BY <1>1, <1>6 DEF UpdateOTP
<1>7. ASSUME NEW r \in Requests, VerifyFind(r)
      PROVE  Settled
    BY <1>7 DEF VerifyFind, Settled, Fail
<1>8. ASSUME NEW r \in Requests, VerifyCheck(r)
      PROVE  Settled
    BY <1>1, <1>2, <1>8 DEF VerifyCheck
<1>9. ASSUME NEW r \in Requests, VerifyConsume(r)
      PROVE  Settled
    BY <1>1, <1>9 DEF VerifyConsume
<1>10. ASSUME NEW r \in Requests, VerifyRecord(r) \/ DatabaseError(r)
       PROVE  Settled
    BY <1>1, <1>10 DEF VerifyRecord, DatabaseError
<1>11. CASE Restart
    BY <1>11 DEF Settled, Restart, Working
<1>12. CASE TimePasses \/ UNCHANGED authVars
    BY <1>12 DEF Settled, TimePasses, authVars, localVars
<1>13. QED
    BY <1>3, <1>4, <1>5, <1>6, <1>7, <1>8, <1>9, <1>10, <1>11, <1>12
       DEF AuthNext, Handle

\* Only UpdateOTP and AtomicConsumeOTP touch a code.
LEMMA QuietOrNot ==
    ASSUME AuthTyping, [AuthNext]_authVars
    PROVE  \/ \E r \in Requests : UpdateOTP(r) \/ VerifyConsume(r)
           \/ Quiet
<1> USE DEF AuthTyping, AuthTypeOK
<1>1. ASSUME NEW r \in Requests, NEW text, text # "verified",
             Answer(r, text) \/ Fail(r, text)
      PROVE  \A q \in Requests : reply'[q] = "verified" => reply[q] = "verified"
    BY <1>1 DEF Answer, Fail
<1>2. ASSUME NEW r \in Requests, Refuse(r) \/ DatabaseError(r)
      PROVE  Quiet
    BY <1>1, <1>2 DEF Refuse, DatabaseError, Quiet, tableVars, historyVars
<1>3. ASSUME NEW r \in Requests, NEW e \in Emails, NEW c \in Codes,
             RegisterStart(r, e, c) \/ ReissueFind(r, e, c) \/ VerifyIsLimited(r, e, c)
      PROVE  Quiet
    BY <1>1, <1>3 DEF RegisterStart, ReissueFind, VerifyIsLimited, Go, Quiet,
                      tableVars, historyVars
<1>4. ASSUME NEW r \in Requests, RegisterInsert(r)
      PROVE  Quiet
    BY <1>1, <1>4 DEF RegisterInsert, Go, Quiet, historyVars
<1>5. ASSUME NEW r \in Requests, VerifyFind(r) \/ VerifyCheck(r)
      PROVE  Quiet
    BY <1>1, <1>5 DEF VerifyFind, VerifyCheck, Go, Quiet, tableVars, historyVars
<1>6. ASSUME NEW r \in Requests, VerifyRecord(r)
      PROVE  Quiet
    <2>1. reply[r] # "verified"
        BY <1>6 DEF VerifyRecord, CallsInPlace, Failing
    <2>2. QED
        BY <1>1, <1>6, <2>1 DEF VerifyRecord, Quiet, tableVars, historyVars
<1>7. CASE Restart
    BY <1>7 DEF Restart, Quiet, tableVars, historyVars
<1>8. CASE TimePasses \/ UNCHANGED authVars
    BY <1>8 DEF TimePasses, Quiet, authVars, tableVars, localVars, historyVars
<1>9. QED
    BY <1>2, <1>3, <1>4, <1>5, <1>6, <1>7, <1>8 DEF AuthNext, Handle

-----------------------------------------------------------------------------
LEMMA QuietPreservesCodes ==
    ASSUME CodesInv, AuthTyping', Settled, Quiet
    PROVE  CodesInv'
<1> USE DEF CodesInv
<1>1. \A r \in issued : r \in Requests /\ call'[r] = call[r] /\ pc'[r] = "done"
    BY DEF Settled, IssuersAreDone, AuthTyping, AuthTypeOK
<1>2. TableFollowsHistory'
    BY <1>1 DEF Quiet, TableFollowsHistory
<1>3. IssuersAreDone'
    BY <1>1 DEF Quiet, IssuersAreDone
<1>4. RedeemersAreDone'
    BY <1>1 DEF Quiet, Settled, RedeemersAreDone
<1>5. AtMostOneRedemption'
    BY DEF Quiet, AtMostOneRedemption
<1>6. QED
    BY <1>2, <1>3, <1>4, <1>5

\* A new issuance is redeemed by nobody yet, and leaves the others alone.
LEMMA UpdateOTPPreservesCodes ==
    ASSUME CodesInv, AuthTyping', Settled, NEW r \in Requests, UpdateOTP(r)
    PROVE  CodesInv'
<1> USE DEF CodesInv
<1> DEFINE e == call[r].email
<1>1. /\ pc[r] = "update" /\ call' = call /\ redeemed' = redeemed
      /\ issued' = issued \cup {r}
      /\ otp' = [otp EXCEPT ![e] = [hash |-> hashOTP(call[r].code),
                    issuedAt |-> call[r].at, used |-> FALSE, issuer |-> r]]
      /\ call[r] \in Calls
    BY WorkingCall DEF UpdateOTP, Working
<1>2. r \notin issued
    BY <1>1 DEF IssuersAreDone
<1>3. \A v \in Requests : redeemed[v] # r
    BY <1>2, AuthAssumption DEF RedeemersAreDone
<1>4. pc'[r] = "done" /\ \A q \in Requests : reply'[q] = "verified" => reply[q] = "verified"
    BY DEF UpdateOTP, Answer, AuthTyping, AuthTypeOK
<1>5. IssuersAreDone'
    BY <1>1, <1>4 DEF Settled, IssuersAreDone, AuthTyping, AuthTypeOK
<1>6. TableFollowsHistory'
    <2> SUFFICES ASSUME NEW d \in Emails, otp'[d] # NoOtp
                 PROVE  /\ otp'[d].issuer \in issued'
                        /\ call'[otp'[d].issuer].email = d
                        /\ otp'[d].hash = hashOTP(call'[otp'[d].issuer].code)
                        /\ otp'[d].issuedAt = call'[otp'[d].issuer].at
                        /\ ~otp'[d].used => \A v \in Requests : redeemed'[v] # otp'[d].issuer
        BY DEF TableFollowsHistory
    <2>1. CASE d = e
        BY <1>1, <1>3, <2>1 DEF AuthTyping, AuthTypeOK
    <2>2. CASE d # e
        BY <1>1, <2>2 DEF TableFollowsHistory, AuthTyping, AuthTypeOK
    <2>3. QED
        BY <2>1, <2>2
<1>7. RedeemersAreDone'
    BY <1>1, <1>4 DEF Settled, RedeemersAreDone
<1>8. AtMostOneRedemption'
    BY <1>1 DEF AtMostOneRedemption
<1>9. QED
    BY <1>5, <1>6, <1>7, <1>8

\* The update that consumes a code finds it unused, hence unredeemed, and
\* equal to the code that was submitted.
LEMMA ConsumePreservesCodes ==
    ASSUME CodesInv, AuthTyping', Settled, NEW r \in Requests, VerifyConsume(r)
    PROVE  CodesInv'
<1> USE DEF CodesInv
<1> DEFINE e == call[r].email
           j == otp[e].issuer
<1>1. /\ pc[r] = "consume" /\ call' = call /\ issued' = issued
      /\ call[r] \in Calls /\ e \in Emails
    BY WorkingCall DEF VerifyConsume, Working
<1>2. redeemed[r] = NoOne
    BY <1>1 DEF RedeemersAreDone
<1>3. \A q \in issued : q \in Requests /\ pc'[q] = "done" /\ call'[q] = call[q]
    BY <1>1 DEF Settled, IssuersAreDone, AuthTyping, AuthTypeOK
<1>4. IssuersAreDone'
    BY <1>1, <1>3 DEF IssuersAreDone
<1>5. CASE Consumable(e, call[r].code)
    <2>1. /\ otp' = [otp EXCEPT ![e].used = TRUE]
          /\ redeemed' = [redeemed EXCEPT ![r] = j]
          /\ pc'[r] = "done"
          /\ \A q \in Requests \ {r} : reply'[q] = reply[q]
        BY <1>5 DEF VerifyConsume, Answer, AuthTyping, AuthTypeOK
    <2>2. /\ j \in issued /\ call[j].email = e /\ call[j].code = call[r].code
          /\ j # NoOne
          /\ \A v \in Requests : redeemed[v] # j
          /\ otp[e] \in OtpColumns
        <3>1. /\ j \in issued /\ call[j].email = e /\ otp[e] \in OtpColumns
              /\ \A v \in Requests : redeemed[v] # j
            BY <1>1, <1>5 DEF Consumable, TableFollowsHistory, AuthTyping, AuthTypeOK
        <3>2. hashOTP(call[j].code) = hashOTP(call[r].code)
            BY <1>1, <1>5 DEF Consumable, TableFollowsHistory
        <3>3. call[j].code = call[r].code
            BY <3>2 DEF hashOTP
        <3>4. j # NoOne
            BY <1>3, <3>1, AuthAssumption
        <3>5. QED
            BY <3>1, <3>3, <3>4
    <2>3. /\ otp'[e] = [otp[e] EXCEPT !.used = TRUE]
          /\ otp'[e].used = TRUE /\ otp'[e].issuer = j
          /\ otp'[e].hash = otp[e].hash /\ otp'[e].issuedAt = otp[e].issuedAt
          /\ \A d \in Emails \ {e} : otp'[d] = otp[d]
        BY <1>1, <2>1, <2>2 DEF OtpColumns, AuthTyping, AuthTypeOK
    <2>4. redeemed'[r] = j /\ \A v \in Requests \ {r} : redeemed'[v] = redeemed[v]
        BY <2>1 DEF AuthTyping, AuthTypeOK
    <2>5. TableFollowsHistory'
        <3> SUFFICES ASSUME NEW d \in Emails, otp'[d] # NoOtp
                     PROVE  /\ otp'[d].issuer \in issued'
                            /\ call'[otp'[d].issuer].email = d
                            /\ otp'[d].hash = hashOTP(call'[otp'[d].issuer].code)
                            /\ otp'[d].issuedAt = call'[otp'[d].issuer].at
                            /\ ~otp'[d].used => \A v \in Requests : redeemed'[v] # otp'[d].issuer
            BY DEF TableFollowsHistory
        <3>1. CASE d = e
            BY <1>1, <1>5, <2>3, <3>1 DEF TableFollowsHistory, Consumable
        <3>2. CASE d # e
            <4>1. /\ otp[d] # NoOtp /\ otp'[d] = otp[d]
                  /\ call[otp[d].issuer].email = d
                BY <2>3, <3>2 DEF TableFollowsHistory
            <4>2. otp[d].issuer # j
                BY <2>2, <3>2, <4>1
            <4>3. QED
                BY <1>1, <2>4, <4>1, <4>2 DEF TableFollowsHistory
        <3>3. QED
            BY <3>1, <3>2
    <2>6. RedeemersAreDone'
        <3> SUFFICES ASSUME NEW v \in Requests
                     PROVE  /\ redeemed'[v] # NoOne =>
                                  /\ redeemed'[v] \in issued'
                                  /\ pc'[v] = "done" /\ call'[v] \in Calls
                                  /\ call'[redeemed'[v]].email = call'[v].email
                                  /\ call'[redeemed'[v]].code = call'[v].code
                            /\ reply'[v] = "verified" => redeemed'[v] # NoOne
            BY DEF RedeemersAreDone
        <3>1. CASE v = r
            BY <1>1, <2>1, <2>2, <2>4, <3>1
        <3>2. CASE v # r
            BY <1>1, <2>1, <2>4, <3>2 DEF RedeemersAreDone, Settled
        <3>3. QED
            BY <3>1, <3>2
    <2>7. AtMostOneRedemption'
        BY <2>2, <2>4 DEF AtMostOneRedemption
    <2>8. QED
        BY <1>4, <2>5, <2>6, <2>7
<1>6. CASE ~Consumable(e, call[r].code)
    <2>1. Quiet
        BY <1>1, <1>6 DEF VerifyConsume, Fail, Quiet, AuthTyping, AuthTypeOK
    <2>2. QED
        BY <2>1, QuietPreservesCodes
<1>7. QED
    BY <1>5, <1>6

LEMMA AuthInitCodes == AuthInit => CodesInv
<1> SUFFICES ASSUME AuthInit
             PROVE  CodesInv
    OBVIOUS
<1>1. AuthTyping
    BY AuthInitTyping
<1>2. QED
    BY <1>1 DEF AuthInit, CodesInv, TableFollowsHistory, IssuersAreDone,
                RedeemersAreDone, AtMostOneRedemption

LEMMA AuthNextCodes == CodesInv /\ [AuthNext]_authVars => CodesInv'
<1> SUFFICES ASSUME CodesInv, [AuthNext]_authVars
             PROVE  CodesInv'
    OBVIOUS
<1>1. AuthTyping /\ AuthTyping' /\ Settled
    BY AuthNextTyping, StepsSettle DEF CodesInv
<1>2. QED
    BY <1>1, QuietOrNot, QuietPreservesCodes, UpdateOTPPreservesCodes,
       ConsumePreservesCodes

\* The inductive invariant of the codes.
THEOREM CodesInvariant == AuthSpec => []CodesInv
<1>1. QED
    BY AuthInitCodes, AuthNextCodes, PTL DEF AuthSpec

\* Two submissions never consume the same code, however they overlap with
\* each other, with reissues, failing statements and restarts
\* (auth.go:311-323, user.go:132-162).
THEOREM AtMostOneRedemptionHolds == AuthSpec => []AtMostOneRedemption
<1>1. CodesInv => AtMostOneRedemption
    BY DEF CodesInv
<1>2. QED
    BY <1>1, CodesInvariant, PTL

\* Whoever is told "verified" named the email and the code of the issuance
\* that was consumed.
THEOREM VerifiedIsGenuineHolds == AuthSpec => []VerifiedIsGenuine
<1>1. CodesInv => VerifiedIsGenuine
    BY DEF CodesInv, RedeemersAreDone, VerifiedIsGenuine
<1>2. QED
    BY <1>1, CodesInvariant, PTL

-----------------------------------------------------------------------------
(* Old codes. *)

\* Time does not run backwards, and a call arrives once: now, after the calls
\* that are over.
LEMMA Arrivals ==
    ASSUME AuthTyping, [AuthNext]_authVars
    PROVE  /\ clock <= clock'
           /\ \A q \in Requests :
                 \/ call'[q] = call[q]
                 \/ /\ pc[q] = "idle" /\ call'[q] \in Calls
                    /\ call'[q].at = clock
                    /\ call'[q].before = {p \in Requests : pc[p] = "done"}
<1> USE DEF AuthTyping, AuthTypeOK
<1>0. clock \in Int
    BY DEF LimiterTypeOK
<1>1. ASSUME NEW r \in Requests, NEW e \in Emails, NEW c \in Codes,
             NEW op \in {"register", "reissue", "verify"}, Arrive(r, op, e, c)
      PROVE  \A q \in Requests :
                 \/ call'[q] = call[q]
                 \/ /\ pc[q] = "idle" /\ call'[q] \in Calls
                    /\ call'[q].at = clock
                    /\ call'[q].before = {p \in Requests : pc[p] = "done"}
    <2>1. call'[r].before = {p \in Requests : pc[p] = "done"}
        BY <1>1 DEF Arrive
    <2>2. QED
        BY <1>1, <2>1, ArriveTyping
<1>2. ASSUME NEW r \in Requests, NEW e \in Emails, NEW c \in Codes,
             RegisterStart(r, e, c) \/ ReissueFind(r, e, c) \/ VerifyIsLimited(r, e, c)
      PROVE  clock' = clock /\ \E op \in {"register", "reissue", "verify"} : Arrive(r, op, e, c)
    BY <1>2 DEF RegisterStart, ReissueFind, VerifyIsLimited, isLimited, limiterVars
<1>3. ASSUME NEW r \in Requests,
             Refuse(r) \/ RegisterInsert(r) \/ UpdateOTP(r) \/ VerifyFind(r) \/ VerifyCheck(r)
             \/ VerifyConsume(r) \/ VerifyRecord(r) \/ DatabaseError(r)
      PROVE  UNCHANGED <<clock, call>>
    BY <1>3 DEF Refuse, RegisterInsert, UpdateOTP, VerifyFind, VerifyCheck, VerifyConsume,
                VerifyRecord, recordFailure, DatabaseError, limiterVars
<1>4. CASE Restart
    BY <1>0, <1>4 DEF Restart, ResetLimiter
<1>5. CASE TimePasses
    BY <1>0, <1>5 DEF TimePasses, Tick, localVars
<1>6. CASE UNCHANGED authVars
    BY <1>0, <1>6 DEF authVars, limiterVars, localVars
<1>7. QED
    BY <1>0, <1>1, <1>2, <1>3, <1>4, <1>5, <1>6 DEF AuthNext, Handle

\* A client is shown a code only by the call that has just stored it.
LEMMA ShownWhenStored ==
    ASSUME AuthTyping, [AuthNext]_authVars, NEW q \in Requests, reply'[q] = "issued"
    PROVE  reply[q] = "issued" \/ UpdateOTP(q)
<1> USE DEF AuthTyping, AuthTypeOK
<1>1. ASSUME NEW r \in Requests, NEW text, text # "issued", Answer(r, text) \/ Fail(r, text)
      PROVE  reply[q] = "issued"
    BY <1>1 DEF Answer, Fail
<1>2. CASE reply' = reply
    BY <1>2
<1>3. ASSUME NEW r \in Requests,
             Refuse(r) \/ RegisterInsert(r) \/ VerifyFind(r) \/ VerifyCheck(r)
             \/ VerifyConsume(r) \/ DatabaseError(r)
      PROVE  reply[q] = "issued"
    BY <1>1, <1>2, <1>3 DEF Refuse, RegisterInsert, VerifyFind, VerifyCheck, VerifyConsume,
                            DatabaseError, Go
<1>4. ASSUME NEW r \in Requests, NEW e \in Emails, NEW c \in Codes,
             RegisterStart(r, e, c) \/ ReissueFind(r, e, c) \/ VerifyIsLimited(r, e, c)
      PROVE  reply[q] = "issued"
    BY <1>1, <1>2, <1>4 DEF RegisterStart, ReissueFind, VerifyIsLimited, Go
<1>5. ASSUME NEW r \in Requests, VerifyRecord(r)
      PROVE  reply[q] = "issued"
    <2>1. reply[r] # "issued"
        BY <1>5 DEF VerifyRecord, CallsInPlace, Failing
    <2>2. QED
        BY <1>1, <1>5, <2>1 DEF VerifyRecord
<1>6. ASSUME NEW r \in Requests, UpdateOTP(r)
      PROVE  reply[q] = "issued" \/ r = q
    BY <1>6 DEF UpdateOTP, Answer
<1>7. CASE Restart
    BY <1>7 DEF Restart
<1>8. CASE TimePasses \/ UNCHANGED authVars
    BY <1>2, <1>8 DEF TimePasses, authVars, localVars
<1>9. QED
    BY <1>3, <1>4, <1>5, <1>6, <1>7, <1>8 DEF AuthNext, Handle

\* The code in the table is that of no issuance that was answered before another
\* one of the same email began and was stored.
LastStored ==
    /\ \A k \in issued :
          /\ otp[call[k].email] # NoOtp
          /\ otp[call[k].email].issuer \notin call[k].before
    /\ \A q \in Requests :
          /\ reply[q] = "issued" => q \in issued
          /\ call[q] \in Calls => \A p \in call[q].before : p \in Requests /\ pc[p] = "done"

LEMMA LastStoredKept ==
    CodesInv /\ LastStored /\ [AuthNext]_authVars => LastStored'
<1> SUFFICES ASSUME CodesInv, LastStored, [AuthNext]_authVars PROVE LastStored'
    OBVIOUS
<1>0. AuthTyping /\ Settled /\ AuthTyping'
    BY StepsSettle, AuthNextTyping DEF CodesInv
<1>1. \A k \in issued : k \in Requests /\ call[k] \in Calls /\ call[k].email \in Emails
                        /\ call'[k] = call[k]
    BY <1>0 DEF CodesInv, IssuersAreDone, Settled, AuthTyping, AuthTypeOK, Calls
<1>2. ASSUME NEW q \in Requests, call'[q] \in Calls, NEW p \in call'[q].before
      PROVE  p \in Requests /\ pc'[p] = "done"
    BY <1>0, <1>2, Arrivals DEF LastStored, Settled
<1>3. ASSUME NEW q \in Requests, reply'[q] = "issued"
      PROVE  q \in issued'
    <2>1. CASE reply[q] = "issued"
        <3>1. issued \subseteq issued'
            BY <1>0, QuietOrNot DEF Quiet, UpdateOTP, VerifyConsume
        <3>2. QED
            BY <2>1, <3>1 DEF LastStored
    <2>2. QED
        BY <1>0, <1>3, <2>1, ShownWhenStored DEF UpdateOTP
<1>4. ASSUME NEW k \in issued'
      PROVE  otp'[call'[k].email] # NoOtp /\ otp'[call'[k].email].issuer \notin call'[k].before
    <2>1. CASE Quiet
        BY <1>1, <2>1 DEF Quiet, LastStored
    <2>2. ASSUME NEW r \in Requests, UpdateOTP(r)
          PROVE  otp'[call'[k].email] # NoOtp /\ otp'[call'[k].email].issuer \notin call'[k].before
        <3> DEFINE columns == [hash |-> hashOTP(call[r].code), issuedAt |-> call[r].at,
                               used |-> FALSE, issuer |-> r]
                   e == call[r].email
        <3>1. /\ call[r] \in Calls /\ e \in Emails /\ call' = call /\ pc[r] = "update"
              /\ issued' = issued \cup {r}
              /\ otp' = [otp EXCEPT ![e] = columns]
            BY <1>0, <2>2, WorkingCall DEF UpdateOTP, Working
        <3>2. columns # NoOtp /\ columns.issuer = r
            <4>1. columns \in OtpColumns
                BY <1>0, <3>1, WorkingCall DEF OtpColumns, Working
            <4>2. QED
                BY <4>1, AuthAssumption
        <3>3. call[k] \in Calls
            BY <1>1, <3>1
        <3>4. r \notin call[k].before
            BY <1>1, <3>1, <3>3 DEF LastStored
        <3> HIDE DEF columns
        <3>5. CASE call[k].email = e
            BY <1>0, <3>1, <3>2, <3>4, <3>5 DEF AuthTyping, AuthTypeOK
        <3>6. CASE call[k].email # e
            BY <1>0, <1>1, <3>1, <3>6 DEF AuthTyping, AuthTypeOK, LastStored
        <3>7. QED
            BY <3>5, <3>6
    <2>3. ASSUME NEW r \in Requests, VerifyConsume(r), ~Quiet
          PROVE  otp'[call'[k].email] # NoOtp /\ otp'[call'[k].email].issuer \notin call'[k].before
        <3> DEFINE e == call[r].email
                   d == call[k].email
                   spent == [otp[d] EXCEPT !.used = TRUE]
        <3>1. /\ issued' = issued /\ call' = call
              /\ otp' = [otp EXCEPT ![e].used = TRUE] \/ otp' = otp
            BY <2>3 DEF VerifyConsume
        <3>2. otp[d] \in OtpColumns /\ otp[d].issuer \notin call[k].before
            BY <1>0, <1>1, <3>1 DEF AuthTyping, AuthTypeOK, LastStored
        <3>3. spent \in OtpColumns /\ spent.issuer = otp[d].issuer
            BY <3>2 DEF OtpColumns
        <3>4. otp'[d] = otp[d] \/ otp'[d] = spent
            <4>1. CASE d = e
                BY <1>0, <1>1, <3>1, <3>2, <4>1 DEF AuthTyping, AuthTypeOK, OtpColumns
            <4>2. CASE d # e
                BY <1>0, <1>1, <3>1, <4>2 DEF AuthTyping, AuthTypeOK
            <4>3. QED
                BY <4>1, <4>2
        <3> HIDE DEF spent
        <3>5. otp'[d] \in OtpColumns /\ otp'[d].issuer = otp[d].issuer
            BY <3>2, <3>3, <3>4
        <3>6. otp'[d] # NoOtp
            BY <3>5, AuthAssumption
        <3>7. QED
            BY <3>1, <3>2, <3>5, <3>6
    <2>4. QED
        BY <1>0, <2>1, <2>2, <2>3, QuietOrNot
<1>5. QED
    BY <1>2, <1>3, <1>4 DEF LastStored

THEOREM LastStoredHolds == AuthSpec => []LastStored
<1>1. AuthInit => LastStored
    BY AuthAssumption DEF AuthInit, LastStored
<1>2. QED
    BY <1>1, CodesInvariant, LastStoredKept, PTL DEF AuthSpec

\* The code a client was shown is the one in the table, unless an issuance that
\* was not over when this one began has replaced it.
THEOREM ShownCodeStandsHolds == AuthSpec => []ShownCodeStands
<1>1. LastStored => ShownCodeStands
    <2> SUFFICES ASSUME LastStored, NEW r \in Requests, reply[r] = "issued"
                 PROVE  otp[call[r].email] # NoOtp
                        /\ otp[call[r].email].issuer \notin call[r].before
        BY DEF ShownCodeStands
    <2>1. r \in issued
        BY DEF LastStored
    <2>2. QED
        BY <2>1 DEF LastStored
<1>2. QED
    BY <1>1, LastStoredHolds, PTL

LEMMA SupersededKept ==
    CodesInv /\ LastStored /\ SupersededCodesStayDead /\ [AuthNext]_authVars
        => SupersededCodesStayDead'
<1> SUFFICES ASSUME CodesInv, LastStored, SupersededCodesStayDead, [AuthNext]_authVars,
                    NEW v \in Requests, NEW j \in issued', NEW k \in issued',
                    redeemed'[v] = j, call'[k].email = call'[j].email,
                    j \in call'[k].before, k \in call'[v].before
             PROVE  FALSE
    BY DEF SupersededCodesStayDead
<1>0. AuthTyping /\ Settled /\ AuthTyping' /\ CodesInv'
    BY StepsSettle, AuthNextTyping, AuthNextCodes DEF CodesInv
<1>1. v \in Requests /\ call'[v] \in Calls
    BY <1>0, AuthAssumption DEF CodesInv, RedeemersAreDone, AuthTyping, AuthTypeOK
<1>2. CASE redeemed[v] = j
    <2>1. pc[v] = "done" /\ call'[v] = call[v] /\ call[v] \in Calls /\ j \in issued
        BY <1>0, <1>2, AuthAssumption
           DEF CodesInv, RedeemersAreDone, Settled, AuthTyping, AuthTypeOK
    <2>2. pc[k] = "done"
        BY <2>1 DEF LastStored
    <2>3. k \in issued
        BY <1>0, <2>2, QuietOrNot DEF Quiet, UpdateOTP, VerifyConsume
    <2>4. call'[k] = call[k] /\ call'[j] = call[j]
        BY <1>0, <2>1, <2>3 DEF CodesInv, IssuersAreDone, Settled, AuthTyping, AuthTypeOK
    <2>5. QED
        BY <1>2, <2>1, <2>3, <2>4 DEF SupersededCodesStayDead
<1>3. CASE redeemed[v] # j
    <2>1. PICK r \in Requests : VerifyConsume(r) /\ redeemed' # redeemed
        BY <1>0, <1>3, QuietOrNot DEF Quiet, UpdateOTP
    <2>2. /\ otp[call[r].email] # NoOtp
          /\ redeemed' = [redeemed EXCEPT ![r] = otp[call[r].email].issuer]
          /\ UNCHANGED <<call, issued>>
        BY <2>1 DEF VerifyConsume, Consumable
    <2>3. v = r /\ j = otp[call[r].email].issuer
        BY <1>0, <1>3, <2>2 DEF AuthTyping, AuthTypeOK
    <2>4. call[j].email = call[r].email
        BY <1>0, <2>1, <2>2, <2>3, WorkingCall
           DEF CodesInv, TableFollowsHistory, VerifyConsume, Working
    <2>5. QED
        BY <2>2, <2>3, <2>4 DEF LastStored
<1>4. QED
    BY <1>2, <1>3

\* After a later issuance has been answered, no submission that arrives then logs
\* in with the code issued before.
THEOREM SupersededCodesStayDeadHolds == AuthSpec => []SupersededCodesStayDead
<1>1. AuthInit => SupersededCodesStayDead
    BY DEF AuthInit, SupersededCodesStayDead
<1>2. QED
    BY <1>1, CodesInvariant, LastStoredHolds, SupersededKept, PTL DEF AuthSpec

\* A submission at work arrived in the past; the row it works with is the
\* issuance of some call, and one that is about to consume a code arrived before
\* the end of the lifetime of an issuance of this code.
FreshWhenChecked ==
    \A v \in Requests :
        /\ call[v] \in Calls => call[v].at <= clock
        /\ pc[v] = "check" =>
              /\ row[v].issuer \in issued
              /\ call[row[v].issuer].email = call[v].email
              /\ row[v].hash = hashOTP(call[row[v].issuer].code)
              /\ row[v].issuedAt = call[row[v].issuer].at
        /\ pc[v] = "consume" \/ redeemed[v] # NoOne =>
              \E j \in issued :
                  /\ call[j].email = call[v].email
                  /\ call[j].code = call[v].code
                  /\ call[v].at < call[j].at + OtpTTL

\* How a submission comes to check a row, to consume and to have redeemed.
LEMMA ComesToCheck ==
    ASSUME AuthTyping, [AuthNext]_authVars, NEW v \in Requests
    PROVE  /\ pc'[v] = "check" =>
                 \/ pc[v] = "check" /\ row'[v] = row[v]
                 \/ /\ pc[v] = "find" /\ otp[call[v].email] # NoOtp
                    /\ row'[v] = otp[call[v].email]
           /\ pc'[v] = "consume" =>
                 \/ pc[v] = "consume"
                 \/ /\ pc[v] = "check" /\ ~Expired(row[v])
                    /\ hashOTP(call[v].code) = row[v].hash
           /\ redeemed'[v] # NoOne => redeemed[v] # NoOne \/ pc[v] = "consume"
<1> USE DEF AuthTyping, AuthTypeOK
<1>1. ASSUME NEW r \in Requests,
             \/ \E text : Answer(r, text) \/ Fail(r, text)
             \/ \E p \in {"insert", "update"} : Go(r, p)
      PROVE  /\ pc'[v] = "check" => pc[v] = "check" /\ row'[v] = row[v]
             /\ pc'[v] = "consume" => pc[v] = "consume"
    BY <1>1 DEF Answer, Fail, Go
<1>2. ASSUME NEW r \in Requests,
             Refuse(r) \/ RegisterInsert(r) \/ UpdateOTP(r) \/ VerifyRecord(r) \/ DatabaseError(r)
             \/ \E e \in Emails, c \in Codes : RegisterStart(r, e, c) \/ ReissueFind(r, e, c)
      PROVE  /\ redeemed' = redeemed
             /\ \/ \E text : Answer(r, text) \/ Fail(r, text)
                \/ \E p \in {"insert", "update"} : Go(r, p)
    BY <1>2 DEF Refuse, RegisterInsert, UpdateOTP, VerifyRecord, DatabaseError, RegisterStart,
                ReissueFind, historyVars
<1>3. ASSUME NEW r \in Requests, NEW e \in Emails, NEW c \in Codes, VerifyIsLimited(r, e, c)
      PROVE  /\ redeemed' = redeemed
             /\ pc'[v] = "check" => pc[v] = "check" /\ row'[v] = row[v]
             /\ pc'[v] = "consume" => pc[v] = "consume"
    BY <1>3 DEF VerifyIsLimited, Answer, historyVars
<1>4. ASSUME NEW r \in Requests, VerifyFind(r)
      PROVE  /\ redeemed' = redeemed
             /\ pc'[v] = "check" =>
                   \/ pc[v] = "check" /\ row'[v] = row[v]
                   \/ /\ pc[v] = "find" /\ otp[call[v].email] # NoOtp
                      /\ row'[v] = otp[call[v].email]
             /\ pc'[v] = "consume" => pc[v] = "consume"
    BY <1>1, <1>4 DEF VerifyFind, historyVars
<1>5. ASSUME NEW r \in Requests, VerifyCheck(r)
      PROVE  /\ redeemed' = redeemed
             /\ pc'[v] = "check" => pc[v] = "check" /\ row'[v] = row[v]
             /\ pc'[v] = "consume" =>
                   \/ pc[v] = "consume"
                   \/ /\ pc[v] = "check" /\ ~Expired(row[v])
                      /\ hashOTP(call[v].code) = row[v].hash
    <2>1. CASE Go(r, "consume")
        BY <1>5, <2>1 DEF VerifyCheck, Go, Fail, historyVars
    <2>2. CASE \E text : Fail(r, text)
        BY <1>1, <1>5, <2>2 DEF VerifyCheck, historyVars
    <2>3. QED
        BY <1>5, <2>1, <2>2 DEF VerifyCheck
<1>6. ASSUME NEW r \in Requests, VerifyConsume(r)
      PROVE  /\ redeemed'[v] # NoOne => redeemed[v] # NoOne \/ pc[v] = "consume"
             /\ \E text : Answer(r, text) \/ Fail(r, text)
    BY <1>6 DEF VerifyConsume
<1>7. CASE Restart
    BY <1>7 DEF Restart, Working, historyVars
<1>8. CASE TimePasses \/ UNCHANGED authVars
    BY <1>8 DEF TimePasses, authVars, localVars, historyVars
<1>9. QED
    BY <1>1, <1>2, <1>3, <1>4, <1>5, <1>6, <1>7, <1>8 DEF AuthNext, Handle

LEMMA FreshKept == CodesInv /\ FreshWhenChecked /\ [AuthNext]_authVars => FreshWhenChecked'
<1> SUFFICES ASSUME CodesInv, FreshWhenChecked, [AuthNext]_authVars, NEW v \in Requests
             PROVE  /\ call'[v] \in Calls => call'[v].at <= clock'
                    /\ pc'[v] = "check" =>
                          /\ row'[v].issuer \in issued'
                          /\ call'[row'[v].issuer].email = call'[v].email
                          /\ row'[v].hash = hashOTP(call'[row'[v].issuer].code)
                          /\ row'[v].issuedAt = call'[row'[v].issuer].at
                    /\ pc'[v] = "consume" \/ redeemed'[v] # NoOne =>
                          \E j \in issued' :
                              /\ call'[j].email = call'[v].email
                              /\ call'[j].code = call'[v].code
                              /\ call'[v].at < call'[j].at + OtpTTL
    BY DEF FreshWhenChecked
<1>0. AuthTyping /\ Settled /\ AuthTyping' /\ clock \in Int /\ clock' \in Int
    BY StepsSettle, AuthNextTyping DEF CodesInv, AuthTyping, AuthTypeOK, LimiterTypeOK
<1>1. \A j \in issued : j \in issued' /\ j \in Requests /\ call[j] \in Calls /\ call'[j] = call[j]
    <2>1. issued \subseteq issued'
        BY <1>0, QuietOrNot DEF Quiet, UpdateOTP, VerifyConsume
    <2>2. QED
        BY <1>0, <2>1 DEF CodesInv, IssuersAreDone, Settled, AuthTyping, AuthTypeOK
<1>2. call'[v] \in Calls => call'[v].at <= clock'
    <2>1. \A x \in Calls : x.at \in Int
        BY DEF Calls
    <2>2. QED
        BY <1>0, <2>1, Arrivals DEF FreshWhenChecked
<1>3. ASSUME pc'[v] = "check"
      PROVE  /\ row'[v].issuer \in issued'
             /\ call'[row'[v].issuer].email = call'[v].email
             /\ row'[v].hash = hashOTP(call'[row'[v].issuer].code)
             /\ row'[v].issuedAt = call'[row'[v].issuer].at
    <2>1. CASE pc[v] = "check" /\ row'[v] = row[v]
        BY <1>0, <1>1, <2>1 DEF FreshWhenChecked, Settled
    <2>2. CASE pc[v] = "find" /\ otp[call[v].email] # NoOtp /\ row'[v] = otp[call[v].email]
        <3>1. call[v].email \in Emails /\ call'[v] = call[v]
            BY <1>0, <2>2, WorkingCall DEF Settled, Working
        <3>2. QED
            BY <1>1, <2>2, <3>1 DEF CodesInv, TableFollowsHistory
    <2>3. QED
        BY <1>0, <1>3, <2>1, <2>2, ComesToCheck
<1>4. ASSUME pc[v] = "consume" \/ redeemed[v] # NoOne \/ pc'[v] = "consume"
      PROVE  \E j \in issued' :
                 /\ call'[j].email = call'[v].email
                 /\ call'[j].code = call'[v].code
                 /\ call'[v].at < call'[j].at + OtpTTL
    <2>1. CASE pc[v] = "consume" \/ redeemed[v] # NoOne
        <3>1. call'[v] = call[v]
            BY <1>0, <2>1 DEF Settled, CodesInv, RedeemersAreDone
        <3>2. PICK j \in issued :
                  /\ call[j].email = call[v].email
                  /\ call[j].code = call[v].code
                  /\ call[v].at < call[j].at + OtpTTL
            BY <2>1 DEF FreshWhenChecked
        <3>3. QED
            BY <1>1, <3>1, <3>2
    <2>2. CASE pc[v] = "check" /\ ~Expired(row[v]) /\ hashOTP(call[v].code) = row[v].hash
        <3> DEFINE j == row[v].issuer
        <3>1. /\ j \in issued /\ call[j].email = call[v].email
              /\ hashOTP(call[v].code) = hashOTP(call[j].code)
              /\ row[v].issuedAt = call[j].at
            BY <2>2 DEF FreshWhenChecked
        <3>2. call[v].code = call[j].code
            BY <3>1 DEF hashOTP
        <3>3. call[v] \in Calls /\ call[v].at <= clock /\ call[v].at \in Int /\ call[j].at \in Int
            BY <1>0, <1>1, <2>2, <3>1, WorkingCall DEF FreshWhenChecked, Working, Calls
        <3>4. clock < row[v].issuedAt + OtpTTL
            BY <1>0, <2>2, <3>1, <3>3, AuthAssumption DEF Expired
        <3>5. call[v].at < call[j].at + OtpTTL
            BY <1>0, <3>1, <3>3, <3>4, AuthAssumption
        <3>6. call'[v] = call[v]
            BY <1>0, <2>2 DEF Settled
        <3>7. QED
            BY <1>1, <3>1, <3>2, <3>5, <3>6
    <2>3. QED
        BY <1>0, <1>4, <2>1, <2>2, ComesToCheck
<1>5. QED
    BY <1>0, <1>2, <1>3, <1>4, ComesToCheck

\* A submission that arrives when the lifetime of every issuance of its code is
\* over is not accepted.
THEOREM ExpiredCodesStayDeadHolds == AuthSpec => []ExpiredCodesStayDead
<1>1. AuthInit => FreshWhenChecked
    BY AuthAssumption DEF AuthInit, FreshWhenChecked
<1>2. FreshWhenChecked => ExpiredCodesStayDead
    BY DEF FreshWhenChecked, ExpiredCodesStayDead
<1>3. QED
    BY <1>1, <1>2, CodesInvariant, FreshKept, PTL DEF AuthSpec
=============================================================================
