----------------------------- MODULE Authix_proofs -----------------------------
(***************************************************************************)
(* Theorems about the API process as a whole.  It is AuthService to the     *)
(* codes and SessionApi to the browsers, so what is proved of these two,    *)
(* each on its own, holds of the process; and together they give what       *)
(* neither can state.                                                       *)
(***************************************************************************)
EXTENDS Authix, AuthRefinement_proofs

\* The theorems about SessionApi, for the handlers at the stages they are in ...
Parts == INSTANCE SessionApi_proofs
         WITH pc <- stage,
              current <- currentBar, issued <- issuedBar, redeemed <- redeemedBar

\* ... and under the mapping that hides VerifyOTP.
Whole == INSTANCE SessionApi_proofs
         WITH pc <- stageBar, user <- userBar, status <- statusBar,
              current <- currentBar, issued <- issuedBar, redeemed <- redeemedBar

\* VerifyOTP works on the call that the handler was sent: it may be later, and
\* has heard of every issuance that had been answered when the call was sent.
SameCall(r) ==
    /\ arg[r] # NoArg /\ arg[r].op = "verify"
    /\ call[r].email = arg[r].email /\ call[r].code = arg[r].code
    /\ arg[r].at <= call[r].at
    /\ arg[r].before \cap issued \subseteq call[r].before

\* Where VerifyOTP stands and where its handler stands.
Together(r) ==
    /\ pc[r] \in {"insert", "update"} => stage[r] = "idle"
    /\ pc[r] \in Passed => stage[r] = "verify"
    /\ pc[r] \in Passed \/ redeemed[r] # NoOne \/ reply[r] \in Failing => SameCall(r)
    /\ redeemed[r] # NoOne => reply[r] \in {"verified", "failed"} /\ status[r] # "refused"
    /\ reply[r] \in Failing => status[r] \in {"none", "refused"}
    /\ stage[r] = "create" => redeemed[r] # NoOne /\ user[r] = arg[r].email

AuthixInv ==
    /\ RefinementInv
    /\ Parts!Base
    /\ \A r \in Requests : Together(r)

-----------------------------------------------------------------------------
(* The two instances of SessionApi and its theorems. *)

LEMMA Constants ==
    /\ SessionLifetime \in Nat \ {0}
    /\ MaxClock \in Nat
    /\ NoToken \notin Tokens
    /\ NoOne \notin Emails
    /\ Guest \notin Emails
    /\ NoSession \notin Parts!SessionRows
    /\ NoCookie \notin Parts!Cookies
    /\ NoArg \notin Parts!Args
    /\ NoSession \notin Whole!SessionRows
    /\ NoCookie \notin Whole!Cookies
    /\ NoArg \notin Whole!Args
    /\ Parts!OTCAssumption
    /\ Whole!OTCAssumption
BY AuthixAssumption, AuthAssumption, LimiterAssumption
   DEF Hdl!SessionRows, Parts!SessionRows, Whole!SessionRows, Hdl!Cookies, Parts!Cookies,
       Whole!Cookies, Hdl!Args, Parts!Args, Whole!Args, Parts!OTCAssumption,
       Whole!OTCAssumption, Parts!Issuances, Whole!Issuances, Issuances

\* Parts speaks of the handlers.
LEMMA HandlerNames ==
    ASSUME NEW r \in Requests
    PROVE  /\ \A b, op, e, c : Hdl!Send(r, b, op, e, c) => Parts!Send(r, b, op, e, c)
           /\ Hdl!CreateSession(r) => Parts!CreateSession(r)
           /\ Hdl!Identify(r) => Parts!Identify(r)
           /\ Hdl!Revoke(r) => Parts!Revoke(r)
           /\ Hdl!Authorize(r) => Parts!Authorize(r)
           /\ Hdl!InsertCheckout(r) => Parts!InsertCheckout(r)
           /\ Hdl!Reject(r) => Parts!Reject(r)
           /\ Hdl!Deliver(r) => Parts!Deliver(r)
           /\ Hdl!Lose(r) => Parts!Lose(r)
<1> USE DEF Hdl!otcVars, Parts!otcVars, Hdl!tableVars, Parts!tableVars, Hdl!keep, Parts!keep,
            Hdl!clear, Parts!clear, Hdl!sessionToken, Parts!sessionToken,
            Hdl!Respond, Parts!Respond, Hdl!Proceed, Parts!Proceed
<1>1. \A b, op, e, c : Hdl!Send(r, b, op, e, c) => Parts!Send(r, b, op, e, c)
    BY DEF Hdl!Send, Parts!Send, Hdl!CookieOf, Parts!CookieOf, Hdl!Over, Parts!Over,
           Hdl!FirstStep, Parts!FirstStep
<1>2. Hdl!CreateSession(r) => Parts!CreateSession(r)
    BY DEF Hdl!CreateSession, Parts!CreateSession, Hdl!NewSession, Parts!NewSession
<1>3. \A t : /\ Hdl!Valid(t) <=> Parts!Valid(t)
             /\ Hdl!SessionUser(t) = Parts!SessionUser(t)
             /\ Hdl!Revocable(t) <=> Parts!Revocable(t)
    BY DEF Hdl!Valid, Parts!Valid, Hdl!SessionUser, Parts!SessionUser,
           Hdl!Revocable, Parts!Revocable
<1>4. Hdl!Identify(r) => Parts!Identify(r)
    BY <1>3 DEF Hdl!Identify, Parts!Identify
<1>5. Hdl!Revoke(r) => Parts!Revoke(r)
    BY <1>3 DEF Hdl!Revoke, Parts!Revoke, Hdl!RevokeSession, Parts!RevokeSession
<1>6. Hdl!Authorize(r) => Parts!Authorize(r)
    BY <1>3 DEF Hdl!Authorize, Parts!Authorize
<1>7. Hdl!InsertCheckout(r) => Parts!InsertCheckout(r)
    BY DEF Hdl!InsertCheckout, Parts!InsertCheckout, Hdl!NewCheckout, Parts!NewCheckout
<1>8. Hdl!Reject(r) => Parts!Reject(r)
    BY DEF Hdl!Reject, Parts!Reject
<1>9. Hdl!Deliver(r) => Parts!Deliver(r)
    BY DEF Hdl!Deliver, Parts!Deliver
<1>10. Hdl!Lose(r) => Parts!Lose(r)
    BY DEF Hdl!Lose, Parts!Lose, Hdl!Steps, Parts!Steps
<1>11. QED
    BY <1>1, <1>2, <1>4, <1>5, <1>6, <1>7, <1>8, <1>9, <1>10

-----------------------------------------------------------------------------
(* The handlers keep their order while VerifyOTP works. *)

\* Every step of the process is one of its service or leaves it alone.
LEMMA ServiceSteps ==
    ASSUME AuthixInv, [AuthixNext]_authixVars
    PROVE  [AuthNext]_authVars
<1>1. ASSUME NEW r \in Requests, CallService(r)
      PROVE  Handle(r)
    <2>1. CASE stage[r] = "verify"
        <3>1. arg[r].email \in Emails /\ arg[r].code \in Codes
            BY <2>1 DEF AuthixInv, Parts!Base, Parts!CallsInOrder, Parts!InOrder, Parts!Steps
        <3>2. QED
            BY <1>1, <2>1, <3>1 DEF CallService, Handle
    <2>2. CASE stage[r] # "verify"
        BY <1>1, <2>2 DEF CallService, Handle
    <2>3. QED
        BY <2>1, <2>2
<1>2. ASSUME NEW r \in Requests, ServiceStep(r) \/ StoreCode(r)
      PROVE  Handle(r)
    BY <1>2 DEF ServiceStep, StoreCode, Handle
<1>3. ASSUME NEW r \in Requests,
             Send(r) \/ HandlerStep(r) \/ NetworkStep(r) \/ VerifyReturns(r)
      PROVE  UNCHANGED authVars
    BY <1>3 DEF Send, HandlerStep, NetworkStep, VerifyReturns
<1>4. QED
    BY <1>1, <1>2, <1>3 DEF AuthixNext, AuthNext, Stop, Elapse, authixVars

\* The codes an observer sees keep the invariant of OneTimeCode.
LEMMA CodesFollow ==
    ASSUME CodesInv, Parts!OTCInv, [AuthNext]_authVars
    PROVE  Parts!OTCInv'
<1>1. ASSUME NEW r \in Requests, UpdateOTP(r)
      PROVE  Parts!OTCInv'
    <2>1. IssuanceOf(r) \in Parts!Issuances /\ Parts!Issue(IssuanceOf(r))
        BY <1>1, UpdateOTPIssues DEF OTC!Issuances, Parts!Issuances, OTC!Issue, Parts!Issue
    <2>2. QED
        BY <2>1, Constants, Parts!IssuePreserves
<1>2. ASSUME NEW r \in Requests, VerifyConsume(r), Consumable(call[r].email, call[r].code)
      PROVE  Parts!OTCInv'
    <2>1. /\ call[r].email \in Emails /\ call[r].code \in Codes
          /\ Parts!Redeem(r, call[r].email, call[r].code)
        BY <1>2, ConsumeRedeems DEF OTC!Redeem, Parts!Redeem
    <2>2. QED
        BY <2>1, Constants, Parts!RedeemPreserves
<1>3. CASE UNCHANGED OTC!otcVars
    <2>1. UNCHANGED Parts!otcVars
        BY <1>3 DEF OTC!otcVars, Parts!otcVars
    <2>2. QED
        BY <2>1, Constants, Parts!SameCodes
<1>4. QED
    BY <1>1, <1>2, <1>3, CodeSteps

\* Time does not go back.
LEMMA ClockGrows ==
    ASSUME RefinementInv, [AuthNext]_authVars
    PROVE  clock \in Int /\ clock' \in 0..MaxClock /\ clock <= clock'
<1>1. clock \in 0..MaxClock
    BY DEF RefinementInv, CodesInv, AuthTyping, AuthTypeOK, LimiterTypeOK
<1>2. clock' = clock \/ (clock < MaxClock /\ clock' = clock + 1)
    BY LimiterStep DEF LimiterNext, isLimited, RecordOnce, recordFailure, Tick,
                       ResetLimiter, limiterVars
<1>3. QED
    BY <1>1, <1>2, LimiterAssumption

\* A step of the service that its handlers do not notice.
LEMMA HandlersWait ==
    ASSUME AuthixInv, [AuthNext]_authVars, UNCHANGED serverVars
    PROVE  Parts!Base'
<1>1. RefinementInv /\ Parts!Base
    BY DEF AuthixInv
<1>2. Parts!OTCInv'
    BY <1>1, CodesFollow DEF RefinementInv, Parts!Base
<1>3. clock' \in 0..MaxClock /\ clock <= clock'
    BY <1>1, ClockGrows
<1>4. Parts!ApiTypeOK'
    BY <1>1, <1>2, <1>3
       DEF Parts!Base, Parts!ApiTypeOK, Parts!OTCInv, serverVars, Parts!keep, Parts!clear
<1>5. ASSUME NEW q \in Requests
      PROVE  Parts!InOrder(q)'
    BY <1>1, <1>3, Constants, Parts!OthersInOrder DEF serverVars
<1>6. QED
    BY <1>2, <1>4, <1>5 DEF Parts!Base, Parts!CallsInOrder

\* A handler that answers, is answered or is lost; VerifyOTP is not at work on
\* its call.
LEMMA HandlerTogether ==
    ASSUME AuthixInv, NEW r \in Requests, UNCHANGED authVars, Parts!OnlyCall(r),
           arg' = arg, stage[r] # "idle", stage'[r] \notin {"idle", "create"},
           stage[r] = "verify" => pc[r] \in {"idle", "done"},
           redeemed[r] # NoOne => status'[r] # "refused",
           reply[r] \in Failing => status'[r] \in {"none", "refused"}
    PROVE  \A q \in Requests : Together(q)'
<1>1. ASSUME NEW q \in Requests
      PROVE  /\ pc'[q] = pc[q] /\ reply'[q] = reply[q] /\ redeemed'[q] = redeemed[q]
             /\ SameCall(q) => SameCall(q)'
    BY DEF SameCall, authVars, localVars, historyVars
<1>2. ASSUME NEW q \in Requests \ {r}
      PROVE  Together(q)'
    BY <1>1 DEF Together, AuthixInv, Parts!OnlyCall
<1>3. Together(r)'
    BY <1>1 DEF Together, AuthixInv, Passed
<1>4. QED
    BY <1>2, <1>3

\* A step of the service for one call.
OnlyService(r) ==
    /\ UNCHANGED issued
    /\ \A q \in Requests \ {r} :
          /\ pc'[q] = pc[q] /\ call'[q] = call[q]
          /\ reply'[q] = reply[q] /\ redeemed'[q] = redeemed[q]

LEMMA ServiceTogether ==
    ASSUME AuthixInv, NEW r \in Requests, UNCHANGED serverVars, OnlyService(r), Together(r)'
    PROVE  \A q \in Requests : Together(q)'
<1>1. ASSUME NEW q \in Requests \ {r}
      PROVE  Together(q)'
    BY <1>1 DEF AuthixInv, Together, SameCall, OnlyService, serverVars
<1>2. QED
    BY <1>1

\* What is known of a call at work.
LEMMA AtWorkWithVerify ==
    ASSUME AuthixInv, NEW r \in Requests
    PROVE  /\ pc[r] # "done" => redeemed[r] = NoOne
           /\ pc[r] \in Passed =>
                 /\ SameCall(r) /\ stage[r] = "verify" /\ status[r] = "none"
           /\ stage[r] = "verify" => arg[r] # NoArg /\ arg[r].op = "verify" /\ status[r] = "none"
           /\ stage[r] = "verify" =>
                 arg[r].email \in Emails /\ arg[r].code \in Codes /\ arg[r].at <= clock
           /\ stage[r] = "idle" => arg[r] = NoArg /\ status[r] = "none"
           /\ arg[r] # NoArg => \A l \in arg[r].before : stage[l] \in {"reply", "heard", "lost"}
           /\ reply[r] = "verified" => redeemed[r] # NoOne
BY DEF AuthixInv, Together, Parts!Base, Parts!CallsInOrder, Parts!InOrder, Parts!Steps,
       Parts!Over, RefinementInv, CodesInv, RedeemersAreDone

LEMMA CallServiceTogether ==
    ASSUME AuthixInv, NEW r \in Requests, CallService(r)
    PROVE  \A q \in Requests : Together(q)'
<1> USE AtWorkWithVerify
<1>0. AuthTypeOK
    BY DEF AuthixInv, RefinementInv, CodesInv, AuthTyping
<1>1. /\ pc[r] = "idle" /\ stage[r] \in {"idle", "verify"} /\ UNCHANGED serverVars
      /\ UNCHANGED historyVars
    BY DEF CallService, Refuse, RegisterStart, ReissueFind, VerifyIsLimited, Arrive
<1>2. reply[r] \notin Failing \/ SameCall(r)
    BY DEF AuthixInv, Together
<1>3. CASE Refuse(r)
    <2>1. /\ pc' = [pc EXCEPT ![r] = "done"] /\ call' = call
          /\ \E text \in {"invalid", "failed"} : reply' = [reply EXCEPT ![r] = text]
        BY <1>3 DEF Refuse, Answer
    <2>2. OnlyService(r)
        BY <1>0, <1>1, <2>1 DEF OnlyService, AuthTypeOK, historyVars
    <2>3. pc'[r] = "done" /\ reply'[r] \in {"invalid", "failed"} /\ redeemed'[r] = NoOne
        BY <1>0, <1>1, <2>1 DEF AuthTypeOK, historyVars
    <2>4. Together(r)'
        BY <1>1, <2>3 DEF AuthixInv, Together, Passed, Failing, serverVars
    <2>5. QED
        BY <1>1, <2>2, <2>4, ServiceTogether
<1>4. ASSUME NEW e \in Emails, NEW c \in Codes, RegisterStart(r, e, c) \/ ReissueFind(r, e, c),
             stage[r] = "idle"
      PROVE  \A q \in Requests : Together(q)'
    <2>1. OnlyService(r)
        BY <1>0, <1>1, <1>4
           DEF OnlyService, AuthTypeOK, historyVars, RegisterStart, ReissueFind, Arrive, Go, Answer
    <2>2. /\ pc'[r] \in {"insert", "update", "done"} /\ redeemed'[r] = NoOne
          /\ reply'[r] = reply[r] \/ reply'[r] = "notRegistered"
        BY <1>0, <1>1, <1>4 DEF AuthTypeOK, historyVars, RegisterStart, ReissueFind, Go, Answer
    <2>3. reply[r] \notin Failing
        BY <1>2, <1>4 DEF SameCall
    <2>4. Together(r)'
        BY <1>1, <1>4, <2>2, <2>3 DEF AuthixInv, Together, Passed, Failing, serverVars
    <2>5. QED
        BY <1>1, <2>1, <2>4, ServiceTogether
<1>5. CASE VerifyIsLimited(r, arg[r].email, arg[r].code) /\ stage[r] = "verify"
    <2>1. /\ call' = [call EXCEPT ![r] =
                [op |-> "verify", email |-> arg[r].email, code |-> arg[r].code, at |-> clock,
                 before |-> {q \in Requests : pc[q] = "done"}]]
          /\ \/ Answer(r, "rateLimited")
             \/ pc' = [pc EXCEPT ![r] = "find"] /\ reply' = reply
        BY <1>5 DEF VerifyIsLimited, Arrive
    <2>2. OnlyService(r)
        BY <1>0, <1>1, <2>1 DEF OnlyService, AuthTypeOK, historyVars, Answer
    <2>3. /\ pc'[r] \in {"done", "find"} /\ redeemed'[r] = NoOne
          /\ reply'[r] = reply[r] \/ reply'[r] = "rateLimited"
        BY <1>0, <1>1, <2>1 DEF AuthTypeOK, historyVars, Answer
    <2>4. SameCall(r)'
        <3>1. call'[r].email = arg[r].email /\ call'[r].code = arg[r].code
              /\ call'[r].at = clock /\ call'[r].before = {q \in Requests : pc[q] = "done"}
            BY <1>0, <2>1 DEF AuthTypeOK
        <3>2. issued' = issued /\ issued \subseteq {q \in Requests : pc[q] = "done"}
            BY <1>0, <1>1 DEF AuthixInv, RefinementInv, CodesInv, IssuersAreDone, AuthTypeOK,
                              historyVars
        <3>3. QED
            BY <1>1, <1>5, <3>1, <3>2 DEF SameCall, serverVars
    <2>5. Together(r)'
        BY <1>1, <1>5, <2>3, <2>4 DEF AuthixInv, Together, Passed, Failing, serverVars
    <2>6. QED
        BY <1>1, <2>2, <2>5, ServiceTogether
<1>6. QED
    BY <1>3, <1>4, <1>5 DEF CallService

LEMMA ServiceStepTogether ==
    ASSUME AuthixInv, NEW r \in Requests, ServiceStep(r)
    PROVE  \A q \in Requests : Together(q)'
<1> USE AtWorkWithVerify
<1>0. AuthTypeOK
    BY DEF AuthixInv, RefinementInv, CodesInv, AuthTyping
<1>1. UNCHANGED serverVars /\ pc[r] \in Working
    BY DEF ServiceStep, RegisterInsert, VerifyFind, VerifyCheck, VerifyConsume, VerifyRecord,
           DatabaseError, Working
<1>2. pc[r] # "done" /\ redeemed[r] = NoOne
    BY <1>1 DEF Working
<1>3. call' = call /\ issued' = issued
    BY DEF ServiceStep, RegisterInsert, VerifyFind, VerifyCheck, VerifyConsume, VerifyRecord,
           DatabaseError, historyVars
<1>4. SameCall(r)' <=> SameCall(r)
    BY <1>1, <1>3 DEF SameCall, serverVars
\* Register or Reissue.
<1>5. CASE pc[r] \in {"insert", "update"}
    <2>1. /\ redeemed' = redeemed /\ stage[r] = "idle"
          /\ \/ Go(r, "update")
             \/ \E text \in {"alreadyRegistered", "failed"} : Answer(r, text)
        BY <1>5 DEF ServiceStep, RegisterInsert, VerifyFind, VerifyCheck, VerifyConsume,
                    VerifyRecord, DatabaseError, historyVars, AuthixInv, Together
    <2>2. OnlyService(r)
        BY <1>0, <1>3, <2>1 DEF OnlyService, AuthTypeOK, Go, Answer
    <2>3. /\ pc'[r] \in {"update", "done"} /\ redeemed'[r] = NoOne
          /\ reply'[r] = reply[r] \/ reply'[r] \in {"alreadyRegistered", "failed"}
        BY <1>0, <1>2, <2>1 DEF AuthTypeOK, Go, Answer
    <2>4. Together(r)'
        BY <1>1, <1>4, <2>1, <2>3 DEF AuthixInv, Together, Passed, Failing, serverVars
    <2>5. QED
        BY <1>1, <2>2, <2>4, ServiceTogether
\* VerifyOTP.
<1>6. CASE pc[r] \in Passed
    <2>1. SameCall(r) /\ stage[r] = "verify" /\ status[r] = "none"
        BY <1>6
    <2>2. \/ /\ redeemed' = redeemed
             /\ \/ \E text \in Failing : Fail(r, text)
                \/ pc' = [pc EXCEPT ![r] = "check"] /\ reply' = reply
                \/ Go(r, "consume")
                \/ \E text : Answer(r, text) /\ text \in {"rateLimited", "failed", reply[r]}
          \/ /\ \E j : redeemed' = [redeemed EXCEPT ![r] = j]
             /\ \E text \in {"verified", "failed"} : Answer(r, text)
        BY <1>6 DEF ServiceStep, RegisterInsert, VerifyFind, VerifyCheck, VerifyConsume,
                    VerifyRecord, DatabaseError, historyVars, Passed, Failing
    <2>3. OnlyService(r)
        BY <1>0, <1>3, <2>2 DEF OnlyService, AuthTypeOK, Fail, Go, Answer
    <2>4. /\ pc'[r] \in Passed \cup {"done"}
          /\ \/ redeemed'[r] = NoOne
             \/ reply'[r] \in {"verified", "failed"}
        BY <1>0, <1>2, <2>2 DEF AuthTypeOK, Fail, Go, Answer, Passed
    <2>5. Together(r)'
        BY <1>1, <1>4, <2>1, <2>4 DEF AuthixInv, Together, Passed, serverVars
    <2>6. QED
        BY <1>1, <2>3, <2>5, ServiceTogether
<1>7. QED
    BY <1>1, <1>5, <1>6 DEF Working, Passed

LEMMA StoreCodeTogether ==
    ASSUME AuthixInv, NEW r \in Requests, StoreCode(r)
    PROVE  \A q \in Requests : Together(q)'
<1> USE AtWorkWithVerify
<1>0. AuthTypeOK /\ stage \in [Requests -> {"idle"} \cup Parts!Steps \cup Parts!Over]
    BY DEF AuthixInv, RefinementInv, CodesInv, AuthTyping, Parts!Base, Parts!ApiTypeOK
<1>1. /\ pc[r] = "update" /\ stage[r] = "idle" /\ redeemed[r] = NoOne
      /\ issued' = issued \cup {r} /\ call' = call /\ redeemed' = redeemed
      /\ stage' = [stage EXCEPT ![r] = "heard"]
      /\ UNCHANGED <<arg, user, status>>
      /\ \E text \in {"issued", "failed"} : Answer(r, text)
    BY DEF StoreCode, UpdateOTP, AuthixInv, Together
<1>2. ASSUME NEW q \in Requests, SameCall(q)
      PROVE  SameCall(q)'
    BY <1>1, <1>2 DEF SameCall
<1>3. ASSUME NEW q \in Requests \ {r}
      PROVE  /\ pc'[q] = pc[q] /\ reply'[q] = reply[q] /\ redeemed'[q] = redeemed[q]
             /\ stage'[q] = stage[q]
    BY <1>0, <1>1 DEF AuthTypeOK, Answer
<1>4. ASSUME NEW q \in Requests \ {r}
      PROVE  Together(q)'
    BY <1>1, <1>2, <1>3 DEF AuthixInv, Together
<1>5. /\ pc'[r] = "done" /\ reply'[r] \in {"issued", "failed"} /\ redeemed'[r] = NoOne
      /\ stage'[r] = "heard"
    BY <1>0, <1>1 DEF AuthTypeOK, Answer
<1>6. Together(r)'
    BY <1>5 DEF Together, Passed, Failing
<1>7. QED
    BY <1>4, <1>6

LEMMA ProcessTogether ==
    ASSUME AuthixInv, Stop \/ Elapse \/ UNCHANGED authixVars
    PROVE  \A q \in Requests : Together(q)'
<1> USE AtWorkWithVerify
<1>1. /\ UNCHANGED serverVars /\ call' = call /\ issued' = issued /\ redeemed' = redeemed
      /\ \/ pc' = pc /\ reply' = reply
         \/ \E Lost \in SUBSET Requests :
              /\ \A q \in Lost : pc[q] \in Working
              /\ pc' = [q \in Requests |-> IF q \in Lost THEN "done" ELSE pc[q]]
              /\ reply' = [q \in Requests |-> IF q \in Lost THEN "lost" ELSE reply[q]]
    <2>1. CASE Stop
        BY <2>1 DEF Stop, Restart, historyVars
    <2>2. CASE Elapse \/ UNCHANGED authixVars
        BY <2>2 DEF Elapse, TimePasses, authixVars, authVars, localVars, historyVars
    <2>3. QED
        BY <2>1, <2>2
<1>2. ASSUME NEW q \in Requests
      PROVE  Together(q)'
    <2>1. SameCall(q)' <=> SameCall(q)
        BY <1>1 DEF SameCall, serverVars
    <2>2. CASE pc'[q] = pc[q] /\ reply'[q] = reply[q]
        BY <1>1, <2>1, <2>2 DEF AuthixInv, Together, serverVars
    <2>3. CASE pc[q] \in Working /\ pc'[q] = "done" /\ reply'[q] = "lost"
        <3>1. redeemed'[q] = NoOne
            BY <1>1, <2>3 DEF Working
        <3>2. QED
            BY <1>1, <2>3, <3>1 DEF AuthixInv, Together, serverVars, Passed, Failing
    <2>4. QED
        BY <1>1, <2>2, <2>3
<1>3. QED
    BY <1>2

\* A step of a handler, or of the network, for a call that was sent.
LEMMA HandlerKept ==
    ASSUME AuthixInv, NEW r \in Requests, HandlerStep(r) \/ NetworkStep(r)
    PROVE  /\ Parts!Base'
           /\ \A q \in Requests : Together(q)'
<1> USE AtWorkWithVerify
<1>1. Parts!Base /\ UNCHANGED authVars
    BY DEF AuthixInv, HandlerStep, NetworkStep
<1>2. \/ Parts!CreateSession(r) \/ Parts!Identify(r) \/ Parts!Revoke(r) \/ Parts!Authorize(r)
      \/ Parts!InsertCheckout(r) \/ Parts!Reject(r) \/ Parts!Deliver(r) \/ Parts!Lose(r)
    BY HandlerNames DEF HandlerStep, NetworkStep
<1>3. Parts!Base' /\ Parts!OnlyCall(r)
    BY <1>1, <1>2, Constants, Parts!HandlesBase DEF Parts!Handles
<1>4. stage \in [Requests -> {"idle"} \cup Parts!Steps \cup Parts!Over]
      /\ DOMAIN status = Requests
    BY <1>1 DEF Parts!Base, Parts!ApiTypeOK
<1>5. stage[r] = "create" => redeemed[r] # NoOne /\ reply[r] \notin Failing
    BY DEF AuthixInv, Together, Failing
<1>6. stage[r] \in {"identify", "revoke", "authorize", "insert"} =>
          redeemed[r] = NoOne /\ reply[r] \notin Failing
    BY <1>1 DEF AuthixInv, Together, SameCall, Parts!Base, Parts!CallsInOrder, Parts!InOrder
<1>7. /\ arg' = arg /\ stage[r] # "idle" /\ stage'[r] \notin {"idle", "create"}
      /\ stage[r] = "verify" => pc[r] \in {"idle", "done"}
      /\ \/ status' = status
         \/ status'[r] # "refused" /\ stage[r] \in {"create", "revoke", "identify", "authorize", "insert"}
    <2>1. CASE Parts!CreateSession(r)
        BY <1>4, <2>1 DEF Parts!CreateSession, Parts!Respond
    <2>2. CASE Parts!Identify(r) \/ Parts!Revoke(r) \/ Parts!InsertCheckout(r) \/ Parts!Reject(r)
        BY <1>4, <2>2 DEF Parts!Identify, Parts!Revoke, Parts!InsertCheckout, Parts!Reject,
                          Parts!Respond
    <2>3. CASE Parts!Authorize(r)
        BY <1>4, <2>3 DEF Parts!Authorize, Parts!Respond, Parts!Proceed
    <2>4. CASE (Parts!Deliver(r) \/ Parts!Lose(r)) /\ NetworkStep(r)
        BY <1>4, <2>4 DEF NetworkStep, Parts!Deliver, Parts!Lose, Parts!Steps
    <2>5. QED
        BY <1>2, <2>1, <2>2, <2>3, <2>4, HandlerNames DEF HandlerStep, NetworkStep
<1>8. /\ redeemed[r] # NoOne => status'[r] # "refused"
      /\ reply[r] \in Failing => status'[r] \in {"none", "refused"}
    BY <1>5, <1>6, <1>7 DEF AuthixInv, Together
<1>9. \A q \in Requests : Together(q)'
    BY <1>1, <1>3, <1>7, <1>8, HandlerTogether
<1>10. QED
    BY <1>3, <1>9

LEMMA SendKept ==
    ASSUME AuthixInv, NEW r \in Requests, Send(r)
    PROVE  /\ Parts!Base'
           /\ \A q \in Requests : Together(q)'
<1> USE AtWorkWithVerify
<1>1. /\ Parts!Base /\ UNCHANGED authVars /\ pc[r] = "idle" /\ redeemed[r] = NoOne
      /\ stage[r] = "idle" /\ arg[r] = NoArg
    BY DEF AuthixInv, Send, Hdl!Send
<1>2. PICK b, op, e, c :
         /\ b \in Browsers /\ Parts!Send(r, b, op, e, c)
         /\ \/ op = "verify" /\ e \in Emails /\ c \in Codes
            \/ op \in {"me", "logout", "checkout"} /\ e = NoOne /\ c = NoCode
    BY HandlerNames DEF Send
<1>3. Parts!Base'
    BY <1>1, <1>2, Constants, Parts!SendBase
<1>4. /\ UNCHANGED <<user, status>>
      /\ \A q \in Requests \ {r} : stage'[q] = stage[q] /\ arg'[q] = arg[q]
      /\ stage'[r] \in {"verify", "identify", "revoke", "authorize"}
    BY <1>1, <1>2 DEF Parts!Send, Parts!FirstStep, Parts!Base, Parts!ApiTypeOK
<1>5. ASSUME NEW q \in Requests \ {r}
      PROVE  Together(q)'
    BY <1>1, <1>4 DEF AuthixInv, Together, SameCall, authVars, localVars, historyVars
<1>6. reply[r] \notin Failing
    BY <1>1 DEF AuthixInv, Together, SameCall
<1>7. Together(r)'
    BY <1>1, <1>4, <1>6 DEF Together, Passed, authVars, localVars, historyVars
<1>8. QED
    BY <1>3, <1>5, <1>7

LEMMA VerifyReturnsKept ==
    ASSUME AuthixInv, NEW r \in Requests, VerifyReturns(r)
    PROVE  /\ Parts!Base'
           /\ \A q \in Requests : Together(q)'
<1> USE AtWorkWithVerify
<1>0. AuthTypeOK
    BY DEF AuthixInv, RefinementInv, CodesInv, AuthTyping
<1>1. /\ Parts!Base /\ stage[r] = "verify" /\ pc[r] = "done" /\ UNCHANGED authVars
      /\ UNCHANGED <<sessions, checkouts, jar, killed>>
    BY DEF AuthixInv, VerifyReturns
<1>2. /\ Parts!ApiTypeOK /\ Parts!OTCInv /\ DOMAIN status = Requests
      /\ stage \in [Requests -> {"idle"} \cup Parts!Steps \cup Parts!Over]
    BY <1>1 DEF Parts!Base, Parts!ApiTypeOK
<1>3. UNCHANGED <<Parts!otcVars, clock>>
    BY <1>1 DEF authVars, limiterVars, tableVars, localVars, historyVars, Parts!otcVars,
                currentBar, issuedBar, redeemedBar, IssuanceOf
<1>4. Parts!OTCInv'
    BY <1>2, <1>3, Constants, Parts!SameCodes
<1>5. CASE reply[r] = "verified" /\ Hdl!Proceed(r, "create", call[r].email)
    <2>1. redeemed[r] # NoOne /\ SameCall(r)
        BY <1>5 DEF AuthixInv, Together
    <2>2. /\ call[r].email = arg[r].email /\ arg[r].email \in Emails
          /\ Parts!Proceed(r, "create", arg[r].email)
        BY <1>1, <1>5, <2>1 DEF SameCall, Hdl!Proceed, Parts!Proceed
    <2>3. /\ stage' \in [Requests -> {"idle"} \cup Parts!Steps \cup Parts!Over]
          /\ arg' \in [Requests -> Parts!Args \cup {NoArg}]
          /\ user' \in [Requests -> Emails \cup {Guest, NoOne}]
          /\ Parts!OnlyCall(r)
          /\ Parts!CallsInOrder'
        BY <1>1, <1>3, <2>2, Constants, Parts!ProceedBase
    <2>4. Parts!Base'
        BY <1>1, <1>2, <1>3, <1>4, <2>2, <2>3
           DEF Parts!Base, Parts!ApiTypeOK, Parts!OTCInv, Parts!Proceed, Parts!keep, Parts!clear
    <2>5. ASSUME NEW q \in Requests \ {r}
          PROVE  Together(q)'
        BY <1>1, <2>2, <2>3 DEF AuthixInv, Together, SameCall, Parts!OnlyCall, Parts!Proceed,
                                authVars, localVars, historyVars
    <2>6. /\ stage'[r] = "create" /\ user'[r] = arg[r].email
          /\ arg' = arg /\ status' = status
        BY <1>2, <2>2 DEF Parts!Proceed, Parts!ApiTypeOK
    <2>7. Together(r)'
        BY <1>1, <2>1, <2>6 DEF AuthixInv, Together, SameCall, Passed,
                                authVars, localVars, historyVars
    <2>8. QED
        BY <2>4, <2>5, <2>7
<1>6. CASE /\ reply[r] # "verified" /\ UNCHANGED user
           /\ Hdl!Respond(r, statusOf(reply[r]), Hdl!keep)
    <2>1. /\ Parts!Respond(r, statusOf(reply[r]), Parts!keep)
          /\ statusOf(reply[r]) \in {"ok", "refused", "unauthorized", "error"}
          /\ Parts!keep \in Parts!Directives /\ stage[r] \in Parts!Steps
        BY <1>1, <1>6 DEF Hdl!Respond, Parts!Respond, Hdl!keep, Parts!keep, statusOf,
                          Parts!Directives, Parts!Steps
    <2>2. /\ stage' \in [Requests -> {"idle"} \cup Parts!Steps \cup Parts!Over]
          /\ arg' \in [Requests -> Parts!Args \cup {NoArg}]
          /\ status' \in [Requests -> {"none", "ok", "refused", "unauthorized", "error"}]
          /\ directive' \in [Requests -> Parts!Directives]
          /\ Parts!OnlyCall(r)
          /\ Parts!CallsInOrder'
        BY <1>1, <1>3, <1>6, <2>1, Constants, Parts!RespondBase
    <2>3. Parts!Base'
        BY <1>1, <1>2, <1>3, <1>4, <1>6, <2>2
           DEF Parts!Base, Parts!ApiTypeOK, Parts!OTCInv, Parts!keep, Parts!clear
    <2>4. stage'[r] = "reply" /\ status'[r] = statusOf(reply[r]) /\ arg' = arg
        BY <1>2, <2>1 DEF Parts!Respond
    <2>5. /\ redeemed[r] # NoOne => status'[r] # "refused"
          /\ reply[r] \in Failing => status'[r] \in {"none", "refused"}
        BY <1>6, <2>4 DEF AuthixInv, Together, statusOf, Failing
    <2>6. \A q \in Requests : Together(q)'
        BY <1>1, <2>2, <2>4, <2>5, HandlerTogether
    <2>7. QED
        BY <2>3, <2>6
<1>7. QED
    BY <1>5, <1>6 DEF VerifyReturns

\* Storing a code is what SessionApi calls issuing it.
LEMMA StoreCodeIssues ==
    ASSUME AuthixInv, NEW r \in Requests, StoreCode(r)
    PROVE  /\ call[r].email \in Emails /\ call[r].code \in Codes
           /\ Parts!IssueCode(r, call[r].email, call[r].code)
<1>1. /\ CodesInv /\ UpdateOTP(r) /\ stage[r] = "idle"
    BY DEF AuthixInv, RefinementInv, StoreCode, UpdateOTP, Together
<1>2. IssuanceOf(r) \in OTC!Issuances /\ OTC!Issue(IssuanceOf(r))
    BY <1>1, UpdateOTPIssues
<1>3. call[r].email \in Emails /\ call[r].code \in Codes
    BY <1>1, WorkingCall DEF CodesInv, UpdateOTP, Working
<1>4. UNCHANGED <<clock, sessions, checkouts, jar, arg, user, status, directive>>
      /\ stage' = [stage EXCEPT ![r] = "heard"]
    BY DEF StoreCode, UpdateOTP, limiterVars
<1>5. QED
    BY <1>1, <1>2, <1>3, <1>4
       DEF Parts!IssueCode, Parts!Issue, OTC!Issue, IssuanceOf, Parts!tableVars

LEMMA AuthixInitial == AuthixInit => AuthixInv
<1> SUFFICES ASSUME AuthixInit PROVE AuthixInv
    OBVIOUS
<1>1. RefinementInv
    BY AuthInitCodes DEF AuthixInit, AuthInit, LimiterInit, NoAttempts, RefinementInv,
                         FailuresAreRefusals
<1>2. Parts!ApiInit
    BY DEF AuthixInit, Hdl!ApiInit, Parts!ApiInit, Hdl!OTCInit, Parts!OTCInit,
           Hdl!keep, Parts!keep
<1>3. Parts!Base
    BY <1>2, Constants, Parts!InitBase
<1>4. \A r \in Requests : Together(r)
    BY <1>2 DEF AuthixInit, AuthInit, Parts!ApiInit, Together, Passed, Failing
<1>5. QED
    BY <1>1, <1>3, <1>4 DEF AuthixInv

LEMMA AuthixNextKeeps == AuthixInv /\ [AuthixNext]_authixVars => AuthixInv'
<1> SUFFICES ASSUME AuthixInv, [AuthixNext]_authixVars PROVE AuthixInv'
    OBVIOUS
<1>1. [AuthNext]_authVars
    BY ServiceSteps
<1>2. RefinementInv'
    BY <1>1, AuthNextCodes, FailuresStayRefusals DEF RefinementInv, AuthixInv
<1>3. ASSUME NEW r \in Requests, Send(r) \/ HandlerStep(r) \/ NetworkStep(r) \/ VerifyReturns(r)
      PROVE  /\ Parts!Base'
             /\ \A q \in Requests : Together(q)'
    BY <1>3, SendKept, HandlerKept, VerifyReturnsKept
<1>4. ASSUME NEW r \in Requests, CallService(r) \/ ServiceStep(r)
      PROVE  /\ Parts!Base'
             /\ \A q \in Requests : Together(q)'
    BY <1>1, <1>4, HandlersWait, CallServiceTogether, ServiceStepTogether
       DEF CallService, ServiceStep
<1>5. ASSUME NEW r \in Requests, StoreCode(r)
      PROVE  /\ Parts!Base'
             /\ \A q \in Requests : Together(q)'
    BY <1>5, StoreCodeTogether, StoreCodeIssues, Constants, Parts!IssueCodeBase DEF AuthixInv
<1>6. CASE Stop \/ Elapse \/ UNCHANGED authixVars
    BY <1>1, <1>2, <1>6, HandlersWait, ProcessTogether DEF Stop, Elapse, authixVars, AuthixInv
<1>7. QED
    BY <1>2, <1>3, <1>4, <1>5, <1>6 DEF AuthixInv, AuthixNext

\* The invariant of the process: that of the service, that of the handlers,
\* and what relates them.
THEOREM AuthixInvariant == AuthixSpec => []AuthixInv
BY AuthixInitial, AuthixNextKeeps, PTL DEF AuthixSpec

\* The service inside the process behaves as it does on its own, so every
\* theorem about it, and about its limiter, holds of the process.
THEOREM AuthixRunsService == AuthixSpec => AuthSpec
<1>1. AuthixInit => AuthInit
    BY DEF AuthixInit
<1>2. AuthixInv /\ [AuthixNext]_authixVars => [AuthNext]_authVars
    BY ServiceSteps
<1>3. QED
    BY <1>1, <1>2, AuthixInvariant, PTL DEF AuthixSpec, AuthSpec

-----------------------------------------------------------------------------
(* The process implements SessionApi. *)

\* What the mapping shows of a call.
LEMMA BarValues ==
    ASSUME AuthixInv, NEW r \in Requests
    PROVE  /\ stageBar[r] = IF stage[r] = "verify" /\ Accepted(r) THEN "create" ELSE stage[r]
           /\ userBar[r] = IF Accepted(r) THEN arg[r].email ELSE user[r]
           /\ Accepted(r) => statusBar[r] = status[r] /\ arg[r] # NoArg /\ arg[r].op = "verify"
           /\ status[r] # "error" => statusBar[r] = status[r]
           /\ stage[r] = "create" => Accepted(r) /\ user[r] = arg[r].email
           /\ stage[r] \in {"idle", "identify", "revoke", "authorize", "insert"} => ~Accepted(r)
BY DEF stageBar, userBar, statusBar, AuthixInv, Together, SameCall, Accepted, Parts!Base,
       Parts!CallsInOrder, Parts!InOrder

\* A call whose handler answers, seen through the mapping.
LEMMA BarRespond ==
    ASSUME AuthixInv, NEW r \in Requests, NEW text, NEW header, UNCHANGED redeemed,
           Parts!Respond(r, text, header),
           text # "error" \/ arg[r].op # "verify" \/ Accepted(r)
    PROVE  Whole!Respond(r, text, header)
<1>1. /\ stage' = [stage EXCEPT ![r] = "reply"] /\ status' = [status EXCEPT ![r] = text]
      /\ directive' = [directive EXCEPT ![r] = header] /\ arg' = arg
      /\ DOMAIN stage = Requests /\ DOMAIN status = Requests
    BY DEF Parts!Respond, AuthixInv, Parts!Base, Parts!ApiTypeOK
<1>2. stageBar' = [stageBar EXCEPT ![r] = "reply"]
    BY <1>1 DEF stageBar, Accepted
<1>3. statusBar' = [statusBar EXCEPT ![r] = text]
    BY <1>1 DEF statusBar, Accepted
<1>4. QED
    BY <1>1, <1>2, <1>3 DEF Whole!Respond

LEMMA BarProceed ==
    ASSUME AuthixInv, NEW r \in Requests, NEW p, NEW u, UNCHANGED redeemed,
           Parts!Proceed(r, p, u), p # "verify", ~Accepted(r)
    PROVE  Whole!Proceed(r, p, u)
<1>1. /\ stage' = [stage EXCEPT ![r] = p] /\ user' = [user EXCEPT ![r] = u]
      /\ UNCHANGED <<arg, status, directive>>
      /\ DOMAIN stage = Requests /\ DOMAIN user = Requests
    BY DEF Parts!Proceed, AuthixInv, Parts!Base, Parts!ApiTypeOK
<1>2. stageBar' = [stageBar EXCEPT ![r] = p]
    BY <1>1 DEF stageBar, Accepted
<1>3. userBar' = [userBar EXCEPT ![r] = u]
    BY <1>1 DEF userBar, Accepted
<1>4. statusBar' = statusBar
    BY <1>1 DEF statusBar, Accepted
<1>5. QED
    BY <1>1, <1>2, <1>3, <1>4 DEF Whole!Proceed

\* Parts and Whole see the same codes, sessions and clock.
LEMMA SameTables ==
    /\ Parts!otcVars = Whole!otcVars /\ Parts!tableVars = Whole!tableVars
    /\ (UNCHANGED Parts!otcVars <=> UNCHANGED Whole!otcVars)
    /\ (UNCHANGED Parts!tableVars <=> UNCHANGED Whole!tableVars)
    /\ Parts!keep = Whole!keep /\ Parts!clear = Whole!clear
    /\ \A r : Parts!sessionToken(r) = Whole!sessionToken(r)
    /\ \A t : /\ Parts!Valid(t) <=> Whole!Valid(t)
              /\ Parts!SessionUser(t) = Whole!SessionUser(t)
              /\ Parts!Revocable(t) <=> Whole!Revocable(t)
              /\ Parts!RevokeSession(t) <=> Whole!RevokeSession(t)
    /\ Parts!Over = Whole!Over /\ Parts!Steps = Whole!Steps
    /\ \A b : Parts!CookieOf(b) = Whole!CookieOf(b)
BY DEF Parts!otcVars, Whole!otcVars, Parts!tableVars, Whole!tableVars, Parts!keep, Whole!keep,
       Parts!clear, Whole!clear, Parts!sessionToken, Whole!sessionToken, Parts!Valid,
       Whole!Valid, Parts!SessionUser, Whole!SessionUser, Parts!Revocable, Whole!Revocable,
       Parts!RevokeSession, Whole!RevokeSession, Parts!Over, Whole!Over, Parts!Steps,
       Whole!Steps, Parts!CookieOf, Whole!CookieOf

\* A handler's step is the step of SessionApi with the same name.
LEMMA HandlerMaps ==
    ASSUME AuthixInv, NEW r \in Requests, HandlerStep(r) \/ NetworkStep(r)
    PROVE  \/ Whole!CreateSession(r) \/ Whole!Identify(r) \/ Whole!Revoke(r)
           \/ Whole!Authorize(r) \/ Whole!InsertCheckout(r) \/ Whole!Reject(r)
           \/ Whole!Deliver(r) \/ Whole!Lose(r)
<1> USE SameTables
<1>1. redeemed' = redeemed /\ UNCHANGED authVars
    BY DEF HandlerStep, NetworkStep, authVars, historyVars
<1>2. /\ stage[r] \in {"create", "identify", "revoke", "authorize", "insert", "reply"} =>
             stageBar[r] = stage[r]
      /\ stage[r] \in Parts!Steps => stageBar[r] \in Parts!Steps
      /\ stage[r] \in {"create", "insert"} => userBar[r] = user[r]
      /\ stage[r] = "create" => Accepted(r)
      /\ stage[r] \in {"identify", "revoke", "authorize", "insert"} => ~Accepted(r)
    BY BarValues DEF Parts!Steps
<1>3. /\ stage[r] \in {"identify", "revoke", "authorize", "insert"} => arg[r].op # "verify"
      /\ DOMAIN stage = Requests /\ DOMAIN user = Requests
    BY DEF AuthixInv, Parts!Base, Parts!ApiTypeOK, Parts!CallsInOrder, Parts!InOrder
<1>4. (user' = user /\ arg' = arg => userBar' = userBar)
      /\ (status' = status /\ arg' = arg => statusBar' = statusBar)
    BY <1>1 DEF userBar, statusBar, Accepted
<1>5. ASSUME Parts!CreateSession(r)
      PROVE  Whole!CreateSession(r)
    <2>1. Parts!NewSession(r) = Whole!NewSession(r)
        BY <1>2, <1>5 DEF Parts!CreateSession, Parts!NewSession, Whole!NewSession
    <2>2. \A text, header : Parts!Respond(r, text, header) => Whole!Respond(r, text, header)
        BY <1>1, <1>2, <1>5, BarRespond DEF Parts!CreateSession
    <2>3. user' = user /\ arg' = arg
        BY <1>5 DEF Parts!CreateSession, Parts!Respond
    <2>4. QED
        BY <1>2, <1>4, <1>5, <2>1, <2>2, <2>3 DEF Parts!CreateSession, Whole!CreateSession
<1>6. ASSUME Parts!Identify(r)
      PROVE  Whole!Identify(r)
    <2>1. \A text, header : Parts!Respond(r, text, header) => Whole!Respond(r, text, header)
        BY <1>1, <1>3, <1>6, BarRespond DEF Parts!Identify
    <2>2. \A u : user' = [user EXCEPT ![r] = u] /\ arg' = arg =>
                     userBar' = [userBar EXCEPT ![r] = u]
        BY <1>1, <1>2, <1>3, <1>6 DEF Parts!Identify, userBar, Accepted
    <2>3. arg' = arg
        BY <1>6 DEF Parts!Identify, Parts!Respond
    <2>4. QED
        BY <1>2, <1>4, <1>6, <2>1, <2>2, <2>3 DEF Parts!Identify, Whole!Identify
<1>7. ASSUME Parts!Revoke(r)
      PROVE  Whole!Revoke(r)
    <2>1. \A text, header : Parts!Respond(r, text, header) => Whole!Respond(r, text, header)
        BY <1>1, <1>3, <1>7, BarRespond DEF Parts!Revoke
    <2>2. arg' = arg
        BY <1>7 DEF Parts!Revoke, Parts!Respond
    <2>3. QED
        BY <1>2, <1>4, <1>7, <2>1, <2>2 DEF Parts!Revoke, Whole!Revoke
<1>8. ASSUME Parts!Authorize(r)
      PROVE  Whole!Authorize(r)
    <2>1. \A text, header : Parts!Respond(r, text, header) => Whole!Respond(r, text, header)
        BY <1>1, <1>3, <1>8, BarRespond DEF Parts!Authorize
    <2>2. \A u : Parts!Proceed(r, "insert", u) => Whole!Proceed(r, "insert", u)
        BY <1>1, <1>2, <1>8, BarProceed DEF Parts!Authorize
    <2>3. Parts!Respond(r, "unauthorized", Parts!keep) => arg' = arg
        BY DEF Parts!Respond
    <2>4. QED
        BY <1>2, <1>4, <1>8, <2>1, <2>2, <2>3 DEF Parts!Authorize, Whole!Authorize
<1>9. ASSUME Parts!InsertCheckout(r)
      PROVE  Whole!InsertCheckout(r)
    <2>1. Parts!NewCheckout(r) = Whole!NewCheckout(r)
        BY <1>2, <1>9 DEF Parts!InsertCheckout, Parts!NewCheckout, Whole!NewCheckout
    <2>2. \A text, header : Parts!Respond(r, text, header) => Whole!Respond(r, text, header)
        BY <1>1, <1>3, <1>9, BarRespond DEF Parts!InsertCheckout
    <2>3. arg' = arg
        BY <1>9 DEF Parts!InsertCheckout, Parts!Respond
    <2>4. QED
        BY <1>2, <1>4, <1>9, <2>1, <2>2, <2>3 DEF Parts!InsertCheckout, Whole!InsertCheckout
<1>10. ASSUME Parts!Reject(r)
       PROVE  Whole!Reject(r)
    <2>1. Whole!Respond(r, "error", Parts!keep)
        BY <1>1, <1>2, <1>3, <1>10, BarRespond DEF Parts!Reject
    <2>2. arg' = arg
        BY <1>10 DEF Parts!Reject, Parts!Respond
    <2>3. QED
        BY <1>2, <1>4, <1>10, <2>1, <2>2 DEF Parts!Reject, Whole!Reject
<1>11. ASSUME Parts!Deliver(r)
       PROVE  Whole!Deliver(r)
    <2>1. stageBar' = [stageBar EXCEPT ![r] = "heard"]
        BY <1>1, <1>3, <1>11 DEF Parts!Deliver, stageBar, Accepted
    <2>2. QED
        BY <1>2, <1>4, <1>11, <2>1 DEF Parts!Deliver, Whole!Deliver
<1>12. ASSUME Parts!Lose(r)
       PROVE  Whole!Lose(r)
    <2>1. stageBar' = [stageBar EXCEPT ![r] = "lost"]
        BY <1>1, <1>3, <1>12 DEF Parts!Lose, stageBar, Accepted
    <2>2. QED
        BY <1>2, <1>4, <1>12, <2>1 DEF Parts!Lose, Whole!Lose
<1>13. QED
    BY <1>5, <1>6, <1>7, <1>8, <1>9, <1>10, <1>11, <1>12, HandlerNames
       DEF HandlerStep, NetworkStep

LEMMA SendMaps ==
    ASSUME AuthixInv, NEW r \in Requests, Send(r)
    PROVE  \E b \in Browsers :
              \/ \E e \in Emails, c \in Codes : Whole!Send(r, b, "verify", e, c)
              \/ \E op \in {"me", "logout", "checkout"} : Whole!Send(r, b, op, NoOne, NoCode)
<1> USE SameTables
<1>1. redeemed' = redeemed /\ stage[r] = "idle" /\ ~Accepted(r) /\ status[r] = "none"
    BY BarValues, AtWorkWithVerify DEF Send, Hdl!Send, authVars, historyVars
<1>2. DOMAIN stage = Requests /\ DOMAIN arg = Requests
    BY DEF AuthixInv, Parts!Base, Parts!ApiTypeOK
<1>3. {q \in Requests : stageBar[q] \in Parts!Over} = {q \in Requests : stage[q] \in Parts!Over}
    BY BarValues DEF Parts!Over
<1>4. ASSUME NEW b \in Browsers, NEW op, NEW e, NEW c, Parts!Send(r, b, op, e, c)
      PROVE  Whole!Send(r, b, op, e, c)
    <2>1. /\ stageBar[r] = "idle" /\ Parts!FirstStep = Whole!FirstStep
        BY <1>1, BarValues DEF Parts!FirstStep, Whole!FirstStep
    <2>2. stageBar' = [stageBar EXCEPT ![r] = Parts!FirstStep[op]]
        BY <1>1, <1>2, <1>4 DEF Parts!Send, stageBar, Accepted
    <2>3. userBar' = userBar
        BY <1>1, <1>2, <1>4 DEF Parts!Send, userBar, Accepted
    <2>4. statusBar' = statusBar
        BY <1>1, <1>2, <1>4 DEF Parts!Send, statusBar, Accepted
    <2>5. QED
        BY <1>3, <1>4, <2>1, <2>2, <2>3, <2>4 DEF Parts!Send, Whole!Send
<1>5. QED
    BY <1>4, HandlerNames DEF Send

LEMMA StoreCodeMaps ==
    ASSUME AuthixInv, NEW r \in Requests, StoreCode(r)
    PROVE  \E e \in Emails, c \in Codes : Whole!IssueCode(r, e, c)
<1> USE SameTables
<1>1. redeemed' = redeemed /\ stage[r] = "idle" /\ ~Accepted(r) /\ status[r] = "none"
    BY BarValues, AtWorkWithVerify, StoreCodeIssues DEF StoreCode, UpdateOTP, Parts!IssueCode
<1>2. DOMAIN stage = Requests
    BY DEF AuthixInv, Parts!Base, Parts!ApiTypeOK
<1>3. Parts!IssueCode(r, call[r].email, call[r].code)
    BY StoreCodeIssues
<1>4. stageBar[r] = "idle"
    BY <1>1, BarValues
<1>5. stageBar' = [stageBar EXCEPT ![r] = "heard"] /\ userBar' = userBar /\ statusBar' = statusBar
    BY <1>1, <1>2, <1>3 DEF Parts!IssueCode, stageBar, userBar, statusBar, Accepted
<1>6. Whole!IssueCode(r, call[r].email, call[r].code)
    BY <1>3, <1>4, <1>5 DEF Parts!IssueCode, Whole!IssueCode, Parts!Issue, Whole!Issue
<1>7. QED
    BY <1>6, StoreCodeIssues

\* Consuming a code is what SessionApi calls accepting it.
LEMMA ConsumeMaps ==
    ASSUME AuthixInv, NEW r \in Requests, VerifyConsume(r), UNCHANGED serverVars,
           Consumable(call[r].email, call[r].code)
    PROVE  Whole!VerifyCode(r)
<1> USE SameTables
<1>1. /\ call[r].email = arg[r].email /\ call[r].code = arg[r].code
      /\ stage[r] = "verify" /\ ~Accepted(r) /\ status[r] = "none"
    BY AtWorkWithVerify DEF VerifyConsume, Passed, SameCall, Accepted
<1>2. Whole!Redeem(r, arg[r].email, arg[r].code)
    BY <1>1, ConsumeRedeems DEF AuthixInv, RefinementInv, OTC!Redeem, Whole!Redeem
<1>3. /\ redeemed' = [redeemed EXCEPT ![r] = otp[call[r].email].issuer]
      /\ otp[call[r].email].issuer # NoOne
      /\ UNCHANGED clock
    <2>1. CodesInv /\ call[r].email \in Emails
        BY ConsumeRedeems DEF AuthixInv, RefinementInv
    <2>2. otp[call[r].email].issuer \in Requests
        BY <2>1 DEF Consumable, CodesInv, TableFollowsHistory, AuthTyping, AuthTypeOK
    <2>3. QED
        BY <2>2, AuthAssumption DEF VerifyConsume, limiterVars
<1>4. DOMAIN stage = Requests /\ DOMAIN user = Requests /\ DOMAIN redeemed = Requests
    BY DEF AuthixInv, Parts!Base, Parts!ApiTypeOK, RefinementInv, CodesInv, AuthTyping, AuthTypeOK
<1>5. /\ redeemed'[r] # NoOne /\ \A q \in Requests \ {r} : redeemed'[q] = redeemed[q]
      /\ UNCHANGED <<stage, arg, user, status, directive>>
    BY <1>3, <1>4 DEF serverVars
<1>6. stageBar[r] = "verify"
    BY <1>1, BarValues
<1>7. stageBar' = [stageBar EXCEPT ![r] = "create"]
    BY <1>1, <1>4, <1>5 DEF stageBar, Accepted
<1>8. userBar' = [userBar EXCEPT ![r] = arg[r].email]
    BY <1>1, <1>4, <1>5 DEF userBar, Accepted
<1>9. statusBar' = statusBar
    BY <1>1, <1>4, <1>5 DEF statusBar, Accepted
<1>10. Whole!Proceed(r, "create", arg[r].email)
    BY <1>5, <1>7, <1>8, <1>9 DEF Whole!Proceed
<1>11. QED
    BY <1>2, <1>3, <1>6, <1>10 DEF Whole!VerifyCode, Whole!tableVars, serverVars

\* Nothing that SessionApi shows changes.
LEMMA BarsStay ==
    ASSUME UNCHANGED serverVars, redeemed' = redeemed
    PROVE  UNCHANGED <<sessions, checkouts, jar, stageBar, arg, userBar, statusBar, directive>>
BY DEF serverVars, stageBar, userBar, statusBar, Accepted

\* VerifyOTP returns: SessionApi has seen the code accepted before, or sees the
\* refusal now.
LEMMA VerifyReturnsMaps ==
    ASSUME AuthixInv, NEW r \in Requests, VerifyReturns(r)
    PROVE  \/ Whole!VerifyCode(r)
           \/ Whole!Reject(r)
           \/ UNCHANGED <<Whole!otcVars, clock, sessions, checkouts, jar, stageBar, arg, userBar,
                          statusBar, directive>>
<1> USE SameTables
<1>1. /\ stage[r] = "verify" /\ pc[r] = "done" /\ UNCHANGED authVars
      /\ UNCHANGED <<sessions, checkouts, jar>> /\ redeemed' = redeemed
    BY DEF VerifyReturns, authVars, historyVars
<1>2. UNCHANGED <<Parts!otcVars, clock>>
    BY <1>1 DEF authVars, limiterVars, tableVars, localVars, historyVars, Parts!otcVars,
                currentBar, issuedBar, redeemedBar, IssuanceOf
<1>3. DOMAIN stage = Requests /\ DOMAIN user = Requests /\ DOMAIN status = Requests
    BY DEF AuthixInv, Parts!Base, Parts!ApiTypeOK
<1>4. CASE reply[r] = "verified" /\ Hdl!Proceed(r, "create", call[r].email)
    <2>1. Accepted(r)
        BY <1>4, AtWorkWithVerify DEF Accepted
    <2>2. /\ stage' = [stage EXCEPT ![r] = "create"]
          /\ user' = [user EXCEPT ![r] = call[r].email]
          /\ UNCHANGED <<arg, status, directive>>
        BY <1>4 DEF Hdl!Proceed
    <2>3. stageBar' = stageBar
        BY <1>1, <1>3, <2>1, <2>2 DEF stageBar, Accepted
    <2>4. userBar' = userBar
        BY <1>1, <1>3, <2>1, <2>2 DEF userBar, Accepted
    <2>5. statusBar' = statusBar
        BY <1>1, <1>3, <2>1, <2>2 DEF statusBar, Accepted
    <2>6. QED
        BY <1>1, <1>2, <2>2, <2>3, <2>4, <2>5
<1>5. CASE /\ reply[r] # "verified" /\ UNCHANGED user
           /\ Hdl!Respond(r, statusOf(reply[r]), Hdl!keep)
    <2>1. /\ Parts!Respond(r, statusOf(reply[r]), Parts!keep)
          /\ stage' = [stage EXCEPT ![r] = "reply"] /\ directive' = [directive EXCEPT ![r] = Parts!keep]
          /\ status' = [status EXCEPT ![r] = statusOf(reply[r])] /\ arg' = arg
        BY <1>5 DEF Hdl!Respond, Parts!Respond, Hdl!keep, Parts!keep
    <2>2. userBar' = userBar
        BY <1>1, <1>5, <2>1 DEF userBar, Accepted
    <2>3. CASE Accepted(r)
        <3>1. statusOf(reply[r]) = "error"
            BY <1>5, <2>3 DEF AuthixInv, Together, Accepted, statusOf
        <3>2. Whole!Respond(r, "error", Parts!keep)
            BY <1>1, <2>1, <2>3, <3>1, BarRespond
        <3>3. stageBar[r] = "create"
            BY <1>1, <2>3, BarValues
        <3>4. Whole!Reject(r)
            BY <1>1, <1>2, <2>2, <3>2, <3>3 DEF Whole!Reject, Whole!tableVars
        <3>5. QED
            BY <3>4
    <2>4. CASE ~Accepted(r)
        <3>1. stageBar[r] = "verify" /\ arg[r].op = "verify"
            BY <1>1, <2>4, BarValues, AtWorkWithVerify
        <3>2. stageBar' = [stageBar EXCEPT ![r] = "reply"]
            BY <1>1, <1>3, <2>1 DEF stageBar, Accepted
        <3>3. statusBar' = [statusBar EXCEPT ![r] = "refused"]
            BY <1>1, <1>3, <2>1, <2>4, <3>1 DEF statusBar, Accepted, statusOf
        <3>4. Whole!Respond(r, "refused", Parts!keep)
            BY <2>1, <3>2, <3>3 DEF Whole!Respond
        <3>5. Whole!VerifyCode(r)
            BY <1>1, <1>2, <2>2, <3>1, <3>4 DEF Whole!VerifyCode, Whole!tableVars
        <3>6. QED
            BY <3>5
    <2>5. QED
        BY <2>3, <2>4
<1>6. QED
    BY <1>4, <1>5 DEF VerifyReturns

\* The service goes on, or the process stops or waits.
LEMMA ServiceMaps ==
    ASSUME AuthixInv, [AuthNext]_authVars, UNCHANGED serverVars,
           issued' = issued
    PROVE  \/ \E r \in Requests : Whole!VerifyCode(r)
           \/ Whole!TimePasses
           \/ UNCHANGED Whole!apiVars
<1>1. CodesInv /\ \A r \in Requests : ~UpdateOTP(r)
    BY DEF AuthixInv, RefinementInv, CodesInv, IssuersAreDone, UpdateOTP
<1>2. ASSUME NEW r \in Requests, VerifyConsume(r), Consumable(call[r].email, call[r].code)
      PROVE  Whole!VerifyCode(r)
    BY <1>2, ConsumeMaps
<1>3. CASE UNCHANGED OTC!otcVars /\ redeemed' = redeemed
    <2>1. UNCHANGED Whole!otcVars
        BY <1>3 DEF OTC!otcVars, Whole!otcVars
    <2>2. clock' = clock \/ (clock < MaxClock /\ clock' = clock + 1)
        BY LimiterStep DEF AuthixInv, LimiterNext, isLimited, RecordOnce, recordFailure, Tick,
                           ResetLimiter, limiterVars
    <2>3. UNCHANGED <<sessions, checkouts, jar, stageBar, arg, userBar, statusBar, directive>>
        BY <1>3, BarsStay
    <2>4. QED
        BY <2>1, <2>2, <2>3 DEF Whole!TimePasses, Whole!apiVars, Whole!tableVars, Whole!callVars
<1>4. QED
    BY <1>1, <1>2, <1>3, CodeSteps

LEMMA AuthixStepMaps ==
    ASSUME AuthixInv, [AuthixNext]_authixVars
    PROVE  [Whole!ApiNext]_(Whole!apiVars)
<1>1. ASSUME NEW r \in Requests, HandlerStep(r) \/ NetworkStep(r)
      PROVE  Whole!ApiNext
    BY <1>1, HandlerMaps DEF Whole!ApiNext
<1>2. ASSUME NEW r \in Requests, Send(r)
      PROVE  Whole!ApiNext
    BY <1>2, SendMaps DEF Whole!ApiNext
<1>3. ASSUME NEW r \in Requests, StoreCode(r)
      PROVE  Whole!ApiNext
    BY <1>3, StoreCodeMaps DEF Whole!ApiNext
<1>4. ASSUME NEW r \in Requests, VerifyReturns(r)
      PROVE  [Whole!ApiNext]_(Whole!apiVars)
    BY <1>4, VerifyReturnsMaps
       DEF Whole!ApiNext, Whole!apiVars, Whole!tableVars, Whole!callVars
<1>5. ASSUME NEW r \in Requests, CallService(r) \/ ServiceStep(r)
      PROVE  [Whole!ApiNext]_(Whole!apiVars)
    <2>1. UNCHANGED serverVars /\ [AuthNext]_authVars
        BY <1>5, ServiceSteps DEF CallService, ServiceStep
    <2>2. issued' = issued
        BY <1>5 DEF CallService, ServiceStep, Refuse, RegisterStart, ReissueFind,
                    VerifyIsLimited, RegisterInsert, VerifyFind, VerifyCheck, VerifyConsume,
                    VerifyRecord, DatabaseError, historyVars
    <2>3. QED
        BY <2>1, <2>2, ServiceMaps DEF Whole!ApiNext
<1>6. CASE Stop \/ Elapse \/ UNCHANGED authixVars
    <2>1. UNCHANGED serverVars /\ [AuthNext]_authVars /\ issued' = issued
        BY <1>6, ServiceSteps DEF Stop, Elapse, authixVars, authVars, Restart, TimePasses, historyVars
    <2>2. QED
        BY <2>1, ServiceMaps DEF Whole!ApiNext
<1>7. QED
    BY <1>1, <1>2, <1>3, <1>4, <1>5, <1>6 DEF AuthixNext

\* Whole speaks of the specification Api names.
LEMMA ApiNames ==
    /\ Whole!ApiInit => Api!ApiInit
    /\ [Whole!ApiNext]_(Whole!apiVars) => [Api!ApiNext]_(Api!apiVars)
<1> USE DEF Api!otcVars, Whole!otcVars, Api!tableVars, Whole!tableVars, Api!callVars,
            Whole!callVars, Api!keep, Whole!keep, Api!clear, Whole!clear, Api!sessionToken,
            Whole!sessionToken, Api!Respond, Whole!Respond, Api!Proceed, Whole!Proceed
<1>1. Whole!ApiInit => Api!ApiInit
    BY DEF Whole!ApiInit, Api!ApiInit, Whole!OTCInit, Api!OTCInit
<1>2. ASSUME NEW r \in Requests
      PROVE  /\ \A b, op, e, c : Whole!Send(r, b, op, e, c) => Api!Send(r, b, op, e, c)
             /\ \A e, c : Whole!IssueCode(r, e, c) => Api!IssueCode(r, e, c)
             /\ Whole!VerifyCode(r) => Api!VerifyCode(r)
             /\ Whole!CreateSession(r) => Api!CreateSession(r)
             /\ Whole!Identify(r) => Api!Identify(r)
             /\ Whole!Revoke(r) => Api!Revoke(r)
             /\ Whole!Authorize(r) => Api!Authorize(r)
             /\ Whole!InsertCheckout(r) => Api!InsertCheckout(r)
             /\ Whole!Reject(r) => Api!Reject(r)
             /\ Whole!Deliver(r) => Api!Deliver(r)
             /\ Whole!Lose(r) => Api!Lose(r)
    <2>1. \A b, op, e, c : Whole!Send(r, b, op, e, c) => Api!Send(r, b, op, e, c)
        BY DEF Whole!Send, Api!Send, Whole!CookieOf, Api!CookieOf, Whole!Over, Api!Over,
               Whole!FirstStep, Api!FirstStep
    <2>2. \A e, c : Whole!IssueCode(r, e, c) => Api!IssueCode(r, e, c)
        BY DEF Whole!IssueCode, Api!IssueCode, Whole!Issue, Api!Issue
    <2>3. Whole!VerifyCode(r) => Api!VerifyCode(r)
        BY DEF Whole!VerifyCode, Api!VerifyCode, Whole!Redeem, Api!Redeem
    <2>4. Whole!CreateSession(r) => Api!CreateSession(r)
        BY DEF Whole!CreateSession, Api!CreateSession, Whole!NewSession, Api!NewSession
    <2>5. \A t : /\ Whole!Valid(t) <=> Api!Valid(t)
                 /\ Whole!SessionUser(t) = Api!SessionUser(t)
                 /\ Whole!Revocable(t) <=> Api!Revocable(t)
        BY DEF Whole!Valid, Api!Valid, Whole!SessionUser, Api!SessionUser,
               Whole!Revocable, Api!Revocable
    <2>6. Whole!Identify(r) => Api!Identify(r)
        BY <2>5 DEF Whole!Identify, Api!Identify
    <2>7. Whole!Revoke(r) => Api!Revoke(r)
        BY <2>5 DEF Whole!Revoke, Api!Revoke, Whole!RevokeSession, Api!RevokeSession
    <2>8. Whole!Authorize(r) => Api!Authorize(r)
        BY <2>5 DEF Whole!Authorize, Api!Authorize
    <2>9. Whole!InsertCheckout(r) => Api!InsertCheckout(r)
        BY DEF Whole!InsertCheckout, Api!InsertCheckout, Whole!NewCheckout, Api!NewCheckout
    <2>10. Whole!Reject(r) => Api!Reject(r)
        BY DEF Whole!Reject, Api!Reject
    <2>11. Whole!Deliver(r) => Api!Deliver(r)
        BY DEF Whole!Deliver, Api!Deliver
    <2>12. Whole!Lose(r) => Api!Lose(r)
        BY DEF Whole!Lose, Api!Lose, Whole!Steps, Api!Steps
    <2>13. QED
        BY <2>1, <2>2, <2>3, <2>4, <2>6, <2>7, <2>8, <2>9, <2>10, <2>11, <2>12
<1>3. Whole!TimePasses => Api!TimePasses
    BY DEF Whole!TimePasses, Api!TimePasses
<1>4. UNCHANGED Whole!apiVars => UNCHANGED Api!apiVars
    BY DEF Whole!apiVars, Api!apiVars
<1>5. Whole!ApiNext => Api!ApiNext
    BY <1>2, <1>3 DEF Whole!ApiNext, Api!ApiNext
<1>6. QED
    BY <1>1, <1>4, <1>5

LEMMA AuthixInitMaps == AuthixInit => Whole!ApiInit
<1> SUFFICES ASSUME AuthixInit PROVE Whole!ApiInit
    OBVIOUS
<1>1. /\ Hdl!ApiInit /\ redeemed = [r \in Requests |-> NoOne]
      /\ user = [r \in Requests |-> NoOne] /\ status = [r \in Requests |-> "none"]
      /\ stage = [r \in Requests |-> "idle"]
    BY DEF AuthixInit, AuthInit, Hdl!ApiInit
<1>2. stageBar = stage /\ userBar = user /\ statusBar = status
    BY <1>1 DEF stageBar, userBar, statusBar, Accepted
<1>3. QED
    BY <1>1, <1>2 DEF Hdl!ApiInit, Whole!ApiInit, Hdl!OTCInit, Whole!OTCInit, Hdl!keep, Whole!keep

\* Hiding the steps of VerifyOTP, and what is not answered yet, leaves a
\* behaviour of SessionApi: what is proved of the API around one atomic decision
\* is true of the process, which takes the decision in up to four steps.
THEOREM AuthixImplementsSessionApi == AuthixSpec => ImplementsSessionApi
<1>1. AuthixInit => Api!ApiInit
    BY AuthixInitMaps, ApiNames
<1>2. AuthixInv /\ [AuthixNext]_authixVars => [Api!ApiNext]_(Api!apiVars)
    BY AuthixStepMaps, ApiNames
<1>3. QED
    BY <1>1, <1>2, AuthixInvariant, PTL DEF AuthixSpec, ImplementsSessionApi, Api!ApiSpec

\* In particular each of its steps is a step of SessionApi, or none.
THEOREM StepsOfSessionApiHolds == AuthixSpec => StepsOfSessionApi
<1>1. AuthixInv /\ [AuthixNext]_authixVars => [Api!ApiNext]_(Api!apiVars)
    BY AuthixStepMaps, ApiNames
<1>2. QED
    BY <1>1, AuthixInvariant, PTL DEF AuthixSpec, StepsOfSessionApi

LEMMA AuthixIsWhole == AuthixSpec => Whole!ApiSpec
<1>1. AuthixInit => Whole!ApiInit
    BY AuthixInitMaps
<1>2. AuthixInv /\ [AuthixNext]_authixVars => [Whole!ApiNext]_(Whole!apiVars)
    BY AuthixStepMaps
<1>3. QED
    BY <1>1, <1>2, AuthixInvariant, PTL DEF AuthixSpec, Whole!ApiSpec

-----------------------------------------------------------------------------
(* What follows of the sessions. *)

\* A session of the process was opened by a call whose submission was accepted,
\* and no other session by the same call.
LEMMA OpenedOnce ==
    ASSUME AuthixInv, Whole!Base, Whole!SessionsAreEarned, NEW t \in Tokens,
           sessions[t] # NoSession
    PROVE  LET v == sessions[t].by
           IN  /\ v \in Requests /\ redeemed[v] \in issued /\ SameCall(v)
               /\ call[v].email = sessions[t].user
               /\ call[redeemed[v]].email = call[v].email /\ call[redeemed[v]].code = call[v].code
               /\ \A o \in Tokens \ {t} : sessions[o] # NoSession => sessions[o].by # v
<1> DEFINE v == sessions[t].by
<1>1. v \in Requests
    BY DEF Whole!Base, Whole!ApiTypeOK, Whole!SessionRows
<1>2. /\ redeemedBar[v] # NoOne
      /\ redeemedBar[v].email = sessions[t].user
      /\ \A o \in Tokens \ {t} : sessions[o] # NoSession => sessions[o].by # v
    BY DEF Whole!SessionsAreEarned
<1>3. redeemed[v] # NoOne /\ call[v].email = sessions[t].user
    BY <1>1, <1>2 DEF redeemedBar
<1>4. SameCall(v)
    BY <1>1, <1>3 DEF AuthixInv, Together
<1>5. /\ redeemed[v] \in issued
      /\ call[redeemed[v]].email = call[v].email /\ call[redeemed[v]].code = call[v].code
    BY <1>1, <1>3 DEF AuthixInv, RefinementInv, CodesInv, RedeemersAreDone
<1>6. QED
    BY <1>1, <1>2, <1>3, <1>4, <1>5

LEMMA EarnedInProcess == AuthixSpec => [](Whole!Base /\ Whole!SessionsAreEarned)
<1>1. Whole!ApiSpec => []Whole!Base
    BY Constants, Whole!BaseHolds
<1>2. Whole!ApiSpec => []Whole!SessionsAreEarned
    BY Constants, Whole!SessionsAreEarnedHolds
<1>3. QED
    BY <1>1, <1>2, AuthixIsWhole, PTL

\* Every session belongs to the email and the code of one stored issuance, and
\* no two sessions to the same one.
THEOREM SessionsHaveCodesHolds == AuthixSpec => []SessionsHaveCodes
<1>1. ASSUME AuthixInv, Whole!Base, Whole!SessionsAreEarned
      PROVE  SessionsHaveCodes
    <2>1. AtMostOneRedemption
        BY <1>1 DEF AuthixInv, RefinementInv, CodesInv
    <2>2. ASSUME NEW t \in Tokens, sessions[t] # NoSession,
                 NEW o \in Tokens \ {t}, sessions[o] # NoSession
          PROVE  redeemed[sessions[o].by] # redeemed[sessions[t].by]
        <3>1. /\ sessions[t].by \in Requests /\ redeemed[sessions[t].by] \in issued
              /\ sessions[o].by \in Requests /\ redeemed[sessions[o].by] \in issued
              /\ sessions[o].by # sessions[t].by
            BY <1>1, <2>2, OpenedOnce
        <3>2. redeemed[sessions[o].by] # NoOne
            BY <1>1, <3>1, AuthAssumption, LimiterAssumption
               DEF AuthixInv, RefinementInv, CodesInv, AuthTyping, AuthTypeOK
        <3>3. QED
            BY <2>1, <3>1, <3>2 DEF AtMostOneRedemption
    <2>3. QED
        BY <1>1, <2>2, OpenedOnce DEF SessionsHaveCodes, SameCall
<1>2. QED
    BY <1>1, AuthixInvariant, EarnedInProcess, PTL

\* A code that was dead when the browser sent it opens no session.
THEOREM DeadCodesOpenNothingHolds == AuthixSpec => []DeadCodesOpenNothing
<1>1. ASSUME AuthixInv, Whole!Base, Whole!SessionsAreEarned, ExpiredCodesStayDead,
             SupersededCodesStayDead, NEW t \in Tokens, sessions[t] # NoSession
      PROVE  LET v == sessions[t].by
             IN  /\ \E i \in issued :
                       /\ call[i].email = arg[v].email /\ call[i].code = arg[v].code
                       /\ arg[v].at < call[i].at + OtpTTL
                 /\ \A k \in issued :
                       ~ /\ call[k].email = arg[v].email
                         /\ redeemed[v] \in call[k].before
                         /\ k \in arg[v].before
    <2> DEFINE v == sessions[t].by
    <2>1. /\ v \in Requests /\ redeemed[v] \in issued /\ SameCall(v)
          /\ call[redeemed[v]].email = call[v].email
        BY <1>1, OpenedOnce
    <2>2. CodesInv /\ AuthTypeOK /\ redeemed[v] # NoOne
        BY <1>1, <2>1, AuthAssumption
           DEF AuthixInv, RefinementInv, CodesInv, AuthTyping, AuthTypeOK
    <2>3. PICK i \in issued : /\ call[i].email = call[v].email
                              /\ call[i].code = call[v].code
                              /\ call[v].at < call[i].at + OtpTTL
        BY <1>1, <2>1, <2>2 DEF ExpiredCodesStayDead
    <2>4. call[v].at \in Nat /\ call[i].at \in Nat
        BY <2>1, <2>2 DEF CodesInv, IssuersAreDone, RedeemersAreDone, Calls
    <2>5. arg[v].at \in Nat
        BY <1>1, <2>1 DEF AuthixInv, Parts!Base, Parts!ApiTypeOK, SameCall, Parts!Args
    <2>6. arg[v].at < call[i].at + OtpTTL
        BY <2>1, <2>3, <2>4, <2>5, AuthAssumption DEF SameCall
    <2>7. \A k \in issued : ~ /\ call[k].email = arg[v].email
                              /\ redeemed[v] \in call[k].before
                              /\ k \in arg[v].before
        BY <1>1, <2>1 DEF SupersededCodesStayDead, SameCall
    <2>8. QED
        BY <2>1, <2>3, <2>6, <2>7 DEF SameCall
<1>2. AuthixInv /\ Whole!Base /\ Whole!SessionsAreEarned /\ ExpiredCodesStayDead
      /\ SupersededCodesStayDead => DeadCodesOpenNothing
    BY <1>1 DEF DeadCodesOpenNothing
<1>3. QED
    BY <1>2, AuthixInvariant, EarnedInProcess, AuthixRunsService, ExpiredCodesStayDeadHolds,
       SupersededCodesStayDeadHolds, PTL

\* Whoever is refused a login has lost no code by it, and whoever is counted as
\* a failure has got nothing.
THEOREM RefusalsAreHonestHolds == AuthixSpec => []RefusalsAreHonest
<1>1. ASSUME AuthixInv, Whole!Base, Whole!SessionsAreEarned, NEW r \in Requests
      PROVE  /\ status[r] = "refused" => redeemed[r] = NoOne
             /\ \A e \in Emails : \A f \in failures[e] : f.by = r =>
                   /\ arg[r].email = e
                   /\ status[r] \in {"none", "refused"}
                   /\ \A t \in Tokens : sessions[t] # NoSession => sessions[t].by # r
    <2>1. status[r] = "refused" => redeemed[r] = NoOne
        BY <1>1 DEF AuthixInv, Together
    <2>2. ASSUME NEW e \in Emails, NEW f \in failures[e], f.by = r
          PROVE  /\ arg[r].email = e
                 /\ status[r] \in {"none", "refused"}
                 /\ redeemed[r] = NoOne
        BY <1>1, <2>2 DEF AuthixInv, RefinementInv, FailuresAreRefusals, Together, SameCall
    <2>3. ASSUME NEW t \in Tokens, sessions[t] # NoSession, redeemed[r] = NoOne
          PROVE  sessions[t].by # r
        <3>1. redeemed[sessions[t].by] \in issued
            BY <1>1, <2>3, OpenedOnce
        <3>2. issued \subseteq Requests
            BY <1>1 DEF AuthixInv, RefinementInv, CodesInv, AuthTyping, AuthTypeOK
        <3>3. QED
            BY <2>3, <3>1, <3>2, AuthAssumption
    <2>4. QED
        BY <2>1, <2>2, <2>3
<1>2. AuthixInv /\ Whole!Base /\ Whole!SessionsAreEarned => RefusalsAreHonest
    BY <1>1 DEF RefusalsAreHonest
<1>3. QED
    BY <1>2, AuthixInvariant, EarnedInProcess, PTL

-----------------------------------------------------------------------------
(* What is carried over from the API: the calls that are no logins look the    *)
(* same through the mapping, so what is promised of them is true of the        *)
(* handlers of the process.                                                   *)

LEMMA OtherCallsShow ==
    ASSUME AuthixInv, NEW r \in Requests, arg[r] # NoArg, arg[r].op # "verify"
    PROVE  stageBar[r] = stage[r] /\ userBar[r] = user[r] /\ statusBar[r] = status[r]
<1>1. ~Accepted(r)
    BY BarValues
<1>2. QED
    BY <1>1 DEF stageBar, userBar, statusBar, Accepted

LEMMA PromisesShow ==
    ASSUME AuthixInv, Whole!Base
    PROVE  /\ Whole!SessionsIdentify => Hdl!SessionsIdentify
           /\ Whole!LogoutIsFinal => Hdl!LogoutIsFinal
           /\ Whole!GuestMeansNoCookie => Hdl!GuestMeansNoCookie
           /\ Whole!LogoutClears => Hdl!LogoutClears
<1> USE OtherCallsShow
<1>1. \A r \in Requests : Hdl!Authenticated(r) => Whole!Authenticated(r) /\ userBar[r] = user[r]
    BY DEF Hdl!Authenticated, Whole!Authenticated
<1>2. Whole!SessionsIdentify => Hdl!SessionsIdentify
    BY <1>1 DEF Whole!SessionsIdentify, Hdl!SessionsIdentify
<1>3. Whole!LogoutIsFinal => Hdl!LogoutIsFinal
    BY <1>1 DEF Whole!LogoutIsFinal, Hdl!LogoutIsFinal
<1>4. Whole!GuestMeansNoCookie => Hdl!GuestMeansNoCookie
    BY DEF Whole!GuestMeansNoCookie, Hdl!GuestMeansNoCookie
<1>5. Whole!LogoutClears => Hdl!LogoutClears
    BY DEF Whole!LogoutClears, Hdl!LogoutClears
<1>6. QED
    BY <1>2, <1>3, <1>4, <1>5

\* In the process, whoever Me names and whoever a checkout is written for is the
\* user of the session that the call carried, which had not expired when it was
\* sent.
THEOREM ProcessSessionsIdentify == AuthixSpec => []Hdl!SessionsIdentify
<1>1. Whole!ApiSpec => []Whole!SessionsIdentify
    BY Constants, Whole!SessionsIdentifyHolds
<1>2. AuthixInv /\ Whole!Base /\ Whole!SessionsIdentify => Hdl!SessionsIdentify
    BY PromisesShow
<1>3. QED
    BY <1>1, <1>2, AuthixIsWhole, AuthixInvariant, EarnedInProcess, PTL

\* Whoever the process takes for a user has logged in as that user, with a code
\* issued to the user, on the browser they call from, and knew so before.
THEOREM SignedInByCodeHolds == AuthixSpec => []SignedInByCode
<1>1. ASSUME AuthixInv, Whole!Base, Whole!SessionsAreEarned, Whole!CookiesAtHome,
             Hdl!SessionsIdentify, NEW r \in Requests, Hdl!Authenticated(r)
      PROVE  LET v == sessions[arg[r].token].by
                 i == redeemed[v]
             IN  /\ v \in arg[r].before /\ arg[v].op = "verify"
                 /\ arg[v].browser = arg[r].browser
                 /\ i \in issued
                 /\ call[i].email = user[r] /\ arg[v].email = user[r]
                 /\ call[i].code = arg[v].code
    <2> DEFINE t == arg[r].token
               v == sessions[t].by
    <2>1. arg[r] # NoArg /\ t # NoToken /\ t \in Tokens
        <3>1. arg[r] # NoArg /\ t # NoToken
            BY <1>1 DEF Hdl!Authenticated, Hdl!SessionsIdentify
        <3>2. arg[r] \in Parts!Args
            BY <1>1, <3>1 DEF AuthixInv, Parts!Base, Parts!ApiTypeOK
        <3>3. QED
            BY <3>1, <3>2 DEF Parts!Args
    <2>2. sessions[t] # NoSession /\ user[r] = sessions[t].user
        BY <1>1 DEF Hdl!SessionsIdentify
    <2>3. v \in arg[r].before /\ arg[v].browser = arg[r].browser
        BY <1>1, <2>1 DEF Whole!CookiesAtHome
    <2>4. /\ redeemed[v] \in issued /\ SameCall(v) /\ call[v].email = user[r]
          /\ call[redeemed[v]].email = call[v].email /\ call[redeemed[v]].code = call[v].code
        BY <1>1, <2>1, <2>2, OpenedOnce
    <2>5. QED
        BY <2>3, <2>4 DEF SameCall
<1>2. AuthixInv /\ Whole!Base /\ Whole!SessionsAreEarned /\ Whole!CookiesAtHome
      /\ Hdl!SessionsIdentify => SignedInByCode
    BY <1>1 DEF SignedInByCode
<1>3. Whole!ApiSpec => []Whole!CookiesAtHome
    BY Constants, Whole!CookiesAtHomeHolds
<1>4. QED
    BY <1>2, <1>3, AuthixIsWhole, AuthixInvariant, EarnedInProcess, ProcessSessionsIdentify, PTL

\* In the process, a logout that was answered with success is final.
THEOREM ProcessLogoutIsFinal == AuthixSpec => []Hdl!LogoutIsFinal
<1>1. Whole!ApiSpec => []Whole!LogoutIsFinal
    BY Constants, Whole!LogoutIsFinalHolds
<1>2. AuthixInv /\ Whole!Base /\ Whole!LogoutIsFinal => Hdl!LogoutIsFinal
    BY PromisesShow
<1>3. QED
    BY <1>1, <1>2, AuthixIsWhole, AuthixInvariant, EarnedInProcess, PTL

\* In the process, a checkout is a guest's only if its call carried no cookie.
THEOREM ProcessGuestMeansNoCookie == AuthixSpec => []Hdl!GuestMeansNoCookie
<1>1. Whole!ApiSpec => []Whole!GuestMeansNoCookie
    BY Constants, Whole!GuestMeansNoCookieHolds
<1>2. AuthixInv /\ Whole!Base /\ Whole!GuestMeansNoCookie => Hdl!GuestMeansNoCookie
    BY PromisesShow
<1>3. QED
    BY <1>1, <1>2, AuthixIsWhole, AuthixInvariant, EarnedInProcess, PTL

\* In the process, a browser that heard of a successful logout does not hold the
\* cookie that it logged out with.
THEOREM ProcessLogoutClears == AuthixSpec => []Hdl!LogoutClears
<1>1. Whole!ApiSpec => []Whole!LogoutClears
    BY Constants, Whole!LogoutClearsHolds
<1>2. AuthixInv /\ Whole!Base /\ Whole!LogoutClears => Hdl!LogoutClears
    BY PromisesShow
<1>3. QED
    BY <1>1, <1>2, AuthixIsWhole, AuthixInvariant, EarnedInProcess, PTL

\* What is promised of the codes and of the limiter, in the process: the tables
\* of the handlers change nothing about it.
THEOREM ProcessCodes ==
    AuthixSpec => [](/\ VerifiedIsGenuine
                     /\ OnlyFailuresCounted
                     /\ ShownCodeStands
                     /\ RollingWindow)
BY AuthixRunsService, VerifiedIsGenuineHolds, OnlyFailuresCountedHolds, ShownCodeStandsHolds,
   ServiceRollingWindow, PTL
=============================================================================
