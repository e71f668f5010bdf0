--------------------------- MODULE SessionApi_proofs ---------------------------
(***************************************************************************)
(* Theorems about OneTimeCode, for any emails, codes and requests, and      *)
(* about SessionApi, for any browsers, tokens and calls as well, and any    *)
(* lifetime of a session.                                                  *)
(***************************************************************************)
EXTENDS SessionApi, TLAPS

-----------------------------------------------------------------------------
(* The codes. *)

\* The code that may log in to e was issued to e.
CurrentWasIssued ==
    \A e \in Emails : current[e] # NoCode =>
        current[e] \in issued /\ current[e].email = e

\* No two submissions redeemed the same issuance, and what was redeemed had been
\* issued: by definition of Redeem, in the form that later steps cite.
AtMostOnce ==
    \A v, w \in Requests :
        v # w /\ redeemed[v] # NoOne => redeemed[v] # redeemed[w]

RedeemedWasIssued ==
    \A v \in Requests : redeemed[v] # NoOne => redeemed[v] \in issued

OTCInv == OTCTypeOK /\ CurrentWasIssued /\ RedeemedWasIssued /\ AtMostOnce

LEMMA OTCInitEstablishes == OTCInit => OTCInv
BY DEF OTCInit, OTCInv, OTCTypeOK, CurrentWasIssued, RedeemedWasIssued, AtMostOnce

LEMMA IssuePreserves ==
    ASSUME OTCInv, NEW i \in Issuances, Issue(i)
    PROVE  OTCInv'
<1> USE OTCAssumption DEF OTCInv, OTCTypeOK, Issue
<1>1. OTCTypeOK'
    OBVIOUS
<1>2. CurrentWasIssued'
    BY DEF CurrentWasIssued
<1>3. RedeemedWasIssued' /\ AtMostOnce'
    BY DEF RedeemedWasIssued, AtMostOnce
<1>4. QED
    BY <1>1, <1>2, <1>3

LEMMA RedeemPreserves ==
    ASSUME OTCInv, NEW v \in Requests, NEW e \in Emails, NEW c \in Codes,
           Redeem(v, e, c)
    PROVE  OTCInv'
<1> USE OTCAssumption DEF OTCInv
<1>1. /\ current[e] \in issued
      /\ current[e] \in Issuances
      /\ [by |-> current[e].by, email |-> e, code |-> c] = current[e]
    <2>1. current[e] \in issued /\ current[e].email = e /\ current[e].code = c
        BY DEF Redeem, CurrentWasIssued
    <2>2. current[e] \in Issuances
        BY <2>1 DEF OTCTypeOK
    <2>3. QED
        BY <2>1, <2>2 DEF Issuances
<1>2. /\ redeemed' = [redeemed EXCEPT ![v] = current[e]]
      /\ UNCHANGED <<current, issued>>
      /\ \A w \in Requests : redeemed[w] # current[e]
    BY <1>1 DEF Redeem
<1>3. OTCTypeOK'
    BY <1>1, <1>2 DEF OTCTypeOK
<1>4. CurrentWasIssued'
    BY <1>2 DEF CurrentWasIssued
<1>5. RedeemedWasIssued'
    BY <1>1, <1>2 DEF RedeemedWasIssued, OTCTypeOK
<1>6. AtMostOnce'
    BY <1>1, <1>2 DEF AtMostOnce, OTCTypeOK
<1>7. QED
    BY <1>3, <1>4, <1>5, <1>6

\* The inductive invariant of the abstract specification.
THEOREM OTCInvariant == OTCSpec => []OTCInv
<1>1. OTCInit => OTCInv
    BY OTCInitEstablishes
<1>2. OTCInv /\ [OTCNext]_otcVars => OTCInv'
    <2> SUFFICES ASSUME OTCInv, [OTCNext]_otcVars
                 PROVE  OTCInv'
        OBVIOUS
    <2>1. CASE UNCHANGED otcVars
        BY <2>1 DEF otcVars, OTCInv, OTCTypeOK, CurrentWasIssued,
                    RedeemedWasIssued, AtMostOnce
    <2>2. QED
        BY <2>1, IssuePreserves, RedeemPreserves DEF OTCNext
<1>3. QED
    BY <1>1, <1>2, PTL DEF OTCSpec

-----------------------------------------------------------------------------
(* The API. *)

\* Where a call stands says what it was sent with and what it has done.
InOrder(r) ==
    /\ pc[r] = "idle" => arg[r] = NoArg
    /\ pc[r] \in Steps \cup {"reply"} => arg[r] # NoArg
    /\ pc[r] \in {"verify", "create"} => arg[r].op = "verify"
    /\ pc[r] = "identify" => arg[r].op = "me"
    /\ pc[r] = "revoke" => arg[r].op = "logout"
    /\ pc[r] \in {"authorize", "insert"} => arg[r].op = "checkout"
    /\ pc[r] \in {"idle", "verify", "identify", "revoke", "authorize"} => user[r] = NoOne
    /\ pc[r] = "create" => user[r] \in Emails
    /\ pc[r] = "insert" => user[r] \in Emails \cup {Guest}
    /\ pc[r] \in {"idle"} \cup Steps => status[r] = "none"
    /\ pc[r] # "reply" => directive[r] = keep
    /\ arg[r] # NoArg =>
          /\ arg[r].op = "verify" => arg[r].email \in Emails /\ arg[r].code \in Codes
          /\ arg[r].at <= clock
          /\ \A l \in arg[r].before : pc[l] \in Over

CallsInOrder == \A r \in Requests : InOrder(r)

Base == ApiTypeOK /\ OTCInv /\ CallsInOrder

\* The steps of a handler and of the network for a call that was sent.
Handles(r) ==
    VerifyCode(r) \/ CreateSession(r) \/ Identify(r) \/ Revoke(r) \/ Authorize(r)
    \/ InsertCheckout(r) \/ Reject(r) \/ Deliver(r) \/ Lose(r)

-----------------------------------------------------------------------------
(* Types, and where calls stand. *)

LEMMA InitBase == ApiInit => Base
<1> SUFFICES ASSUME ApiInit PROVE Base
    OBVIOUS
<1>1. OTCInv
  BY OTCInitEstablishes DEF ApiInit
<1>2. ApiTypeOK
  BY <1>1, SessionAssumption DEF ApiInit, ApiTypeOK, OTCInv, Directives, keep
<1>3. CallsInOrder
  BY DEF ApiInit, CallsInOrder, InOrder, Steps
<1> QED BY <1>1, <1>2, <1>3 DEF Base

\* A call nobody touches stays in order.
LEMMA OthersInOrder ==
    ASSUME Base, NEW q \in Requests,
           pc'[q] = pc[q], arg'[q] = arg[q], user'[q] = user[q],
           status'[q] = status[q], directive'[q] = directive[q],
           clock' \in 0..MaxClock, clock <= clock',
           \A l \in Requests : pc[l] \in Over => pc'[l] \in Over
    PROVE  InOrder(q)'
<1>1. InOrder(q) /\ (arg[q] = NoArg \/ arg[q] \in Args)
  BY DEF Base, CallsInOrder, ApiTypeOK
<1>2. arg[q] # NoArg => arg[q].at <= clock' /\ \A l \in arg[q].before : pc'[l] \in Over
  BY <1>1, SessionAssumption DEF InOrder, Args, Base, ApiTypeOK
<1> QED BY <1>1, <1>2 DEF InOrder

LEMMA SendBase ==
    ASSUME Base, NEW r \in Requests, NEW b \in Browsers, NEW op, NEW e, NEW c, Send(r, b, op, e, c),
           \/ op = "verify" /\ e \in Emails /\ c \in Codes
           \/ op \in {"me", "logout", "checkout"} /\ e = NoOne /\ c = NoCode
    PROVE  Base'
<1> DEFINE new == [op |-> op, browser |-> b, email |-> e, code |-> c, token |-> CookieOf(b),
                   at |-> clock, before |-> {q \in Requests : pc[q] \in Over}]
<1>0. ApiTypeOK /\ InOrder(r)
  BY DEF Base, CallsInOrder
<1>1. CookieOf(b) \in Tokens \cup {NoToken}
  BY <1>0 DEF ApiTypeOK, CookieOf, Cookies
<1>2. new \in Args /\ new # NoArg
  BY <1>0, <1>1, SessionAssumption DEF Args, ApiTypeOK
<1>3. /\ pc' = [pc EXCEPT ![r] = FirstStep[op]] /\ pc[r] = "idle"
      /\ arg' = [arg EXCEPT ![r] = new]
      /\ UNCHANGED <<otcVars, clock, tableVars, jar, user, status, directive>>
  BY DEF Send
<1>4. /\ op = "verify" => FirstStep[op] = "verify"
      /\ op = "me" => FirstStep[op] = "identify"
      /\ op = "logout" => FirstStep[op] = "revoke"
      /\ op = "checkout" => FirstStep[op] = "authorize"
  BY DEF FirstStep
<1>5. ApiTypeOK'
  BY <1>0, <1>2, <1>3, <1>4 DEF ApiTypeOK, OTCTypeOK, otcVars, tableVars, Steps
<1>6. OTCInv'
  BY <1>3 DEF Base, OTCInv, OTCTypeOK, CurrentWasIssued, RedeemedWasIssued, AtMostOnce, otcVars
<1>7. \A l \in Requests : pc[l] \in Over => pc'[l] \in Over
  BY <1>0, <1>3 DEF ApiTypeOK, Over
<1>8. InOrder(r)'
  <2>1. pc'[r] = FirstStep[op] /\ arg'[r] = new
    BY <1>0, <1>3 DEF ApiTypeOK
  <2>2. arg'[r].op = op /\ arg'[r].email = e /\ arg'[r].code = c /\ arg'[r].at = clock
        /\ arg'[r].before = {q \in Requests : pc[q] \in Over}
    BY <2>1
  <2>3. clock' = clock /\ clock <= clock' /\ user'[r] = NoOne /\ status'[r] = "none" /\ directive'[r] = keep
    BY <1>0, <1>3 DEF ApiTypeOK, InOrder
  <2> HIDE DEF new
  <2> QED BY <1>2, <1>4, <1>7, <2>1, <2>2, <2>3 DEF InOrder, Steps
<1>9. ASSUME NEW q \in Requests \ {r} PROVE InOrder(q)'
  BY <1>0, <1>3, <1>5, <1>7, OthersInOrder DEF ApiTypeOK
<1> QED BY <1>5, <1>6, <1>8, <1>9 DEF Base, CallsInOrder

LEMMA SameCodes == OTCInv /\ UNCHANGED otcVars => OTCInv'
BY DEF OTCInv, OTCTypeOK, CurrentWasIssued, RedeemedWasIssued, AtMostOnce, otcVars

\* What the step of one call leaves alone.
OnlyCall(r) ==
    /\ UNCHANGED clock
    /\ \A q \in Requests \ {r} :
          /\ pc'[q] = pc[q] /\ arg'[q] = arg[q] /\ user'[q] = user[q]
          /\ status'[q] = status[q] /\ directive'[q] = directive[q]
    /\ pc[r] \in Over => pc'[r] \in Over

LEMMA CallStepOrder ==
    ASSUME Base, NEW r \in Requests, OnlyCall(r), InOrder(r)'
    PROVE  CallsInOrder'
<1>1. \A l \in Requests : pc[l] \in Over => pc'[l] \in Over
  BY DEF OnlyCall
<1>2. clock' \in 0..MaxClock /\ clock <= clock'
  BY SessionAssumption DEF OnlyCall, Base, ApiTypeOK
<1>3. ASSUME NEW q \in Requests \ {r} PROVE InOrder(q)'
  BY <1>1, <1>2, OthersInOrder DEF OnlyCall
<1> QED BY <1>3 DEF CallsInOrder

LEMMA StepNames ==
    /\ Steps = {"verify", "create", "identify", "revoke", "authorize", "insert"}
    /\ Over = {"reply", "heard", "lost"}
BY DEF Steps, Over

LEMMA RespondBase ==
    ASSUME Base, NEW r \in Requests, pc[r] \in Steps,
           NEW text \in {"ok", "refused", "unauthorized", "error"},
           NEW header \in Directives, Respond(r, text, header),
           UNCHANGED clock,
           \A q \in Requests \ {r} : user'[q] = user[q]
    PROVE  /\ pc' \in [Requests -> {"idle"} \cup Steps \cup Over]
           /\ arg' \in [Requests -> Args \cup {NoArg}]
           /\ status' \in [Requests -> {"none", "ok", "refused", "unauthorized", "error"}]
           /\ directive' \in [Requests -> Directives]
           /\ OnlyCall(r)
           /\ CallsInOrder'
<1>1. ApiTypeOK /\ InOrder(r)
  BY DEF Base, CallsInOrder
<1>2. /\ pc' \in [Requests -> {"idle"} \cup Steps \cup Over]
      /\ arg' \in [Requests -> Args \cup {NoArg}]
      /\ status' \in [Requests -> {"none", "ok", "refused", "unauthorized", "error"}]
      /\ directive' \in [Requests -> Directives]
  BY <1>1, StepNames DEF ApiTypeOK, Respond
<1>3. OnlyCall(r)
  BY <1>1, StepNames DEF ApiTypeOK, Respond, OnlyCall
<1>4. pc'[r] = "reply" /\ arg'[r] = arg[r] /\ arg[r] # NoArg
  BY <1>1 DEF ApiTypeOK, Respond, InOrder
<1>5. \A l \in Requests : pc[l] \in Over => pc'[l] \in Over
  BY <1>3 DEF OnlyCall
<1>6. arg[r].before \subseteq Requests
  BY <1>1, <1>4 DEF ApiTypeOK, Args
<1>7. InOrder(r)'
  BY <1>1, <1>4, <1>5, <1>6, StepNames DEF InOrder
<1> QED BY <1>2, <1>3, <1>7, CallStepOrder

LEMMA ProceedBase ==
    ASSUME Base, NEW r \in Requests,
           NEW p, NEW u \in Emails \cup {Guest}, Proceed(r, p, u),
           \/ pc[r] = "verify" /\ p = "create" /\ u \in Emails
           \/ pc[r] = "authorize" /\ p = "insert",
           UNCHANGED clock
    PROVE  /\ pc' \in [Requests -> {"idle"} \cup Steps \cup Over]
           /\ arg' \in [Requests -> Args \cup {NoArg}]
           /\ user' \in [Requests -> Emails \cup {Guest, NoOne}]
           /\ OnlyCall(r)
           /\ CallsInOrder'
<1>1. ApiTypeOK /\ InOrder(r)
  BY DEF Base, CallsInOrder
<1>2. /\ pc' \in [Requests -> {"idle"} \cup Steps \cup Over]
      /\ arg' \in [Requests -> Args \cup {NoArg}]
      /\ user' \in [Requests -> Emails \cup {Guest, NoOne}]
  BY <1>1, StepNames DEF ApiTypeOK, Proceed
<1>3. OnlyCall(r)
  BY <1>1, StepNames DEF ApiTypeOK, Proceed, OnlyCall
<1>4. /\ pc'[r] = p /\ arg'[r] = arg[r] /\ arg[r] # NoArg
      /\ user'[r] = u /\ status'[r] = status[r] /\ directive'[r] = directive[r]
  BY <1>1, StepNames DEF ApiTypeOK, Proceed, InOrder
<1>5. \A l \in Requests : pc[l] \in Over => pc'[l] \in Over
  BY <1>3 DEF OnlyCall
<1>6. arg[r].before \subseteq Requests
  BY <1>1, <1>4 DEF ApiTypeOK, Args
<1>7. InOrder(r)'
  BY <1>1, <1>4, <1>5, <1>6, StepNames DEF InOrder
<1> QED BY <1>2, <1>3, <1>7, CallStepOrder

\* The row a token is valid by, and the token a call carries.
LEMMA TokenTyping ==
    ASSUME Base, NEW r \in Requests, pc[r] \in Steps
    PROVE  /\ arg[r] \in Args /\ sessionToken(r) = arg[r].token
           /\ sessionToken(r) \in Tokens \cup {NoToken}
           /\ Valid(sessionToken(r)) =>
                 /\ sessionToken(r) \in Tokens
                 /\ sessions[sessionToken(r)] \in SessionRows
                 /\ SessionUser(sessionToken(r)) \in Emails
BY DEF Base, ApiTypeOK, CallsInOrder, InOrder, Args, sessionToken, Valid, SessionUser, SessionRows

LEMMA VerifyCodeBase ==
    ASSUME Base, NEW r \in Requests, VerifyCode(r)
    PROVE  Base' /\ OnlyCall(r)
<1>0. ApiTypeOK /\ OTCInv /\ pc[r] \in Steps
  BY StepNames DEF Base, VerifyCode
<1>a. keep \in Directives
  BY DEF Directives
<1>1. CASE Redeem(r, arg[r].email, arg[r].code) /\ Proceed(r, "create", arg[r].email)
  <2>1. arg[r].email \in Emails /\ arg[r].code \in Codes
    BY <1>0, StepNames DEF VerifyCode, Base, CallsInOrder, InOrder
  <2>2. OTCInv'
    BY <1>0, <1>1, <2>1, RedeemPreserves
  <2>3. /\ pc[r] = "verify"
        /\ UNCHANGED <<clock, tableVars, jar, status, directive>>
    BY <1>1 DEF VerifyCode, Proceed
  <2>4. ApiTypeOK'
    BY <1>0, <1>1, <2>1, <2>2, <2>3, ProceedBase DEF ApiTypeOK, OTCInv, tableVars
  <2> QED BY <1>1, <2>1, <2>2, <2>3, <2>4, ProceedBase DEF Base
<1>2. CASE Respond(r, "refused", keep) /\ UNCHANGED <<otcVars, user>>
  <2>1. OTCInv'
    BY <1>0, <1>2, SameCodes
  <2>2. UNCHANGED <<clock, tableVars, jar, user>>
    BY <1>2 DEF VerifyCode
  <2>3. ApiTypeOK'
    BY <1>0, <1>a, <1>2, <2>1, <2>2, RespondBase DEF ApiTypeOK, OTCInv, tableVars
  <2> QED BY <1>0, <1>a, <1>2, <2>1, <2>2, <2>3, RespondBase DEF Base
<1> QED BY <1>1, <1>2 DEF VerifyCode

LEMMA CreateSessionBase ==
    ASSUME Base, NEW r \in Requests, CreateSession(r)
    PROVE  Base' /\ OnlyCall(r)
<1>0. ApiTypeOK /\ OTCInv /\ pc[r] \in Steps
  BY StepNames DEF Base, CreateSession
<1>1. PICK t \in Tokens :
          /\ sessions[t] = NoSession
          /\ sessions' = [sessions EXCEPT ![t] = NewSession(r)]
          /\ \/ Respond(r, "ok", [cookie |-> "set", token |-> t, maxAge |-> SessionLifetime])
             \/ Respond(r, "error", keep)
  BY DEF CreateSession
<1>2. /\ keep \in Directives
      /\ [cookie |-> "set", token |-> t, maxAge |-> SessionLifetime] \in Directives
  BY SessionAssumption DEF Directives
<1>3. UNCHANGED <<otcVars, clock, checkouts, jar, user>>
  BY DEF CreateSession
<1>4. OTCInv'
  BY <1>0, <1>3, SameCodes
<1>5. NewSession(r) \in SessionRows
  <2>1. user[r] \in Emails
    BY <1>0 DEF CreateSession, Base, CallsInOrder, InOrder
  <2> QED BY <1>0, <2>1, SessionAssumption DEF NewSession, SessionRows, ApiTypeOK
<1>6. ApiTypeOK'
  BY <1>0, <1>1, <1>2, <1>3, <1>4, <1>5, RespondBase DEF ApiTypeOK, OTCInv
<1> QED BY <1>0, <1>1, <1>2, <1>3, <1>4, <1>6, RespondBase DEF Base

LEMMA IdentifyBase ==
    ASSUME Base, NEW r \in Requests, Identify(r)
    PROVE  Base' /\ OnlyCall(r)
<1> DEFINE t == sessionToken(r)
<1>0. ApiTypeOK /\ OTCInv /\ pc[r] \in Steps /\ keep \in Directives
  BY StepNames DEF Base, Identify, Directives
<1>1. UNCHANGED <<otcVars, clock, tableVars, jar>>
  BY DEF Identify
<1>2. OTCInv'
  BY <1>0, <1>1, SameCodes
<1>3. PICK text \in {"ok", "unauthorized"} : Respond(r, text, keep)
  BY DEF Identify
<1>4. user' \in [Requests -> Emails \cup {Guest, NoOne}] /\ \A q \in Requests \ {r} : user'[q] = user[q]
  <2>1. CASE Valid(t) /\ user' = [user EXCEPT ![r] = SessionUser(t)]
    <3>1. SessionUser(t) \in Emails
      BY <1>0, <2>1, TokenTyping
    <3> QED BY <1>0, <2>1, <3>1 DEF ApiTypeOK
  <2>2. CASE UNCHANGED user
    BY <1>0, <2>2 DEF ApiTypeOK
  <2> QED BY <2>1, <2>2 DEF Identify
<1>5. ApiTypeOK'
  BY <1>0, <1>1, <1>2, <1>3, <1>4, RespondBase DEF ApiTypeOK, OTCInv, tableVars
<1> QED BY <1>0, <1>1, <1>2, <1>3, <1>4, <1>5, RespondBase DEF Base

LEMMA RevokeBase ==
    ASSUME Base, NEW r \in Requests, Revoke(r)
    PROVE  Base' /\ OnlyCall(r)
<1> DEFINE t == sessionToken(r)
<1>0. ApiTypeOK /\ OTCInv /\ pc[r] \in Steps /\ keep \in Directives /\ clear \in Directives
  BY StepNames DEF Base, Revoke, Directives
<1>1. UNCHANGED <<otcVars, clock, checkouts, jar, user>> /\ RevokeSession(t)
  BY DEF Revoke
<1>2. OTCInv'
  BY <1>0, <1>1, SameCodes
<1>3. PICK text \in {"ok", "error"}, header \in {clear, keep} : Respond(r, text, header)
  BY DEF Revoke
<1>4. sessions' \in [Tokens -> SessionRows \cup {NoSession}]
  <2>1. CASE Revocable(t)
    <3>1. t \in Tokens /\ sessions[t] \in SessionRows
      BY <1>0, <2>1, TokenTyping DEF Revocable, ApiTypeOK
    <3>2. [sessions[t] EXCEPT !.revoked = TRUE] \in SessionRows
      BY <3>1 DEF SessionRows
    <3> QED BY <1>0, <1>1, <2>1, <3>1, <3>2 DEF RevokeSession, ApiTypeOK
  <2>2. CASE ~Revocable(t)
    BY <1>0, <1>1, <2>2 DEF RevokeSession, ApiTypeOK
  <2> QED BY <2>1, <2>2
<1>5. ApiTypeOK'
  BY <1>0, <1>1, <1>2, <1>3, <1>4, RespondBase DEF ApiTypeOK, OTCInv
<1> QED BY <1>0, <1>1, <1>2, <1>3, <1>5, RespondBase DEF Base

LEMMA AuthorizeBase ==
    ASSUME Base, NEW r \in Requests, Authorize(r)
    PROVE  Base' /\ OnlyCall(r)
<1> DEFINE t == sessionToken(r)
<1>0. ApiTypeOK /\ OTCInv /\ pc[r] \in Steps /\ keep \in Directives /\ pc[r] = "authorize"
  BY StepNames DEF Base, Authorize, Directives
<1>1. UNCHANGED <<otcVars, clock, tableVars, jar>>
  BY DEF Authorize
<1>2. OTCInv'
  BY <1>0, <1>1, SameCodes
<1>3. CASE Respond(r, "unauthorized", keep) /\ UNCHANGED user
  <2>1. ApiTypeOK'
    BY <1>0, <1>1, <1>2, <1>3, RespondBase DEF ApiTypeOK, OTCInv, tableVars
  <2> QED BY <1>0, <1>1, <1>2, <1>3, <2>1, RespondBase DEF Base
<1>4. CASE \E u \in Emails \cup {Guest} : Proceed(r, "insert", u)
  <2> PICK u \in Emails \cup {Guest} : Proceed(r, "insert", u)
    BY <1>4
  <2>1. UNCHANGED <<status, directive>>
    BY DEF Proceed
  <2>2. ApiTypeOK'
    BY <1>0, <1>1, <1>2, <2>1, ProceedBase DEF ApiTypeOK, OTCInv, tableVars
  <2> QED BY <1>0, <1>1, <1>2, <2>2, ProceedBase DEF Base
<1> QED BY <1>0, <1>3, <1>4, TokenTyping DEF Authorize

LEMMA InsertCheckoutBase ==
    ASSUME Base, NEW r \in Requests, InsertCheckout(r)
    PROVE  Base' /\ OnlyCall(r)
<1>0. ApiTypeOK /\ OTCInv /\ pc[r] \in Steps /\ keep \in Directives /\ InOrder(r)
  BY StepNames DEF Base, CallsInOrder, InsertCheckout, Directives
<1>1. /\ UNCHANGED <<otcVars, clock, sessions, jar, user>>
      /\ checkouts' = checkouts \cup {[by |-> r, user |-> user[r]]}
      /\ user[r] \in Emails \cup {Guest}
  BY <1>0 DEF InsertCheckout, NewCheckout, InOrder
<1>2. OTCInv'
  BY <1>0, <1>1, SameCodes
<1>3. PICK text \in {"ok", "error"} : Respond(r, text, keep)
  BY DEF InsertCheckout
<1>4. ApiTypeOK'
  BY <1>0, <1>1, <1>2, <1>3, RespondBase DEF ApiTypeOK, OTCInv
<1> QED BY <1>0, <1>1, <1>2, <1>3, <1>4, RespondBase DEF Base

LEMMA RejectBase ==
    ASSUME Base, NEW r \in Requests, Reject(r)
    PROVE  Base' /\ OnlyCall(r)
<1>0. ApiTypeOK /\ OTCInv /\ pc[r] \in Steps /\ keep \in Directives
  BY StepNames DEF Base, Reject, Directives
<1>1. UNCHANGED <<otcVars, clock, tableVars, jar, user>> /\ Respond(r, "error", keep)
  BY DEF Reject
<1>2. OTCInv'
  BY <1>0, <1>1, SameCodes
<1>3. ApiTypeOK'
  BY <1>0, <1>1, <1>2, RespondBase DEF ApiTypeOK, OTCInv, tableVars
<1> QED BY <1>0, <1>1, <1>2, <1>3, RespondBase DEF Base

\* The response of r arrives, or r or its response is lost.
LEMMA OverBase ==
    ASSUME Base, NEW r \in Requests, pc[r] \in Steps \cup {"reply"}, NEW p \in {"heard", "lost"},
           pc' = [pc EXCEPT ![r] = p],
           directive' = [directive EXCEPT ![r] = keep],
           jar' \in [Browsers -> Cookies \cup {NoCookie}],
           UNCHANGED <<otcVars, clock, tableVars, arg, user, status>>
    PROVE  Base' /\ OnlyCall(r)
<1>0. ApiTypeOK /\ OTCInv /\ keep \in Directives /\ InOrder(r)
  BY DEF Base, CallsInOrder, Directives
<1>1. OTCInv'
  BY <1>0, SameCodes
<1>2. ApiTypeOK'
  BY <1>0, <1>1, StepNames DEF ApiTypeOK, OTCInv, tableVars
<1>3. OnlyCall(r)
  BY <1>0, StepNames DEF ApiTypeOK, OnlyCall
<1>4. /\ pc'[r] \in {"heard", "lost"} /\ directive'[r] = keep
      /\ arg[r] \in Args /\ arg[r].before \subseteq Requests
  BY <1>0 DEF ApiTypeOK, InOrder, Args
<1>5. \A l \in Requests : pc[l] \in Over => pc'[l] \in Over
  BY <1>3 DEF OnlyCall
<1>6. InOrder(r)'
  BY <1>0, <1>4, <1>5, StepNames DEF InOrder
<1> QED BY <1>1, <1>2, <1>3, <1>6, CallStepOrder DEF Base

LEMMA DeliverBase ==
    ASSUME Base, NEW r \in Requests, Deliver(r)
    PROVE  Base' /\ OnlyCall(r)
<1> DEFINE b == arg[r].browser
           d == directive[r]
<1>0. ApiTypeOK /\ InOrder(r) /\ pc[r] = "reply"
  BY DEF Base, CallsInOrder, Deliver
<1>1. b \in Browsers
  BY <1>0 DEF InOrder, ApiTypeOK, Args
<1>2. jar' \in [Browsers -> Cookies \cup {NoCookie}]
  <2>1. CASE d = keep
    BY <1>0, <2>1 DEF Deliver, keep, ApiTypeOK
  <2>2. CASE d = clear
    BY <1>0, <1>1, <2>2 DEF Deliver, clear, ApiTypeOK
  <2>3. CASE d \in [cookie : {"set"}, token : Tokens, maxAge : Nat]
    <3>1. [token |-> d.token, until |-> clock + d.maxAge] \in Cookies
      BY <1>0, <2>3, SessionAssumption DEF ApiTypeOK, Cookies
    <3>2. jar' = [jar EXCEPT ![b] = [token |-> d.token, until |-> clock + d.maxAge]]
      BY <2>3 DEF Deliver
    <3> QED BY <1>0, <1>1, <3>1, <3>2 DEF ApiTypeOK
  <2> QED BY <1>0, <2>1, <2>2, <2>3 DEF ApiTypeOK, Directives
<1> QED BY <1>0, <1>2, OverBase DEF Deliver

LEMMA HandlesBase ==
    ASSUME Base, NEW r \in Requests, Handles(r)
    PROVE  Base' /\ OnlyCall(r)
<1>1. CASE Lose(r)
  <2>1. jar' \in [Browsers -> Cookies \cup {NoCookie}]
    BY <1>1 DEF Lose, Base, ApiTypeOK
  <2> QED BY <1>1, <2>1, OverBase DEF Lose
<1> QED BY <1>1, VerifyCodeBase, CreateSessionBase, IdentifyBase, RevokeBase, AuthorizeBase,
           InsertCheckoutBase, RejectBase, DeliverBase DEF Handles

LEMMA IssueCodeBase ==
    ASSUME Base, NEW r \in Requests, NEW e \in Emails, NEW c \in Codes, IssueCode(r, e, c)
    PROVE  Base' /\ OnlyCall(r)
<1>0. ApiTypeOK /\ OTCInv /\ InOrder(r) /\ pc[r] = "idle"
  BY DEF Base, CallsInOrder, IssueCode
<1>1. OTCInv'
  <2>1. [by |-> r, email |-> e, code |-> c] \in Issuances
    BY DEF Issuances
  <2> QED BY <1>0, <2>1, IssuePreserves DEF IssueCode
<1>2. /\ pc' = [pc EXCEPT ![r] = "heard"]
      /\ UNCHANGED <<clock, tableVars, jar, arg, user, status, directive>>
  BY DEF IssueCode
<1>3. ApiTypeOK'
  BY <1>0, <1>1, <1>2, StepNames DEF ApiTypeOK, OTCInv, tableVars
<1>4. OnlyCall(r)
  BY <1>0, <1>2, StepNames DEF ApiTypeOK, OnlyCall
<1>5. InOrder(r)'
  BY <1>0, <1>2, StepNames DEF ApiTypeOK, InOrder
<1> QED BY <1>1, <1>3, <1>4, <1>5, CallStepOrder DEF Base

\* A step is a call sent, a code issued, a handler's or the network's, of the
\* clock, or none.
LEMMA KindsOfStep ==
    ASSUME [ApiNext]_apiVars
    PROVE  \/ \E r \in Requests, b \in Browsers :
                 \/ \E e \in Emails, c \in Codes : Send(r, b, "verify", e, c)
                 \/ \E op \in {"me", "logout", "checkout"} : Send(r, b, op, NoOne, NoCode)
           \/ \E r \in Requests, e \in Emails, c \in Codes : IssueCode(r, e, c)
           \/ \E r \in Requests : Handles(r)
           \/ TimePasses
           \/ UNCHANGED apiVars
BY DEF ApiNext, Handles

LEMMA NextBase == Base /\ [ApiNext]_apiVars => Base'
<1> SUFFICES ASSUME Base, [ApiNext]_apiVars PROVE Base'
  OBVIOUS
<1>1. ASSUME NEW r \in Requests, NEW b \in Browsers,
             \/ \E e \in Emails, c \in Codes : Send(r, b, "verify", e, c)
             \/ \E op \in {"me", "logout", "checkout"} : Send(r, b, op, NoOne, NoCode)
      PROVE  Base'
  BY <1>1, SendBase
<1>2. CASE UNCHANGED <<otcVars, tableVars, jar, callVars>> /\ clock' \in 0..MaxClock /\ clock <= clock'
  <2>1. ApiTypeOK' /\ OTCInv'
    BY <1>2, SameCodes DEF Base, ApiTypeOK, OTCInv, tableVars, callVars
  <2>2. ASSUME NEW q \in Requests PROVE InOrder(q)'
    BY <1>2, OthersInOrder DEF callVars
  <2> QED BY <2>1, <2>2 DEF Base, CallsInOrder
<1>3. CASE TimePasses
  <2>1. clock' \in 0..MaxClock /\ clock <= clock'
    BY <1>3, SessionAssumption DEF TimePasses, Base, ApiTypeOK
  <2> QED BY <1>2, <1>3, <2>1 DEF TimePasses
<1>4. CASE UNCHANGED apiVars
  <2>1. clock' \in 0..MaxClock /\ clock <= clock'
    BY <1>4, SessionAssumption DEF apiVars, Base, ApiTypeOK
  <2> QED BY <1>2, <1>4, <2>1 DEF apiVars
<1> QED BY <1>1, <1>3, <1>4, IssueCodeBase, HandlesBase, KindsOfStep

THEOREM BaseHolds == ApiSpec => []Base
BY InitBase, NextBase, PTL DEF ApiSpec

\* Tables, jars and calls of the API keep their types.
THEOREM ApiTypeCorrect == ApiSpec => []ApiTypeOK
<1>1. Base => ApiTypeOK
  BY DEF Base
<1> QED BY <1>1, BaseHolds, PTL

-----------------------------------------------------------------------------
(* Codes: the API implements OneTimeCode. *)

LEMMA NextImplements == Base /\ [ApiNext]_apiVars => [OTCNext]_otcVars
<1> SUFFICES ASSUME Base, [ApiNext]_apiVars PROVE [OTCNext]_otcVars
  OBVIOUS
<1>1. ASSUME NEW r \in Requests, NEW e \in Emails, NEW c \in Codes, IssueCode(r, e, c)
      PROVE  OTCNext
  <2>1. [by |-> r, email |-> e, code |-> c] \in Issuances
    BY DEF Issuances
  <2> QED BY <1>1, <2>1 DEF IssueCode, OTCNext
<1>2. ASSUME NEW r \in Requests, VerifyCode(r)
      PROVE  [OTCNext]_otcVars
  <2>1. arg[r].email \in Emails /\ arg[r].code \in Codes
    BY <1>2, StepNames DEF VerifyCode, Base, CallsInOrder, InOrder
  <2> QED BY <1>2, <2>1 DEF VerifyCode, OTCNext
<1>3. ASSUME NEW r \in Requests, Handles(r), ~VerifyCode(r)
      PROVE  UNCHANGED otcVars
  BY <1>3 DEF Handles, CreateSession, Identify, Revoke, Authorize, InsertCheckout, Reject, Deliver, Lose
<1>4. ASSUME NEW r, NEW b, NEW op, NEW e, NEW c, Send(r, b, op, e, c)
      PROVE  UNCHANGED otcVars
  BY <1>4 DEF Send
<1>5. CASE TimePasses \/ UNCHANGED apiVars
  BY <1>5 DEF TimePasses, apiVars
<1> QED BY <1>1, <1>2, <1>3, <1>4, <1>5, KindsOfStep

\* Whatever calls, losses and failures there are around it, the API keeps the
\* promise of the one-time codes: it implements OneTimeCode.
THEOREM ApiImplementsOneTimeCode == ApiSpec => OTCSpec
<1>1. ApiInit => OTCInit
  BY DEF ApiInit
<1> QED BY <1>1, BaseHolds, NextImplements, PTL DEF ApiSpec, OTCSpec

-----------------------------------------------------------------------------
(* What a step leaves as it is. *)

LEMMA RowsKept ==
    ASSUME Base, [ApiNext]_apiVars, NEW t \in Tokens, sessions[t] # NoSession
    PROVE  /\ sessions'[t] # NoSession
           /\ sessions'[t].user = sessions[t].user
           /\ sessions'[t].expiresAt = sessions[t].expiresAt
           /\ sessions'[t].by = sessions[t].by
           /\ sessions[t].revoked => sessions'[t].revoked
<1>0. ApiTypeOK /\ sessions[t] \in SessionRows
  BY DEF Base, ApiTypeOK
<1>1. CASE sessions' = sessions
  BY <1>1
<1>2. ASSUME NEW r \in Requests, CreateSession(r)
      PROVE  sessions'[t] = sessions[t]
  BY <1>0, <1>2 DEF CreateSession, ApiTypeOK
<1>3. ASSUME NEW r \in Requests, Revoke(r), sessions' # sessions
      PROVE  sessions' = [sessions EXCEPT ![sessionToken(r)].revoked = TRUE]
  BY <1>3 DEF Revoke, RevokeSession
<1>4. [sessions[t] EXCEPT !.revoked = TRUE] \in SessionRows
  BY <1>0 DEF SessionRows
<1>5. ASSUME NEW r \in Requests, Handles(r), ~CreateSession(r), ~Revoke(r)
      PROVE  sessions' = sessions
  BY <1>5 DEF Handles, VerifyCode, Identify, Authorize, InsertCheckout, Reject, Deliver, Lose, tableVars
<1>6. ASSUME NEW r, NEW b, NEW op, NEW e, NEW c, Send(r, b, op, e, c) \/ IssueCode(r, e, c)
      PROVE  sessions' = sessions
  BY <1>6 DEF Send, IssueCode, tableVars
<1>7. CASE TimePasses \/ UNCHANGED apiVars
  BY <1>1, <1>7 DEF TimePasses, apiVars, tableVars
<1>8. ASSUME NEW x, sessions' = [sessions EXCEPT ![x].revoked = TRUE]
      PROVE  /\ sessions'[t] # NoSession
             /\ sessions'[t].user = sessions[t].user
             /\ sessions'[t].expiresAt = sessions[t].expiresAt
             /\ sessions'[t].by = sessions[t].by
             /\ sessions[t].revoked => sessions'[t].revoked
  <2>1. sessions'[t] = IF x = t THEN [sessions[t] EXCEPT !.revoked = TRUE] ELSE sessions[t]
    BY <1>0, <1>8 DEF ApiTypeOK
  <2> QED BY <1>0, <1>4, <2>1, SessionAssumption DEF SessionRows
<1> QED BY <1>1, <1>2, <1>3, <1>5, <1>6, <1>7, <1>8, KindsOfStep

\* Only sending sets the arguments of a call.
LEMMA ArgsKept ==
    ASSUME Base, [ApiNext]_apiVars, NEW r \in Requests
    PROVE  \/ arg'[r] = arg[r]
           \/ arg[r] = NoArg /\ pc[r] = "idle" /\ user'[r] = NoOne /\ status'[r] = "none"
              /\ pc'[r] \in Steps
<1>0. ApiTypeOK /\ InOrder(r)
  BY DEF Base, CallsInOrder
<1>1. ASSUME NEW q \in Requests, NEW b, NEW op \in {"verify", "me", "logout", "checkout"},
             NEW e, NEW c, Send(q, b, op, e, c)
      PROVE  \/ arg'[r] = arg[r]
             \/ arg[r] = NoArg /\ pc[r] = "idle" /\ user'[r] = NoOne /\ status'[r] = "none"
                /\ pc'[r] \in Steps
  BY <1>0, <1>1 DEF Send, ApiTypeOK, InOrder, Steps, FirstStep
<1>2. ASSUME NEW q \in Requests, Handles(q)
      PROVE  arg' = arg
  BY <1>2 DEF Handles, VerifyCode, CreateSession, Identify, Revoke, Authorize, InsertCheckout,
     Reject, Deliver, Lose, Respond, Proceed
<1>3. ASSUME NEW q, NEW e, NEW c, IssueCode(q, e, c)
      PROVE  arg' = arg
  BY <1>3 DEF IssueCode
<1>4. CASE TimePasses \/ UNCHANGED apiVars
  BY <1>4 DEF TimePasses, apiVars, callVars
<1> QED BY <1>1, <1>2, <1>3, <1>4, KindsOfStep

\* A call comes to be taken for its user's only when its token is valid.
LEMMA Authenticates ==
    ASSUME Base, [ApiNext]_apiVars, NEW r \in Requests, Authenticated(r)'
    PROVE  /\ arg'[r] = arg[r] /\ arg[r] \in Args
           /\ \/ Authenticated(r) /\ user'[r] = user[r]
              \/ /\ sessions' = sessions
                 /\ Valid(arg[r].token)
                 /\ user'[r] = sessions[arg[r].token].user
<1>0. ApiTypeOK /\ InOrder(r)
  BY DEF Base, CallsInOrder
<1>1. arg'[r] = arg[r] /\ arg[r] \in Args /\ user'[r] \in Emails /\ arg[r].op \in {"me", "checkout"}
  BY <1>0, ArgsKept, SessionAssumption DEF Authenticated, ApiTypeOK
<1>2. CASE user'[r] = user[r]
  BY <1>1, <1>2 DEF Authenticated
<1>3. CASE Identify(r) \/ Authorize(r)
  BY <1>0, <1>1, <1>2, <1>3, SessionAssumption
     DEF Identify, Authorize, Proceed, SessionUser, sessionToken, tableVars, ApiTypeOK
<1>4. CASE Handles(r) /\ ~Identify(r) /\ ~Authorize(r)
  <2>1. ~VerifyCode(r)
    BY <1>0, <1>1 DEF VerifyCode, InOrder
  <2> QED BY <1>2, <1>4, <2>1 DEF Handles, CreateSession, Revoke, InsertCheckout, Reject, Deliver, Lose
<1>5. ASSUME NEW q \in Requests \ {r}, Handles(q)
      PROVE  user'[r] = user[r]
  BY <1>5, HandlesBase DEF OnlyCall
<1>6. ASSUME NEW q, NEW b, NEW op, NEW e, NEW c, Send(q, b, op, e, c) \/ IssueCode(q, e, c)
      PROVE  user' = user
  BY <1>6 DEF Send, IssueCode
<1>7. CASE TimePasses \/ UNCHANGED apiVars
  BY <1>2, <1>7 DEF TimePasses, apiVars, callVars
<1> QED BY <1>2, <1>3, <1>4, <1>5, <1>6, <1>7, KindsOfStep

\* A successful logout was one before, or is one by this step.
LEMMA LogsOut ==
    ASSUME Base, [ApiNext]_apiVars, NEW l \in Requests,
           arg'[l] # NoArg, arg'[l].op = "logout", status'[l] = "ok"
    PROVE  /\ arg'[l] = arg[l] /\ arg[l] \in Args
           /\ status[l] = "ok" \/ (Revoke(l) /\ Respond(l, "ok", clear))
<1>0. ApiTypeOK /\ InOrder(l)
  BY DEF Base, CallsInOrder
<1>1. arg'[l] = arg[l] /\ arg[l] \in Args /\ arg[l].op = "logout"
  BY <1>0, ArgsKept DEF ApiTypeOK
<1>2. CASE status'[l] = status[l]
  BY <1>1, <1>2
<1>3. CASE Revoke(l)
  BY <1>0, <1>1, <1>3 DEF Revoke, Respond, ApiTypeOK
<1>4. CASE Handles(l) /\ ~Revoke(l)
  <2>1. ~VerifyCode(l) /\ ~CreateSession(l) /\ ~Identify(l) /\ ~Authorize(l) /\ ~InsertCheckout(l)
    BY <1>0, <1>1 DEF InOrder, VerifyCode, CreateSession, Identify, Authorize, InsertCheckout
  <2>2. CASE Reject(l)
    BY <1>0, <2>2 DEF Reject, Respond, ApiTypeOK
  <2>3. CASE Deliver(l) \/ Lose(l)
    BY <1>2, <2>3 DEF Deliver, Lose
  <2> QED BY <1>4, <2>1, <2>2, <2>3 DEF Handles
<1>5. ASSUME NEW q \in Requests \ {l}, Handles(q)
      PROVE  status'[l] = status[l]
  BY <1>5, HandlesBase DEF OnlyCall
<1>6. ASSUME NEW q, NEW b, NEW op, NEW e, NEW c, Send(q, b, op, e, c) \/ IssueCode(q, e, c)
      PROVE  status' = status
  BY <1>6 DEF Send, IssueCode
<1>7. CASE TimePasses \/ UNCHANGED apiVars
  BY <1>2, <1>7 DEF TimePasses, apiVars, callVars
<1> QED BY <1>2, <1>3, <1>4, <1>5, <1>6, <1>7, KindsOfStep

-----------------------------------------------------------------------------
(* Whom calls are taken for. *)

LEMMA SessionsIdentifyKept ==
    Base /\ SessionsIdentify /\ [ApiNext]_apiVars => SessionsIdentify'
<1> SUFFICES ASSUME Base, SessionsIdentify, [ApiNext]_apiVars,
                    NEW r \in Requests, Authenticated(r)'
             PROVE  /\ arg'[r].token # NoToken /\ sessions'[arg'[r].token] # NoSession
                    /\ user'[r] = sessions'[arg'[r].token].user
                    /\ arg'[r].at < sessions'[arg'[r].token].expiresAt
  BY DEF SessionsIdentify
<1> DEFINE t == arg[r].token
<1>1. arg'[r] = arg[r] /\ arg[r] \in Args /\ arg[r].at <= clock /\ t \in Tokens \cup {NoToken}
  BY Authenticates, SessionAssumption DEF Args, Base, CallsInOrder, InOrder
<1>2. CASE Authenticated(r) /\ user'[r] = user[r]
  <2>1. /\ t \in Tokens /\ sessions[t] # NoSession
        /\ user[r] = sessions[t].user /\ arg[r].at < sessions[t].expiresAt
    BY <1>1, <1>2 DEF SessionsIdentify
  <2>2. /\ sessions'[t] # NoSession /\ sessions'[t].user = sessions[t].user
        /\ sessions'[t].expiresAt = sessions[t].expiresAt
    BY <2>1, RowsKept
  <2> QED BY <1>1, <1>2, <2>1, <2>2, SessionAssumption
<1>3. CASE sessions' = sessions /\ Valid(t) /\ user'[r] = sessions[t].user
  <2>1. t \in Tokens /\ t # NoToken /\ sessions[t] # NoSession /\ clock < sessions[t].expiresAt
    <3>1. sessions[t].expiresAt \in Nat
      BY <1>1, <1>3 DEF Valid, Base, ApiTypeOK, SessionRows
    <3> QED BY <1>1, <1>3, <3>1 DEF Valid, Base, ApiTypeOK
  <2>2. arg[r].at < sessions[t].expiresAt
    BY <1>1, <2>1, SessionAssumption DEF Base, ApiTypeOK, SessionRows, Args
  <2> QED BY <1>1, <1>3, <2>1, <2>2
<1> QED BY <1>2, <1>3, Authenticates

\* Whoever Me names, and whoever a checkout is written for, is the user of the
\* session the call carried, which had not expired when the call was sent.
THEOREM SessionsIdentifyHolds == ApiSpec => []SessionsIdentify
<1>1. ApiInit => SessionsIdentify
  BY DEF ApiInit, SessionsIdentify, Authenticated
<1> QED BY <1>1, BaseHolds, SessionsIdentifyKept, PTL DEF ApiSpec

-----------------------------------------------------------------------------
(* Tokens. *)

\* What carries a token: a response that sets it, a jar, a call.
Sets(r, t) == directive[r] # keep /\ directive[r] # clear /\ directive[r].token = t
Held(t) == \E b \in Browsers : jar[b] # NoCookie /\ jar[b].token = t
Carried(t) == \E q \in Requests : arg[q] # NoArg /\ arg[q].token = t

\* A token that travels is of a session; the response that sets it is the only
\* one, and comes before any browser has it.
TokensInOrder ==
    /\ \A t \in Tokens : Held(t) \/ Carried(t) => sessions[t] # NoSession
    /\ \A r \in Requests, t \in Tokens : Sets(r, t) =>
          /\ sessions[t] # NoSession
          /\ sessions[t].by = r
          /\ ~Held(t) /\ ~Carried(t)

\* Jars change when a response sets or clears the cookie of its browser.
LEMMA JarSteps ==
    ASSUME Base, [ApiNext]_apiVars
    PROVE  \/ jar' = jar
           \/ \E r \in Requests :
                 /\ Deliver(r) /\ arg[r] \in Args /\ directive[r] = clear
                 /\ jar' = [jar EXCEPT ![arg[r].browser] = NoCookie]
           \/ \E r \in Requests, t \in Tokens, n \in Nat :
                 /\ Deliver(r) /\ arg[r] \in Args /\ Sets(r, t)
                 /\ jar' = [jar EXCEPT ![arg[r].browser] = [token |-> t, until |-> n]]
<1>0. ApiTypeOK /\ CallsInOrder
  BY DEF Base
<1>1. ASSUME NEW r \in Requests, Deliver(r)
      PROVE  \/ jar' = jar
             \/ /\ Deliver(r) /\ arg[r] \in Args /\ directive[r] = clear
                /\ jar' = [jar EXCEPT ![arg[r].browser] = NoCookie]
             \/ \E t \in Tokens, n \in Nat :
                   /\ Deliver(r) /\ arg[r] \in Args /\ Sets(r, t)
                   /\ jar' = [jar EXCEPT ![arg[r].browser] = [token |-> t, until |-> n]]
  <2> DEFINE d == directive[r]
  <2>1. arg[r] \in Args
    BY <1>0, <1>1 DEF Deliver, CallsInOrder, InOrder, ApiTypeOK
  <2>2. CASE d = keep
    BY <1>1, <2>2 DEF Deliver, keep
  <2>3. CASE d = clear
    BY <1>1, <2>1, <2>3 DEF Deliver, clear
  <2>4. CASE d \in [cookie : {"set"}, token : Tokens, maxAge : Nat]
    <3>1. d.cookie = "set" /\ d.token \in Tokens /\ clock + d.maxAge \in Nat
      BY <1>0, <2>4, SessionAssumption DEF ApiTypeOK
    <3>2. Sets(r, d.token)
      BY <3>1 DEF Sets, keep, clear
    <3>3. jar' = [jar EXCEPT ![arg[r].browser] = [token |-> d.token, until |-> clock + d.maxAge]]
      BY <1>1, <3>1 DEF Deliver
    <3> QED BY <1>1, <2>1, <3>1, <3>2, <3>3
  <2> QED BY <1>0, <2>2, <2>3, <2>4 DEF ApiTypeOK, Directives
<1>2. ASSUME NEW r \in Requests, Handles(r), ~Deliver(r)
      PROVE  jar' = jar
  BY <1>2 DEF Handles, VerifyCode, CreateSession, Identify, Revoke, Authorize, InsertCheckout,
     Reject, Lose
<1>3. ASSUME NEW q, NEW b, NEW op, NEW e, NEW c, Send(q, b, op, e, c) \/ IssueCode(q, e, c)
      PROVE  jar' = jar
  BY <1>3 DEF Send, IssueCode
<1>4. CASE TimePasses \/ UNCHANGED apiVars
  BY <1>4 DEF TimePasses, apiVars
<1> QED BY <1>1, <1>2, <1>3, <1>4, KindsOfStep

\* A browser comes to hold a token only by the response that sets it.
LEMMA ComesToHold ==
    ASSUME Base, [ApiNext]_apiVars, NEW t \in Tokens, Held(t)'
    PROVE  Held(t) \/ \E r \in Requests : Deliver(r) /\ Sets(r, t)
<1>0. jar \in [Browsers -> Cookies \cup {NoCookie}]
  BY DEF Base, ApiTypeOK
<1>1. PICK b \in Browsers : jar'[b] # NoCookie /\ jar'[b].token = t
  BY DEF Held
<1>2. ASSUME NEW x \in Browsers, jar' = [jar EXCEPT ![x] = NoCookie]
      PROVE  Held(t)
  BY <1>0, <1>1, <1>2 DEF Held
<1>3. ASSUME NEW r \in Requests, NEW s \in Tokens, NEW n \in Nat, Deliver(r), arg[r] \in Args,
             Sets(r, s), jar' = [jar EXCEPT ![arg[r].browser] = [token |-> s, until |-> n]]
      PROVE  Held(t) \/ \E q \in Requests : Deliver(q) /\ Sets(q, t)
  BY <1>0, <1>1, <1>3 DEF Held
<1> QED BY <1>1, <1>2, <1>3, JarSteps DEF Held, Args

\* A call comes to carry a token only from the jar it is sent with.
LEMMA ComesToCarry ==
    ASSUME Base, [ApiNext]_apiVars, NEW t \in Tokens, Carried(t)'
    PROVE  Carried(t) \/ (Held(t) /\ UNCHANGED <<sessions, directive, jar>>)
<1>0. ApiTypeOK
  BY DEF Base
<1>1. PICK q \in Requests : arg'[q] # NoArg /\ arg'[q].token = t
  BY DEF Carried
<1>2. CASE arg' = arg
  BY <1>1, <1>2 DEF Carried
<1>3. ASSUME NEW r \in Requests, NEW b \in Browsers, NEW op, NEW e, NEW c, Send(r, b, op, e, c)
      PROVE  Carried(t) \/ (Held(t) /\ UNCHANGED <<sessions, directive, jar>>)
  <2>1. UNCHANGED <<sessions, directive, jar>>
    BY <1>3 DEF Send, tableVars
  <2>2. CASE q # r
    BY <1>0, <1>1, <1>3, <2>2 DEF Send, ApiTypeOK, Carried
  <2>3. CASE q = r
    <3>1. CookieOf(b) = t
      BY <1>0, <1>1, <1>3, <2>3 DEF Send, ApiTypeOK
    <3> QED BY <2>1, <3>1, SessionAssumption DEF CookieOf, Held
  <2> QED BY <2>2, <2>3
<1>4. ASSUME NEW r \in Requests, Handles(r)
      PROVE  arg' = arg
  BY <1>4 DEF Handles, VerifyCode, CreateSession, Identify, Revoke, Authorize, InsertCheckout,
     Reject, Deliver, Lose, Respond, Proceed
<1>5. ASSUME NEW r, NEW e, NEW c, IssueCode(r, e, c)
      PROVE  arg' = arg
  BY <1>5 DEF IssueCode
<1>6. CASE TimePasses \/ UNCHANGED apiVars
  BY <1>2, <1>6 DEF TimePasses, apiVars, callVars
<1> QED BY <1>2, <1>3, <1>4, <1>5, <1>6, KindsOfStep

\* A response sets a token from the moment its session is created.
LEMMA ComesToSet ==
    ASSUME Base, [ApiNext]_apiVars, NEW r \in Requests, NEW t \in Tokens, Sets(r, t)'
    PROVE  \/ Sets(r, t) /\ ~Deliver(r)
           \/ /\ CreateSession(r) /\ sessions[t] = NoSession
              /\ sessions' = [sessions EXCEPT ![t] = NewSession(r)]
<1>0. ApiTypeOK
  BY DEF Base
<1>1. CASE Deliver(r) \/ Lose(r)
  BY <1>0, <1>1 DEF Deliver, Lose, Sets, ApiTypeOK
<1>2. CASE directive'[r] = directive[r]
  BY <1>1, <1>2 DEF Sets
<1>3. ASSUME NEW text, NEW header \in {keep, clear}, Respond(r, text, header)
      PROVE  FALSE
  BY <1>0, <1>3 DEF Respond, Sets, ApiTypeOK
<1>4. CASE CreateSession(r)
  <2>1. PICK s \in Tokens :
            /\ sessions[s] = NoSession
            /\ sessions' = [sessions EXCEPT ![s] = NewSession(r)]
            /\ \/ Respond(r, "ok", [cookie |-> "set", token |-> s, maxAge |-> SessionLifetime])
               \/ Respond(r, "error", keep)
    BY <1>4 DEF CreateSession
  <2>2. directive'[r] = [cookie |-> "set", token |-> s, maxAge |-> SessionLifetime]
    BY <1>0, <1>3, <2>1 DEF Respond, ApiTypeOK
  <2>3. s = t
    BY <2>2 DEF Sets
  <2> QED BY <1>4, <2>1, <2>3
<1>5. CASE VerifyCode(r) \/ Identify(r) \/ Revoke(r) \/ Authorize(r) \/ InsertCheckout(r) \/ Reject(r)
  BY <1>2, <1>3, <1>5 DEF VerifyCode, Identify, Revoke, Authorize, InsertCheckout, Reject, Proceed
<1>6. ASSUME NEW q \in Requests \ {r}, Handles(q)
      PROVE  directive'[r] = directive[r]
  BY <1>6, HandlesBase DEF OnlyCall
<1>7. ASSUME NEW q, NEW b, NEW op, NEW e, NEW c, Send(q, b, op, e, c) \/ IssueCode(q, e, c)
      PROVE  directive' = directive
  BY <1>7 DEF Send, IssueCode
<1>8. CASE TimePasses \/ UNCHANGED apiVars
  BY <1>2, <1>8 DEF TimePasses, apiVars, callVars
<1> QED BY <1>1, <1>2, <1>4, <1>5, <1>6, <1>7, <1>8, KindsOfStep DEF Handles

LEMMA TokensKept == Base /\ TokensInOrder /\ [ApiNext]_apiVars => TokensInOrder'
<1> SUFFICES ASSUME Base, TokensInOrder, [ApiNext]_apiVars PROVE TokensInOrder'
  OBVIOUS
<1>0. ApiTypeOK
  BY DEF Base
<1>1. ASSUME NEW t \in Tokens, Held(t)' \/ Carried(t)'
      PROVE  sessions'[t] # NoSession
  <2>1. sessions[t] # NoSession
    BY <1>1, ComesToHold, ComesToCarry DEF TokensInOrder
  <2> QED BY <2>1, RowsKept
<1>2. ASSUME NEW r \in Requests, NEW t \in Tokens, Sets(r, t)'
      PROVE  sessions'[t] # NoSession /\ sessions'[t].by = r /\ ~Held(t)' /\ ~Carried(t)'
  <2>1. CASE Sets(r, t) /\ ~Deliver(r)
    <3>1. sessions[t] # NoSession /\ sessions[t].by = r /\ ~Held(t) /\ ~Carried(t)
      BY <2>1 DEF TokensInOrder
    <3>2. \A q \in Requests : Deliver(q) => ~Sets(q, t)
      BY <2>1, <3>1 DEF TokensInOrder
    <3>3. ~Held(t)' /\ ~Carried(t)'
      BY <3>1, <3>2, ComesToHold, ComesToCarry
    <3> QED BY <3>1, <3>3, RowsKept
  <2>2. CASE /\ CreateSession(r) /\ sessions[t] = NoSession
             /\ sessions' = [sessions EXCEPT ![t] = NewSession(r)]
    <3>1. ~Held(t) /\ ~Carried(t)
      BY <2>2 DEF TokensInOrder
    <3>2. UNCHANGED <<jar, arg>>
      BY <2>2 DEF CreateSession, Respond
    <3>3. sessions'[t] = NewSession(r) /\ NewSession(r).by = r
      BY <1>0, <2>2 DEF ApiTypeOK, NewSession
    <3>4. sessions'[t] # NoSession
      <4>1. ApiTypeOK'
        BY NextBase DEF Base
      <4>2. user[r] \in Emails
        BY <2>2 DEF CreateSession, Base, CallsInOrder, InOrder
      <4>3. NewSession(r) \in SessionRows
        BY <1>0, <4>2, SessionAssumption DEF NewSession, SessionRows, ApiTypeOK
      <4> QED BY <3>3, <4>3, SessionAssumption
    <3> QED BY <3>1, <3>2, <3>3, <3>4 DEF Held, Carried
  <2> QED BY <1>2, <2>1, <2>2, ComesToSet
<1> QED BY <1>1, <1>2 DEF TokensInOrder

THEOREM TokensInOrderHolds == ApiSpec => []TokensInOrder
<1>1. ApiInit => TokensInOrder
  BY DEF ApiInit, TokensInOrder, Held, Carried, Sets
<1> QED BY <1>1, BaseHolds, TokensKept, PTL DEF ApiSpec

-----------------------------------------------------------------------------
(* Logout. *)

\* A logout that was answered with success has ended its session, and the answer
\* clears the cookie.
LogoutsInOrder ==
    \A l \in Requests :
        arg[l] # NoArg /\ arg[l].op = "logout" /\ status[l] = "ok" =>
            /\ arg[l].token # NoToken =>
                  sessions[arg[l].token] # NoSession /\ sessions[arg[l].token].revoked
            /\ pc[l] = "reply" => directive[l] = clear

LEMMA LogoutsKept ==
    Base /\ TokensInOrder /\ LogoutsInOrder /\ [ApiNext]_apiVars => LogoutsInOrder'
<1> SUFFICES ASSUME Base, TokensInOrder, LogoutsInOrder, [ApiNext]_apiVars,
                    NEW l \in Requests,
                    arg'[l] # NoArg, arg'[l].op = "logout", status'[l] = "ok"
             PROVE  /\ arg'[l].token # NoToken =>
                          sessions'[arg'[l].token] # NoSession /\ sessions'[arg'[l].token].revoked
                    /\ pc'[l] = "reply" => directive'[l] = clear
  BY DEF LogoutsInOrder
<1> DEFINE t == arg[l].token
<1>0. ApiTypeOK /\ InOrder(l)
  BY DEF Base, CallsInOrder
<1>1. /\ arg'[l] = arg[l] /\ arg[l] \in Args
      /\ status[l] = "ok" \/ (Revoke(l) /\ Respond(l, "ok", clear))
  BY LogsOut
<1>2. t \in Tokens \cup {NoToken} /\ arg[l] # NoArg
  BY <1>1, SessionAssumption DEF Args
<1>3. CASE status[l] = "ok"
  <2>1. /\ t # NoToken => sessions[t] # NoSession /\ sessions[t].revoked
        /\ pc[l] = "reply" => directive[l] = clear
    BY <1>1, <1>2, <1>3 DEF LogoutsInOrder
  <2>2. t # NoToken => sessions'[t] # NoSession /\ sessions'[t].revoked
    BY <1>2, <2>1, RowsKept
  <2>3. pc[l] \in Over
    BY <1>0, <1>2, <1>3, StepNames DEF InOrder, ApiTypeOK
  <2>4. pc'[l] = "reply" => pc[l] = "reply" /\ directive'[l] = directive[l]
    <3>1. CASE Handles(l)
      BY <1>0, <2>3, <3>1, StepNames DEF Handles, VerifyCode, CreateSession, Identify, Revoke,
         Authorize, InsertCheckout, Reject, Deliver, Lose, ApiTypeOK
    <3>2. ASSUME NEW q \in Requests \ {l}, Handles(q)
          PROVE  pc'[l] = pc[l] /\ directive'[l] = directive[l]
      BY <3>2, HandlesBase DEF OnlyCall
    <3>3. ASSUME NEW q, NEW b, NEW op, NEW e, NEW c, Send(q, b, op, e, c) \/ IssueCode(q, e, c)
          PROVE  directive' = directive /\ (pc'[l] = pc[l] \/ pc[l] = "idle")
      BY <1>0, <3>3 DEF Send, IssueCode, ApiTypeOK
    <3>4. CASE TimePasses \/ UNCHANGED apiVars
      BY <3>4 DEF TimePasses, apiVars, callVars
    <3> QED BY <2>3, <3>1, <3>2, <3>3, <3>4, StepNames, KindsOfStep
  <2> QED BY <1>1, <2>1, <2>2, <2>4
<1>4. CASE Revoke(l) /\ Respond(l, "ok", clear)
  <2>1. directive'[l] = clear
    BY <1>0, <1>4 DEF Respond, ApiTypeOK
  <2>2. ASSUME t # NoToken
        PROVE  sessions'[t] # NoSession /\ sessions'[t].revoked
    <3>1. t \in Tokens /\ sessions[t] \in SessionRows /\ sessions[t] # NoSession
      BY <1>0, <1>2, <2>2 DEF TokensInOrder, Carried, ApiTypeOK
    <3>2. RevokeSession(t)
      BY <1>4 DEF Revoke, sessionToken
    <3>3. sessions'[t].revoked
      <4>1. CASE sessions[t].revoked
        BY <3>1, <4>1, RowsKept
      <4>2. CASE ~sessions[t].revoked
        <5>1. sessions' = [sessions EXCEPT ![t].revoked = TRUE]
          BY <2>2, <3>1, <3>2, <4>2 DEF RevokeSession, Revocable
        <5>2. sessions'[t] = [sessions[t] EXCEPT !.revoked = TRUE]
          BY <1>0, <3>1, <5>1 DEF ApiTypeOK
        <5> QED BY <3>1, <5>2 DEF SessionRows
      <4> QED BY <4>1, <4>2
    <3> QED BY <3>1, <3>3, RowsKept
  <2> QED BY <1>1, <2>1, <2>2
<1> QED BY <1>1, <1>3, <1>4

THEOREM LogoutsInOrderHolds == ApiSpec => []LogoutsInOrder
<1>1. ApiInit => LogoutsInOrder
  BY DEF ApiInit, LogoutsInOrder
<1> QED BY <1>1, BaseHolds, TokensInOrderHolds, LogoutsKept, PTL DEF ApiSpec

LEMMA LogoutFinalKept ==
    Base /\ LogoutsInOrder /\ LogoutIsFinal /\ [ApiNext]_apiVars => LogoutIsFinal'
<1> SUFFICES ASSUME Base, LogoutsInOrder, LogoutIsFinal, [ApiNext]_apiVars,
                    NEW r \in Requests, NEW l \in Requests,
                    Authenticated(r)', l \in arg'[r].before,
                    arg'[l] # NoArg, arg'[l].op = "logout", status'[l] = "ok",
                    arg'[l].token = arg'[r].token
             PROVE  FALSE
  BY DEF LogoutIsFinal
<1>1. /\ arg'[r] = arg[r] /\ arg[r] \in Args
      /\ \/ Authenticated(r)
         \/ Valid(arg[r].token)
  BY Authenticates
<1>2. pc[l] \in Over
  BY <1>1, SessionAssumption DEF Base, CallsInOrder, InOrder
<1>3. arg'[l] = arg[l] /\ arg[l] # NoArg /\ status[l] = "ok"
  BY <1>2, LogsOut, StepNames, SessionAssumption DEF Revoke
<1>4. ~Authenticated(r)
  BY <1>1, <1>3 DEF LogoutIsFinal
<1> QED BY <1>1, <1>3, <1>4 DEF LogoutsInOrder, Valid

\* After a logout that was answered with success no call sent with the same
\* cookie is taken for its user, from whatever tab or retry it comes.
THEOREM LogoutIsFinalHolds == ApiSpec => []LogoutIsFinal
<1>1. ApiInit => LogoutIsFinal
  BY DEF ApiInit, LogoutIsFinal, Authenticated
<1> QED BY <1>1, BaseHolds, LogoutsInOrderHolds, LogoutFinalKept, PTL DEF ApiSpec

\* A call of which the browser hears was answered before, or carried nothing.
LEMMA ComesToHear ==
    ASSUME Base, [ApiNext]_apiVars, NEW l \in Requests, pc'[l] = "heard", arg'[l] # NoArg
    PROVE  pc[l] = "heard" \/ Deliver(l)
<1>0. ApiTypeOK /\ InOrder(l)
  BY DEF Base, CallsInOrder
<1>1. CASE pc'[l] = pc[l]
  BY <1>1
<1>2. CASE Handles(l) /\ ~Deliver(l)
  BY <1>0, <1>2, StepNames DEF Handles, VerifyCode, CreateSession, Identify, Revoke, Authorize,
     InsertCheckout, Reject, Lose, Respond, Proceed, ApiTypeOK
<1>3. ASSUME NEW q \in Requests \ {l}, Handles(q)
      PROVE  pc'[l] = pc[l]
  BY <1>3, HandlesBase DEF OnlyCall
<1>4. ASSUME NEW q \in Requests, NEW e, NEW c, IssueCode(q, e, c)
      PROVE  pc'[l] = pc[l]
  BY <1>0, <1>4 DEF IssueCode, ApiTypeOK, InOrder
<1>5. ASSUME NEW q \in Requests, NEW b, NEW op \in {"verify", "me", "logout", "checkout"},
             NEW e, NEW c, Send(q, b, op, e, c)
      PROVE  pc'[l] = pc[l]
  BY <1>0, <1>5 DEF Send, FirstStep, ApiTypeOK
<1>6. CASE TimePasses \/ UNCHANGED apiVars
  BY <1>1, <1>6 DEF TimePasses, apiVars, callVars
<1> QED BY <1>1, <1>2, <1>3, <1>4, <1>5, <1>6, KindsOfStep

LEMMA LogoutClearsKept ==
    Base /\ TokensInOrder /\ LogoutsInOrder /\ LogoutClears /\ [ApiNext]_apiVars => LogoutClears'
<1> SUFFICES ASSUME Base, TokensInOrder, LogoutsInOrder, LogoutClears, [ApiNext]_apiVars,
                    NEW l \in Requests,
                    arg'[l] # NoArg, arg'[l].op = "logout", status'[l] = "ok", pc'[l] = "heard",
                    arg'[l].token # NoToken, jar'[arg'[l].browser] # NoCookie,
                    jar'[arg'[l].browser].token = arg'[l].token
             PROVE  FALSE
  BY DEF LogoutClears
<1> DEFINE b == arg[l].browser
           t == arg[l].token
<1>0. ApiTypeOK
  BY DEF Base
<1>1. /\ arg'[l] = arg[l] /\ arg[l] \in Args /\ arg[l] # NoArg
      /\ b \in Browsers /\ t \in Tokens
  BY LogsOut, SessionAssumption DEF Args
<1>2. pc[l] = "heard" \/ Deliver(l)
  BY ComesToHear
<1>3. status[l] = "ok"
  <2>1. ~Revoke(l)
    BY <1>2 DEF Revoke, Deliver
  <2> QED BY <2>1, LogsOut
<1>4. CASE pc[l] = "heard"
  <2>1. jar[b] # NoCookie => jar[b].token # t
    BY <1>1, <1>3, <1>4, SessionAssumption DEF LogoutClears
  <2>2. ASSUME NEW x, jar' = [jar EXCEPT ![x] = NoCookie]
        PROVE  FALSE
    BY <1>0, <1>1, <2>1, <2>2 DEF ApiTypeOK
  <2>3. ASSUME NEW r \in Requests, NEW s \in Tokens, NEW n, NEW x, Sets(r, s),
               jar' = [jar EXCEPT ![x] = [token |-> s, until |-> n]]
        PROVE  FALSE
    <3>1. s # t
      BY <1>1, <2>3 DEF TokensInOrder, Carried
    <3> QED BY <1>0, <1>1, <2>1, <2>3, <3>1 DEF ApiTypeOK
  <2> QED BY <1>1, <2>1, <2>2, <2>3, JarSteps
<1>5. CASE Deliver(l)
  <2>1. directive[l] = clear
    BY <1>1, <1>3, <1>5 DEF LogoutsInOrder, Deliver
  <2>2. jar' = [jar EXCEPT ![b] = NoCookie]
    BY <1>5, <2>1 DEF Deliver, clear
  <2> QED BY <1>0, <1>1, <2>2 DEF ApiTypeOK
<1> QED BY <1>2, <1>4, <1>5

\* A browser that heard of a successful logout does not hold its cookie.
THEOREM LogoutClearsHolds == ApiSpec => []LogoutClears
<1>1. ApiInit => LogoutClears
  BY DEF ApiInit, LogoutClears
<1> QED
  BY <1>1, BaseHolds, TokensInOrderHolds, LogoutsInOrderHolds, LogoutClearsKept, PTL DEF ApiSpec

-----------------------------------------------------------------------------
(* Guests. *)

\* A checkout about to be written is a guest's if its call carried no cookie.
CheckoutsInOrder ==
    /\ \A r \in Requests : pc[r] = "insert" => (user[r] = Guest <=> arg[r].token = NoToken)
    /\ \A k \in checkouts : arg[k.by] # NoArg

LEMMA ComesToInsert ==
    ASSUME Base, [ApiNext]_apiVars, NEW r \in Requests, pc'[r] = "insert"
    PROVE  \/ pc[r] = "insert" /\ user'[r] = user[r]
           \/ Authorize(r) /\ Proceed(r, "insert", user'[r])
<1>0. ApiTypeOK
  BY DEF Base
<1>1. CASE pc'[r] = pc[r] /\ user'[r] = user[r]
  BY <1>1
<1>2. CASE Authorize(r)
  BY <1>0, <1>2 DEF Authorize, Respond, Proceed, ApiTypeOK
<1>3. CASE Handles(r) /\ ~Authorize(r)
  BY <1>0, <1>3 DEF Handles, VerifyCode, CreateSession, Identify, Revoke, InsertCheckout, Reject,
     Deliver, Lose, Respond, Proceed, ApiTypeOK
<1>4. ASSUME NEW q \in Requests \ {r}, Handles(q)
      PROVE  pc'[r] = pc[r] /\ user'[r] = user[r]
  BY <1>4, HandlesBase DEF OnlyCall
<1>5. ASSUME NEW q \in Requests, NEW b, NEW op \in {"verify", "me", "logout", "checkout"},
             NEW e, NEW c, Send(q, b, op, e, c) \/ IssueCode(q, e, c)
      PROVE  pc'[r] = pc[r] /\ user'[r] = user[r]
  BY <1>0, <1>5 DEF Send, IssueCode, FirstStep, ApiTypeOK
<1>6. CASE TimePasses \/ UNCHANGED apiVars
  BY <1>1, <1>6 DEF TimePasses, apiVars, callVars
<1> QED BY <1>1, <1>2, <1>3, <1>4, <1>5, <1>6, KindsOfStep

LEMMA ComesToBeStored ==
    ASSUME Base, [ApiNext]_apiVars
    PROVE  \/ checkouts' = checkouts
           \/ \E r \in Requests :
                 /\ pc[r] = "insert" /\ arg' = arg
                 /\ checkouts' = checkouts \cup {[by |-> r, user |-> user[r]]}
<1>1. ASSUME NEW r \in Requests, InsertCheckout(r)
      PROVE  /\ pc[r] = "insert" /\ arg' = arg
             /\ checkouts' = checkouts \cup {[by |-> r, user |-> user[r]]}
  BY <1>1 DEF InsertCheckout, Respond, NewCheckout
<1>2. ASSUME NEW r \in Requests, Handles(r), ~InsertCheckout(r)
      PROVE  checkouts' = checkouts
  BY <1>2 DEF Handles, VerifyCode, CreateSession, Identify, Revoke, Authorize, Reject, Deliver,
     Lose, tableVars
<1>3. ASSUME NEW q, NEW b, NEW op, NEW e, NEW c, Send(q, b, op, e, c) \/ IssueCode(q, e, c)
      PROVE  checkouts' = checkouts
  BY <1>3 DEF Send, IssueCode, tableVars
<1>4. CASE TimePasses \/ UNCHANGED apiVars
  BY <1>4 DEF TimePasses, apiVars, tableVars
<1> QED BY <1>1, <1>2, <1>3, <1>4, KindsOfStep

LEMMA GuestKept ==
    Base /\ CheckoutsInOrder /\ GuestMeansNoCookie /\ [ApiNext]_apiVars
        => CheckoutsInOrder' /\ GuestMeansNoCookie'
<1> SUFFICES ASSUME Base, CheckoutsInOrder, GuestMeansNoCookie, [ApiNext]_apiVars
             PROVE  CheckoutsInOrder' /\ GuestMeansNoCookie'
  OBVIOUS
<1>0. ApiTypeOK /\ CallsInOrder
  BY DEF Base
<1>1. ASSUME NEW r \in Requests, pc'[r] = "insert"
      PROVE  user'[r] = Guest <=> arg'[r].token = NoToken
  <2>1. CASE pc[r] = "insert" /\ user'[r] = user[r]
    <3>1. arg'[r] = arg[r]
      BY <2>1, ArgsKept
    <3> QED BY <2>1, <3>1 DEF CheckoutsInOrder
  <2>2. CASE Authorize(r) /\ Proceed(r, "insert", user'[r])
    <3>1. arg'[r] = arg[r] /\ pc[r] \in Steps
      BY <2>2 DEF Authorize, Proceed, Steps
    <3>2. ASSUME NEW u, Proceed(r, "insert", u)
          PROVE  user'[r] = u
      BY <1>0, <3>2 DEF Proceed, ApiTypeOK
    <3>3. ASSUME NEW text, Respond(r, text, keep)
          PROVE  FALSE
      BY <1>0, <1>1, <3>3 DEF Respond, ApiTypeOK
    <3>4. sessionToken(r) = arg[r].token
      BY DEF sessionToken
    <3>5. CASE arg[r].token = NoToken /\ Proceed(r, "insert", Guest)
      BY <3>1, <3>2, <3>5
    <3>6. CASE Valid(arg[r].token) /\ Proceed(r, "insert", SessionUser(arg[r].token))
      <4>1. user'[r] \in Emails /\ arg[r].token # NoToken
        BY <3>1, <3>2, <3>4, <3>6, TokenTyping DEF Valid
      <4> QED BY <3>1, <4>1, SessionAssumption
    <3> QED BY <2>2, <3>3, <3>4, <3>5, <3>6 DEF Authorize
  <2> QED BY <1>1, <2>1, <2>2, ComesToInsert
<1>2. ASSUME NEW k \in checkouts
      PROVE  arg'[k.by] # NoArg /\ (k.user = Guest <=> arg'[k.by].token = NoToken)
  <2>1. k.by \in Requests /\ arg[k.by] # NoArg /\ (k.user = Guest <=> arg[k.by].token = NoToken)
    BY <1>0 DEF CheckoutsInOrder, GuestMeansNoCookie, ApiTypeOK
  <2>2. arg'[k.by] = arg[k.by]
    BY <2>1, ArgsKept
  <2> QED BY <2>1, <2>2
<1>3. CASE checkouts' = checkouts
  BY <1>1, <1>2, <1>3 DEF CheckoutsInOrder, GuestMeansNoCookie
<1>4. ASSUME NEW r \in Requests, pc[r] = "insert", arg' = arg,
             checkouts' = checkouts \cup {[by |-> r, user |-> user[r]]}
      PROVE  CheckoutsInOrder' /\ GuestMeansNoCookie'
  <2> DEFINE new == [by |-> r, user |-> user[r]]
  <2>1. arg[r] # NoArg /\ (user[r] = Guest <=> arg[r].token = NoToken)
    BY <1>0, <1>4, StepNames DEF CallsInOrder, InOrder, CheckoutsInOrder
  <2>2. arg'[new.by] # NoArg /\ (new.user = Guest <=> arg'[new.by].token = NoToken)
    BY <1>4, <2>1
  <2> HIDE DEF new
  <2> QED BY <1>1, <1>2, <1>4, <2>2 DEF CheckoutsInOrder, GuestMeansNoCookie, new
<1> QED BY <1>3, <1>4, ComesToBeStored

\* A checkout is a guest's exactly if its call carried no cookie.
THEOREM GuestMeansNoCookieHolds == ApiSpec => []GuestMeansNoCookie
<1>1. ApiInit => CheckoutsInOrder /\ GuestMeansNoCookie
  BY DEF ApiInit, CheckoutsInOrder, GuestMeansNoCookie
<1> QED BY <1>1, BaseHolds, GuestKept, PTL DEF ApiSpec

-----------------------------------------------------------------------------
(* Sessions. *)

\* Each session is the only one of the call that opened it, which has redeemed a
\* code of its user and will not open another.
SessionsInOrder ==
    /\ \A t \in Tokens : sessions[t] # NoSession =>
          /\ pc[sessions[t].by] # "create"
          /\ redeemed[sessions[t].by] # NoOne
          /\ redeemed[sessions[t].by].email = sessions[t].user
          /\ \A o \in Tokens : sessions[o] # NoSession /\ sessions[o].by = sessions[t].by => o = t
    /\ \A r \in Requests : pc[r] = "create" => redeemed[r] # NoOne /\ redeemed[r].email = user[r]

LEMMA RedeemedKept ==
    ASSUME Base, [ApiNext]_apiVars, NEW r \in Requests
    PROVE  /\ redeemed[r] # NoOne => redeemed'[r] = redeemed[r]
           /\ pc'[r] = "create" =>
                 \/ pc[r] = "create" /\ user'[r] = user[r] /\ ~CreateSession(r)
                 \/ redeemed[r] = NoOne /\ redeemed'[r] # NoOne /\ redeemed'[r].email = user'[r]
<1>0. ApiTypeOK /\ redeemed \in [Requests -> Issuances \cup {NoOne}]
  BY DEF Base, ApiTypeOK, OTCTypeOK
<1>1. CASE pc'[r] = pc[r] /\ user'[r] = user[r] /\ redeemed' = redeemed /\ ~CreateSession(r)
  BY <1>1
<1>2. CASE VerifyCode(r)
  <2>1. ASSUME Redeem(r, arg[r].email, arg[r].code), Proceed(r, "create", arg[r].email)
        PROVE  /\ redeemed[r] = NoOne /\ redeemed'[r].email = user'[r]
               /\ redeemed'[r] # NoOne
    <3>1. arg[r].email \in Emails /\ arg[r].code \in Codes
      BY <1>2, StepNames DEF VerifyCode, Base, CallsInOrder, InOrder
    <3>2. /\ redeemed[r] = NoOne
          /\ redeemed'[r] = [by |-> current[arg[r].email].by, email |-> arg[r].email, code |-> arg[r].code]
      BY <1>0, <2>1 DEF Redeem
    <3>3. current[arg[r].email] \in Issuances
      BY <1>0, <2>1, <3>1 DEF Redeem, ApiTypeOK, OTCTypeOK
    <3>4. redeemed'[r] \in Issuances
      BY <3>1, <3>2, <3>3 DEF Issuances
    <3>5. user'[r] = arg[r].email
      BY <1>0, <2>1 DEF Proceed, ApiTypeOK
    <3>6. redeemed'[r] # NoOne
      BY <3>4, OTCAssumption DEF OTCAssumption
    <3>7. redeemed'[r].email = arg[r].email
      BY <3>2
    <3> QED BY <3>2, <3>5, <3>6, <3>7
  <2>2. ASSUME Respond(r, "refused", keep), UNCHANGED otcVars
        PROVE  redeemed' = redeemed /\ pc'[r] # "create"
    BY <1>0, <2>2 DEF Respond, otcVars, ApiTypeOK
  <2> QED BY <1>2, <2>1, <2>2 DEF VerifyCode
<1>3. CASE Handles(r) /\ ~VerifyCode(r)
  <2>1. redeemed' = redeemed
    BY <1>3 DEF Handles, CreateSession, Identify, Revoke, Authorize, InsertCheckout, Reject,
       Deliver, Lose, otcVars
  <2>2. pc'[r] # "create"
    BY <1>0, <1>3 DEF Handles, CreateSession, Identify, Revoke, Authorize, InsertCheckout, Reject,
       Deliver, Lose, Respond, Proceed, ApiTypeOK
  <2> QED BY <2>1, <2>2
<1>4. ASSUME NEW q \in Requests \ {r}, Handles(q)
      PROVE  /\ pc'[r] = pc[r] /\ user'[r] = user[r] /\ redeemed'[r] = redeemed[r]
             /\ pc[r] = "create" => ~CreateSession(r)
  <2>1. pc'[r] = pc[r] /\ user'[r] = user[r]
    BY <1>4, HandlesBase DEF OnlyCall
  <2>2. redeemed'[r] = redeemed[r]
    BY <1>0, <1>4 DEF Handles, VerifyCode, CreateSession, Identify, Revoke, Authorize,
       InsertCheckout, Reject, Deliver, Lose, otcVars, Redeem
  <2>3. ~CreateSession(r)
    BY <1>0, <2>1 DEF CreateSession, Respond, ApiTypeOK
  <2> QED BY <2>1, <2>2, <2>3
<1>5. ASSUME NEW q \in Requests, NEW b, NEW op \in {"verify", "me", "logout", "checkout"},
             NEW e, NEW c, Send(q, b, op, e, c) \/ IssueCode(q, e, c)
      PROVE  /\ pc'[r] = pc[r] \/ pc'[r] # "create"
             /\ user' = user /\ redeemed' = redeemed
  <2>1. CASE Send(q, b, op, e, c)
    <3>1. FirstStep[op] # "create"
      BY DEF FirstStep
    <3>2. pc'[r] = pc[r] \/ pc'[r] = FirstStep[op]
      BY <1>0, <2>1 DEF Send, ApiTypeOK
    <3> QED BY <2>1, <3>1, <3>2 DEF Send, otcVars
  <2>2. CASE IssueCode(q, e, c)
    <3>1. pc'[r] = pc[r] \/ pc'[r] = "heard"
      BY <1>0, <2>2 DEF IssueCode, ApiTypeOK
    <3> QED BY <2>2, <3>1 DEF IssueCode, Issue
  <2> QED BY <1>5, <2>1, <2>2
<1>6. ASSUME TimePasses \/ UNCHANGED apiVars
      PROVE  UNCHANGED <<pc, user, redeemed>>
  BY <1>6 DEF TimePasses, apiVars, callVars, otcVars
<1>7. CreateSession(r) => pc'[r] # "create"
  BY <1>0 DEF CreateSession, Respond, ApiTypeOK
<1> QED BY <1>1, <1>2, <1>3, <1>4, <1>5, <1>6, <1>7, KindsOfStep

LEMMA ComesToBeOpened ==
    ASSUME Base, [ApiNext]_apiVars, NEW t \in Tokens, sessions'[t] # NoSession
    PROVE  \/ sessions[t] # NoSession
           \/ \E r \in Requests :
                 /\ pc[r] = "create" /\ CreateSession(r)
                 /\ sessions' = [sessions EXCEPT ![t] = NewSession(r)]
                 /\ UNCHANGED <<redeemed, user>>
<1>0. sessions \in [Tokens -> SessionRows \cup {NoSession}]
  BY DEF Base, ApiTypeOK
<1>1. ASSUME NEW r \in Requests, CreateSession(r), sessions[t] = NoSession
      PROVE  /\ pc[r] = "create"
             /\ sessions' = [sessions EXCEPT ![t] = NewSession(r)]
             /\ UNCHANGED <<redeemed, user>>
  BY <1>0, <1>1 DEF CreateSession, otcVars
<1>2. ASSUME NEW r \in Requests, Revoke(r), sessions[t] = NoSession
      PROVE  FALSE
  BY <1>0, <1>2 DEF Revoke, RevokeSession, Revocable
<1>3. ASSUME NEW r \in Requests, Handles(r), ~CreateSession(r), ~Revoke(r)
      PROVE  sessions' = sessions
  BY <1>3 DEF Handles, VerifyCode, Identify, Authorize, InsertCheckout, Reject, Deliver, Lose, tableVars
<1>4. ASSUME NEW r, NEW b, NEW op, NEW e, NEW c, Send(r, b, op, e, c) \/ IssueCode(r, e, c)
      PROVE  sessions' = sessions
  BY <1>4 DEF Send, IssueCode, tableVars
<1>5. CASE TimePasses \/ UNCHANGED apiVars
  BY <1>5 DEF TimePasses, apiVars, tableVars
<1> QED BY <1>1, <1>2, <1>3, <1>4, <1>5, KindsOfStep

LEMMA SessionsKept == Base /\ SessionsInOrder /\ [ApiNext]_apiVars => SessionsInOrder'
<1> SUFFICES ASSUME Base, SessionsInOrder, [ApiNext]_apiVars PROVE SessionsInOrder'
  OBVIOUS
<1>0. ApiTypeOK /\ sessions \in [Tokens -> SessionRows \cup {NoSession}]
  BY DEF Base, ApiTypeOK
<1>1. ASSUME NEW r \in Requests, pc'[r] = "create"
      PROVE  redeemed'[r] # NoOne /\ redeemed'[r].email = user'[r]
  BY <1>1, RedeemedKept DEF SessionsInOrder
<1>2. ASSUME NEW t \in Tokens, sessions[t] # NoSession
      PROVE  /\ sessions'[t].by = sessions[t].by
             /\ pc'[sessions'[t].by] # "create"
             /\ redeemed'[sessions'[t].by] # NoOne
             /\ redeemed'[sessions'[t].by].email = sessions'[t].user
  <2>1. /\ sessions[t].by \in Requests
        /\ pc[sessions[t].by] # "create"
        /\ redeemed[sessions[t].by] # NoOne
        /\ redeemed[sessions[t].by].email = sessions[t].user
    BY <1>0, <1>2 DEF SessionsInOrder, SessionRows
  <2>2. sessions'[t].by = sessions[t].by /\ sessions'[t].user = sessions[t].user
    BY <1>2, RowsKept
  <2> QED BY <2>1, <2>2, RedeemedKept
<1>3. CASE \A t \in Tokens : sessions'[t] # NoSession => sessions[t] # NoSession
  BY <1>1, <1>2, <1>3 DEF SessionsInOrder
<1>4. ASSUME NEW t \in Tokens, NEW r \in Requests,
             pc[r] = "create", CreateSession(r),
             sessions' = [sessions EXCEPT ![t] = NewSession(r)],
             sessions[t] = NoSession, UNCHANGED <<redeemed, user>>
      PROVE  SessionsInOrder'
  <2>1. sessions'[t].by = r /\ sessions'[t].user = user[r]
    BY <1>0, <1>4 DEF NewSession
  <2>2. redeemed'[r] # NoOne /\ redeemed'[r].email = user[r]
    BY <1>4 DEF SessionsInOrder
  <2>3. pc'[r] # "create"
    BY <1>0, <1>4 DEF CreateSession, Respond, ApiTypeOK
  <2>4. \A o \in Tokens \ {t} : sessions'[o] = sessions[o]
    BY <1>0, <1>4
  <2>5. \A o \in Tokens : sessions[o] # NoSession => sessions[o].by # r
    BY <1>4 DEF SessionsInOrder
  <2>6. \A o \in Tokens, x \in Tokens :
            sessions'[o] # NoSession /\ sessions'[x] # NoSession /\ sessions'[o].by = sessions'[x].by => o = x
    BY <2>1, <2>4, <2>5 DEF SessionsInOrder
  <2>7. ASSUME NEW o \in Tokens, sessions'[o] # NoSession
        PROVE  /\ pc'[sessions'[o].by] # "create"
               /\ redeemed'[sessions'[o].by] # NoOne
               /\ redeemed'[sessions'[o].by].email = sessions'[o].user
    BY <1>2, <2>1, <2>2, <2>3, <2>4, <2>7
  <2> QED BY <1>1, <2>6, <2>7 DEF SessionsInOrder
<1> QED BY <1>3, <1>4, ComesToBeOpened

\* Every session was opened with a code of its user, and no code opened two.
THEOREM SessionsAreEarnedHolds == ApiSpec => []SessionsAreEarned
<1>1. ApiInit => SessionsInOrder
  BY DEF ApiInit, SessionsInOrder
<1>2. Base /\ SessionsInOrder => SessionsAreEarned
  BY DEF Base, ApiTypeOK, SessionRows, OTCInv, AtMostOnce, SessionsInOrder, SessionsAreEarned
<1> QED BY <1>1, <1>2, BaseHolds, SessionsKept, PTL DEF ApiSpec

-----------------------------------------------------------------------------
(* Where users are logged in. *)

\* Logins stay where they were made: a session is of the email that its login
\* submitted, a browser holds a cookie only since it had the answer of its own
\* login, and what carries the cookie was sent by that browser later.
CookiesAtHome ==
    /\ \A r \in Requests : pc[r] = "create" => user[r] = arg[r].email
    /\ \A t \in Tokens : sessions[t] # NoSession =>
          LET v == sessions[t].by
          IN  arg[v] # NoArg /\ arg[v].op = "verify" /\ arg[v].email = sessions[t].user
    /\ \A b \in Browsers : jar[b] # NoCookie =>
          LET v == sessions[jar[b].token].by
          IN  pc[v] = "heard" /\ arg[v].browser = b
    /\ \A r \in Requests : arg[r] # NoArg /\ arg[r].token # NoToken =>
          LET v == sessions[arg[r].token].by
          IN  v \in arg[r].before /\ arg[v].browser = arg[r].browser

\* A call opens a session only for the email it submitted, and once its answer
\* has been heard this stays so.
LEMMA ComesToCreate ==
    ASSUME Base, [ApiNext]_apiVars, NEW r \in Requests
    PROVE  /\ pc'[r] = "create" =>
                 \/ pc[r] = "create" /\ user'[r] = user[r]
                 \/ user'[r] = arg[r].email
           /\ pc[r] = "heard" => pc'[r] = "heard"
<1>0. ApiTypeOK /\ InOrder(r)
  BY DEF Base, CallsInOrder
<1>1. CASE pc'[r] = pc[r] /\ user'[r] = user[r]
  BY <1>1
<1>2. CASE VerifyCode(r)
  BY <1>0, <1>2 DEF VerifyCode, Proceed, Respond, ApiTypeOK
<1>3. CASE Handles(r) /\ ~VerifyCode(r)
  BY <1>0, <1>3, StepNames DEF Handles, CreateSession, Identify, Revoke, Authorize, InsertCheckout, Reject,
     Deliver, Lose, Proceed, Respond, ApiTypeOK
<1>4. ASSUME NEW q \in Requests \ {r}, Handles(q)
      PROVE  pc'[r] = pc[r] /\ user'[r] = user[r]
  BY <1>4, HandlesBase DEF OnlyCall
<1>5. ASSUME NEW q \in Requests, NEW b, NEW op \in {"verify", "me", "logout", "checkout"}, NEW e, NEW c,
             Send(q, b, op, e, c)
      PROVE  (pc'[r] = pc[r] \/ (pc[r] = "idle" /\ pc'[r] # "create")) /\ user'[r] = user[r]
  <2>1. pc' = [pc EXCEPT ![q] = FirstStep[op]] /\ pc[q] = "idle" /\ user' = user
    BY <1>5 DEF Send
  <2>2. FirstStep[op] # "create"
    BY DEF FirstStep
  <2>3. pc'[r] = IF q = r THEN FirstStep[op] ELSE pc[r]
    BY <1>0, <2>1 DEF ApiTypeOK
  <2> QED BY <2>1, <2>2, <2>3
<1>6. ASSUME NEW q \in Requests, NEW e, NEW c, IssueCode(q, e, c)
      PROVE  (pc'[r] = pc[r] \/ pc'[r] = "heard") /\ user'[r] = user[r]
  BY <1>0, <1>6 DEF IssueCode, ApiTypeOK
<1>7. CASE TimePasses \/ UNCHANGED apiVars
  BY <1>1, <1>7 DEF TimePasses, apiVars, callVars
<1> QED BY <1>2, <1>3, <1>4, <1>5, <1>6, <1>7, KindsOfStep

\* A call is sent with the cookie of its browser and knows the calls that are
\* over; nothing else happens then.
LEMMA ComesToBeSent ==
    ASSUME Base, [ApiNext]_apiVars, NEW r \in Requests, arg'[r] # NoArg
    PROVE  \/ arg'[r] = arg[r]
           \/ \E b \in Browsers :
                 /\ arg'[r].browser = b
                 /\ arg'[r].token = CookieOf(b)
                 /\ arg'[r].before = {q \in Requests : pc[q] \in Over}
                 /\ \A q \in Requests \ {r} : arg'[q] = arg[q]
                 /\ arg[r] = NoArg /\ sessions' = sessions
<1>0. ApiTypeOK /\ InOrder(r)
  BY DEF Base, CallsInOrder
<1>1. ASSUME NEW q \in Requests, NEW b \in Browsers, NEW op, NEW e, NEW c, Send(q, b, op, e, c)
      PROVE  \/ arg'[r] = arg[r]
             \/ /\ arg'[r].browser = b
                /\ arg'[r].token = CookieOf(b)
                /\ arg'[r].before = {p \in Requests : pc[p] \in Over}
                /\ \A p \in Requests \ {r} : arg'[p] = arg[p]
                /\ arg[r] = NoArg /\ sessions' = sessions
  <2>1. CASE q # r
    BY <1>0, <1>1, <2>1 DEF Send, ApiTypeOK
  <2>2. CASE q = r
    <3>1. arg'[r] = [op |-> op, browser |-> b, email |-> e, code |-> c, token |-> CookieOf(b),
                     at |-> clock, before |-> {p \in Requests : pc[p] \in Over}]
      BY <1>0, <1>1, <2>2 DEF Send, ApiTypeOK
    <3>2. \A p \in Requests \ {r} : arg'[p] = arg[p]
      BY <1>0, <1>1, <2>2 DEF Send, ApiTypeOK
    <3>3. arg[r] = NoArg /\ sessions' = sessions
      BY <1>0, <1>1, <2>2 DEF Send, InOrder, tableVars
    <3> QED BY <3>1, <3>2, <3>3
  <2> QED BY <2>1, <2>2
<1>2. ASSUME NEW q \in Requests, Handles(q)
      PROVE  arg' = arg
  BY <1>2 DEF Handles, VerifyCode, CreateSession, Identify, Revoke, Authorize, InsertCheckout,
     Reject, Deliver, Lose, Respond, Proceed
<1>3. ASSUME NEW q, NEW e, NEW c, IssueCode(q, e, c)
      PROVE  arg' = arg
  BY <1>3 DEF IssueCode
<1>4. CASE TimePasses \/ UNCHANGED apiVars
  BY <1>4 DEF TimePasses, apiVars, callVars
<1> QED BY <1>1, <1>2, <1>3, <1>4, KindsOfStep

LEMMA CookiesKept ==
    Base /\ TokensInOrder /\ CookiesAtHome /\ [ApiNext]_apiVars => CookiesAtHome'
<1> SUFFICES ASSUME Base, TokensInOrder, CookiesAtHome, [ApiNext]_apiVars PROVE CookiesAtHome'
  OBVIOUS
<1>0. ApiTypeOK /\ sessions \in [Tokens -> SessionRows \cup {NoSession}]
      /\ jar \in [Browsers -> Cookies \cup {NoCookie}] /\ arg \in [Requests -> Args \cup {NoArg}]
  BY DEF Base, ApiTypeOK
<1>1. ASSUME NEW r \in Requests, arg[r] # NoArg
      PROVE  arg'[r] = arg[r]
  BY <1>1, ArgsKept
<1>2. ASSUME NEW t \in Tokens, sessions[t] # NoSession
      PROVE  /\ sessions[t].by \in Requests /\ arg[sessions[t].by] # NoArg
             /\ sessions'[t].by = sessions[t].by /\ sessions'[t].user = sessions[t].user
             /\ arg'[sessions[t].by] = arg[sessions[t].by]
  <2>1. sessions[t].by \in Requests /\ arg[sessions[t].by] # NoArg
    BY <1>0, <1>2 DEF SessionRows, CookiesAtHome
  <2> QED BY <1>1, <1>2, <2>1, RowsKept
<1>3. ASSUME NEW r \in Requests, pc'[r] = "create"
      PROVE  user'[r] = arg'[r].email
  <2>1. arg'[r] = arg[r]
    <3>1. user'[r] \in Emails
      BY <1>3, NextBase DEF Base, CallsInOrder, InOrder
    <3> QED BY <3>1, ArgsKept, SessionAssumption
  <2> QED BY <1>3, <2>1, ComesToCreate DEF CookiesAtHome
<1>4. ASSUME NEW t \in Tokens, sessions'[t] # NoSession
      PROVE  /\ arg'[sessions'[t].by] # NoArg
             /\ arg'[sessions'[t].by].op = "verify"
             /\ arg'[sessions'[t].by].email = sessions'[t].user
  <2>1. CASE sessions[t] # NoSession
    BY <1>2, <2>1 DEF CookiesAtHome
  <2>2. ASSUME NEW r \in Requests, pc[r] = "create", sessions' = [sessions EXCEPT ![t] = NewSession(r)]
        PROVE  /\ sessions'[t].by = r /\ sessions'[t].user = arg[r].email
               /\ arg'[r] = arg[r] /\ arg[r] # NoArg /\ arg[r].op = "verify"
    <3>1. sessions'[t].by = r /\ sessions'[t].user = user[r]
      BY <1>0, <2>2 DEF NewSession
    <3>2. arg[r] # NoArg /\ arg[r].op = "verify" /\ user[r] = arg[r].email
      BY <2>2, StepNames DEF Base, CallsInOrder, InOrder, CookiesAtHome
    <3> QED BY <1>1, <3>1, <3>2
  <2> QED BY <1>4, <2>1, <2>2, ComesToBeOpened
<1>5. ASSUME NEW b \in Browsers, jar'[b] = jar[b], jar[b] # NoCookie
      PROVE  /\ pc'[sessions'[jar'[b].token].by] = "heard"
             /\ arg'[sessions'[jar'[b].token].by].browser = b
  <2> DEFINE t == jar[b].token
  <2>1. t \in Tokens /\ sessions[t] # NoSession
    BY <1>0, <1>5 DEF Cookies, TokensInOrder, Held
  <2>2. pc[sessions[t].by] = "heard" /\ arg[sessions[t].by].browser = b
    BY <1>5 DEF CookiesAtHome
  <2> QED BY <1>2, <1>5, <2>1, <2>2, ComesToCreate
<1>6. ASSUME NEW r \in Requests, NEW t \in Tokens, Deliver(r), Sets(r, t)
      PROVE  /\ sessions'[t].by = r /\ pc'[r] = "heard" /\ arg'[r] = arg[r]
  <2>1. sessions[t] # NoSession /\ sessions[t].by = r
    BY <1>6 DEF TokensInOrder
  <2> QED BY <1>0, <1>2, <1>6, <2>1 DEF Deliver, ApiTypeOK
<1>7. ASSUME NEW b \in Browsers, jar'[b] # NoCookie
      PROVE  /\ pc'[sessions'[jar'[b].token].by] = "heard"
             /\ arg'[sessions'[jar'[b].token].by].browser = b
  <2>1. ASSUME NEW x \in Browsers, jar' = [jar EXCEPT ![x] = NoCookie]
        PROVE  jar'[b] = jar[b]
    BY <1>0, <1>7, <2>1
  <2>2. ASSUME NEW r \in Requests, NEW t \in Tokens, NEW n \in Nat, Deliver(r), arg[r] \in Args, Sets(r, t),
               jar' = [jar EXCEPT ![arg[r].browser] = [token |-> t, until |-> n]]
        PROVE  jar'[b] = jar[b] \/ (arg[r].browser = b /\ jar'[b].token = t)
    BY <1>0, <2>2 DEF Args
  <2>3. ASSUME NEW r \in Requests, Deliver(r), arg[r] \in Args, directive[r] = clear,
               jar' = [jar EXCEPT ![arg[r].browser] = NoCookie]
        PROVE  jar'[b] = jar[b]
    BY <2>1, <2>3 DEF Args
  <2>4. ASSUME NEW r \in Requests, NEW t \in Tokens, Deliver(r), Sets(r, t), arg[r].browser = b,
               jar'[b].token = t
        PROVE  /\ pc'[sessions'[jar'[b].token].by] = "heard"
               /\ arg'[sessions'[jar'[b].token].by].browser = b
    BY <1>6, <2>4
  <2>5. \/ jar'[b] = jar[b]
        \/ \E r \in Requests, t \in Tokens :
              Deliver(r) /\ Sets(r, t) /\ arg[r].browser = b /\ jar'[b].token = t
    BY <2>2, <2>3, JarSteps
  <2> QED BY <1>5, <1>7, <2>4, <2>5
<1>8. ASSUME NEW r \in Requests, arg'[r] # NoArg, arg'[r].token # NoToken
      PROVE  /\ sessions'[arg'[r].token].by \in arg'[r].before
             /\ arg'[sessions'[arg'[r].token].by].browser = arg'[r].browser
  <2>1. CASE arg'[r] = arg[r]
    <3> DEFINE t == arg[r].token
    <3>1. t \in Tokens /\ sessions[t] # NoSession
      BY <1>0, <1>8, <2>1 DEF Args, TokensInOrder, Carried
    <3>2. sessions[t].by \in arg[r].before /\ arg[sessions[t].by].browser = arg[r].browser
      BY <1>8, <2>1 DEF CookiesAtHome
    <3> QED BY <1>2, <2>1, <3>1, <3>2
  <2>2. ASSUME NEW b \in Browsers,
               arg'[r].browser = b, arg'[r].token = CookieOf(b),
               arg'[r].before = {q \in Requests : pc[q] \in Over},
               sessions' = sessions
        PROVE  /\ sessions'[arg'[r].token].by \in arg'[r].before
               /\ arg'[sessions'[arg'[r].token].by].browser = arg'[r].browser
    <3> DEFINE t == jar[b].token
    <3>1. jar[b] # NoCookie /\ arg'[r].token = t
      BY <1>8, <2>2 DEF CookieOf
    <3>2. t \in Tokens /\ sessions[t] # NoSession
      BY <1>0, <3>1 DEF Cookies, TokensInOrder, Held
    <3>3. pc[sessions[t].by] = "heard" /\ arg[sessions[t].by].browser = b
      BY <3>1 DEF CookiesAtHome
    <3> QED BY <1>2, <2>2, <3>1, <3>2, <3>3, StepNames
  <2> QED BY <1>8, <2>1, <2>2, ComesToBeSent
<1> QED BY <1>3, <1>4, <1>7, <1>8 DEF CookiesAtHome

\* A cookie is held and sent only by the browser whose login it answers.
THEOREM CookiesAtHomeHolds == ApiSpec => []CookiesAtHome
<1>1. ApiInit => CookiesAtHome
  BY DEF ApiInit, CookiesAtHome
<1> QED BY <1>1, BaseHolds, TokensInOrderHolds, CookiesKept, PTL DEF ApiSpec

=============================================================================
