------------------------------- MODULE Authix -------------------------------
(***************************************************************************)
(* The API process as a whole: the handlers of                             *)
(* src/backend/internal/handlers/api.go (the actions of SessionApi) on top  *)
(* of the one-time codes of src/backend/internal/services/auth.go           *)
(* (AuthService) and its limiter (AttemptLimiter), as wired together by     *)
(* src/backend/cmd/api/main.go.                                            *)
(*                                                                         *)
(* Where SessionApi takes one step from a submitted code to its acceptance  *)
(* or refusal, here the Verify handler waits for VerifyOTP while that takes *)
(* its own steps among those of all other calls, and comes back to its      *)
(* answer later.  The process may stop in between.                          *)
(***************************************************************************)
EXTENDS AuthService

CONSTANTS
    Browsers,           \* clients with a cookie jar
    Tokens,             \* session tokens
    SessionLifetime,    \* defaultSessionLifetime, in clock ticks
    NoToken,            \* no cookie in the request
    NoCookie,           \* an empty jar
    NoSession,          \* no row with this token hash
    NoArg,              \* the arguments of a call that was not sent
    Guest               \* user_id NULL

VARIABLES
    sessions,   \* table sessions
    checkouts,  \* table checkouts
    jar,        \* the cookie each browser holds
    stage,      \* where the handler and the network are with each call
    arg,        \* what it was sent with
    user,       \* the user its handler works for
    status,     \* what it answered
    directive,  \* the Set-Cookie header of its response
    killed      \* calls whose handler stopped together with its process

serverVars == <<sessions, checkouts, jar, stage, arg, user, status, directive>>
authixVars == <<authVars, serverVars, killed>>

\* The handlers, for a call that stands at its stage.
Hdl == INSTANCE SessionApi
       WITH pc <- stage,
            current <- currentBar, issued <- issuedBar, redeemed <- redeemedBar

ASSUME AuthixAssumption ==
    /\ SessionLifetime \in Nat \ {0}
    /\ NoToken \notin Tokens
    /\ NoOne \notin Emails
    /\ Guest \notin Emails
    /\ NoSession \notin Hdl!SessionRows
    /\ NoCookie \notin Hdl!Cookies
    /\ NoArg \notin Hdl!Args

-----------------------------------------------------------------------------
AuthixInit ==
    /\ AuthInit
    /\ Hdl!ApiInit
    /\ killed = {}

\* A browser sends a call that concerns sessions.
Send(r) ==
    /\ pc[r] = "idle"
    /\ UNCHANGED <<authVars, killed>>
    /\ \E b \in Browsers :
          \/ \E e \in Emails, c \in Codes : Hdl!Send(r, b, "verify", e, c)
          \/ \E op \in {"me", "logout", "checkout"} : Hdl!Send(r, b, op, NoOne, NoCode)

\* A handler goes on, with the session and checkout services only.
HandlerStep(r) ==
    /\ r \notin killed
    /\ UNCHANGED <<authVars, killed>>
    /\ \/ Hdl!CreateSession(r)
       \/ Hdl!Identify(r)
       \/ Hdl!Revoke(r)
       \/ Hdl!Authorize(r)
       \/ Hdl!InsertCheckout(r)
       \/ Hdl!Reject(r)

\* A response arrives, or a call is lost; one that VerifyOTP works on is lost
\* to its browser when VerifyOTP is done with it.
NetworkStep(r) ==
    /\ stage[r] = "verify" => pc[r] \in {"idle", "done"}
    /\ UNCHANGED <<authVars, killed>>
    /\ Hdl!Deliver(r) \/ Hdl!Lose(r)

\* Register and Reissue call their service, Verify calls VerifyOTP with the
\* email and the code of the request.
CallService(r) ==
    /\ \/ /\ stage[r] = "idle"
          /\ \/ Refuse(r)
             \/ \E e \in Emails, c \in Codes : RegisterStart(r, e, c) \/ ReissueFind(r, e, c)
       \/ /\ stage[r] = "verify"
          /\ Refuse(r) \/ VerifyIsLimited(r, arg[r].email, arg[r].code)
    /\ UNCHANGED <<serverVars, killed>>

\* The service goes on with a call.
ServiceStep(r) ==
    /\ \/ RegisterInsert(r)
       \/ VerifyFind(r)
       \/ VerifyCheck(r)
       \/ VerifyConsume(r)
       \/ VerifyRecord(r)
       \/ DatabaseError(r)
    /\ UNCHANGED <<serverVars, killed>>

\* Register and Reissue end with the code stored; what they answer is theirs
\* alone and touches no session.
StoreCode(r) ==
    /\ UpdateOTP(r)
    /\ stage' = [stage EXCEPT ![r] = "heard"]
    /\ UNCHANGED <<sessions, checkouts, jar, arg, user, status, directive, killed>>

\* Mutant: an error that is not one of the known ones is a refusal as well.
statusAlwaysRefused(text) == "refused"

\* writeServiceError: a statement that failed is a 500, everything else that
\* VerifyOTP returns is one of the refusals 400, 401 and 429.
statusOf(text) == IF text = "failed" THEN "error" ELSE "refused"

\* Mutant: Verify goes on whatever the error, as long as the code was right.
VerifyReturnsUnchecked(r) ==
    /\ r \notin killed
    /\ stage[r] = "verify" /\ pc[r] = "done" /\ reply[r] # "lost"
    /\ UNCHANGED <<authVars, sessions, checkouts, jar, killed>>
    /\ \/ /\ reply[r] \in {"verified", "rateLimited"} /\ call[r] # NoCall
          /\ Hdl!Proceed(r, "create", call[r].email)
       \/ /\ reply[r] \notin {"verified", "rateLimited"}
          /\ Hdl!Respond(r, statusOf(reply[r]), Hdl!keep)
          /\ UNCHANGED user

\* Mutant: a statement of VerifyOTP that failed is taken for its consent.
VerifyReturnsOpen(r) ==
    /\ r \notin killed
    /\ stage[r] = "verify" /\ pc[r] = "done" /\ reply[r] # "lost"
    /\ UNCHANGED <<authVars, sessions, checkouts, jar, killed>>
    /\ \/ /\ reply[r] \in {"verified", "failed"}
          /\ Hdl!Proceed(r, "create", arg[r].email)
       \/ /\ reply[r] \notin {"verified", "failed"}
          /\ Hdl!Respond(r, statusOf(reply[r]), Hdl!keep)
          /\ UNCHANGED user

\* VerifyOTP returns to Verify: an error is the answer, otherwise a session is
\* created for the user it returned.
VerifyReturns(r) ==
    /\ r \notin killed
    /\ stage[r] = "verify" /\ pc[r] = "done" /\ reply[r] # "lost"
    /\ UNCHANGED <<authVars, sessions, checkouts, jar, killed>>
    /\ \/ /\ reply[r] = "verified"
          /\ Hdl!Proceed(r, "create", call[r].email)
       \/ /\ reply[r] # "verified"
          /\ Hdl!Respond(r, statusOf(reply[r]), Hdl!keep)
          /\ UNCHANGED user

\* The handlers that are past their first step.
AtWork == {r \in Requests :
    stage[r] \in {"create", "insert"} \/ (stage[r] = "verify" /\ pc[r] # "idle")}

\* The process stops, with all its handlers, and starts again.
Stop ==
    /\ Restart
    /\ killed' = killed \cup AtWork
    /\ UNCHANGED serverVars

Elapse ==
    /\ TimePasses
    /\ UNCHANGED <<serverVars, killed>>

AuthixNext ==
    \/ \E r \in Requests :
          \/ Send(r)
          \/ HandlerStep(r)
          \/ NetworkStep(r)
          \/ CallService(r)
          \/ ServiceStep(r)
          \/ StoreCode(r)
          \/ VerifyReturns(r)
    \/ Stop
    \/ Elapse

AuthixSpec == AuthixInit /\ [][AuthixNext]_authixVars

-----------------------------------------------------------------------------
(* What is left when the steps of VerifyOTP are hidden: SessionApi.  A      *)
(* submission is accepted when its code is consumed, although the handler   *)
(* hears of it later, if at all.                                           *)

Accepted(r) == redeemed[r] # NoOne

stageBar ==
    [r \in Requests |-> IF stage[r] = "verify" /\ Accepted(r) THEN "create" ELSE stage[r]]

userBar == [r \in Requests |-> IF Accepted(r) THEN arg[r].email ELSE user[r]]

\* SessionApi tells no refusals of VerifyOTP apart.
statusBar ==
    [r \in Requests |->
        IF status[r] = "error" /\ arg[r].op = "verify" /\ ~Accepted(r)
        THEN "refused" ELSE status[r]]

Api == INSTANCE SessionApi
       WITH pc <- stageBar, user <- userBar, status <- statusBar,
            current <- currentBar, issued <- issuedBar, redeemed <- redeemedBar

\* The process as a whole behaves as the API does in SessionApi, where a code
\* is accepted or refused in one step (api.go:83-103).
ImplementsSessionApi == Api!ApiSpec

\* Its steps alone, for runs that begin later: every step of the process, in
\* whatever state VerifyOTP, the table of users and the limiter are, is one of
\* SessionApi or none (api.go:83-103).
StepsOfSessionApi == [][Api!ApiNext]_(Api!apiVars)

-----------------------------------------------------------------------------
\* Whatever the calls overlap with, and wherever statements fail and the
\* process stops: a session belongs to the email its browser submitted, with
\* the code that a call for that very email stored, and no code opens two
\* sessions (api.go:83-103, auth.go:270-325).
SessionsHaveCodes ==
    \A t \in Tokens : sessions[t] # NoSession =>
        LET v == sessions[t].by
            j == redeemed[v]
        IN  /\ j \in issued
            /\ call[j].email = sessions[t].user /\ arg[v].email = sessions[t].user
            /\ call[j].code = arg[v].code
            /\ \A o \in Tokens \ {t} : sessions[o] # NoSession => redeemed[sessions[o].by] # j

\* A code that was expired, or had been replaced and its replacement answered,
\* when the browser sent it, opens no session, although the check of the time,
\* the consuming update and the insert of the session are steps of their own
\* (auth.go:296-323, api.go:91-102).
DeadCodesOpenNothing ==
    \A t \in Tokens : sessions[t] # NoSession =>
        LET v == sessions[t].by
        IN  /\ \E i \in issued :
                  /\ call[i].email = arg[v].email /\ call[i].code = arg[v].code
                  /\ arg[v].at < call[i].at + OtpTTL
            /\ \A k \in issued :
                  ~ /\ call[k].email = arg[v].email
                    /\ redeemed[v] \in call[k].before
                    /\ k \in arg[v].before

\* Whoever the API takes for a user, when it names them or writes a checkout for
\* them, has logged in as that user on the same browser, with a code that was
\* issued to the user, and has had the answer before the call was sent: wherever
\* statements fail, responses are lost or late and the process stops, no other
\* browser and no login without a code come to hold the cookie
\* (api.go:83-141, 175-190).
SignedInByCode ==
    \A r \in Requests : Hdl!Authenticated(r) =>
        LET v == sessions[arg[r].token].by
            i == redeemed[v]
        IN  /\ v \in arg[r].before /\ arg[v].op = "verify"
            /\ arg[v].browser = arg[r].browser
            /\ i \in issued
            /\ call[i].email = user[r] /\ arg[v].email = user[r]
            /\ call[i].code = arg[v].code

\* What a browser is told of a login agrees with what the login has done: one
\* that is answered with a refusal (not with a 500) has spent no code, and one
\* that is counted as a failure is never answered otherwise, spends nothing
\* and opens no session (api.go:91-102, 236-252, auth.go:296-325).
RefusalsAreHonest ==
    \A r \in Requests :
        /\ arg[r] # NoArg /\ arg[r].op = "verify" /\ status[r] = "refused" =>
              redeemed[r] = NoOne
        /\ \A e \in Emails : \A f \in failures[e] : f.by = r =>
              /\ arg[r].email = e
              /\ status[r] \in {"none", "refused"}
              /\ \A t \in Tokens : sessions[t] # NoSession => sessions[t].by # r
=============================================================================
