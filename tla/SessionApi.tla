------------------------------ MODULE SessionApi ------------------------------
(***************************************************************************)
(* The HTTP API around the one-time codes: the handlers Verify, Me, Logout  *)
(* and Checkout of src/backend/internal/handlers/api.go with                *)
(* services/session.go, services/checkout.go and their repositories, the    *)
(* tables sessions and checkouts, and the cookie jars of the browsers that  *)
(* call them.  What VerifyOTP promises is taken from OneTimeCode, which     *)
(* AuthService implements.                                                  *)
(*                                                                         *)
(* A browser may have several calls under way at once; requests and         *)
(* responses are delayed and overtake each other, and may be lost.  A step  *)
(* of a handler is one SQL statement with the local computation around it;  *)
(* a statement may fail with or without having taken effect.  A call        *)
(* dropped by a stopping process is a lost call.                            *)
(*                                                                         *)
(* A token is 32 random bytes, stored as its SHA-256 hash: a token that was *)
(* generated before is never generated again, and the hash is the token.    *)
(***************************************************************************)
EXTENDS OneTimeCode, Integers, FiniteSets

CONSTANTS
    Browsers,           \* clients with a cookie jar
    Tokens,             \* session tokens
    SessionLifetime,    \* defaultSessionLifetime, in clock ticks
    MaxClock,           \* bound: the clock stops there
    NoToken,            \* no cookie in the request
    NoCookie,           \* an empty jar
    NoSession,          \* no row with this token hash
    NoArg,              \* the arguments of a call that was not sent
    Guest               \* user_id NULL

SessionRows == [user : Emails, expiresAt : Nat, revoked : BOOLEAN, by : Requests]
Cookies == [token : Tokens, until : Nat]
Args == [op : {"verify", "me", "logout", "checkout"}, browser : Browsers,
         email : Emails \cup {NoOne}, code : Codes \cup {NoCode},
         token : Tokens \cup {NoToken},
         at : 0..MaxClock, before : SUBSET Requests]

ASSUME SessionAssumption ==
    /\ SessionLifetime \in Nat \ {0}
    /\ MaxClock \in Nat
    /\ NoToken \notin Tokens
    /\ NoOne \notin Emails
    /\ Guest \notin Emails
    /\ NoSession \notin SessionRows
    /\ NoCookie \notin Cookies
    /\ NoArg \notin Args

VARIABLES
    clock,
    sessions,   \* table sessions
    checkouts,  \* table checkouts
    jar,        \* the cookie each browser holds
    pc,         \* where each call stands
    arg,        \* what it was sent with, when, and which calls were over then
    user,       \* the user its handler works for
    status,     \* what it answered
    directive   \* the Set-Cookie header of its response

tableVars == <<sessions, checkouts>>
callVars == <<pc, arg, user, status, directive>>
apiVars == <<otcVars, clock, tableVars, jar, callVars>>

keep == [cookie |-> "keep"]
clear == [cookie |-> "clear"]
Directives == {keep, clear} \cup [cookie : {"set"}, token : Tokens, maxAge : Nat]

Over == {"reply", "heard", "lost"}
Steps == {"verify", "create", "identify", "revoke", "authorize", "insert"}

\* API.sessionToken: what the Cookie header of the call holds.
sessionToken(r) == arg[r].token

\* The row SessionService.Create writes for a call that redeemed a code.
NewSession(r) ==
    [user |-> user[r], expiresAt |-> clock + SessionLifetime, revoked |-> FALSE, by |-> r]

\* The row CheckoutService.Submit writes.
NewCheckout(r) == [by |-> r, user |-> user[r]]

-----------------------------------------------------------------------------
ApiInit ==
    /\ OTCInit
    /\ clock = 0
    /\ sessions = [t \in Tokens |-> NoSession]
    /\ checkouts = {}
    /\ jar = [b \in Browsers |-> NoCookie]
    /\ pc = [r \in Requests |-> "idle"]
    /\ arg = [r \in Requests |-> NoArg]
    /\ user = [r \in Requests |-> NoOne]
    /\ status = [r \in Requests |-> "none"]
    /\ directive = [r \in Requests |-> keep]

\* The cookie a browser attaches: a jar drops it after its Max-Age.
CookieOf(b) ==
    IF jar[b] # NoCookie /\ clock < jar[b].until THEN jar[b].token ELSE NoToken

FirstStep == [verify |-> "verify", me |-> "identify",
              logout |-> "revoke", checkout |-> "authorize"]

\* Browser b sends request r; email and code only matter to Verify.
Send(r, b, op, e, c) ==
    /\ pc[r] = "idle"
    /\ pc' = [pc EXCEPT ![r] = FirstStep[op]]
    /\ arg' = [arg EXCEPT ![r] =
           [op |-> op, browser |-> b, email |-> e, code |-> c, token |-> CookieOf(b),
            at |-> clock, before |-> {q \in Requests : pc[q] \in Over}]]
    /\ UNCHANGED <<otcVars, clock, tableVars, jar, user, status, directive>>

\* The handler of r answers; its response is on the way to the browser.
Respond(r, text, header) ==
    /\ pc' = [pc EXCEPT ![r] = "reply"]
    /\ status' = [status EXCEPT ![r] = text]
    /\ directive' = [directive EXCEPT ![r] = header]
    /\ UNCHANGED arg

Proceed(r, p, u) ==
    /\ pc' = [pc EXCEPT ![r] = p]
    /\ user' = [user EXCEPT ![r] = u]
    /\ UNCHANGED <<arg, status, directive>>

\* Register or Reissue, as far as OneTimeCode tells: a code is stored.
IssueCode(r, e, c) ==
    /\ pc[r] = "idle"
    /\ Issue([by |-> r, email |-> e, code |-> c])
    /\ pc' = [pc EXCEPT ![r] = "heard"]
    /\ UNCHANGED <<clock, tableVars, jar, arg, user, status, directive>>

\* Verify: VerifyOTP accepts the code or refuses it, for whatever reason.
VerifyCode(r) ==
    /\ pc[r] = "verify"
    /\ \/ /\ Redeem(r, arg[r].email, arg[r].code)
          /\ Proceed(r, "create", arg[r].email)
       \/ /\ Respond(r, "refused", keep)
          /\ UNCHANGED <<otcVars, user>>
    /\ UNCHANGED <<clock, tableVars, jar>>

\* Mutant: a session that could not be confirmed is created once more.
CreateSessionRetried(r) ==
    /\ pc[r] = "create"
    /\ \E t \in Tokens :
          /\ sessions[t] = NoSession
          /\ sessions' = [sessions EXCEPT ![t] = NewSession(r)]
          /\ \/ Respond(r, "ok", [cookie |-> "set", token |-> t, maxAge |-> SessionLifetime])
             \/ UNCHANGED <<pc, arg, status, directive>>
    /\ UNCHANGED <<otcVars, clock, checkouts, jar, user>>

\* Verify, continued: SessionService.Create; only a session whose insert was
\* acknowledged reaches the browser.
CreateSession(r) ==
    /\ pc[r] = "create"
    /\ \E t \in Tokens :
          /\ sessions[t] = NoSession
          /\ sessions' = [sessions EXCEPT ![t] = NewSession(r)]
          /\ \/ Respond(r, "ok", [cookie |-> "set", token |-> t, maxAge |-> SessionLifetime])
             \/ Respond(r, "error", keep)
    /\ UNCHANGED <<otcVars, clock, checkouts, jar, user>>

\* Mutant: FindValid does not look at revoked_at.
ValidIfRevoked(t) ==
    /\ t # NoToken
    /\ sessions[t] # NoSession
    /\ sessions[t].expiresAt > clock

\* Mutant: FindValid does not look at expires_at.
ValidIfExpired(t) ==
    /\ t # NoToken
    /\ sessions[t] # NoSession
    /\ ~sessions[t].revoked

\* The WHERE clause of SessionRepository.FindValid.
Valid(t) ==
    /\ t # NoToken
    /\ sessions[t] # NoSession
    /\ ~sessions[t].revoked
    /\ sessions[t].expiresAt > clock

\* SessionService.Validate: whom a valid token stands for.
SessionUser(t) == sessions[t].user

\* The WHERE clause of SessionRepository.Revoke.
Revocable(t) == t # NoToken /\ sessions[t] # NoSession /\ ~sessions[t].revoked

\* SessionService.Revoke; that no row was changed is no error to Logout.
RevokeSession(t) ==
    sessions' = IF Revocable(t) THEN [sessions EXCEPT ![t].revoked = TRUE] ELSE sessions

\* Me: Validate, then FindUserByID; every error is a 401.
Identify(r) ==
    LET t == sessionToken(r)
    IN  /\ pc[r] = "identify"
        /\ \/ /\ Valid(t)
              /\ user' = [user EXCEPT ![r] = SessionUser(t)]
              /\ Respond(r, "ok", keep)
           \/ /\ Respond(r, "unauthorized", keep)
              /\ UNCHANGED user
        /\ UNCHANGED <<otcVars, clock, tableVars, jar>>

\* Mutant: the cookie is cleared only if this call revoked the session.
RevokeClearsOnce(r) ==
    LET t == sessionToken(r)
    IN  /\ pc[r] = "revoke"
        /\ RevokeSession(t)
        /\ Respond(r, "ok", IF Revocable(t) THEN clear ELSE keep)
        /\ UNCHANGED <<otcVars, clock, checkouts, jar, user>>

\* Logout: no cookie, no such session and an already revoked one are all
\* answered like success; the cookie stays only when the statement fails.
Revoke(r) ==
    LET t == sessionToken(r)
    IN  /\ pc[r] = "revoke"
        /\ RevokeSession(t)
        /\ \/ Respond(r, "ok", clear)
           \/ t # NoToken /\ Respond(r, "error", keep)
        /\ UNCHANGED <<otcVars, clock, checkouts, jar, user>>

\* Mutant: a session that is not valid makes a guest.
AuthorizeOrGuest(r) ==
    LET t == sessionToken(r)
    IN  /\ pc[r] = "authorize"
        /\ Proceed(r, "insert", IF Valid(t) THEN SessionUser(t) ELSE Guest)
        /\ UNCHANGED <<otcVars, clock, tableVars, jar>>

\* Mutant: a call without a cookie leaves the user unset.
AuthorizeNobody(r) ==
    LET t == sessionToken(r)
    IN  /\ pc[r] = "authorize"
        /\ \/ t = NoToken /\ Proceed(r, "insert", NoOne)
           \/ Valid(t) /\ Proceed(r, "insert", SessionUser(t))
        /\ UNCHANGED <<otcVars, clock, tableVars, jar>>

\* Checkout up to Submit: no cookie makes a guest, a cookie that cannot be
\* validated is refused.
Authorize(r) ==
    LET t == sessionToken(r)
    IN  /\ pc[r] = "authorize"
        /\ \/ t = NoToken /\ Proceed(r, "insert", Guest)
           \/ Valid(t) /\ Proceed(r, "insert", SessionUser(t))
           \/ t # NoToken /\ Respond(r, "unauthorized", keep) /\ UNCHANGED user
        /\ UNCHANGED <<otcVars, clock, tableVars, jar>>

\* CheckoutService.Submit with a valid form.
InsertCheckout(r) ==
    /\ pc[r] = "insert"
    /\ checkouts' = checkouts \cup {NewCheckout(r)}
    /\ \E text \in {"ok", "error"} : Respond(r, text, keep)
    /\ UNCHANGED <<otcVars, clock, sessions, jar, user>>

\* A malformed body or form, or a statement that fails without effect.
Reject(r) ==
    /\ pc[r] \in {"create", "revoke", "authorize", "insert"}
    /\ pc[r] = "revoke" => sessionToken(r) # NoToken
    /\ Respond(r, "error", keep)
    /\ UNCHANGED <<otcVars, clock, tableVars, jar, user>>

\* The response reaches the browser, which obeys its Set-Cookie header.
Deliver(r) ==
    LET b == arg[r].browser
        d == directive[r]
    IN  /\ pc[r] = "reply"
        /\ pc' = [pc EXCEPT ![r] = "heard"]
        /\ jar' = CASE d.cookie = "keep" -> jar
                    [] d.cookie = "clear" -> [jar EXCEPT ![b] = NoCookie]
                    [] d.cookie = "set" ->
                         [jar EXCEPT ![b] = [token |-> d.token, until |-> clock + d.maxAge]]
        /\ directive' = [directive EXCEPT ![r] = keep]
        /\ UNCHANGED <<otcVars, clock, tableVars, arg, user, status>>

\* A call or its response is lost.
Lose(r) ==
    /\ pc[r] \in Steps \cup {"reply"}
    /\ pc' = [pc EXCEPT ![r] = "lost"]
    /\ directive' = [directive EXCEPT ![r] = keep]
    /\ UNCHANGED <<otcVars, clock, tableVars, jar, arg, user, status>>

TimePasses ==
    /\ clock < MaxClock
    /\ clock' = clock + 1
    /\ UNCHANGED <<otcVars, tableVars, jar, callVars>>

ApiNext ==
    \/ \E r \in Requests :
          \/ \E b \in Browsers :
                \/ \E e \in Emails, c \in Codes : Send(r, b, "verify", e, c)
                \/ \E op \in {"me", "logout", "checkout"} : Send(r, b, op, NoOne, NoCode)
          \/ \E e \in Emails, c \in Codes : IssueCode(r, e, c)
          \/ VerifyCode(r)
          \/ CreateSession(r)
          \/ Identify(r)
          \/ Revoke(r)
          \/ Authorize(r)
          \/ InsertCheckout(r)
          \/ Reject(r)
          \/ Deliver(r)
          \/ Lose(r)
    \/ TimePasses

ApiSpec == ApiInit /\ [][ApiNext]_apiVars

-----------------------------------------------------------------------------
ApiTypeOK ==
    /\ OTCTypeOK
    /\ clock \in 0..MaxClock
    /\ sessions \in [Tokens -> SessionRows \cup {NoSession}]
    /\ checkouts \subseteq [by : Requests, user : Emails \cup {Guest}]
    /\ jar \in [Browsers -> Cookies \cup {NoCookie}]
    /\ pc \in [Requests -> {"idle"} \cup Steps \cup Over]
    /\ arg \in [Requests -> Args \cup {NoArg}]
    /\ user \in [Requests -> Emails \cup {Guest, NoOne}]
    /\ status \in [Requests -> {"none", "ok", "refused", "unauthorized", "error"}]
    /\ directive \in [Requests -> Directives]

\* The handler of r took it for a call of a user.
Authenticated(r) ==
    arg[r] # NoArg /\ arg[r].op \in {"me", "checkout"} /\ user[r] \in Emails

\* Whoever Me names, and whoever a checkout is written for, is the user of the
\* session the call carried, and the session had not expired when the call
\* was sent (api.go:124-141, 176-184).
SessionsIdentify ==
    \A r \in Requests : Authenticated(r) =>
        LET t == arg[r].token
        IN  /\ t # NoToken /\ sessions[t] # NoSession
            /\ user[r] = sessions[t].user
            /\ arg[r].at < sessions[t].expiresAt

\* Once a logout has been answered with success, no call sent afterwards with
\* the same cookie is taken for its user, from whatever tab or retry it comes
\* (api.go:143-154).
LogoutIsFinal ==
    \A r, l \in Requests :
        ~ /\ Authenticated(r)
          /\ l \in arg[r].before
          /\ arg[l] # NoArg /\ arg[l].op = "logout" /\ status[l] = "ok"
          /\ arg[l].token = arg[r].token

\* A checkout is a guest's only if its call carried no cookie: a session that
\* expired or was revoked is refused, never turned into a guest
\* (api.go:175-184).
GuestMeansNoCookie ==
    \A k \in checkouts : k.user = Guest <=> arg[k.by].token = NoToken

\* A session exists only for the email whose code its call redeemed, and no
\* code, even when inserts fail or go unanswered, ever opens two sessions
\* (api.go:91-102).
SessionsAreEarned ==
    \A t \in Tokens : sessions[t] # NoSession =>
        /\ redeemed[sessions[t].by] # NoOne
        /\ redeemed[sessions[t].by].email = sessions[t].user
        /\ \A o \in Tokens \ {t} : sessions[o] # NoSession =>
              redeemed[sessions[o].by] # redeemed[sessions[t].by]

\* A browser that heard a successful logout no longer holds the cookie it
\* logged out with, although an earlier logout may have revoked the session
\* without the browser hearing of it (api.go:144-153).
LogoutClears ==
    \A l \in Requests :
        arg[l] # NoArg /\ arg[l].op = "logout" /\ status[l] = "ok" /\ pc[l] = "heard"
        /\ arg[l].token # NoToken
        /\ jar[arg[l].browser] # NoCookie =>
            jar[arg[l].browser].token # arg[l].token
=============================================================================
