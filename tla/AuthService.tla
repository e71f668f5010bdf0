----------------------------- MODULE AuthService -----------------------------
(***************************************************************************)
(* Register, ReissueOTP and VerifyOTP of                                   *)
(* src/backend/internal/services/auth.go, step by step, as many calls at   *)
(* once as there are requests: the users table of PostgreSQL                *)
(* (src/database/migrations/0001_extensions_and_users.sql) through          *)
(* src/backend/internal/repositories/user.go, the limiter of the process    *)
(* (AttemptLimiter), the clock.                                             *)
(*                                                                         *)
(* A step is one SQL statement, one limiter operation or one reading of     *)
(* the clock, with the local computation around it.  Every statement may    *)
(* fail, with or without having taken effect.  The process may stop at any  *)
(* point: calls in flight are lost, the limiter is emptied, the table       *)
(* stays.  No code path deletes a row of users, so an account is its email. *)
(*                                                                         *)
(* Not told apart here: well-formed emails, names and codes are values of   *)
(* small sets, and a call refused for its format is Refuse.                 *)
(***************************************************************************)
EXTENDS AttemptLimiter

CONSTANTS
    Codes,      \* six-digit codes
    OtpTTL,     \* otpTTL, in clock ticks
    NoOtp,      \* the three otp columns NULL
    NoCall,     \* the call of a request that has not arrived
    NoOne,      \* what a submission that has not logged in redeemed
    NoCode      \* NoCode of OneTimeCode

\* SHA-256 as an injective function: equal hashes mean equal codes.
hashOTP(c) == [sha256 |-> c]

Calls == [op : {"register", "reissue", "verify"}, email : Emails,
          code : Codes, at : 0..MaxClock, before : SUBSET Requests]

OtpColumns == [hash : {hashOTP(c) : c \in Codes}, issuedAt : 0..MaxClock,
               used : BOOLEAN, issuer : Requests]

Issuances == [by : Requests, email : Emails, code : Codes]

ASSUME AuthAssumption ==
    /\ OtpTTL \in Nat \ {0}
    /\ NoOtp \notin OtpColumns
    /\ NoCall \notin Calls
    /\ NoOne \notin Requests
    /\ NoOne \notin Issuances
    /\ NoCode \notin Issuances

VARIABLES
    accounts,   \* table users: the emails that have a row
    otp,        \* table users: the otp columns of each row, and who wrote them
    pc,         \* where each call stands
    call,       \* its arguments, the time it took, the calls answered before it
    row,        \* the row VerifyOTP read and works with
    reply,      \* its answer; while pc is "record", the error it is about to give
    seen,       \* history: failures the limiter knew when it let the call pass
    issued,     \* history: calls whose UpdateOTP took effect
    redeemed    \* history: the issuance an accepted submission consumed

tableVars == <<accounts, otp>>
localVars == <<pc, call, row, reply, seen>>
historyVars == <<issued, redeemed>>
authVars == <<limiterVars, tableVars, localVars, historyVars>>

Working == {"insert", "update", "find", "check", "consume", "record"}
Failing == {"notIssued", "alreadyUsed", "expired", "incorrect"}
Replies == Failing \cup {"none", "invalid", "failed", "lost", "alreadyRegistered",
                         "notRegistered", "issued", "rateLimited", "verified"}

-----------------------------------------------------------------------------
AuthInit ==
    /\ LimiterInit
    /\ accounts = {}
    /\ otp = [e \in Emails |-> NoOtp]
    /\ pc = [r \in Requests |-> "idle"]
    /\ call = [r \in Requests |-> NoCall]
    /\ row = [r \in Requests |-> NoOtp]
    /\ reply = [r \in Requests |-> "none"]
    /\ seen = [r \in Requests |-> {}]
    /\ issued = {}
    /\ redeemed = [r \in Requests |-> NoOne]

\* Request r arrives now, as a call of op.
Arrive(r, op, e, c) ==
    /\ pc[r] = "idle"
    /\ call' = [call EXCEPT ![r] =
           [op |-> op, email |-> e, code |-> c, at |-> clock,
            before |-> {q \in Requests : pc[q] = "done"}]]

\* Request r goes on to step p.
Go(r, p) == pc' = [pc EXCEPT ![r] = p] /\ UNCHANGED <<row, reply, seen>>

\* Request r is answered; what it kept on its stack is gone.
Answer(r, text) ==
    /\ pc' = [pc EXCEPT ![r] = "done"]
    /\ reply' = [reply EXCEPT ![r] = text]
    /\ row' = [row EXCEPT ![r] = NoOtp]
    /\ seen' = [seen EXCEPT ![r] = {}]

\* Request r goes on to recordFailure, after which it answers text.
Fail(r, text) ==
    /\ pc' = [pc EXCEPT ![r] = "record"]
    /\ reply' = [reply EXCEPT ![r] = text]
    /\ row' = [row EXCEPT ![r] = NoOtp]
    /\ UNCHANGED seen

\* A call that does nothing: a field is malformed, or the random source or
\* the first query fails.
Refuse(r) ==
    /\ pc[r] = "idle"
    /\ \E text \in {"invalid", "failed"} : Answer(r, text)
    /\ UNCHANGED <<limiterVars, tableVars, call, historyVars>>

\* Register: the code is drawn and its issue time taken before the row exists.
RegisterStart(r, e, c) ==
    /\ Arrive(r, "register", e, c)
    /\ Go(r, "insert")
    /\ UNCHANGED <<limiterVars, tableVars, historyVars>>

\* UserRepository.Insert: users_email_unique turns a second row into
\* ErrUserAlreadyRegistered.  An insert whose answer gets lost (~acked) is an
\* error to the caller although the row is there.
RegisterInsert(r) ==
    LET e == call[r].email
    IN  /\ pc[r] = "insert"
        /\ \/ /\ e \in accounts
              /\ Answer(r, "alreadyRegistered")
              /\ UNCHANGED accounts
           \/ /\ e \notin accounts
              /\ accounts' = accounts \cup {e}
              /\ \E acked \in BOOLEAN :
                    IF acked THEN Go(r, "update") ELSE Answer(r, "failed")
        /\ UNCHANGED <<limiterVars, otp, call, historyVars>>

\* ReissueOTP: the row is found, then the code is drawn and its issue time taken.
ReissueFind(r, e, c) ==
    /\ Arrive(r, "reissue", e, c)
    /\ IF e \in accounts THEN Go(r, "update") ELSE Answer(r, "notRegistered")
    /\ UNCHANGED <<limiterVars, tableVars, historyVars>>

\* Mutant: a code nobody has used yet is not replaced.
UpdateOTPIfUsed(r) ==
    LET e == call[r].email
        kept == otp[e] # NoOtp /\ ~otp[e].used
    IN  /\ pc[r] = "update"
        /\ otp' = IF kept THEN otp
                  ELSE [otp EXCEPT ![e] = [hash |-> hashOTP(call[r].code),
                           issuedAt |-> call[r].at, used |-> FALSE, issuer |-> r]]
        /\ issued' = issued \cup {r}
        /\ Answer(r, "issued")
        /\ UNCHANGED <<limiterVars, accounts, call, redeemed>>

\* Mutant: otp_used_at keeps its value and the hash stays the old one.
UpdateOTPKeepsHash(r) ==
    LET e == call[r].email
    IN  /\ pc[r] = "update"
        /\ otp' = [otp EXCEPT ![e] =
               [hash |-> IF otp[e] = NoOtp THEN hashOTP(call[r].code) ELSE otp[e].hash,
                issuedAt |-> call[r].at, used |-> FALSE, issuer |-> r]]
        /\ issued' = issued \cup {r}
        /\ Answer(r, "issued")
        /\ UNCHANGED <<limiterVars, accounts, call, redeemed>>

\* Mutant: the end of the lifetime is stored instead of its beginning.
UpdateOTPStoresEnd(r) ==
    LET e == call[r].email
    IN  /\ pc[r] = "update"
        /\ otp' = [otp EXCEPT ![e] =
               [hash |-> hashOTP(call[r].code), issuedAt |-> call[r].at + OtpTTL,
                used |-> FALSE, issuer |-> r]]
        /\ issued' = issued \cup {r}
        /\ Answer(r, "issued")
        /\ UNCHANGED <<limiterVars, accounts, call, redeemed>>

\* UserRepository.UpdateOTP, the last step of Register and of ReissueOTP:
\* hash and issue time are replaced, otp_used_at is reset.
UpdateOTP(r) ==
    LET e == call[r].email
    IN  /\ pc[r] = "update"
        /\ otp' = [otp EXCEPT ![e] =
               [hash |-> hashOTP(call[r].code), issuedAt |-> call[r].at,
                used |-> FALSE, issuer |-> r]]
        /\ issued' = issued \cup {r}
        /\ \E text \in {"issued", "failed"} : Answer(r, text)
        /\ UNCHANGED <<limiterVars, accounts, call, redeemed>>

\* Mutant: the gate prunes but lets everyone pass.
VerifyIsLimitedOpen(r, e, c) ==
    /\ Arrive(r, "verify", e, c)
    /\ isLimited(e)
    /\ pc' = [pc EXCEPT ![r] = "find"]
    /\ seen' = [seen EXCEPT ![r] = cleanupLocked[e]]
    /\ UNCHANGED <<tableVars, row, reply, historyVars>>

\* VerifyOTP up to the answer of isLimited.
VerifyIsLimited(r, e, c) ==
    /\ Arrive(r, "verify", e, c)
    /\ isLimited(e)
    /\ \/ /\ Full(e)
          /\ Answer(r, "rateLimited")
       \/ /\ ~Full(e)
          /\ pc' = [pc EXCEPT ![r] = "find"]
          /\ seen' = [seen EXCEPT ![r] = cleanupLocked[e]]
          /\ UNCHANGED <<row, reply>>
    /\ UNCHANGED <<tableVars, historyVars>>

\* FindForOTPVerify: an account without a code is not found either.
VerifyFind(r) ==
    LET e == call[r].email
    IN  /\ pc[r] = "find"
        /\ \/ /\ otp[e] = NoOtp
              /\ Fail(r, "notIssued")
           \/ /\ otp[e] # NoOtp
              /\ pc' = [pc EXCEPT ![r] = "check"]
              /\ row' = [row EXCEPT ![r] = otp[e]]
              /\ UNCHANGED <<reply, seen>>
        /\ UNCHANGED <<limiterVars, tableVars, call, historyVars>>

\* Mutant: a code still works at the very instant its lifetime ends.
ExpiredLate(columns) ==
    clock < columns.issuedAt \/ clock > columns.issuedAt + OtpTTL

Expired(columns) ==
    clock < columns.issuedAt \/ clock >= columns.issuedAt + OtpTTL

\* The decisions of VerifyOTP on the row it read, at the time it reads the clock.
VerifyCheck(r) ==
    LET matches == hashOTP(call[r].code) = row[r].hash
    IN  /\ pc[r] = "check"
        /\ \/ row[r].used /\ Fail(r, "alreadyUsed")
           \/ ~row[r].used /\ Expired(row[r]) /\ Fail(r, "expired")
           \/ ~row[r].used /\ ~Expired(row[r]) /\ ~matches /\ Fail(r, "incorrect")
           \/ ~row[r].used /\ ~Expired(row[r]) /\ matches /\ Go(r, "consume")
        /\ UNCHANGED <<limiterVars, tableVars, call, historyVars>>

\* Mutant: the update does not ask for an unused code.
ConsumableUsed(e, c) == otp[e] # NoOtp /\ otp[e].hash = hashOTP(c)

\* Mutant: the update does not ask for the hash that was verified.
ConsumableAnyHash(e, c) == otp[e] # NoOtp /\ ~otp[e].used

\* The WHERE clause of AtomicConsumeOTP.
Consumable(e, c) == otp[e] # NoOtp /\ ~otp[e].used /\ otp[e].hash = hashOTP(c)

\* Mutant: a success is recorded in the limiter as well.
VerifyConsumeCounted(r) ==
    LET e == call[r].email
    IN  /\ pc[r] = "consume"
        /\ IF Consumable(e, call[r].code)
           THEN /\ otp' = [otp EXCEPT ![e].used = TRUE]
                /\ redeemed' = [redeemed EXCEPT ![r] = otp[e].issuer]
                /\ Fail(r, "verified")
           ELSE /\ Fail(r, "incorrect")
                /\ UNCHANGED <<otp, redeemed>>
        /\ UNCHANGED <<limiterVars, accounts, call, issued>>

\* Mutant: a success clears the failures of its email.
VerifyConsumeClears(r) ==
    LET e == call[r].email
    IN  /\ pc[r] = "consume"
        /\ Consumable(e, call[r].code)
        /\ otp' = [otp EXCEPT ![e].used = TRUE]
        /\ redeemed' = [redeemed EXCEPT ![r] = otp[e].issuer]
        /\ attempts' = [attempts EXCEPT ![e] = {}]
        /\ Answer(r, "verified")
        /\ UNCHANGED <<clock, failures, accounts, call, issued>>

\* AtomicConsumeOTP: one UPDATE decides; the row counted afterwards can only
\* tell a missing user, and there is none.
VerifyConsume(r) ==
    LET e == call[r].email
    IN  /\ pc[r] = "consume"
        /\ \/ /\ Consumable(e, call[r].code)
              /\ otp' = [otp EXCEPT ![e].used = TRUE]
              /\ redeemed' = [redeemed EXCEPT ![r] = otp[e].issuer]
              /\ \E text \in {"verified", "failed"} : Answer(r, text)
           \/ /\ ~Consumable(e, call[r].code)
              /\ Fail(r, "incorrect")
              /\ UNCHANGED <<otp, redeemed>>
        /\ UNCHANGED <<limiterVars, accounts, call, issued>>

\* Every failed submission ends in recordFailure, whose answer wins.
VerifyRecord(r) ==
    LET e == call[r].email
    IN  /\ pc[r] = "record"
        /\ recordFailure(r, e)
        /\ Answer(r, IF Full(e) THEN "rateLimited" ELSE reply[r])
        /\ UNCHANGED <<tableVars, call, historyVars>>

\* A statement that fails without effect ends its call.
DatabaseError(r) ==
    /\ pc[r] \in {"insert", "update", "find", "consume"}
    /\ Answer(r, "failed")
    /\ UNCHANGED <<limiterVars, tableVars, call, historyVars>>

\* The process stops and starts again.
Restart ==
    LET Lost == {r \in Requests : pc[r] \in Working}
    IN  /\ ResetLimiter
        /\ pc' = [r \in Requests |-> IF r \in Lost THEN "done" ELSE pc[r]]
        /\ reply' = [r \in Requests |-> IF r \in Lost THEN "lost" ELSE reply[r]]
        /\ row' = [r \in Requests |-> NoOtp]
        /\ seen' = [r \in Requests |-> {}]
        /\ UNCHANGED <<tableVars, call, historyVars>>

TimePasses == Tick /\ UNCHANGED <<tableVars, localVars, historyVars>>

Handle(r) ==
    \/ Refuse(r)
    \/ \E e \in Emails, c \in Codes :
          \/ RegisterStart(r, e, c)
          \/ ReissueFind(r, e, c)
          \/ VerifyIsLimited(r, e, c)
    \/ RegisterInsert(r)
    \/ UpdateOTP(r)
    \/ VerifyFind(r)
    \/ VerifyCheck(r)
    \/ VerifyConsume(r)
    \/ VerifyRecord(r)
    \/ DatabaseError(r)

AuthNext ==
    \/ \E r \in Requests : Handle(r)
    \/ Restart
    \/ TimePasses

AuthSpec == AuthInit /\ [][AuthNext]_authVars

-----------------------------------------------------------------------------
(* What an observer of the codes sees: the specification OneTimeCode. *)

\* The issuance made by request r.
IssuanceOf(r) == [by |-> r, email |-> call[r].email, code |-> call[r].code]

currentBar ==
    [e \in Emails |-> IF otp[e] = NoOtp THEN NoCode
                      ELSE [by |-> otp[e].issuer, email |-> e, code |-> otp[e].hash.sha256]]

issuedBar == {IssuanceOf(r) : r \in issued}

redeemedBar ==
    [v \in Requests |-> IF redeemed[v] = NoOne THEN NoOne
                        ELSE [by |-> redeemed[v], email |-> call[v].email,
                              code |-> call[v].code]]

OTC == INSTANCE OneTimeCode
       WITH current <- currentBar, issued <- issuedBar, redeemed <- redeemedBar

\* Every behaviour of the service, with its stale snapshots, lost answers and
\* restarts, is a behaviour of OneTimeCode: a submission is accepted only with
\* the code its email has at that instant, and that code is then spent.
ImplementsOneTimeCode == OTC!OTCSpec

-----------------------------------------------------------------------------
AuthTypeOK ==
    /\ LimiterTypeOK
    /\ accounts \subseteq Emails
    /\ otp \in [Emails -> OtpColumns \cup {NoOtp}]
    /\ pc \in [Requests -> Working \cup {"idle", "done"}]
    /\ call \in [Requests -> Calls \cup {NoCall}]
    /\ row \in [Requests -> OtpColumns \cup {NoOtp}]
    /\ reply \in [Requests -> Replies]
    /\ seen \in [Requests -> SUBSET Entries]
    /\ issued \subseteq Requests
    /\ redeemed \in [Requests -> Requests \cup {NoOne}]

\* Two submissions, however they overlap, never consume the same code
\* (auth.go:311-323, user.go:132-162).
AtMostOneRedemption ==
    \A v, w \in Requests :
        v # w /\ redeemed[v] # NoOne => redeemed[v] # redeemed[w]

\* A submission told that it is verified consumed a code that was issued to
\* the email it named and that equals the one it submitted.
VerifiedIsGenuine ==
    \A v \in Requests : reply[v] = "verified" =>
        \E j \in issued :
            /\ redeemed[v] = j
            /\ call[j].email = call[v].email
            /\ call[j].code = call[v].code

\* A submission that arrives at or after the end of the lifetime of every
\* issuance of its code is not accepted, although the update that consumes
\* the code never looks at the time (auth.go:296-303).
ExpiredCodesStayDead ==
    \A v \in Requests : redeemed[v] # NoOne =>
        \E j \in issued :
            /\ call[j].email = call[v].email
            /\ call[j].code = call[v].code
            /\ call[v].at < call[j].at + OtpTTL

\* Once a later issuance for the email has been answered, a submission that
\* arrives afterwards cannot log in with the code issued before: no call that
\* read the old row can bring it back.
SupersededCodesStayDead ==
    \A v \in Requests, j, k \in issued :
        ~ /\ redeemed[v] = j
          /\ call[k].email = call[j].email
          /\ j \in call[k].before
          /\ k \in call[v].before

\* The code a client was shown is the one stored, unless an issuance that was
\* not over when this one began has replaced it.
ShownCodeStands ==
    \A r \in Requests : reply[r] = "issued" =>
        /\ otp[call[r].email] # NoOtp
        /\ otp[call[r].email].issuer \notin call[r].before

\* The limiter counts calls that were refused and no others: a submission
\* that consumed its code never brings its email closer to a lockout.
OnlyFailuresCounted ==
    \A e \in Emails : \A f \in failures[e] :
        /\ reply[f.by] \in Failing
        /\ redeemed[f.by] = NoOne
        /\ call[f.by].email = e

\* A call the limiter let through and refuses only at the end was overtaken:
\* failures it did not know of when it passed were counted meanwhile.
LateRefusalMeansOverlap ==
    [][\A r \in Requests :
          pc[r] = "record" /\ reply'[r] = "rateLimited" =>
              cleanupLocked[call[r].email] \ seen[r] # {}]_authVars

\* What the comment of the users table says of a user who registers again:
\* the code is replaced (0001_extensions_and_users.sql:21-23).
ReRegisterReplacesCode ==
    \A r \in Requests :
        reply[r] \in {"issued", "alreadyRegistered"} => r \in issued
=============================================================================
