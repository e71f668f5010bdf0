---------------------------- MODULE OneTimeCode ----------------------------
(***************************************************************************)
(* What the passwordless login promises, without clock, database, limiter  *)
(* or steps: every issuance replaces the code of its email, and a code     *)
(* logs in at most one submission.                                         *)
(* AuthService implements it (src/backend/internal/services/auth.go with   *)
(* src/backend/internal/repositories/user.go).                             *)
(***************************************************************************)
CONSTANTS
    Emails,     \* normalised email addresses
    Codes,      \* one-time codes
    Requests,   \* calls of Register, ReissueOTP and VerifyOTP
    NoCode,     \* the code of an email that was never issued one
    NoOne       \* what a submission that has not logged in redeemed

VARIABLES
    current,    \* the issuance whose code may log in, per email
    issued,     \* history: all issuances
    redeemed    \* history: the issuance each submission redeemed

otcVars == <<current, issued, redeemed>>

Issuances == [by : Requests, email : Emails, code : Codes]

OTCAssumption == NoCode \notin Issuances /\ NoOne \notin Issuances

ASSUME OTCAssumption

OTCInit ==
    /\ current = [e \in Emails |-> NoCode]
    /\ issued = {}
    /\ redeemed = [v \in Requests |-> NoOne]

\* Register or ReissueOTP stores a fresh code.
Issue(i) ==
    /\ \A j \in issued : j.by # i.by
    /\ current' = [current EXCEPT ![i.email] = i]
    /\ issued' = issued \cup {i}
    /\ UNCHANGED redeemed

\* Submission v of code c for email e is accepted.
Redeem(v, e, c) ==
    /\ current[e] # NoCode
    /\ current[e].code = c
    /\ \A w \in Requests : redeemed[w] # current[e]
    /\ redeemed[v] = NoOne
    /\ redeemed' = [redeemed EXCEPT ![v] = [by |-> current[e].by, email |-> e, code |-> c]]
    /\ UNCHANGED <<current, issued>>

OTCNext ==
    \/ \E i \in Issuances : Issue(i)
    \/ \E v \in Requests, e \in Emails, c \in Codes : Redeem(v, e, c)

OTCSpec == OTCInit /\ [][OTCNext]_otcVars

-----------------------------------------------------------------------------
OTCTypeOK ==
    /\ current \in [Emails -> Issuances \cup {NoCode}]
    /\ issued \subseteq Issuances
    /\ redeemed \in [Requests -> Issuances \cup {NoOne}]
=============================================================================
