----------------------------- MODULE MCSessionApi -----------------------------
(* Instances of SessionApi for TLC. *)
EXTENDS SessionApi, TLC

CONSTANTS
    Coder,      \* the call that issued a code before the instance begins
    Login,      \* the call that has redeemed it
    FirstToken  \* the session it opened

Symmetry ==
    Permutations(Requests \ {Coder, Login}) \cup Permutations(Tokens \ {FirstToken})
        \cup Permutations(Codes)

\* A state the API reaches by itself: on one browser the one account has been
\* issued a code and has logged in with it; nothing else has happened.
LoggedInInit ==
    \E e \in Emails, c \in Codes, b \in Browsers :
        LET code == [by |-> Coder, email |-> e, code |-> c]
        IN  /\ current = [x \in Emails |-> code]
            /\ issued = {code}
            /\ redeemed = [r \in Requests |-> IF r = Login THEN code ELSE NoOne]
            /\ clock = 0
            /\ sessions = [t \in Tokens |->
                  IF t = FirstToken
                  THEN [user |-> e, expiresAt |-> SessionLifetime,
                        revoked |-> FALSE, by |-> Login]
                  ELSE NoSession]
            /\ checkouts = {}
            /\ jar = [x \in Browsers |->
                  IF x = b THEN [token |-> FirstToken, until |-> SessionLifetime]
                  ELSE NoCookie]
            /\ pc = [r \in Requests |-> IF r \in {Coder, Login} THEN "heard" ELSE "idle"]
            /\ arg = [r \in Requests |->
                  IF r = Login
                  THEN [op |-> "verify", browser |-> b, email |-> e, code |-> c,
                        token |-> NoToken, at |-> 0, before |-> {Coder}]
                  ELSE NoArg]
            /\ user = [r \in Requests |-> IF r = Login THEN e ELSE NoOne]
            /\ status = [r \in Requests |-> IF r = Login THEN "ok" ELSE "none"]
            /\ directive = [r \in Requests |-> keep]

LoggedInSpec == LoggedInInit /\ [][ApiNext]_apiVars
=============================================================================
