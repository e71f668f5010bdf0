------------------------------ MODULE MCAuthix ------------------------------
(* Instances of Authix for TLC. *)
EXTENDS Authix, TLC

CONSTANT Coder      \* the call that registered an account before the instance begins

Symmetry ==
    Permutations(Requests \ {Coder}) \cup Permutations(Codes) \cup Permutations(Emails)
        \cup Permutations(Tokens) \cup Permutations(Browsers)

\* A state the process reaches by itself: one account has been registered and
\* its code shown; nothing else has happened.
RegisteredInit ==
    \E e \in Emails, c \in Codes :
        /\ LimiterInit
        /\ accounts = {e}
        /\ otp = [x \in Emails |->
              IF x = e THEN [hash |-> hashOTP(c), issuedAt |-> 0, used |-> FALSE, issuer |-> Coder]
              ELSE NoOtp]
        /\ pc = [r \in Requests |-> IF r = Coder THEN "done" ELSE "idle"]
        /\ call = [r \in Requests |->
              IF r = Coder
              THEN [op |-> "register", email |-> e, code |-> c, at |-> 0, before |-> {}]
              ELSE NoCall]
        /\ row = [r \in Requests |-> NoOtp]
        /\ reply = [r \in Requests |-> IF r = Coder THEN "issued" ELSE "none"]
        /\ seen = [r \in Requests |-> {}]
        /\ issued = {Coder}
        /\ redeemed = [r \in Requests |-> NoOne]
        /\ sessions = [t \in Tokens |-> NoSession]
        /\ checkouts = {}
        /\ jar = [b \in Browsers |-> NoCookie]
        /\ stage = [r \in Requests |-> IF r = Coder THEN "heard" ELSE "idle"]
        /\ arg = [r \in Requests |-> NoArg]
        /\ user = [r \in Requests |-> NoOne]
        /\ status = [r \in Requests |-> "none"]
        /\ directive = [r \in Requests |-> Hdl!keep]
        /\ killed = {}

RegisteredSpec == RegisteredInit /\ [][AuthixNext]_authixVars
=============================================================================
