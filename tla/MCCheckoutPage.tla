---------------------------- MODULE MCCheckoutPage ----------------------------
(* Instances of CheckoutPage for TLC. *)
EXTENDS CheckoutPage, TLC

CONSTANTS
    a, A, b     \* an address, another spelling of it, another address

MCTexts == {Empty, a, A, b}
MCNormal == [t \in MCTexts |-> IF t = A THEN a ELSE t]
=============================================================================
