--------------------------- MODULE MCAuthService ---------------------------
(* Instances of AuthService for TLC. *)
EXTENDS AuthService, TLC

Symmetry == Permutations(Requests) \cup Permutations(Codes) \cup Permutations(Emails)
=============================================================================
