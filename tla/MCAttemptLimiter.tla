-------------------------- MODULE MCAttemptLimiter --------------------------
(* The instance of AttemptLimiter for TLC; its constants are model values.  *)
EXTENDS AttemptLimiter
=============================================================================
