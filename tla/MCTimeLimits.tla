---------------------------- MODULE MCTimeLimits ----------------------------
(* Instance of TimeLimits for TLC. *)
EXTENDS TimeLimits
=============================================================================
