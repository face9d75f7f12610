------------------------- MODULE MCCrossProjectCalls -------------------------
(* One caller whose single call_project step is called up to MaxCalls times. *)
EXTENDS CrossProjectCalls
CONSTANTS s1, s2
=============================================================================
