--------------------------- MODULE MCParentWakeup ---------------------------
(* Instances of ParentWakeup for TLC.                                       *)
EXTENDS ParentWakeup

=============================================================================
