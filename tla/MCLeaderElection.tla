-------------------------- MODULE MCLeaderElection --------------------------
(* Instances of LeaderElection for TLC.  Electors are told apart by whether *)
(* they run a leader-gated worker, so no symmetry is declared.              *)
EXTENDS LeaderElection

=============================================================================
