--------------------------- MODULE MCTaskDispatch ---------------------------
(* TaskDispatch for TLC: nodes and tasks are interchangeable model values.  *)
EXTENDS TaskDispatch, TLC

Symmetry == Permutations(Nodes) \cup Permutations(Tasks)

=============================================================================
