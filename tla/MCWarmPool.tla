----------------------------- MODULE MCWarmPool -----------------------------
(* One role, two jobs and room for one container: the second job reuses the *)
(* container, is refused for want of room, or starts its own after the      *)
(* first one went; the reaper, Stop and a restart come at any moment.       *)
EXTENDS WarmPool

CONSTANTS j1, j2, k1

MCJobs == {j1, j2}
MCKeyOf == [j \in MCJobs |-> k1]
=============================================================================
