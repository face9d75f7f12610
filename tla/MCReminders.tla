----------------------------- MODULE MCReminders -----------------------------
(* Two runners, a recurring and a one-shot reminder, batches of one.        *)
EXTENDS Reminders

CONSTANTS r1, r2

MCRems == {r1, r2}
MCUntil == [r \in MCRems |-> 2]
=============================================================================
