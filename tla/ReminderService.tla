--------------------------- MODULE ReminderService ---------------------------
(***************************************************************************)
(* What the reminders promise: each time a reminder is armed it is taken   *)
(* for delivery at most once and its message goes out at most once.  A     *)
(* reminder that is over is never taken again, though a message already    *)
(* in hand may still go out.  Delivery itself is not promised.             *)
(***************************************************************************)
EXTENDS Integers

CONSTANT Rems

VARIABLES
    state,      \* "none", "armed", "firing" or "over"
    arming,     \* how often each reminder was armed
    inHand,     \* reminders taken whose message is not out yet
    sent        \* the armings whose message went out

vars == <<state, arming, inHand, sent>>

Init ==
    /\ state = [r \in Rems |-> "none"]
    /\ arming = [r \in Rems |-> 0]
    /\ inHand = {}
    /\ sent = [r \in Rems |-> {}]

\* Created, moved to another time, or due again after its message went out.
Arm(r) ==
    /\ \/ state[r] \in {"none", "armed"}
       \/ state[r] = "firing" /\ arming[r] \in sent[r]
    /\ r \notin inHand
    /\ state' = [state EXCEPT ![r] = "armed"]
    /\ arming' = [arming EXCEPT ![r] = @ + 1]
    /\ UNCHANGED <<inHand, sent>>

Take(S) ==
    /\ \A r \in S : state[r] = "armed" /\ r \notin inHand
    /\ state' = [r \in Rems |-> IF r \in S THEN "firing" ELSE state[r]]
    /\ inHand' = inHand \cup S
    /\ UNCHANGED <<arming, sent>>

Deliver(r) ==
    /\ r \in inHand /\ arming[r] \notin sent[r]
    /\ sent' = [sent EXCEPT ![r] = @ \cup {arming[r]}]
    /\ inHand' = inHand \ {r}
    /\ UNCHANGED <<state, arming>>

\* The message is not sent, or the process that had it is gone.
Drop(S) ==
    /\ inHand' = inHand \ S
    /\ UNCHANGED <<state, arming, sent>>

\* Fired for the last time, cancelled or deleted.
End(r) ==
    /\ state[r] \in {"armed", "firing"}
    /\ state' = [state EXCEPT ![r] = "over"]
    /\ UNCHANGED <<arming, inHand, sent>>

Next ==
    \/ \E r \in Rems : Arm(r) \/ Deliver(r) \/ End(r)
    \/ \E S \in SUBSET Rems : Take(S) \/ Drop(S)

Spec == Init /\ [][Next]_vars
=============================================================================
