--------------------------- MODULE PriorityService ---------------------------
(***************************************************************************)
(* What QueuedProvider promises its callers: a fixed number of servers,    *)
(* each with one call at a time, the next one chosen by priority and then  *)
(* by arrival.  A caller may hang up.  Until a server took its call that   *)
(* withdraws the call; afterwards the call runs to its end, unheard.       *)
(***************************************************************************)
EXTENDS Integers

CONSTANTS Calls, Servers, Priority, None

VARIABLES
    rank,       \* arrival number of each call, -1 before it arrives
    arrivals,   \* how many have arrived
    waiting,    \* calls in line
    at,         \* the call at each server
    served,     \* calls a server has finished
    gone,       \* calls whose caller hung up
    outcome     \* what each caller got: "none", "result" or "error"

vars == <<rank, arrivals, waiting, at, served, gone, outcome>>

Init ==
    /\ rank = [c \in Calls |-> -1] /\ arrivals = 0
    /\ waiting = {} /\ served = {} /\ gone = {}
    /\ at = [s \in Servers |-> None]
    /\ outcome = [c \in Calls |-> "none"]

Before(c, d) ==
    \/ Priority[c] < Priority[d]
    \/ Priority[c] = Priority[d] /\ rank[c] < rank[d]

Submit(c) ==
    /\ rank[c] = -1
    /\ rank' = [rank EXCEPT ![c] = arrivals]
    /\ arrivals' = arrivals + 1
    /\ waiting' = IF c \in gone THEN waiting ELSE waiting \cup {c}
    /\ UNCHANGED <<at, served, gone, outcome>>

Serve(s, c) ==
    /\ at[s] = None /\ c \in waiting
    /\ \A d \in waiting \ {c} : Before(c, d)
    /\ at' = [at EXCEPT ![s] = c]
    /\ waiting' = waiting \ {c}
    /\ UNCHANGED <<rank, arrivals, served, gone, outcome>>

Complete(s) ==
    /\ at[s] # None
    /\ served' = served \cup {at[s]}
    /\ at' = [at EXCEPT ![s] = None]
    /\ UNCHANGED <<rank, arrivals, waiting, gone, outcome>>

HangUp(c) ==
    /\ c \notin gone
    /\ gone' = gone \cup {c}
    /\ waiting' = waiting \ {c}
    /\ UNCHANGED <<rank, arrivals, at, served, outcome>>

Return(c, o) ==
    /\ outcome[c] = "none" /\ rank[c] # -1
    /\ (o = "result" /\ c \in served) \/ (o = "error" /\ c \in gone)
    /\ outcome' = [outcome EXCEPT ![c] = o]
    /\ UNCHANGED <<rank, arrivals, waiting, at, served, gone>>

Next ==
    \/ \E c \in Calls : Submit(c) \/ HangUp(c) \/ \E o \in {"result", "error"} : Return(c, o)
    \/ \E s \in Servers : Complete(s) \/ \E c \in Calls : Serve(s, c)

Spec == Init /\ [][Next]_vars
=============================================================================
