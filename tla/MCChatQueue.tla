----------------------------- MODULE MCChatQueue -----------------------------
(* Two workers and three calls: an urgent one and two of equal priority.    *)
(* All go to one route with a single slot, so a worker waits behind the     *)
(* other, and one of them may hang upstream for good.                       *)
EXTENDS ChatQueue

CONSTANTS c1, c2, c3, r1

MCCalls == {c1, c2, c3}
MCPriority == [c \in MCCalls |-> IF c = c3 THEN 0 ELSE 1000]
MCRouteOf == [c \in MCCalls |-> r1]
MCDepth == [r \in {r1} |-> 1]
=============================================================================
