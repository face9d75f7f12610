------------------------------ MODULE ChatQueue ------------------------------
(***************************************************************************)
(* The priority queue in front of the chat provider, and the bounded route *)
(* behind it.                                                              *)
(*                                                                         *)
(* do pushes a call on a heap under q.mu and signals q.cond, then selects  *)
(* between its answer and the end of its context.  Workers pop the heap,   *)
(* waiting on q.cond while it is empty, and run the call: it waits for a   *)
(* slot of its route's semaphore, up to the route's timeout if it has one, *)
(* goes upstream, and its answer goes to a channel of capacity one.        *)
(*                                                                         *)
(* An action is one critical section of q.mu or one step outside it.       *)
(* container/heap is external: calls is the set it holds, its minimum under*)
(* Less comes out first.  The metrics are wired before the first call.     *)
(***************************************************************************)
EXTENDS Integers, FiniteSets

CONSTANTS
    Calls, Workers, Routes, None,
    Priority,   \* requestPriority of each call's context
    RouteOf,    \* the route the call's model selects
    Depth,      \* depth of each route's semaphore
    MaxHung     \* bound: upstream calls that never come back

ASSUME NamesAssumption == None \notin Calls /\ RouteOf \in [Calls -> Routes]
ASSUME NumbersAssumption ==
    /\ Priority \in [Calls -> Int]
    /\ Depth \in [Routes -> Nat \ {0}]
    /\ MaxHung \in Nat
    /\ IsFiniteSet(Workers)

VARIABLES
    calls,      \* the heap
    nextSeq, seq,
    timed,      \* routes with a queue_timeout_ms; without one, the default, the wait is endless
    gone,       \* calls whose context is done
    cpc,        \* each caller: its place in do
    removed,    \* callers that took their call off the heap themselves
    answers,    \* calls whose worker sent on their channel done
    outcome,    \* what do returned: "none", "result", "error"
    wpc, cur,   \* each worker: its place and its call
    sem,        \* tokens in each route's semaphore
    queueDepth, inFlight    \* the gauges

callerVars == <<gone, cpc, removed, outcome>>
workerVars == <<wpc, cur, answers, sem, inFlight>>
vars == <<calls, nextSeq, seq, timed, callerVars, workerVars, queueDepth>>

TypeOK ==
    /\ calls \subseteq Calls /\ gone \subseteq Calls
    /\ removed \subseteq Calls /\ answers \subseteq Calls
    /\ timed \subseteq Routes
    /\ nextSeq \in Nat /\ seq \in [Calls -> Nat \cup {-1}]
    /\ cpc \in [Calls -> {"new", "count", "select", "signal", "returned"}]
    /\ outcome \in [Calls -> {"none", "result", "error"}]
    /\ wpc \in [Workers -> {"ready", "asleep", "popped", "slot", "upstream", "hung"}]
    /\ cur \in [Workers -> Calls \cup {None}]
    /\ sem \in [Routes -> Nat]
    /\ queueDepth \in Int /\ inFlight \in Int

Init ==
    /\ timed \in SUBSET Routes
    /\ calls = {} /\ nextSeq = 0 /\ seq = [c \in Calls |-> -1]
    /\ gone = {} /\ cpc = [c \in Calls |-> "new"] /\ removed = {}
    /\ outcome = [c \in Calls |-> "none"]
    /\ wpc = [w \in Workers |-> "ready"] /\ cur = [w \in Workers |-> None]
    /\ answers = {} /\ sem = [r \in Routes |-> 0]
    /\ queueDepth = 0 /\ inFlight = 0

At(p) == {w \in Workers : wpc[w] = p}

-----------------------------------------------------------------------------
(* The caller: do.                                                          *)

\* cond.Signal wakes one of the workers that wait, if any does.
Signal ==
    \/ At("asleep") = {} /\ UNCHANGED wpc
    \/ \E w \in At("asleep") : wpc' = [wpc EXCEPT ![w] = "ready"]

\* Mutant: only a push onto the empty heap signals.
SignalPushFirst == IF calls = {} THEN Signal ELSE UNCHANGED wpc

SignalPush == Signal

Push(c) ==
    /\ cpc[c] = "new"
    /\ seq' = [seq EXCEPT ![c] = nextSeq]
    /\ nextSeq' = nextSeq + 1
    /\ calls' = calls \cup {c}
    /\ SignalPush
    /\ cpc' = [cpc EXCEPT ![c] = "count"]
    /\ UNCHANGED <<timed, gone, removed, outcome, cur, answers, sem, inFlight, queueDepth>>

\* QueueDepth.Inc, after the unlock.
Count(c) ==
    /\ cpc[c] = "count"
    /\ queueDepth' = queueDepth + 1
    /\ cpc' = [cpc EXCEPT ![c] = "select"]
    /\ UNCHANGED <<calls, nextSeq, seq, timed, gone, removed, outcome, workerVars>>

ReceiveAnswer(c) ==
    /\ cpc[c] = "select" /\ c \in answers
    /\ outcome' = [outcome EXCEPT ![c] = "result"]
    /\ cpc' = [cpc EXCEPT ![c] = "returned"]
    /\ UNCHANGED <<calls, nextSeq, seq, timed, gone, removed, workerVars, queueDepth>>

\* Mutant: the call stays on the heap.
LeftOnHeap(c) == calls

TakenOff(c) == calls \ {c}

\* ctx.Done: under the lock the call is taken off the heap if it still is there.
Abandon(c) ==
    /\ cpc[c] = "select" /\ c \in gone
    /\ calls' = TakenOff(c)
    /\ removed' = IF c \in calls THEN removed \cup {c} ELSE removed
    /\ cpc' = [cpc EXCEPT ![c] = "signal"]
    /\ UNCHANGED <<nextSeq, seq, timed, gone, outcome, workerVars, queueDepth>>

\* After the unlock: Signal, the gauge for a call taken off, the context's error.
AbandonReturn(c) ==
    /\ cpc[c] = "signal"
    /\ Signal
    /\ queueDepth' = IF c \in removed THEN queueDepth - 1 ELSE queueDepth
    /\ outcome' = [outcome EXCEPT ![c] = "error"]
    /\ removed' = removed \ {c}
    /\ cpc' = [cpc EXCEPT ![c] = "returned"]
    /\ UNCHANGED <<calls, nextSeq, seq, timed, gone, cur, answers, sem, inFlight>>

\* The caller's context is cancelled or times out.
ContextEnds(c) ==
    /\ c \notin gone /\ cpc[c] # "returned"
    /\ gone' = gone \cup {c}
    /\ UNCHANGED <<calls, nextSeq, seq, timed, cpc, removed, outcome, workerVars, queueDepth>>

-----------------------------------------------------------------------------
(* The worker: pop, run, answer.                                            *)

\* Mutant: arrival order alone decides.
LessBySeq(c, d) == seq[c] < seq[d]

\* callHeap.Less
Less(c, d) ==
    \/ Priority[c] < Priority[d]
    \/ Priority[c] = Priority[d] /\ seq[c] < seq[d]

Live == calls \ gone

\* pop takes calls off the heap until one is live.  (canceled is only ever set
\* on a call whose context is done, so gone decides.)
Pop(w, c) ==
    /\ wpc[w] = "ready"
    /\ c \in Live /\ \A d \in Live \ {c} : Less(c, d)
    /\ LET dropped == {d \in calls \ {c} : Less(d, c)} IN
         /\ calls' = (calls \ {c}) \ dropped
         /\ queueDepth' = queueDepth - Cardinality(dropped)
    /\ cur' = [cur EXCEPT ![w] = c]
    /\ wpc' = [wpc EXCEPT ![w] = "popped"]
    /\ UNCHANGED <<nextSeq, seq, timed, callerVars, answers, sem, inFlight>>

\* No live call: the dead ones are dropped and the worker waits on q.cond.
Sleep(w) ==
    /\ wpc[w] = "ready" /\ Live = {}
    /\ calls' = {}
    /\ queueDepth' = queueDepth - Cardinality(calls)
    /\ wpc' = [wpc EXCEPT ![w] = "asleep"]
    /\ UNCHANGED <<nextSeq, seq, timed, callerVars, cur, answers, sem, inFlight>>

StartRun(w) ==
    /\ wpc[w] = "popped"
    /\ queueDepth' = queueDepth - 1
    /\ inFlight' = inFlight + 1
    /\ wpc' = [wpc EXCEPT ![w] = "slot"]
    /\ UNCHANGED <<calls, nextSeq, seq, timed, callerVars, cur, answers, sem>>

\* acquire: a token, and upstream.
AcquireSlot(w) ==
    LET r == RouteOf[cur[w]] IN
    /\ wpc[w] = "slot" /\ sem[r] < Depth[r]
    /\ sem' = [sem EXCEPT ![r] = @ + 1]
    /\ wpc' = [wpc EXCEPT ![w] = "upstream"]
    /\ UNCHANGED <<calls, nextSeq, seq, timed, callerVars, cur, answers, inFlight, queueDepth>>

\* Mutant: done has no buffer.
CanSendUnbuffered(c) == cpc[c] = "select"

\* done has a buffer of one.
CanSend(c) == c \notin answers

\* InFlight.Dec and the send on done.
Answer(w) ==
    /\ CanSend(cur[w])
    /\ inFlight' = inFlight - 1
    /\ answers' = answers \cup {cur[w]}
    /\ cur' = [cur EXCEPT ![w] = None]
    /\ wpc' = [wpc EXCEPT ![w] = "ready"]

\* acquire: the wait timed out (RouteOverflowError) or the context ended.
SlotDenied(w) ==
    /\ wpc[w] = "slot"
    /\ RouteOf[cur[w]] \in timed \/ cur[w] \in gone
    /\ Answer(w)
    /\ UNCHANGED <<calls, nextSeq, seq, timed, callerVars, sem, queueDepth>>

\* The deferred release of the token, then the answer.
UpstreamReturns(w) ==
    /\ wpc[w] = "upstream" /\ sem[RouteOf[cur[w]]] > 0
    /\ sem' = [sem EXCEPT ![RouteOf[cur[w]]] = @ - 1]
    /\ Answer(w)
    /\ UNCHANGED <<calls, nextSeq, seq, timed, callerVars, queueDepth>>

\* The provider never comes back.
UpstreamHangs(w) ==
    /\ wpc[w] = "upstream" /\ Cardinality(At("hung")) < MaxHung
    /\ wpc' = [wpc EXCEPT ![w] = "hung"]
    /\ UNCHANGED <<calls, nextSeq, seq, timed, callerVars, cur, answers, sem, inFlight, queueDepth>>

-----------------------------------------------------------------------------
Caller(c) == Push(c) \/ Count(c) \/ ReceiveAnswer(c) \/ Abandon(c) \/ AbandonReturn(c)

Worker(w) ==
    \/ Sleep(w) \/ StartRun(w) \/ AcquireSlot(w) \/ SlotDenied(w)
    \/ UpstreamReturns(w) \/ \E c \in Calls : Pop(w, c)

Next ==
    \/ \E c \in Calls : Caller(c) \/ ContextEnds(c)
    \/ \E w \in Workers : Worker(w) \/ UpstreamHangs(w)

Spec == Init /\ [][Next]_vars

\* As long as some goroutine can run, one does: a timeout that is set fires, and
\* the provider comes back from every call that does not hang.  That is all,
\* for the calls are finitely many; no new call has to be made and no context
\* has to end.
Fairness ==
    WF_vars(\/ \E c \in Calls : Count(c) \/ ReceiveAnswer(c) \/ Abandon(c) \/ AbandonReturn(c)
            \/ \E w \in Workers : Worker(w))

LiveSpec == Spec /\ Fairness

-----------------------------------------------------------------------------
(* Properties.                                                              *)

\* No worker sleeps while a call nobody is on its way to waits: the signals of
\* Push are never lost or spent on the same worker twice, so a worker is awake
\* for every call on the heap as long as one is asleep.
WorkConserving == At("asleep") # {} => Cardinality(calls) <= Cardinality(At("ready"))

\* The ledger of the gauges: once no caller and no worker is between a change
\* and the gauge that reports it, queueDepth is the size of the heap, inFlight
\* the number of running calls and each semaphore the calls upstream on it.
\* So every pushed call is counted out once, by the worker that runs it, the
\* worker that drops it or the caller that removes it.
GaugesSettle ==
    (\A c \in Calls : cpc[c] \notin {"count", "signal"}) /\ At("popped") = {} =>
        /\ queueDepth = Cardinality(calls)
        /\ inFlight = Cardinality({w \in Workers : cur[w] # None})
        /\ \A r \in Routes :
             sem[r] = Cardinality({w \in At("upstream") \cup At("hung") : RouteOf[cur[w]] = r})

\* Calls wait behind servers: the queue implements PriorityService.  The calls
\* in line are the live ones on the heap; dead ones are skipped unseen.
Service == INSTANCE PriorityService WITH
    Servers <- Workers, rank <- seq, arrivals <- nextSeq, waiting <- calls \ gone,
    at <- cur, served <- answers

ImplementsService == Service!Spec

\* A worker that never comes back: it hangs upstream, or it waits without a
\* timeout for a route all of whose slots are held by calls that hang.
Stuck(w) ==
    \/ wpc[w] = "hung"
    \/ /\ wpc[w] = "slot" /\ cur[w] \notin gone /\ RouteOf[cur[w]] \notin timed
       /\ LET r == RouteOf[cur[w]]
          IN  Cardinality({v \in At("hung") : RouteOf[cur[v]] = r}) = Depth[r]

\* Every caller returns: again and again the only ones still in select are those
\* whose context lives and whose worker, or every worker, is stuck.  In
\* particular a caller whose context ends comes back whatever the workers do.
Answered ==
    []<>(\A c \in Calls : cpc[c] = "select" =>
            /\ c \notin gone
            /\ (\A w \in Workers : Stuck(w)) \/ \E w \in Workers : Stuck(w) /\ cur[w] = c)
=============================================================================
