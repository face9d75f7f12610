-------------------------- MODULE CrossProjectCalls --------------------------
(* A task calls a workflow of another project and waits for it.  The call is *)
(* a row of the ledger cross_project_calls and a callee task, child of the   *)
(* caller.  Five parties write the two: the caller's run, the finaliser of   *)
(* the callee's run (the resolve hook, then the parent's wake-up), the       *)
(* timeout scanner, operators, and the recovery of expired leases.           *)
(*                                                                           *)
(* One caller, whose workflow has one call_project step; every dispatch of   *)
(* it is a fresh execution that starts at the entry step.  TaskDispatch has  *)
(* leases and runs that overlap, ParentWakeup the pause in smaller steps;    *)
(* both count attempts, while here a task may have another one or not.       *)
EXTENDS Integers, FiniteSets

CONSTANTS
    Scanners,        \* CPCTimeoutScanner of each daemon that takes itself for the leader
    HasTimeout,      \* the step has a timeout
    CancelOnTimeout, \* ... and cancel_on_timeout
    MaxCalls,        \* bound: calls the caller makes
    MaxFaults        \* bound: kills, failing statements and operator requests

ASSUME CallsAssumption ==
    /\ HasTimeout \in BOOLEAN /\ CancelOnTimeout \in BOOLEAN
    /\ MaxCalls \in Nat \ {0}
    /\ MaxFaults \in Nat

Calls == 1..MaxCalls

\* The wakers: the finaliser of each callee, the re-check at the end of the
\* pause and the sweep at boot.
Heal == 0
BootSweep == -1
Wakers == -1..MaxCalls

VARIABLES
    caller,    \* the status of the caller's row
    leased,    \* ... and whether it carries a lease
    ppc,       \* its run and, after it, the goroutine that dispatched it
    made,      \* calls made so far; the last one is the one waited for
    released,  \* the status the dispatcher is about to write back
    cpc,       \* status of each row of the ledger
    stamped,   \* rows with a callee_task_id
    callee,    \* the status of each callee task; COMPLETED also once the result is closed
    rpc,       \* the run of each callee
    undone,    \* history: callees that succeeded without, or have lost, their COMPLETED
    wpc, anyFailed,  \* each waker: where it is and the verdict it has
    spc,       \* each scanner
    batch,     \* the rows its statement selected, then those it has claimed and not handled
    named,     \* the claimed rows that carry the id of their callee
    hand,      \* the claimed row it is handling, 0 for none
    up,        \* the daemons run
    missed,    \* history: what may cost the caller the wake-up from its present call
    faults

vars == <<caller, leased, ppc, made, released, cpc, stamped, callee, rpc,
          undone, wpc, anyFailed, spc, batch, named, hand, up, missed, faults>>

callerVars == <<caller, leased, ppc, made, released>>
ledger == <<cpc, stamped>>
calleeVars == <<callee, rpc, undone>>
wakeVars == <<wpc, anyFailed>>
scanVars == <<spc, batch, named, hand>>

Status == {"QUEUED", "RUNNING", "WAITING_FOR_CHILDREN", "PENDING", "COMPLETED", "FAILED"}
CalleeStatus == {"none", "QUEUED", "RUNNING", "COMPLETED", "FAILED", "CANCELLED"}
Resolved == {"completed", "failed", "timed_out", "rejected"}
Ended == {"COMPLETED", "FAILED", "CANCELLED"}

CallerTypes ==
    /\ caller \in Status /\ leased \in BOOLEAN
    /\ ppc \in {"idle", "entry", "callee", "stamp", "flip", "paused", "after", "release"}
    /\ made \in 0..MaxCalls
    /\ released \in Status

LedgerTypes ==
    /\ cpc \in [Calls -> {"none", "pending"} \union Resolved]
    /\ stamped \subseteq Calls

CalleeTypes ==
    /\ callee \in [Calls -> CalleeStatus]
    /\ rpc \in [Calls -> {"idle", "work", "success", "failure", "wake"}]
    /\ undone \subseteq Calls

WakeTypes ==
    /\ wpc \in [Wakers -> {"idle", "read", "write"}]
    /\ anyFailed \in [Wakers -> BOOLEAN]

ScanTypes ==
    /\ spc \in [Scanners -> {"idle", "claim", "next", "wake", "cascade", "kill"}]
    /\ batch \in [Scanners -> SUBSET Calls] /\ named \in [Scanners -> SUBSET Calls]
    /\ hand \in [Scanners -> 0..MaxCalls]

RestTypes ==
    /\ up \in BOOLEAN
    /\ missed \subseteq {"early", "clobbered", "cut", "unread"}
    /\ faults \in 0..MaxFaults

TypeOK == CallerTypes /\ LedgerTypes /\ CalleeTypes /\ WakeTypes /\ ScanTypes /\ RestTypes

Init ==
    /\ caller = "QUEUED" /\ leased = FALSE
    /\ ppc = "idle" /\ made = 0 /\ released = "QUEUED"
    /\ cpc = [c \in Calls |-> "none"] /\ stamped = {}
    /\ callee = [c \in Calls |-> "none"]
    /\ rpc = [c \in Calls |-> "idle"] /\ undone = {}
    /\ wpc = [w \in Wakers |-> "idle"]
    /\ anyFailed = [w \in Wakers |-> FALSE]
    /\ spc = [s \in Scanners |-> "idle"] /\ batch = [s \in Scanners |-> {}]
    /\ named = [s \in Scanners |-> {}] /\ hand = [s \in Scanners |-> 0]
    /\ up = TRUE /\ missed = {} /\ faults = 0

Fault == faults < MaxFaults /\ faults' = faults + 1

WakeTo(w, pc) == wpc' = [wpc EXCEPT ![w] = pc]

-----------------------------------------------------------------------------
(* The caller's run.                                                         *)

\* LeaseTask, ExecuteWithContext and UpdateStatus(RUNNING).
Lease ==
    /\ up /\ ppc = "idle" /\ caller = "QUEUED" /\ ~leased
    /\ caller' = "RUNNING" /\ leased' = TRUE
    /\ ppc' = "entry"
    /\ UNCHANGED <<made, released, ledger, calleeVars, wakeVars, scanVars, up, missed, faults>>

\* TaskCompleted(success = false) and recoverExpiredLeases: once more if there
\* are attempts left, or over.
GiveBack == caller' \in {"QUEUED", "FAILED"} /\ leased' = FALSE

\* The run ends and its dispatcher closes it: the call was refused and on_fail
\* led here, or the steps before the call led elsewhere.
Finish ==
    /\ ppc \in {"entry", "after"}
    /\ caller' = "COMPLETED" /\ leased' = FALSE
    /\ ppc' = "idle"
    /\ UNCHANGED <<made, released, ledger, calleeVars, wakeVars, scanVars, up, missed, faults>>

FinishBadly ==
    /\ ppc \in {"entry", "after"}
    /\ GiveBack
    /\ ppc' = "idle"
    /\ UNCHANGED <<made, released, ledger, calleeVars, wakeVars, scanVars, up, missed, faults>>

\* handleCallProjectStep, once the checks have passed: first the ledger row.  What
\* an earlier call has missed does not excuse this one.
CreateCall ==
    /\ ppc = "entry" /\ made < MaxCalls
    /\ made' = made + 1
    /\ cpc' = [cpc EXCEPT ![made + 1] = "pending"]
    /\ ppc' = "callee" /\ missed' = {}
    /\ UNCHANGED <<caller, leased, released, stamped, calleeVars, wakeVars, scanVars, up, faults>>

\* ... then the callee task, which may be leased at once, ...
CreateCallee ==
    /\ ppc = "callee"
    /\ callee' = [callee EXCEPT ![made] = "QUEUED"]
    /\ ppc' = "stamp"
    /\ UNCHANGED <<caller, leased, made, released, ledger, rpc, undone, wakeVars, scanVars,
                   up, missed, faults>>

\* Mutant: the answer is written whatever the row says.
UnresolvedAlways(c) == cpc[c] # "none"

\* The condition of MarkCompleted, MarkFailed, MarkRejected and AdminCancel.
Unresolved(c) == cpc[c] \notin Resolved

Mark(c, s) == cpc' = IF Unresolved(c) THEN [cpc EXCEPT ![c] = s] ELSE cpc

\* ... whose Create may fail: MarkRejected, which may fail too, and on_fail.
CreateCalleeFails ==
    /\ ppc = "callee" /\ Fault
    /\ Mark(made, "rejected") \/ UNCHANGED cpc
    /\ ppc' = "after"
    /\ UNCHANGED <<caller, leased, made, released, stamped, calleeVars, wakeVars, scanVars,
                   up, missed>>

\* SetCalleeTaskID, whose failure is only logged.
Stamp ==
    /\ ppc = "stamp"
    /\ stamped' = stamped \union {made}
    /\ ppc' = "flip"
    /\ UNCHANGED <<caller, leased, made, released, cpc, calleeVars, wakeVars, scanVars,
                   up, missed, faults>>

StampFails ==
    /\ ppc = "stamp" /\ Fault
    /\ ppc' = "flip"
    /\ UNCHANGED <<caller, leased, made, released, ledger, calleeVars, wakeVars, scanVars,
                   up, missed>>

\* The checkpoint, then UpdateStatus(WAITING_FOR_CHILDREN), and the re-check begins.
Flip ==
    /\ ppc = "flip"
    /\ caller' = "WAITING_FOR_CHILDREN"
    /\ ppc' = "paused" /\ WakeTo(Heal, "read")
    /\ UNCHANGED <<leased, made, released, ledger, calleeVars, anyFailed, scanVars,
                   up, missed, faults>>

\* The error of the UpdateStatus is ignored ...
FlipFails ==
    /\ ppc = "flip" /\ Fault
    /\ ppc' = "paused" /\ WakeTo(Heal, "read")
    /\ missed' = missed \union {"unread"}
    /\ UNCHANGED <<caller, leased, made, released, ledger, calleeVars, anyFailed, scanVars, up>>

\* ... and one of the checkpoint ends the run.
CheckpointFails ==
    /\ ppc = "flip" /\ Fault
    /\ GiveBack
    /\ ppc' = "idle"
    /\ UNCHANGED <<made, released, ledger, calleeVars, wakeVars, scanVars, up, missed>>

\* The goroutine that dispatched the run finds it FAILED ...
FinishFailed ==
    /\ ppc = "paused" /\ wpc[Heal] = "idle" /\ caller = "FAILED"
    /\ GiveBack
    /\ ppc' = "idle"
    /\ UNCHANGED <<made, released, ledger, calleeVars, wakeVars, scanVars, up, missed, faults>>

\* ... or releases the lease: it reads the status and writes it back.
Reload ==
    /\ ppc = "paused" /\ wpc[Heal] = "idle" /\ caller # "FAILED"
    /\ released' = IF caller = "RUNNING" THEN "PENDING" ELSE caller
    /\ ppc' = "release"
    /\ UNCHANGED <<caller, leased, made, ledger, calleeVars, wakeVars, scanVars,
                   up, missed, faults>>

Release ==
    /\ ppc = "release"
    /\ caller' = released /\ leased' = FALSE
    /\ missed' = IF caller \notin {released, "RUNNING"}
                 THEN missed \union {"clobbered"} ELSE missed
    /\ released' = "QUEUED" /\ ppc' = "idle"
    /\ UNCHANGED <<made, ledger, calleeVars, wakeVars, scanVars, up, faults>>

\* Its read of the task or of the execution fails, which it takes for a failed
\* run; and so may the read in TaskCompleted, which then ends the task.
CallerMisread ==
    /\ ppc = "paused" /\ wpc[Heal] = "idle" /\ Fault
    /\ GiveBack
    /\ ppc' = "idle"
    /\ UNCHANGED <<made, released, ledger, calleeVars, wakeVars, scanVars, up, missed>>

\* The reload or the ReleaseLease fails: the row keeps its lease.
ReleaseFails ==
    /\ ppc \in {"paused", "release"} /\ wpc[Heal] = "idle" /\ Fault
    /\ released' = "QUEUED" /\ ppc' = "idle"
    /\ UNCHANGED <<caller, leased, made, ledger, calleeVars, wakeVars, scanVars, up, missed>>

\* recoverExpiredLeases, for a caller whose run is gone.
RecoverCaller ==
    /\ up /\ ppc = "idle" /\ leased /\ caller \in {"QUEUED", "RUNNING"}
    /\ GiveBack
    /\ UNCHANGED <<ppc, made, released, ledger, calleeVars, wakeVars, scanVars, up, missed, faults>>

-----------------------------------------------------------------------------
(* The callee's run and its end: the row, the resolve hook, the wake-up.     *)

RunTo(c, pc) == rpc' = [rpc EXCEPT ![c] = pc]
CalleeTo(c, s) == callee' = [callee EXCEPT ![c] = s]

CalleeLease(c) ==
    /\ up /\ rpc[c] = "idle" /\ callee[c] = "QUEUED"
    /\ CalleeTo(c, "RUNNING") /\ RunTo(c, "work")
    /\ UNCHANGED <<callerVars, ledger, undone, wakeVars, scanVars, up, missed, faults>>

\* handleSuccess: an unconditional UpdateStatus.
CalleeSucceeds(c) ==
    /\ rpc[c] = "work"
    /\ CalleeTo(c, "COMPLETED") /\ RunTo(c, "success")
    /\ UNCHANGED <<callerVars, ledger, undone, wakeVars, scanVars, up, missed, faults>>

\* handleFailure: the row as the run loaded it, FAILED if that was the last attempt.
CalleeFails(c) ==
    /\ rpc[c] = "work"
    /\ \E s \in {"RUNNING", "FAILED"} : CalleeTo(c, s)
    /\ RunTo(c, "failure")
    /\ UNCHANGED <<callerVars, ledger, undone, wakeVars, scanVars, up, missed, faults>>

\* handleSuccess and handleFailure ignore the error of their write and go on.
CalleeUnwritten(c) ==
    /\ rpc[c] = "work" /\ Fault
    /\ \/ RunTo(c, "success") /\ undone' = undone \union {c}
       \/ RunTo(c, "failure") /\ UNCHANGED undone
    /\ UNCHANGED <<callerVars, ledger, callee, wakeVars, scanVars, up, missed>>

\* CancelTask.  A running callee ends in handleCancelled and its resolve hook; ...
CancelRunning(c) ==
    /\ up /\ rpc[c] = "work" /\ Fault
    /\ CalleeTo(c, "CANCELLED") /\ RunTo(c, "failure")
    /\ UNCHANGED <<callerVars, ledger, undone, wakeVars, scanVars, up, missed>>

\* ... for a queued one only the parent is told.
CancelQueued(c) ==
    /\ up /\ rpc[c] = "idle" /\ callee[c] = "QUEUED" /\ wpc[c] = "idle" /\ Fault
    /\ CalleeTo(c, "CANCELLED") /\ WakeTo(c, "read")
    /\ UNCHANGED <<callerVars, ledger, rpc, undone, anyFailed, scanVars, up, missed>>

\* Mutant: a run that failed is taken for one that answered.
AnswersAny(c) == {"completed"}

\* resolveCrossProjectCallForTask: an envelope that is empty, malformed or of
\* another schema is rejected.  It runs at the end of every attempt.
Answers(c) == IF rpc[c] = "success" THEN {"completed", "rejected"} ELSE {"failed"}

\* The hook, then checkParentUnblock ...
Resolve(c) ==
    /\ rpc[c] \in {"success", "failure"} /\ wpc[c] = "idle"
    /\ \E t \in Answers(c) : Mark(c, t)
    /\ RunTo(c, "wake") /\ WakeTo(c, "read")
    /\ UNCHANGED <<callerVars, stamped, callee, undone, anyFailed, scanVars, up, missed, faults>>

\* ... also when the Mark fails, which is only logged.
ResolveFails(c) ==
    /\ rpc[c] \in {"success", "failure"} /\ wpc[c] = "idle" /\ Fault
    /\ RunTo(c, "wake") /\ WakeTo(c, "read")
    /\ UNCHANGED <<callerVars, ledger, callee, undone, anyFailed, scanVars, up, missed>>

\* The same for a callee.
GiveCalleeBack(c) == \E s \in {"QUEUED", "FAILED"} : CalleeTo(c, s)

\* The dispatcher of the callee: an attempt that has not ended the task is given
\* back, ...
CalleeGivenBack(c) ==
    /\ rpc[c] = "wake" /\ wpc[c] = "idle" /\ callee[c] = "RUNNING"
    /\ GiveCalleeBack(c) /\ RunTo(c, "idle")
    /\ UNCHANGED <<callerVars, ledger, undone, wakeVars, scanVars, up, missed, faults>>

CalleeReleased(c) ==
    /\ rpc[c] = "wake" /\ wpc[c] = "idle" /\ callee[c] # "RUNNING"
    /\ RunTo(c, "idle")
    /\ UNCHANGED <<callerVars, ledger, callee, undone, wakeVars, scanVars, up, missed, faults>>

\* ... and so is one whose status it failed to read.  An operator's re-queue has
\* taken the lease off the row, and ReleaseLease itself may fail.
CalleeMisread(c) ==
    /\ rpc[c] = "wake" /\ wpc[c] = "idle" /\ Fault
    /\ \/ /\ callee[c] # "QUEUED"
          /\ GiveCalleeBack(c)
          /\ undone' = undone \union {c}
       \/ UNCHANGED <<callee, undone>>
    /\ RunTo(c, "idle")
    /\ UNCHANGED <<callerVars, ledger, wakeVars, scanVars, up, missed>>

\* recoverExpiredLeases, for a callee whose run is gone; nobody is told when
\* that was the last attempt.
RecoverCallee(c) ==
    /\ up /\ rpc[c] = "idle" /\ callee[c] = "RUNNING"
    /\ GiveCalleeBack(c)
    /\ UNCHANGED <<callerVars, ledger, rpc, undone, wakeVars, scanVars, up, missed, faults>>

\* RetryTask and PostTaskMessage: RequeueTerminalTask, with at least one attempt
\* left.
Requeue(c) ==
    /\ up /\ callee[c] \in Ended /\ rpc[c] # "work" /\ Fault
    /\ CalleeTo(c, "QUEUED")
    /\ undone' = undone \union {c}
    /\ UNCHANGED <<callerVars, ledger, rpc, wakeVars, scanVars, up, missed>>

-----------------------------------------------------------------------------
(* unblockParentIfChildrenDone: all callees so far are the caller's children.*)

WakeEnds(w) ==
    /\ WakeTo(w, "idle")
    /\ anyFailed' = [anyFailed EXCEPT ![w] = FALSE]

Children == {c \in Calls : callee[c] # "none"}

\* Get of the parent and GetChildren; ParentWakeup has them apart.
ChildrenDone ==
    /\ caller = "WAITING_FOR_CHILDREN"
    /\ Children # {} /\ \A c \in Children : callee[c] \in Ended

WakeRead(w) ==
    /\ wpc[w] = "read" /\ ChildrenDone
    /\ WakeTo(w, "write")
    /\ anyFailed' = [anyFailed EXCEPT ![w] = \E c \in Children : callee[c] = "FAILED"]
    /\ UNCHANGED <<callerVars, ledger, calleeVars, scanVars, up, missed, faults>>

WakeReturns(w) ==
    /\ wpc[w] = "read" /\ ~ChildrenDone
    /\ WakeEnds(w)
    /\ UNCHANGED <<callerVars, ledger, calleeVars, scanVars, up, missed, faults>>

\* Mutant: the unconditional write of before 2026-06-04.
MovableAlways == TRUE

\* The condition of TransitionConditional.
Movable == caller = "WAITING_FOR_CHILDREN"

WakeWrite(w) ==
    /\ wpc[w] = "write"
    /\ WakeEnds(w)
    /\ IF ~Movable THEN UNCHANGED caller
       ELSE caller' = "QUEUED" \/ (anyFailed[w] /\ caller' = "FAILED")
    /\ UNCHANGED <<leased, ppc, made, released, ledger, calleeVars, scanVars, up, missed, faults>>

\* A statement of the waker fails, which is only logged.
WakeFails(w) ==
    /\ wpc[w] # "idle" /\ Fault
    /\ WakeEnds(w)
    /\ UNCHANGED <<callerVars, ledger, calleeVars, scanVars, up, missed>>

-----------------------------------------------------------------------------
(* The timeout scanner.                                                      *)

ScanTo(s, pc) == spc' = [spc EXCEPT ![s] = pc]

Due == {c \in Calls : HasTimeout /\ cpc[c] = "pending"}

\* tick, ClaimTimedOut: the inner SELECT reads its snapshot.  The calls are of
\* one step, so an older one times out first; any number of them may have ...
ClaimSelect(s) ==
    /\ up /\ spc[s] = "idle"
    /\ \E n \in Due : batch' = [batch EXCEPT ![s] = {c \in Due : c <= n}]
    /\ ScanTo(s, "claim")
    /\ UNCHANGED <<callerVars, ledger, calleeVars, wakeVars, named, hand, up, missed, faults>>

\* ... and the UPDATE takes the rows by id, without a second look at status.
Claim(s) == cpc' = [c \in Calls |-> IF c \in batch[s] THEN "timed_out" ELSE cpc[c]]

ClaimUpdate(s) ==
    /\ spc[s] = "claim"
    /\ Claim(s)
    /\ named' = [named EXCEPT ![s] = batch[s] \intersect stamped]
    /\ ScanTo(s, "next")
    /\ UNCHANGED <<callerVars, stamped, calleeVars, wakeVars, batch, hand, up, missed, faults>>

\* The statement fails, or commits and its answer is lost: the tick ends, and in
\* the second case nobody holds the claimed rows.
ClaimFails(s) ==
    /\ spc[s] = "claim" /\ Fault
    /\ \/ UNCHANGED <<cpc, missed>>
       \/ Claim(s) /\ missed' = missed \union {"cut"}
    /\ ScanTo(s, "idle") /\ batch' = [batch EXCEPT ![s] = {}]
    /\ UNCHANGED <<callerVars, stamped, calleeVars, wakeVars, named, hand, up>>

\* The caller is about to wait for call c, or waits for it.
WaitsFor(c) ==
    /\ c = made
    /\ ppc \in {"callee", "stamp", "flip"} \/ caller = "WAITING_FOR_CHILDREN"

\* wakeCallerForTimeout looks at the caller ...
WakesFor == caller = "WAITING_FOR_CHILDREN"

ScanCaller(s) ==
    /\ spc[s] = "next"
    /\ \E c \in batch[s] :
          /\ hand' = [hand EXCEPT ![s] = c]
          /\ batch' = [batch EXCEPT ![s] = @ \ {c}]
          /\ missed' = IF ~WakesFor /\ WaitsFor(c) THEN missed \union {"early"} ELSE missed
    /\ ScanTo(s, IF WakesFor THEN "wake" ELSE "cascade")
    /\ UNCHANGED <<callerVars, ledger, calleeVars, wakeVars, named, up, faults>>

\* ... and re-queues it, whatever it is by now.
ScanWake(s) ==
    /\ spc[s] = "wake"
    /\ caller' = "QUEUED"
    /\ ScanTo(s, "cascade")
    /\ UNCHANGED <<leased, ppc, made, released, ledger, calleeVars, wakeVars, batch, named, hand,
                   up, missed, faults>>

\* Mutant: the tick ends with the first row.
HandDoneFirst(s) ==
    /\ ScanTo(s, "idle")
    /\ named' = [named EXCEPT ![s] = {}] /\ hand' = [hand EXCEPT ![s] = 0]

\* The claimed row is over, and with the last one the tick.
HandDone(s) ==
    /\ ScanTo(s, IF batch[s] = {} THEN "idle" ELSE "next")
    /\ named' = [named EXCEPT ![s] = @ \ {hand[s]}] /\ hand' = [hand EXCEPT ![s] = 0]

\* cascadeCancelCallee looks at the callee the claimed row names ...
Cascades(s) == CancelOnTimeout /\ hand[s] \in named[s] /\ callee[hand[s]] \notin Ended

ScanCallee(s) ==
    /\ spc[s] = "cascade" /\ Cascades(s)
    /\ ScanTo(s, "kill")
    /\ UNCHANGED <<callerVars, ledger, calleeVars, wakeVars, batch, named, hand,
                   up, missed, faults>>

ScanReturns(s) ==
    /\ spc[s] = "cascade" /\ ~Cascades(s)
    /\ HandDone(s)
    /\ UNCHANGED <<callerVars, ledger, calleeVars, wakeVars, batch, up, missed, faults>>

\* ... and writes CANCELLED, telling neither its run nor its parent.
ScanKill(s) ==
    /\ spc[s] = "kill"
    /\ CalleeTo(hand[s], "CANCELLED")
    /\ HandDone(s)
    /\ UNCHANGED <<callerVars, ledger, rpc, undone, wakeVars, batch, up, missed, faults>>

\* The read of the caller fails, ...
ScanCallerFails(s) ==
    /\ spc[s] = "next" /\ Fault
    /\ \E c \in batch[s] :
          hand' = [hand EXCEPT ![s] = c] /\ batch' = [batch EXCEPT ![s] = @ \ {c}]
    /\ ScanTo(s, "cascade")
    /\ missed' = missed \union {"unread"}
    /\ UNCHANGED <<callerVars, ledger, calleeVars, wakeVars, named, up>>

\* ... the write of the wake-up, ...
ScanWakeFails(s) ==
    /\ spc[s] = "wake" /\ Fault
    /\ ScanTo(s, "cascade")
    /\ missed' = missed \union {"unread"}
    /\ UNCHANGED <<callerVars, ledger, calleeVars, wakeVars, batch, named, hand, up>>

\* ... or one of the cascade, and the row is over.
ScanCalleeFails(s) ==
    /\ spc[s] \in {"cascade", "kill"} /\ Fault
    /\ HandDone(s)
    /\ UNCHANGED <<callerVars, ledger, calleeVars, wakeVars, batch, up, missed>>

\* AdminCPCCancel resolves the row and tells nobody.
AdminCancel(c) ==
    /\ up /\ cpc[c] = "pending" /\ Fault
    /\ Mark(c, "rejected")
    /\ UNCHANGED <<callerVars, stamped, calleeVars, wakeVars, scanVars, up, missed>>

-----------------------------------------------------------------------------
\* The daemons are killed: a claimed row whose caller waits is never handled.
Crash ==
    /\ up /\ Fault
    /\ up' = FALSE
    /\ missed' = IF \E s \in Scanners : spc[s] = "wake" \/ (spc[s] # "claim" /\ batch[s] # {})
                 THEN missed \union {"cut"} ELSE missed
    /\ ppc' = "idle" /\ released' = "QUEUED"
    /\ rpc' = [c \in Calls |-> "idle"]
    /\ wpc' = [w \in Wakers |-> "idle"]
    /\ anyFailed' = [w \in Wakers |-> FALSE]
    /\ spc' = [s \in Scanners |-> "idle"] /\ batch' = [s \in Scanners |-> {}]
    /\ named' = [s \in Scanners |-> {}] /\ hand' = [s \in Scanners |-> 0]
    /\ UNCHANGED <<caller, leased, made, ledger, callee, undone>>

\* Recover ends with sweepStuckWaitingForChildren.
Restart ==
    /\ ~up
    /\ up' = TRUE /\ WakeTo(BootSweep, "read")
    /\ UNCHANGED <<callerVars, ledger, calleeVars, anyFailed, scanVars, missed, faults>>

-----------------------------------------------------------------------------
Run ==
    \/ Lease \/ Finish \/ FinishBadly \/ CreateCall \/ CreateCallee \/ CreateCalleeFails
    \/ Stamp \/ StampFails \/ Flip \/ FlipFails \/ CheckpointFails
    \/ FinishFailed \/ Reload \/ Release \/ CallerMisread \/ ReleaseFails \/ RecoverCaller

CalleeStep(c) ==
    \/ CalleeLease(c) \/ CalleeSucceeds(c) \/ CalleeFails(c)
    \/ CalleeUnwritten(c) \/ CancelRunning(c) \/ CancelQueued(c) \/ Resolve(c)
    \/ ResolveFails(c) \/ CalleeGivenBack(c) \/ CalleeReleased(c) \/ CalleeMisread(c)
    \/ RecoverCallee(c) \/ Requeue(c)

Wake(w) == WakeRead(w) \/ WakeReturns(w) \/ WakeWrite(w) \/ WakeFails(w)

Scan(s) ==
    \/ ClaimSelect(s) \/ ClaimUpdate(s) \/ ClaimFails(s)
    \/ ScanCaller(s) \/ ScanCallerFails(s) \/ ScanWake(s) \/ ScanWakeFails(s)
    \/ ScanCallee(s) \/ ScanReturns(s) \/ ScanKill(s) \/ ScanCalleeFails(s)

Next ==
    \/ Run
    \/ \E c \in Calls : CalleeStep(c) \/ AdminCancel(c)
    \/ \E w \in Wakers : Wake(w)
    \/ \E s \in Scanners : Scan(s)
    \/ Crash \/ Restart

Spec == Init /\ [][Next]_vars

-----------------------------------------------------------------------------
(* Properties.                                                               *)

\* MarkCompleted, MarkFailed, MarkRejected, AdminCancel: an answer that comes
\* after the timeout, or after another answer, changes nothing.  Only a claim
\* whose snapshot is older than the answer overwrites it.
ResolvedOnce ==
    [][\A c \in Calls : cpc[c] \in Resolved =>
           cpc'[c] = cpc[c] \/ \E s \in Scanners : spc[s] = "claim" /\ c \in batch[s]]_vars

\* A call that reads completed has a callee that is COMPLETED and stays so while
\* the scanner cancels callees, kills cut finalisers off and attempts are
\* repeated.  Recorded, and excepted: handleSuccess answers the call although
\* its own UpdateStatus failed, a dispatcher that cannot read the COMPLETED row
\* gives it back, and an operator retries the callee or writes to it.
CompletedIsTrue ==
    \A c \in Calls : cpc[c] = "completed" /\ c \notin undone => callee[c] = "COMPLETED"

\* A caller that has ended is not started again by a waker that read it long
\* ago; only the scanner's wake-up, decided before the end, can do that.
EndedKept ==
    [][ppc = "idle" /\ caller \in {"COMPLETED", "FAILED"} =>
           caller' = caller \/ \E s \in Scanners : spc[s] = "wake"]_vars

\* Some scanner holds the row of call c and has yet to look at the caller, or
\* is about to re-queue it.
InHand(s, c) == spc[s] = "wake" \/ (spc[s] \in {"next", "cascade", "kill"} /\ c \in batch[s])

\* A timed-out row is never claimed again, so its wake-up must not get lost: as
\* long as the caller waits for a timed-out call, a scanner is on its way to
\* wake it, unless one of the recorded events has robbed it of that since the
\* call was made.
WakeOwed ==
    caller = "WAITING_FOR_CHILDREN" /\ cpc[made] = "timed_out" /\ missed = {} =>
        \E s \in Scanners : InHand(s, made)

\* guides/cross-project.md: the caller "continues with the callee's result
\* available to later steps": it does not call again what has been answered.
ContinuesAfterResult ==
    [][\A c \in Calls : cpc[c] = "none" /\ cpc'[c] # "none" =>
           \A d \in Calls : cpc[d] # "completed"]_vars
=============================================================================
