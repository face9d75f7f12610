---------------------------- MODULE TaskDispatch ----------------------------
(***************************************************************************)
(* How a task is leased, dispatched, executed and given back.              *)
(*                                                                         *)
(* Several daemons ("nodes") share one tasks table.  On each node a        *)
(* scheduling loop reserves a slot and leases a queued task; a dispatch    *)
(* goroutine starts the executor, renews the lease while the executor      *)
(* reports the task as executing, classifies what the executor left and    *)
(* releases the lease; a recovery loop re-queues tasks whose lease expired.*)
(* Operators cancel, retry and answer tasks through any node's API.        *)
(*                                                                         *)
(* A lease id is fresh for every LeaseTask, so a dispatch goroutine and    *)
(* the run it may start are both indexed by the lease they work under.     *)
(* An action is one database statement, or a read and the statement that   *)
(* re-checks what was read.  lease_expires_at is the flag expired.         *)
(* Pausing, delegating to children, and the daemon's own shutdown and      *)
(* restart are not part of this module.                                    *)
(***************************************************************************)
EXTENDS Integers, FiniteSets

CONSTANTS
    Nodes, Tasks, None,
    MaxLeases,        \* bound: LeaseTask succeeds at most this often
    MaxConcurrency,   \* Config.MaxConcurrency of every node
    ProjectCap,       \* maxConcurrentTasks of the one project
    MaxAttempts,      \* tasks.max_attempts of a new task
    MaxCancels,       \* bound: operator cancellations
    MaxRequeues,      \* bound: operator retries and answers
    MaxStalls,        \* bound: leases that expire under a live dispatch
    MaxDBErrors       \* bound: failing statements

maxRenewFailures == 3

Leases == 1..MaxLeases

ASSUME NamesAssumption == None \notin Nodes /\ None \notin Tasks
ASSUME LimitsAssumption ==
    /\ MaxLeases \in Nat /\ MaxConcurrency \in Nat \ {0} /\ ProjectCap \in Nat \ {0}
    /\ MaxAttempts \in Nat \ {0}
ASSUME BudgetAssumption ==
    MaxCancels \in Nat /\ MaxRequeues \in Nat /\ MaxStalls \in Nat /\ MaxDBErrors \in Nat

VARIABLES
    row,        \* the tasks table
    leaseSeq,   \* lease ids handed out so far
    up,         \* the nodes that have not crashed
    slots,      \* Scheduler.runningCount
    sched,      \* schedule(): "idle", or reserved and under/over the project cap
    dTask, dNode, dpc,   \* each dispatchTask goroutine: its task, node and place
    fails,      \* ... its renewFailures
    victim,     \* ... the run its Executor.Cancel is about to cancel
    read,       \* ... the row TaskCompleted has loaded
    rpc,        \* each runExecution goroutine ("none": not in activeExecutions)
    ctxDone,    \* ... whether its context is cancelled
    snap,       \* ... the row ExecuteWithContext loaded for it
    sTask, sRow, spc,    \* each node's recovery sweep: the expired row it works on
    idle,       \* recoveryIdleSince: 0 none, 1 recorded, 2 older than the grace
    cpc, cNode, cVictim, \* the CancelTask request in flight on each task
    cancels, requeues, stalls, dbErrors

dispatchVars == <<dTask, dNode, dpc, fails, victim, read>>
runVars == <<rpc, ctxDone, snap>>
sweepVars == <<sTask, sRow, spc, idle>>
cancelVars == <<cpc, cNode, cVictim>>
budgets == <<cancels, requeues, stalls, dbErrors>>
vars == <<row, leaseSeq, up, slots, sched, dispatchVars, runVars, sweepVars,
          cancelVars, budgets>>

Status == {"QUEUED", "LEASED", "RUNNING", "AWAITING_INPUT", "COMPLETED",
           "FAILED", "CANCELLED"}

Row == [status : Status, lease : 0..MaxLeases, expired : BOOLEAN,
        attempt : Nat, max : Nat]

\* What a failed Get leaves: no row, hence no attempts to spend.
NoRow == [status |-> "QUEUED", lease |-> 0, expired |-> FALSE, attempt |-> 0, max |-> 0]

TypeOK ==
    /\ row \in [Tasks -> Row]
    /\ leaseSeq \in 0..MaxLeases
    /\ up \subseteq Nodes
    /\ slots \in [Nodes -> Nat]
    /\ sched \in [Nodes -> {"idle", "under", "over"}]
    /\ dTask \in [Leases -> Tasks \cup {None}]
    /\ dNode \in [Leases -> Nodes \cup {None}]
    /\ dpc \in [Leases -> {"none", "dispatch", "watch", "await", "cancel", "cancelrow",
                           "cancelfn", "succeeded", "failed", "terminated", "release",
                           "done", "dead"}]
    /\ fails \in [Leases -> 0..maxRenewFailures]
    /\ victim \in [Leases -> 0..MaxLeases]
    /\ read \in [Leases -> Row]
    /\ rpc \in [Leases -> {"none", "start", "work", "exit"}]
    /\ ctxDone \in [Leases -> BOOLEAN]
    /\ snap \in [Leases -> Row]
    /\ sTask \in [Nodes -> Tasks \cup {None}]
    /\ sRow \in [Nodes -> Row]
    /\ spc \in [Nodes -> {"idle", "found", "renew", "recover"}]
    /\ idle \in [Nodes -> [Tasks -> 0..2]]
    /\ cpc \in [Tasks -> {"idle", "running", "queued", "cancel", "cancelrow", "cancelfn"}]
    /\ cNode \in [Tasks -> Nodes \cup {None}]
    /\ cVictim \in [Tasks -> 0..MaxLeases]
    /\ cancels \in 0..MaxCancels
    /\ requeues \in 0..MaxRequeues
    /\ stalls \in 0..MaxStalls
    /\ dbErrors \in 0..MaxDBErrors

Init ==
    /\ row = [t \in Tasks |-> [status |-> "QUEUED", lease |-> 0, expired |-> FALSE,
                               attempt |-> 1, max |-> MaxAttempts]]
    /\ leaseSeq = 0
    /\ up = Nodes
    /\ slots = [n \in Nodes |-> 0]
    /\ sched = [n \in Nodes |-> "idle"]
    /\ dTask = [l \in Leases |-> None]
    /\ dNode = [l \in Leases |-> None]
    /\ dpc = [l \in Leases |-> "none"]
    /\ fails = [l \in Leases |-> 0]
    /\ victim = [l \in Leases |-> 0]
    /\ read = [l \in Leases |-> NoRow]
    /\ rpc = [l \in Leases |-> "none"]
    /\ ctxDone = [l \in Leases |-> FALSE]
    /\ snap = [l \in Leases |-> NoRow]
    /\ sTask = [n \in Nodes |-> None]
    /\ sRow = [n \in Nodes |-> NoRow]
    /\ spc = [n \in Nodes |-> "idle"]
    /\ idle = [n \in Nodes |-> [t \in Tasks |-> 0]]
    /\ cpc = [t \in Tasks |-> "idle"]
    /\ cNode = [t \in Tasks |-> None]
    /\ cVictim = [t \in Tasks |-> 0]
    /\ cancels = 0 /\ requeues = 0 /\ stalls = 0 /\ dbErrors = 0

-----------------------------------------------------------------------------
(* The statements of the task repository, as functions on one row.          *)

\* UpdateStatus, TransitionToCancelled: the lease columns stay.
SetStatus(r, s) ==
    [status |-> s, lease |-> r.lease, expired |-> r.expired,
     attempt |-> r.attempt, max |-> r.max]

\* TransitionConditional with ClearLease.
ClearLease(r, s) ==
    [status |-> s, lease |-> 0, expired |-> FALSE, attempt |-> r.attempt, max |-> r.max]

\* The row LeaseTask returns.
LeasedRow(r, l) ==
    [status |-> "LEASED", lease |-> l, expired |-> FALSE, attempt |-> r.attempt, max |-> r.max]

WithExpiry(r, b) ==
    [status |-> r.status, lease |-> r.lease, expired |-> b, attempt |-> r.attempt, max |-> r.max]

\* The WHERE clause of renewLeaseSQL.
Renewable(r, l) == r.lease = l /\ r.status \in {"LEASED", "RUNNING"}

\* RequeueTerminalTask.
RequeuedRow(a, m) ==
    [status |-> "QUEUED", lease |-> 0, expired |-> FALSE, attempt |-> a, max |-> m]

\* ReleaseLease: only under the caller's lease id, and whatever the status.
ReleasedRow(r, l, s, a, m) ==
    IF r.lease = l
    THEN [status |-> s, lease |-> 0, expired |-> FALSE,
          attempt |-> IF a = 0 THEN r.attempt ELSE a, max |-> IF m = 0 THEN r.max ELSE m]
    ELSE r

\* Mutant: the retry is granted at the last attempt too.
RetriedRowOffByOne(r, l, seen) ==
    IF seen.attempt <= seen.max /\ seen.max > 0
    THEN ReleasedRow(r, l, "QUEUED", seen.attempt + 1, seen.max)
    ELSE ReleasedRow(r, l, "FAILED", 0, 0)

\* Mutant: the retry leaves the attempts as they are.
RetriedRowUncharged(r, l, seen) ==
    IF seen.attempt < seen.max
    THEN ReleasedRow(r, l, "QUEUED", 0, 0)
    ELSE ReleasedRow(r, l, "FAILED", 0, 0)

\* TaskCompleted(success = false), given the row it loaded.
RetriedRow(r, l, seen) ==
    IF seen.attempt < seen.max
    THEN ReleasedRow(r, l, "QUEUED", seen.attempt + 1, seen.max)
    ELSE ReleasedRow(r, l, "FAILED", 0, 0)

\* Mutant: a recovered task is not charged for the lease it lost.
RecoveredRowUncharged(r, seen) ==
    IF seen.attempt + 1 > seen.max
    THEN ReleasedRow(r, seen.lease, "FAILED", seen.max, seen.max)
    ELSE ReleasedRow(r, seen.lease, "QUEUED", seen.attempt, seen.max)

\* recoverExpiredLeases, given the row FindExpiredLeases returned.
RecoveredRow(r, seen) ==
    IF seen.attempt + 1 > seen.max
    THEN ReleasedRow(r, seen.lease, "FAILED", seen.max, seen.max)
    ELSE ReleasedRow(r, seen.lease, "QUEUED", seen.attempt + 1, seen.max)

\* Update writes back every column of the struct the run loaded when it began.
\* lease_expires_at too: the value is the one from before any renewal.
FailedRow(s, a, e) ==
    [status |-> IF a < s.max THEN s.status ELSE "FAILED", lease |-> s.lease,
     expired |-> s.lease # 0 /\ (s.expired \/ e), attempt |-> a, max |-> s.max]

DBError == dbErrors < MaxDBErrors /\ dbErrors' = dbErrors + 1

\* Executor.IsExecuting: a run of the task is in the node's activeExecutions.
ActiveRuns(n, t) == {l \in Leases : dNode[l] = n /\ dTask[l] = t /\ rpc[l] # "none"}

\* Mutant: a run counts only once it has marked its task RUNNING.
IsExecutingLate(n, t) == \E l \in ActiveRuns(n, t) : rpc[l] # "start"

IsExecuting(n, t) == ActiveRuns(n, t) # {}

-----------------------------------------------------------------------------
(* schedule(): reserve a slot, then LeaseTask, then go dispatchTask.        *)

\* active_counts of LeaseTask; a parent waiting for children is not counted.
ActiveTasks ==
    {t \in Tasks : \/ row[t].status \in {"LEASED", "RUNNING"}
                   \/ row[t].status = "QUEUED" /\ row[t].lease # 0}

\* The reservation, and the snapshot on which LeaseTask counts active tasks.
Reserve(n) ==
    /\ n \in up /\ sched[n] = "idle"
    /\ slots[n] < MaxConcurrency
    /\ slots' = [slots EXCEPT ![n] = @ + 1]
    /\ sched' = [sched EXCEPT ![n] =
                   IF Cardinality(ActiveTasks) < ProjectCap THEN "under" ELSE "over"]
    /\ UNCHANGED <<row, leaseSeq, up, dispatchVars, runVars, sweepVars, cancelVars, budgets>>

\* The UPDATE of LeaseTask on a candidate row; SKIP LOCKED makes it re-check
\* the row, not the count.
LeaseTask(n, t) ==
    LET l == leaseSeq + 1 IN
    /\ n \in up /\ sched[n] = "under"
    /\ row[t].status = "QUEUED" /\ row[t].lease = 0
    /\ l \in Leases
    /\ leaseSeq' = l
    /\ row' = [row EXCEPT ![t] = LeasedRow(@, l)]
    /\ sched' = [sched EXCEPT ![n] = "idle"]
    /\ dTask' = [dTask EXCEPT ![l] = t]
    /\ dNode' = [dNode EXCEPT ![l] = n]
    /\ dpc' = [dpc EXCEPT ![l] = "dispatch"]
    /\ UNCHANGED <<up, slots, fails, victim, read, runVars, sweepVars, cancelVars, budgets>>

\* The statement commits but its answer is lost: nobody works under the lease.
LeaseLost(n, t) ==
    LET l == leaseSeq + 1 IN
    /\ n \in up /\ sched[n] = "under"
    /\ row[t].status = "QUEUED" /\ row[t].lease = 0
    /\ l \in Leases
    /\ DBError
    /\ leaseSeq' = l
    /\ row' = [row EXCEPT ![t] = LeasedRow(@, l)]
    /\ sched' = [sched EXCEPT ![n] = "idle"]
    /\ slots' = [slots EXCEPT ![n] = @ - 1]
    /\ dTask' = [dTask EXCEPT ![l] = t]
    /\ dNode' = [dNode EXCEPT ![l] = n]
    /\ dpc' = [dpc EXCEPT ![l] = "dead"]
    /\ UNCHANGED <<up, fails, victim, read, runVars, sweepVars, cancelVars,
                   cancels, requeues, stalls>>

\* ErrNoTasksAvailable, or any other error: the reservation is rolled back.
LeaseNothing(n) ==
    /\ n \in up /\ sched[n] # "idle"
    /\ \/ sched[n] = "over" /\ UNCHANGED dbErrors
       \/ (\A t \in Tasks : row[t].status # "QUEUED" \/ row[t].lease # 0) /\ UNCHANGED dbErrors
       \/ leaseSeq = MaxLeases /\ UNCHANGED dbErrors
       \/ DBError
    /\ slots' = [slots EXCEPT ![n] = @ - 1]
    /\ sched' = [sched EXCEPT ![n] = "idle"]
    /\ UNCHANGED <<row, leaseSeq, up, dispatchVars, runVars, sweepVars, cancelVars,
                   cancels, requeues, stalls>>

-----------------------------------------------------------------------------
(* dispatchTask.                                                            *)

\* ExecuteWithContext: refused while the task is in activeExecutions, else
\* the row is loaded and the run registered, all under the executor's mutex.
Execute(l) ==
    LET n == dNode[l]  t == dTask[l] IN
    /\ dpc[l] = "dispatch"
    /\ \/ /\ IsExecuting(n, t)
          /\ dpc' = [dpc EXCEPT ![l] = "failed"]
          /\ UNCHANGED <<runVars, dbErrors>>
       \/ /\ ~IsExecuting(n, t)
          /\ dpc' = [dpc EXCEPT ![l] = "watch"]
          /\ rpc' = [rpc EXCEPT ![l] = "start"]
          /\ snap' = [snap EXCEPT ![l] = row[t]]
          /\ UNCHANGED <<ctxDone, dbErrors>>
       \/ /\ DBError
          /\ dpc' = [dpc EXCEPT ![l] = "failed"]
          /\ UNCHANGED runVars
    /\ UNCHANGED <<row, leaseSeq, up, slots, sched, dTask, dNode, fails, victim, read,
                   sweepVars, cancelVars, cancels, requeues, stalls>>

\* Mutant: every renewal error counts as a lost lease (before 2026-06-03).
LeaseClearedNever(t) == FALSE

\* leaseClearedByTransition
LeaseCleared(t) == row[t].status \notin {"LEASED", "RUNNING"}

\* Mutant: the escalation comes one failure late.
RenewFailedLate(l) ==
    /\ fails' = [fails EXCEPT ![l] = @ + 1]
    /\ dpc' = [dpc EXCEPT ![l] = IF fails[l] >= maxRenewFailures THEN "cancel" ELSE "watch"]

\* The third consecutive failure escalates.
RenewFailed(l) ==
    /\ fails' = [fails EXCEPT ![l] = @ + 1]
    /\ dpc' = [dpc EXCEPT ![l] = IF fails[l] + 1 >= maxRenewFailures THEN "cancel" ELSE "watch"]

\* One renewal of the watch loop: RenewLease, and the reload that tells a
\* deliberate transition from a lost lease.
Renew(l) ==
    LET t == dTask[l] IN
    /\ dpc[l] = "watch" /\ IsExecuting(dNode[l], t)
    /\ \/ /\ Renewable(row[t], l)
          /\ row' = [row EXCEPT ![t] = WithExpiry(@, FALSE)]
          /\ fails' = [fails EXCEPT ![l] = 0]
          /\ UNCHANGED <<dpc, dbErrors>>
       \/ /\ ~Renewable(row[t], l) /\ LeaseCleared(t)
          /\ fails' = [fails EXCEPT ![l] = 0]
          /\ dpc' = [dpc EXCEPT ![l] = "await"]
          /\ UNCHANGED <<row, dbErrors>>
       \/ ~Renewable(row[t], l) /\ ~LeaseCleared(t) /\ RenewFailed(l) /\ UNCHANGED <<row, dbErrors>>
       \/ DBError /\ RenewFailed(l) /\ UNCHANGED row
    /\ UNCHANGED <<leaseSeq, up, slots, sched, dTask, dNode, victim, read, runVars,
                   sweepVars, cancelVars, cancels, requeues, stalls>>

\* The escalation calls Executor.Cancel(task.ID), which finds a run by task, ...
EscalateCancel(l) ==
    /\ dpc[l] = "cancel"
    /\ fails' = [fails EXCEPT ![l] = 0]
    /\ \/ \E r \in ActiveRuns(dNode[l], dTask[l]) :
             /\ victim' = [victim EXCEPT ![l] = r]
             /\ dpc' = [dpc EXCEPT ![l] = "cancelrow"]
       \/ /\ ~IsExecuting(dNode[l], dTask[l])
          /\ dpc' = [dpc EXCEPT ![l] = "failed"]
          /\ UNCHANGED victim
    /\ UNCHANGED <<row, leaseSeq, up, slots, sched, dTask, dNode, read, runVars, sweepVars,
                   cancelVars, budgets>>

\* ... writes CANCELLED whatever the row says, ignoring an error, ...
EscalateCancelRow(l) ==
    /\ dpc[l] = "cancelrow"
    /\ dpc' = [dpc EXCEPT ![l] = "cancelfn"]
    /\ \/ row' = [row EXCEPT ![dTask[l]] = SetStatus(@, "CANCELLED")] /\ UNCHANGED dbErrors
       \/ DBError /\ UNCHANGED row
    /\ UNCHANGED <<leaseSeq, up, slots, sched, dTask, dNode, fails, victim, read, runVars,
                   sweepVars, cancelVars, cancels, requeues, stalls>>

\* cancelFn of the handle found: of no effect on a run past its last write.
CancelContext(r) == ctxDone' = [ctxDone EXCEPT ![r] = rpc[r] \in {"start", "work"}]

\* ... and cancels the context of the run it found, without waiting for it.
EscalateCancelFn(l) ==
    /\ dpc[l] = "cancelfn"
    /\ dpc' = [dpc EXCEPT ![l] = "failed"]
    /\ CancelContext(victim[l])
    /\ victim' = [victim EXCEPT ![l] = 0]
    /\ UNCHANGED <<row, leaseSeq, up, slots, sched, dTask, dNode, fails, read, rpc, snap,
                   sweepVars, cancelVars, budgets>>

\* IsExecuting dropped: the row the executor left decides the outcome.
Classify(l) ==
    LET s == row[dTask[l]].status IN
    /\ dpc[l] \in {"watch", "await"} /\ ~IsExecuting(dNode[l], dTask[l])
    /\ fails' = [fails EXCEPT ![l] = 0]
    /\ \/ /\ dpc' = [dpc EXCEPT ![l] = CASE s = "COMPLETED" -> "succeeded"
                                         [] s = "CANCELLED" -> "terminated"
                                         [] OTHER -> "failed"]
          /\ UNCHANGED dbErrors
       \/ DBError /\ dpc' = [dpc EXCEPT ![l] = "failed"]
    /\ UNCHANGED <<row, leaseSeq, up, slots, sched, dTask, dNode, victim, read, runVars,
                   sweepVars, cancelVars, cancels, requeues, stalls>>

\* Mutant: the slot of a dispatch is never given back.
DecrementedNot(n) == slots[n]

\* decrementRunning
Decremented(n) == IF slots[n] > 0 THEN slots[n] - 1 ELSE 0

\* releaseExecutorLease of a success: the slot first, then ReleaseLease.
FinishSucceeded(l) ==
    /\ dpc[l] = "succeeded"
    /\ slots' = [slots EXCEPT ![dNode[l]] = Decremented(dNode[l])]
    /\ dpc' = [dpc EXCEPT ![l] = "done"]
    /\ \/ /\ row' = [row EXCEPT ![dTask[l]] = ReleasedRow(@, l, "COMPLETED", 0, 0)]
          /\ UNCHANGED dbErrors
       \/ DBError /\ UNCHANGED row
    /\ UNCHANGED <<leaseSeq, up, sched, dTask, dNode, fails, victim, read, runVars,
                   sweepVars, cancelVars, cancels, requeues, stalls>>

\* ... of a cancelled task: the slot only, the lease columns stay.
FinishTerminated(l) ==
    /\ dpc[l] = "terminated"
    /\ slots' = [slots EXCEPT ![dNode[l]] = Decremented(dNode[l])]
    /\ dpc' = [dpc EXCEPT ![l] = "done"]
    /\ UNCHANGED <<row, leaseSeq, up, sched, dTask, dNode, fails, victim, read, runVars,
                   sweepVars, cancelVars, budgets>>

\* ... of a failure: TaskCompleted gives the slot back and loads the row, ...
FinishFailed(l) ==
    /\ dpc[l] = "failed"
    /\ slots' = [slots EXCEPT ![dNode[l]] = Decremented(dNode[l])]
    /\ dpc' = [dpc EXCEPT ![l] = "release"]
    /\ \/ read' = [read EXCEPT ![l] = row[dTask[l]]] /\ UNCHANGED dbErrors
       \/ read' = [read EXCEPT ![l] = NoRow] /\ DBError
    /\ UNCHANGED <<row, leaseSeq, up, sched, dTask, dNode, fails, victim, runVars,
                   sweepVars, cancelVars, cancels, requeues, stalls>>

\* ... then re-queues the task or fails it, by the attempts it has read.
ReleaseFailed(l) ==
    /\ dpc[l] = "release"
    /\ dpc' = [dpc EXCEPT ![l] = "done"]
    /\ read' = [read EXCEPT ![l] = NoRow]
    /\ \/ /\ row' = [row EXCEPT ![dTask[l]] = RetriedRow(@, l, read[l])]
          /\ UNCHANGED dbErrors
       \/ DBError /\ UNCHANGED row
    /\ UNCHANGED <<leaseSeq, up, slots, sched, dTask, dNode, fails, victim, runVars,
                   sweepVars, cancelVars, cancels, requeues, stalls>>

-----------------------------------------------------------------------------
(* runExecution.  Its statements run under the context Cancel cancels: once *)
(* that is done they fail, isTaskCancelled and handleFailure's included.    *)

\* UpdateStatus(RUNNING), whatever the row says by now.
MarkRunning(l) ==
    /\ rpc[l] = "start"
    /\ rpc' = [rpc EXCEPT ![l] = "work"]
    /\ \/ /\ ~ctxDone[l]
          /\ row' = [row EXCEPT ![dTask[l]] = SetStatus(@, "RUNNING")]
          /\ UNCHANGED dbErrors
       \/ ctxDone[l] /\ UNCHANGED <<row, dbErrors>>
       \/ DBError /\ UNCHANGED row
    /\ UNCHANGED <<leaseSeq, up, slots, sched, dispatchVars, ctxDone, snap, sweepVars,
                   cancelVars, cancels, requeues, stalls>>

\* The run has written what it will write; its bookkeeping is left.
Exit(l) ==
    /\ rpc[l] = "work"
    /\ rpc' = [rpc EXCEPT ![l] = "exit"]
    /\ ctxDone' = [ctxDone EXCEPT ![l] = FALSE]
    /\ snap' = [snap EXCEPT ![l] = NoRow]
    /\ UNCHANGED <<leaseSeq, up, slots, sched, dispatchVars, sweepVars, cancelVars,
                   cancels, requeues, stalls>>

\* handleSuccess: UpdateStatus(COMPLETED).
RunSucceed(l) ==
    /\ Exit(l) /\ ~ctxDone[l]
    /\ row' = [row EXCEPT ![dTask[l]] = SetStatus(@, "COMPLETED")]
    /\ UNCHANGED dbErrors

\* handleFailure after a attempts, e: the loaded lease_expires_at has passed.
RunFail(l, a, e) ==
    /\ Exit(l) /\ ~ctxDone[l]
    /\ a \in snap[l].attempt..snap[l].max
    /\ row' = [row EXCEPT ![dTask[l]] = FailedRow(snap[l], a, e)]
    /\ UNCHANGED dbErrors

\* A lead's checkpoint (AWAITING_INPUT) or closure request (COMPLETED).
RunHandoff(l, s) ==
    /\ Exit(l) /\ ~ctxDone[l]
    /\ row' = [row EXCEPT ![dTask[l]] =
                 IF @.status \in {"LEASED", "RUNNING"} THEN ClearLease(@, s) ELSE @]
    /\ UNCHANGED dbErrors

\* The last write is lost: the context is cancelled, or the statement fails.
RunLost(l) ==
    /\ Exit(l)
    /\ \/ ctxDone[l] /\ UNCHANGED dbErrors
       \/ DBError
    /\ UNCHANGED row

\* cleanupExecution
Cleanup(l) ==
    /\ rpc[l] = "exit"
    /\ rpc' = [rpc EXCEPT ![l] = "none"]
    /\ UNCHANGED <<row, leaseSeq, up, slots, sched, dispatchVars, ctxDone, snap, sweepVars,
                   cancelVars, budgets>>

-----------------------------------------------------------------------------
(* recoverExpiredLeases, one row of FindExpiredLeases' batch at a time.     *)

\* Mutant: a lease that expires before the task runs is not looked for.
ExpiredRunning(t) == row[t].expired /\ row[t].status = "RUNNING"

\* The WHERE clause of FindExpiredLeases.
ExpiredLease(t) == row[t].expired /\ row[t].status \in {"QUEUED", "LEASED", "RUNNING"}

SweepFind(n, t) ==
    /\ n \in up /\ spc[n] = "idle"
    /\ ExpiredLease(t)
    /\ spc' = [spc EXCEPT ![n] = "found"]
    /\ sTask' = [sTask EXCEPT ![n] = t]
    /\ sRow' = [sRow EXCEPT ![n] = row[t]]
    /\ UNCHANGED <<row, leaseSeq, up, slots, sched, dispatchVars, runVars, idle, cancelVars, budgets>>

SweepEnd(n) ==
    /\ spc' = [spc EXCEPT ![n] = "idle"]
    /\ sTask' = [sTask EXCEPT ![n] = None]
    /\ sRow' = [sRow EXCEPT ![n] = NoRow]

SweepGo(n, to) == spc' = [spc EXCEPT ![n] = to] /\ UNCHANGED <<sTask, sRow>>

\* recordRecoveryIdleSince, clearRecoveryIdleSince
SetIdle(n, v) == idle' = [idle EXCEPT ![n] = [@ EXCEPT ![sTask[n]] = v]]

\* IsExecuting on this node decides between renewing and the idle grace.
SweepDecide(n) ==
    LET t == sTask[n] IN
    /\ spc[n] = "found"
    /\ \/ IsExecuting(n, t) /\ SetIdle(n, 0) /\ SweepGo(n, "renew")
       \/ ~IsExecuting(n, t) /\ idle[n][t] = 0 /\ SetIdle(n, 1) /\ SweepEnd(n)
       \/ ~IsExecuting(n, t) /\ idle[n][t] = 1 /\ UNCHANGED idle /\ SweepEnd(n)
       \/ ~IsExecuting(n, t) /\ idle[n][t] = 2 /\ UNCHANGED idle /\ SweepGo(n, "recover")
    /\ UNCHANGED <<row, leaseSeq, up, slots, sched, dispatchVars, runVars, cancelVars, budgets>>

\* The task runs here: renew the lease found; if that fails, recover.
SweepRenew(n) ==
    LET t == sTask[n] IN
    /\ spc[n] = "renew"
    /\ \/ /\ Renewable(row[t], sRow[n].lease)
          /\ row' = [row EXCEPT ![t] = WithExpiry(@, FALSE)]
          /\ SweepEnd(n) /\ UNCHANGED dbErrors
       \/ ~Renewable(row[t], sRow[n].lease) /\ SweepGo(n, "recover") /\ UNCHANGED <<row, dbErrors>>
       \/ DBError /\ SweepGo(n, "recover") /\ UNCHANGED row
    /\ UNCHANGED <<leaseSeq, up, slots, sched, dispatchVars, runVars, idle, cancelVars,
                   cancels, requeues, stalls>>

\* ReleaseLease under the lease found; only a failing one keeps the idle entry.
SweepRecover(n) ==
    LET t == sTask[n] IN
    /\ spc[n] = "recover"
    /\ SweepEnd(n)
    /\ \/ /\ row' = [row EXCEPT ![t] = RecoveredRow(@, sRow[n])]
          /\ SetIdle(n, 0) /\ UNCHANGED dbErrors
       \/ DBError /\ UNCHANGED <<row, idle>>
    /\ UNCHANGED <<leaseSeq, up, slots, sched, dispatchVars, runVars, cancelVars,
                   cancels, requeues, stalls>>

\* Time passes: an idle observation becomes older than RecoveryIdleGrace.
GraceElapses(n, t) ==
    /\ idle[n][t] = 1
    /\ idle' = [idle EXCEPT ![n] = [@ EXCEPT ![t] = 2]]
    /\ UNCHANGED <<row, leaseSeq, up, slots, sched, dispatchVars, runVars, sTask, sRow, spc,
                   cancelVars, budgets>>

-----------------------------------------------------------------------------
(* The operator's requests.                                                 *)

Cancellable == {"QUEUED", "LEASED", "RUNNING"}

\* CancelTask on node n reads the task and decides wasRunning from it ...
CancelRead(n, t) ==
    /\ n \in up /\ cpc[t] = "idle" /\ cancels < MaxCancels
    /\ row[t].status \in Cancellable
    /\ cancels' = cancels + 1
    /\ cpc' = [cpc EXCEPT ![t] = IF row[t].status = "RUNNING" THEN "running" ELSE "queued"]
    /\ cNode' = [cNode EXCEPT ![t] = n]
    /\ UNCHANGED <<row, leaseSeq, up, slots, sched, dispatchVars, runVars, sweepVars, cVictim,
                   requeues, stalls, dbErrors>>

CancelEnd(t) ==
    /\ cpc' = [cpc EXCEPT ![t] = "idle"]
    /\ cNode' = [cNode EXCEPT ![t] = None]
    /\ cVictim' = [cVictim EXCEPT ![t] = 0]

\* ... then TransitionToCancelled; a task that drifted, or an error, ends it.
CancelWrite(t) ==
    /\ cpc[t] \in {"running", "queued"}
    /\ \/ /\ row[t].status \in Cancellable
          /\ row' = [row EXCEPT ![t] = SetStatus(@, "CANCELLED")]
          /\ IF cpc[t] = "running"
             THEN cpc' = [cpc EXCEPT ![t] = "cancel"] /\ UNCHANGED <<cNode, cVictim>>
             ELSE CancelEnd(t)
          /\ UNCHANGED dbErrors
       \/ row[t].status \notin Cancellable /\ CancelEnd(t) /\ UNCHANGED <<row, dbErrors>>
       \/ DBError /\ CancelEnd(t) /\ UNCHANGED row
    /\ UNCHANGED <<leaseSeq, up, slots, sched, dispatchVars, runVars, sweepVars,
                   cancels, requeues, stalls>>

\* Executor.Cancel of the node that serves the request, as in the escalation.
CancelLookup(t) ==
    /\ cpc[t] = "cancel"
    /\ \/ \E r \in ActiveRuns(cNode[t], t) :
             /\ cVictim' = [cVictim EXCEPT ![t] = r]
             /\ cpc' = [cpc EXCEPT ![t] = "cancelrow"]
             /\ UNCHANGED cNode
       \/ ~IsExecuting(cNode[t], t) /\ CancelEnd(t)
    /\ UNCHANGED <<row, leaseSeq, up, slots, sched, dispatchVars, runVars, sweepVars, budgets>>

CancelRow(t) ==
    /\ cpc[t] = "cancelrow"
    /\ cpc' = [cpc EXCEPT ![t] = "cancelfn"]
    /\ \/ row' = [row EXCEPT ![t] = SetStatus(@, "CANCELLED")] /\ UNCHANGED dbErrors
       \/ DBError /\ UNCHANGED row
    /\ UNCHANGED <<leaseSeq, up, slots, sched, dispatchVars, runVars, sweepVars, cNode, cVictim,
                   cancels, requeues, stalls>>

CancelFn(t) ==
    /\ cpc[t] = "cancelfn"
    /\ CancelContext(cVictim[t])
    /\ CancelEnd(t)
    /\ UNCHANGED <<row, leaseSeq, up, slots, sched, dispatchVars, rpc, snap, sweepVars, budgets>>

Requeue(t, r) ==
    /\ requeues < MaxRequeues
    /\ requeues' = requeues + 1
    /\ row' = [row EXCEPT ![t] = r]
    /\ UNCHANGED <<leaseSeq, up, slots, sched, dispatchVars, runVars, sweepVars, cancelVars,
                   cancels, stalls, dbErrors>>

\* RetryTask, or a message to a finished task (reset): back to the queue.
Retry(t, reset) ==
    LET a == IF reset THEN 1 ELSE row[t].attempt + 1
        m == IF a > row[t].max THEN a ELSE row[t].max
    IN  /\ row[t].status \in {"FAILED", "CANCELLED", "COMPLETED"}
        /\ Requeue(t, RequeuedRow(a, m))

\* The operator answers the task's question: PostTaskMessage.
Answer(t) ==
    /\ row[t].status = "AWAITING_INPUT"
    /\ Requeue(t, ClearLease(row[t], "QUEUED"))

-----------------------------------------------------------------------------
(* Time and crashes.                                                        *)

Expire(t) ==
    /\ row[t].lease # 0 /\ ~row[t].expired
    /\ row' = [row EXCEPT ![t] = WithExpiry(@, TRUE)]
    /\ UNCHANGED <<leaseSeq, up, slots, sched, dispatchVars, runVars, sweepVars, cancelVars,
                   cancels, requeues, dbErrors>>

\* A dispatch that is alive does not renew in time (a stall, a partition).
ExpireStalled(t) ==
    /\ Expire(t)
    /\ dpc[row[t].lease] \notin {"done", "dead"}
    /\ stalls < MaxStalls /\ stalls' = stalls + 1

\* Nobody is left to renew the lease.
ExpireAbandoned(t) ==
    /\ Expire(t)
    /\ dpc[row[t].lease] \in {"done", "dead"}
    /\ UNCHANGED stalls

\* A node dies with all its goroutines and maps; another one stays up.
Crash(n) ==
    LET mine == {l \in Leases : dNode[l] = n} IN
    /\ n \in up /\ up # {n}
    /\ up' = up \ {n}
    /\ slots' = [slots EXCEPT ![n] = 0]
    /\ sched' = [sched EXCEPT ![n] = "idle"]
    /\ dpc' = [l \in Leases |-> IF l \in mine /\ dpc[l] # "done" THEN "dead" ELSE dpc[l]]
    /\ fails' = [l \in Leases |-> IF l \in mine THEN 0 ELSE fails[l]]
    /\ victim' = [l \in Leases |-> IF l \in mine THEN 0 ELSE victim[l]]
    /\ read' = [l \in Leases |-> IF l \in mine THEN NoRow ELSE read[l]]
    /\ rpc' = [l \in Leases |-> IF l \in mine THEN "none" ELSE rpc[l]]
    /\ ctxDone' = [l \in Leases |-> l \notin mine /\ ctxDone[l]]
    /\ snap' = [l \in Leases |-> IF l \in mine THEN NoRow ELSE snap[l]]
    /\ SweepEnd(n)
    /\ idle' = [idle EXCEPT ![n] = [t \in Tasks |-> 0]]
    /\ cpc' = [t \in Tasks |-> IF cNode[t] = n THEN "idle" ELSE cpc[t]]
    /\ cNode' = [t \in Tasks |-> IF cNode[t] = n THEN None ELSE cNode[t]]
    /\ cVictim' = [t \in Tasks |-> IF cNode[t] = n THEN 0 ELSE cVictim[t]]
    /\ UNCHANGED <<row, leaseSeq, dTask, dNode, budgets>>

-----------------------------------------------------------------------------
Schedule(n) == Reserve(n) \/ LeaseNothing(n) \/ \E t \in Tasks : LeaseTask(n, t)

Dispatch(l) ==
    \/ Execute(l) \/ Renew(l)
    \/ EscalateCancel(l) \/ EscalateCancelRow(l) \/ EscalateCancelFn(l)
    \/ Classify(l) \/ FinishSucceeded(l) \/ FinishTerminated(l)
    \/ FinishFailed(l) \/ ReleaseFailed(l)

Run(l) ==
    \/ MarkRunning(l) \/ RunSucceed(l) \/ RunLost(l) \/ Cleanup(l)
    \/ \E a \in 1..snap[l].max, e \in BOOLEAN : RunFail(l, a, e)
    \/ \E s \in {"AWAITING_INPUT", "COMPLETED"} : RunHandoff(l, s)

Sweep(n) ==
    \/ \E t \in Tasks : SweepFind(n, t)
    \/ SweepDecide(n) \/ SweepRenew(n) \/ SweepRecover(n)

CancelRequest(t) == CancelWrite(t) \/ CancelLookup(t) \/ CancelRow(t) \/ CancelFn(t)

Next ==
    \/ \E n \in Nodes : Schedule(n) \/ Sweep(n) \/ Crash(n)
    \/ \E n \in Nodes, t \in Tasks : LeaseLost(n, t) \/ GraceElapses(n, t) \/ CancelRead(n, t)
    \/ \E l \in Leases : Dispatch(l) \/ Run(l)
    \/ \E t \in Tasks : CancelRequest(t) \/ Answer(t) \/ ExpireStalled(t) \/ ExpireAbandoned(t)
    \/ \E t \in Tasks, reset \in BOOLEAN : Retry(t, reset)

Spec == Init /\ [][Next]_vars

\* The loops and goroutines of a node that is up keep running; an execution
\* ends (every step has a timeout); leases nobody renews and graces run out.
Fairness ==
    /\ \A n \in Nodes : WF_vars(Schedule(n)) /\ WF_vars(Sweep(n))
    /\ \A l \in Leases : WF_vars(Dispatch(l)) /\ WF_vars(Run(l))
    /\ \A t \in Tasks : WF_vars(CancelRequest(t)) /\ WF_vars(ExpireAbandoned(t))
    /\ \A n \in Nodes, t \in Tasks : WF_vars(GraceElapses(n, t))

LiveSpec == Spec /\ Fairness

-----------------------------------------------------------------------------
(* Properties.                                                              *)

\* The dispatches of node n that have not reached decrementRunning.
Holding(n) ==
    {l \in Leases : dNode[l] = n /\ dpc[l] \notin {"none", "release", "done", "dead"}}

Reserved(n) == IF sched[n] = "idle" THEN 0 ELSE 1

\* runningCount is exactly the reservation in flight plus the dispatches that
\* have not given their slot back, on every path of dispatchTask, and never
\* exceeds MaxConcurrency; so no path leaks a slot or frees one twice, and the
\* clamp in decrementRunning never acts.
SlotAccounting ==
    \A n \in Nodes : /\ slots[n] = Cardinality(Holding(n)) + Reserved(n)
                     /\ slots[n] <= MaxConcurrency

RowAttemptOK(r) == r.attempt <= r.max

\* No interleaving of retries, recoveries, full-row updates from old
\* snapshots and operator retries takes a task past its attempts.
AttemptBounded ==
    /\ \A t \in Tasks : row[t].attempt \in 1..row[t].max
    /\ \A l \in Leases : RowAttemptOK(read[l]) /\ RowAttemptOK(snap[l])
    /\ \A n \in Nodes : RowAttemptOK(sRow[n])

\* The runs of a task that still work and have not been told to stop.
Working(t) == {l \in Leases : dTask[l] = t /\ rpc[l] \in {"start", "work"} /\ ~ctxDone[l]}

\* Every live dispatch has renewed in time and no operator has put a task back
\* in the queue: the lease columns are the daemons' own affair.
Undisturbed == stalls = 0 /\ requeues = 0

\* While undisturbed, no two runs that have not been told to stop work on one
\* task, whatever crashes, failing statements, lost answers, recoveries,
\* escalations and cancellations do.
SingleWorker == Undisturbed => \A t \in Tasks : Cardinality(Working(t)) <= 1

\* A task that waits for the operator stays so until the operator answers or
\* cancels it: neither the watch loop, whose renewals now fail, nor the late
\* writes of the run that asked, nor the recovery sweep touch it, as long as
\* the dispatch renewed in time and no cancellation was under way before.
\* It holds for a first lease and at most two failing statements, which is what
\* the run has; NotCancelledUnasked shows what a second lease can do.
AtRestKept ==
    [][\A t \in Tasks :
          row[t].status = "AWAITING_INPUT" /\ stalls = 0 /\ cancels = 0 =>
              row'[t] \in {row[t], ClearLease(row[t], "QUEUED")}]_vars

\* A lease id that has left a row never returns to it: a row's lease changes
\* only to none, or to the id LeaseTask has just generated.  RenewLease is
\* guarded so that it cannot "resurrect the lease on a task that's already been
\* returned to the queue"; this asks the same of every statement.  It holds
\* while undisturbed, and fails once a live dispatch stalls.
LeaseNeverReturns ==
    [][Undisturbed =>
          \A t \in Tasks : \/ row'[t].lease \in {row[t].lease, 0}
                           \/ row'[t].lease = leaseSeq' /\ leaseSeq' > leaseSeq]_vars

\* LeaseTask may hand the task out.
InQueue(r) == r.status = "QUEUED" /\ r.lease = 0

\* TaskCompleted, recoverExpiredLeases and handleFailure each write an attempt
\* count computed from a row they read some statements ago.  While undisturbed
\* none of them takes an attempt back, and a task that returns to the queue is
\* charged one attempt, neither none nor two, whoever returns it.
ChargedOnce ==
    [][Undisturbed' =>
          \A t \in Tasks :
              /\ row'[t].attempt >= row[t].attempt
              /\ InQueue(row'[t]) /\ ~InQueue(row[t]) => row'[t].attempt = row[t].attempt + 1]_vars

\* The leases LeaseTask has handed out for a task.
Handouts(t) == {l \in Leases : dTask[l] = t}

\* Every lease of a task, one whose answer was lost or whose node died at once
\* included, is paid for by an attempt: while undisturbed a task is handed out
\* no more often than its row says, hence at most max_attempts times.
LeasesPaid == Undisturbed => \A t \in Tasks : Cardinality(Handouts(t)) <= row[t].attempt

\* Every task comes to rest: whatever crashes, errors, lost answers and
\* cancellations happen, it is run again until it ends or its attempts are
\* spent.  A stall can leave it RUNNING without a lease, where no sweep looks.
EveryTaskSettles ==
    \A t \in Tasks : row[t].status \in {"QUEUED", "LEASED", "RUNNING"} ~>
        \/ row[t].status \in {"AWAITING_INPUT", "COMPLETED", "FAILED", "CANCELLED"}
        \/ ~Undisturbed

\* api/handlers.go: after TransitionToCancelled "the canonical state is the DB
\* row, which is now CANCELLED"; only a retry takes the task out of it.
CancelledStays ==
    [][\A t \in Tasks : row[t].status = "CANCELLED" =>
          row'[t].status \in {"CANCELLED", "QUEUED"}]_vars

\* scheduler.go, on the watch loop: a task that asked for input is not
\* "cancelled instead of continuing".  Here nobody cancels, every statement
\* succeeds and every renewal is in time.
NotCancelledUnasked == \A t \in Tasks : row[t].status # "CANCELLED"

=============================================================================
