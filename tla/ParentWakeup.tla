---------------------------- MODULE ParentWakeup ----------------------------
(* A task that delegates: it creates child tasks, pauses as                 *)
(* WAITING_FOR_CHILDREN and is woken when the last child has ended.  Three  *)
(* parties write its row: the run that pauses it, the scheduler goroutine   *)
(* that dispatched the run and then releases the lease, and every "waker"   *)
(* (unblockParentIfChildrenDone), which runs at the end of each child, once *)
(* more at the end of the pause, and at boot.                               *)
(*                                                                          *)
(* One daemon, one parent.  What happens inside a run or a dispatch of the  *)
(* parent while nobody else can change its row is one step here; the module *)
(* TaskDispatch has the details.                                            *)
EXTENDS Integers, FiniteSets

CONSTANTS
    FanOutLimit,   \* delegationFanOutLimit: direct children over the parent's life
    Modes,         \* the delegation modes agents ask for
    ResumeGuard,   \* the delegating step is a strict route step
    MaxAttempts,   \* the parent's max_attempts
    MaxFaults      \* bound: kills, failing statements, children that end with nobody told

ASSUME LimitsAssumption ==
    /\ FanOutLimit \in Nat \ {0}
    /\ Modes \subseteq {"PARALLEL", "SEQUENTIAL"} /\ ResumeGuard \in BOOLEAN
    /\ MaxAttempts \in Nat \ {0}
    /\ MaxFaults \in Nat

Ids == 1..FanOutLimit

\* The wakers: one for each child, the re-check at the end of the pause
\* (Heal) and the sweep at boot (BootSweep).
Heal == 0
BootSweep == -1
Wakers == -1..FanOutLimit

VARIABLES
    parent,     \* the parent's row
    child,      \* status of each child: "none" before Create and after Delete,
                \* CLOSED also for CANCELLED, which nothing here treats otherwise
    dep,        \* the sibling a child waits for, 0 for none
    ppc,        \* the parent's run and, after it, the goroutine that dispatched it
    loaded,     \* the parent's attempt as the run loaded it
    want, mode, \* how many children the agent asked for, and in which mode
    created,    \* the children of the batch under way
    execPaused, \* the execution row of this run is PAUSED
    released, charged,  \* the status and the attempt ReleaseLease will write, 0 to keep it
    wpc,        \* where each waker is
    seen,       \* the parent's attempt as the waker read it
    anyFailed,  \* what the waker concluded from the children
    up,         \* the daemon runs
    pauses, wakes,  \* history: flips to WAITING_FOR_CHILDREN, and wake-ups
    missed,     \* history: events that may cost the parent its wake-up or its guard
    faults      \* what has gone wrong so far

vars == <<parent, child, dep, ppc, loaded, want, mode, created, execPaused, released, charged, wpc, seen,
          anyFailed, up, pauses, wakes, missed, faults>>

childVars == <<child, dep>>
batchVars == <<want, mode, created>>
releaseVars == <<released, charged>>
runVars == <<ppc, loaded, batchVars, execPaused, releaseVars>>
wakeVars == <<wpc, seen, anyFailed>>
history == <<pauses, wakes, missed>>

Status == {"QUEUED", "RUNNING", "WAITING_FOR_CHILDREN", "PENDING", "COMPLETED", "FAILED"}
ChildStatus == {"none", "QUEUED", "COMPLETED", "FAILED", "CLOSED"}
Reasons == {"clobbered", "silent", "cut", "unread", "unguarded", "misread"}

TypeOK ==
    /\ parent \in [status : Status, lease : BOOLEAN, attempt : 1..MaxAttempts]
    /\ child \in [Ids -> ChildStatus]
    /\ dep \in [Ids -> 0..FanOutLimit]
    /\ ppc \in {"idle", "step", "blind", "create", "flip", "pause", "error", "classify", "failed",
               "reload", "release"}
    /\ loaded \in 1..MaxAttempts
    /\ want \in Ids /\ mode \in {"PARALLEL", "SEQUENTIAL"} /\ created \subseteq Ids
    /\ execPaused \in BOOLEAN
    /\ released \in Status /\ charged \in 0..MaxAttempts
    /\ wpc \in [Wakers -> {"idle", "get", "children", "write"}]
    /\ seen \in [Wakers -> 1..MaxAttempts]
    /\ anyFailed \in [Wakers -> BOOLEAN]
    /\ up \in BOOLEAN
    /\ pauses \in Nat /\ wakes \in Nat
    /\ missed \subseteq Reasons
    /\ faults \in 0..MaxFaults

Row(s, l, a) == [status |-> s, lease |-> l, attempt |-> a]

Init ==
    /\ parent = Row("QUEUED", FALSE, 1)
    /\ child = [c \in Ids |-> "none"]
    /\ dep = [c \in Ids |-> 0]
    /\ ppc = "idle" /\ loaded = 1 /\ want = 1 /\ mode = "PARALLEL" /\ created = {}
    /\ execPaused = FALSE /\ released = "QUEUED" /\ charged = 0
    /\ wpc = [w \in Wakers |-> "idle"]
    /\ seen = [w \in Wakers |-> 1]
    /\ anyFailed = [w \in Wakers |-> FALSE]
    /\ up = TRUE
    /\ pauses = 0 /\ wakes = 0 /\ missed = {}
    /\ faults = 0

\* GetChildren.
Existing == {c \in Ids : child[c] # "none"}

Fault == faults < MaxFaults /\ faults' = faults + 1

-----------------------------------------------------------------------------
(* The parent's run.                                                        *)

\* LeaseTask, ExecuteWithContext and UpdateStatus(RUNNING): only an unleased
\* QUEUED row is picked, and every dispatch starts a fresh execution.
Lease ==
    /\ up /\ ppc = "idle"
    /\ parent.status = "QUEUED" /\ ~parent.lease
    /\ parent' = Row("RUNNING", TRUE, parent.attempt)
    /\ ppc' = "step" /\ loaded' = parent.attempt
    /\ UNCHANGED <<childVars, batchVars, execPaused, releaseVars, wakeVars, up, history, faults>>

\* The goroutines of the run are gone, and with them what they knew.
BatchOver == want' = 1 /\ mode' = "PARALLEL" /\ created' = {}

RunOver ==
    /\ ppc' = "idle" /\ loaded' = 1 /\ BatchOver
    /\ execPaused' = FALSE /\ released' = "QUEUED" /\ charged' = 0

\* Mutant: the resume guard is gone.
ResumedNever == FALSE

\* resolveResumeGuard: a strict route step that finds children has delegated
\* before.
Resumed == ResumeGuard /\ Existing # {}

\* The guard's GetChildren fails, which it takes for a first run.
GuardFails ==
    /\ ppc = "step" /\ Resumed /\ Fault
    /\ ppc' = "blind"
    /\ missed' = missed \union {"unguarded"}
    /\ UNCHANGED <<parent, childVars, loaded, batchVars, execPaused, releaseVars, wakeVars, up, pauses,
                   wakes>>

\* The step resumes, or chooses not to delegate, and the workflow goes on to
\* its end: handleSuccess, whose UpdateStatus may fail, or an error.
Finish ==
    /\ ppc \in {"step", "blind"}
    /\ \/ /\ ppc' = "classify"
          /\ \/ parent' = Row("COMPLETED", parent.lease, parent.attempt) /\ UNCHANGED faults
             \/ Fault /\ UNCHANGED parent
       \/ ppc' = "error" /\ UNCHANGED <<parent, faults>>
    /\ UNCHANGED <<childVars, loaded, batchVars, execPaused, releaseVars, wakeVars, up, history>>

\* createDelegatedTasks for the n children the agent asks for: the fan-out
\* guard counts all children so far.
Delegate(n, m) ==
    /\ (ppc = "step" /\ ~Resumed) \/ ppc = "blind"
    /\ IF Cardinality(Existing) + n <= FanOutLimit
       THEN ppc' = "create" /\ want' = n /\ mode' = m
       ELSE ppc' = "error" /\ UNCHANGED <<want, mode>>
    /\ UNCHANGED <<parent, childVars, loaded, created, execPaused, releaseVars, wakeVars, up, history,
                   faults>>

\* The next child; the lease query may pick it at once, unless it is chained
\* behind its predecessor.  createDelegatedTasks returns after the last.
Create ==
    /\ ppc = "create"
    /\ \E c \in Ids :
          /\ child[c] = "none" /\ \A b \in Ids : b < c => child[b] # "none"
          /\ child' = [child EXCEPT ![c] = "QUEUED"]
          /\ dep' = [dep EXCEPT ![c] = IF mode = "SEQUENTIAL" /\ created # {} THEN c - 1 ELSE 0]
          /\ IF Cardinality(created) + 1 = want
             THEN ppc' = "flip" /\ BatchOver
             ELSE ppc' = "create" /\ created' = created \union {c} /\ UNCHANGED <<want, mode>>
    /\ UNCHANGED <<parent, loaded, execPaused, releaseVars, wakeVars, up, history, faults>>

\* Create fails: the children of this batch are deleted again, but for those
\* whose Delete fails with it.
CreateFails ==
    /\ ppc = "create" /\ Fault
    /\ \E kept \in SUBSET created :
          /\ child' = [c \in Ids |-> IF c \in created \ kept THEN "none" ELSE child[c]]
          /\ missed' = IF kept # {} THEN missed \union {"cut"} ELSE missed
    /\ ppc' = "error" /\ BatchOver
    /\ UNCHANGED <<parent, dep, loaded, execPaused, releaseVars, wakeVars, up, pauses, wakes>>

\* pauseAwaitingChildren: the task row first; its error is ignored.
Flip ==
    /\ ppc = "flip"
    /\ ppc' = "pause"
    /\ \/ /\ parent' = Row("WAITING_FOR_CHILDREN", parent.lease, parent.attempt)
          /\ pauses' = pauses + 1
          /\ UNCHANGED <<missed, faults>>
       \/ Fault /\ missed' = missed \union {"cut"} /\ UNCHANGED <<parent, pauses>>
    /\ UNCHANGED <<childVars, loaded, batchVars, execPaused, releaseVars, wakeVars, up, wakes>>

\* Mutant: no re-check after the pause, as before 2026-06-04.
StartHealNever == wpc

\* unblockParentIfChildrenDone begins.
StartHeal == [wpc EXCEPT ![Heal] = "get"]

\* Then the execution row (its error is ignored), the checkpoint (its error
\* ends the run) and the re-check.
Pause ==
    /\ ppc = "pause"
    /\ \/ /\ execPaused' = TRUE
          /\ ppc' = "classify" /\ wpc' = StartHeal
          /\ UNCHANGED <<missed, faults>>
       \/ /\ Fault
          /\ ppc' = "classify" /\ wpc' = StartHeal
          /\ missed' = missed \union {"cut"}
          /\ UNCHANGED execPaused
       \/ /\ Fault /\ execPaused' = TRUE
          /\ ppc' = "error" /\ UNCHANGED wpc
          /\ missed' = missed \union {"cut"}
    /\ UNCHANGED <<parent, childVars, loaded, batchVars, releaseVars, seen, anyFailed, up, pauses,
                   wakes>>

\* handleFailure writes the row as the run loaded it, FAILED at the last
\* attempt; the error of its Update is ignored.
HandleFailure ==
    /\ ppc = "error"
    /\ ppc' = "failed"
    /\ \/ /\ parent' = Row(IF loaded < MaxAttempts THEN "RUNNING" ELSE "FAILED", TRUE, loaded)
          /\ UNCHANGED faults
       \/ Fault /\ UNCHANGED parent
    /\ UNCHANGED <<childVars, loaded, batchVars, execPaused, releaseVars, wakeVars, up, history>>

-----------------------------------------------------------------------------
(* The goroutine that dispatched the run, once the run has returned.        *)

\* dispatchViaExecutor looks at the row, then at the execution; it takes a
\* failing look for a failed run.
Classify ==
    /\ ppc = "classify" /\ wpc[Heal] = "idle"
    /\ \/ /\ parent.status = "COMPLETED"
          /\ ppc' = "release" /\ released' = "COMPLETED"
          /\ UNCHANGED <<missed, faults>>
       \/ /\ parent.status # "COMPLETED"
          /\ ppc' = IF parent.status # "FAILED" /\ execPaused THEN "reload" ELSE "failed"
          /\ UNCHANGED <<released, missed, faults>>
       \/ /\ Fault
          /\ ppc' = "failed"
          /\ missed' = missed \union {"misread"}
          /\ UNCHANGED released
    /\ UNCHANGED <<parent, childVars, loaded, batchVars, execPaused, charged, wakeVars, up, pauses,
                   wakes>>

\* TaskCompleted(success = false) decides on the attempts it reads: once more,
\* or over; a row it cannot read is over.
FinishFailed ==
    /\ ppc = "failed"
    /\ ppc' = "release"
    /\ \/ /\ released' = IF parent.attempt < MaxAttempts THEN "QUEUED" ELSE "FAILED"
          /\ charged' = IF parent.attempt < MaxAttempts THEN parent.attempt + 1 ELSE 0
          /\ UNCHANGED faults
       \/ Fault /\ released' = "FAILED" /\ charged' = 0
    /\ UNCHANGED <<parent, childVars, loaded, batchVars, execPaused, wakeVars, up, history>>

\* releaseExecutorLease, dispatchPaused: read the status to write back; without
\* it the lease is left to expire.
Reload ==
    /\ ppc = "reload"
    /\ \/ /\ released' = IF parent.status = "RUNNING" THEN "PENDING" ELSE parent.status
          /\ ppc' = "release"
          /\ UNCHANGED <<loaded, batchVars, execPaused, charged, faults>>
       \/ Fault /\ RunOver
    /\ UNCHANGED <<parent, childVars, wakeVars, up, history>>

\* ReleaseLease: the status decided on, with the lease columns cleared.
Release ==
    /\ ppc = "release" /\ RunOver
    /\ \/ /\ parent' = Row(released, FALSE, IF charged = 0 THEN parent.attempt ELSE charged)
          /\ missed' = IF released = "WAITING_FOR_CHILDREN" /\ parent.status # released
                       THEN missed \union {"clobbered"} ELSE missed
          /\ UNCHANGED faults
       \/ Fault /\ UNCHANGED <<parent, missed>>
    /\ UNCHANGED <<childVars, wakeVars, up, pauses, wakes>>

\* recoverExpiredLeases: the holder is gone.  FindExpiredLeases selects QUEUED
\* and RUNNING rows, not WAITING_FOR_CHILDREN ones.
RecoverExpired ==
    /\ up /\ ppc = "idle"
    /\ parent.lease /\ parent.status \in {"QUEUED", "RUNNING"}
    /\ parent' = IF parent.attempt < MaxAttempts
                 THEN Row("QUEUED", FALSE, parent.attempt + 1) ELSE Row("FAILED", FALSE, parent.attempt)
    /\ UNCHANGED <<childVars, runVars, wakeVars, up, history, faults>>

-----------------------------------------------------------------------------
(* The children.  What their own dispatch does until they end is left to    *)
(* TaskDispatch.                                                            *)

\* The lease query: every dependency is COMPLETED.
Leasable(c) == child[c] = "QUEUED" /\ (dep[c] # 0 => child[dep[c]] = "COMPLETED")

\* A child gets status s, and whoever set it calls checkParentUnblock:
\* handleSuccess, handleFailure, handleCancelled, CancelTask, the close action.
ChildTo(c, s) ==
    /\ up /\ wpc[c] = "idle"
    /\ child' = [child EXCEPT ![c] = s]
    /\ wpc' = [wpc EXCEPT ![c] = "get"]
    /\ UNCHANGED <<parent, dep, runVars, seen, anyFailed, up, history, faults>>

\* Its run ends.
ChildRuns(c) == Leasable(c) /\ \E s \in {"COMPLETED", "FAILED"} : ChildTo(c, s)

ChildCancelled(c) == child[c] = "QUEUED" /\ ChildTo(c, "CLOSED")

\* The close action of the task page; an awaiting child is QUEUED here.
ChildClosed(c) == (child[c] \in {"COMPLETED", "FAILED"} \/ Leasable(c)) /\ ChildTo(c, "CLOSED")

\* A child ends, or its result is closed, and nobody is told: TaskCompleted and
\* recoverExpiredLeases fail it at its last attempt, the API's CloseTask closes
\* it while it awaits an answer, the API or the grace period closes its result.
ChildEndsSilently(c) ==
    /\ up
    /\ \/ /\ Leasable(c) /\ Fault
          /\ \E s \in {"FAILED", "CLOSED"} : child' = [child EXCEPT ![c] = s]
          /\ missed' = missed \union {"silent"}
       \/ /\ child[c] = "COMPLETED"
          /\ child' = [child EXCEPT ![c] = "CLOSED"]
          /\ UNCHANGED <<missed, faults>>
    /\ UNCHANGED <<parent, dep, runVars, wakeVars, up, pauses, wakes>>

-----------------------------------------------------------------------------
(* unblockParentIfChildrenDone: three statements.                           *)

WakeTo(w, pc) == wpc' = [wpc EXCEPT ![w] = pc]

\* The waker returns, and what it has read is gone.
WakeEnds(w) ==
    /\ WakeTo(w, "idle")
    /\ seen' = [seen EXCEPT ![w] = 1]
    /\ anyFailed' = [anyFailed EXCEPT ![w] = FALSE]

\* Get the parent.
WakeGet(w) ==
    /\ wpc[w] = "get"
    /\ IF parent.status = "WAITING_FOR_CHILDREN"
       THEN WakeTo(w, "children") /\ seen' = [seen EXCEPT ![w] = parent.attempt] /\ UNCHANGED anyFailed
       ELSE WakeEnds(w)
    /\ UNCHANGED <<parent, childVars, runVars, up, history, faults>>

Terminal == {"COMPLETED", "FAILED", "CLOSED"}

\* Mutant: the first child that ended is enough.
AllDoneAny == \E c \in Existing : child[c] \in Terminal

\* No children concludes nothing.
AllDone == Existing # {} /\ \A c \in Existing : child[c] \in Terminal

\* GetChildren and the verdict on them.
WakeChildren(w) ==
    /\ wpc[w] = "children"
    /\ IF AllDone
       THEN /\ WakeTo(w, "write")
            /\ anyFailed' = [anyFailed EXCEPT ![w] = \E c \in Existing : child[c] = "FAILED"]
            /\ UNCHANGED seen
       ELSE WakeEnds(w)
    /\ UNCHANGED <<parent, childVars, runVars, up, history, faults>>

\* Mutant: the unconditional write of before 2026-06-04.
MovableAlways == TRUE

\* The condition of TransitionConditional.
Movable == parent.status = "WAITING_FOR_CHILDREN"

\* Mutant: one attempt too many.
BudgetLeftOffByOne(a) == a <= MaxAttempts

\* retryBudgetRemaining, on the attempt the waker has read.
BudgetLeft(a) == a < MaxAttempts

\* TransitionConditional, which keeps the lease columns.
WakeWrite(w) ==
    /\ wpc[w] = "write"
    /\ WakeEnds(w)
    /\ IF Movable
       THEN /\ parent' = IF ~anyFailed[w] THEN Row("QUEUED", parent.lease, parent.attempt)
                         ELSE IF BudgetLeft(seen[w])
                              THEN Row("QUEUED", parent.lease, seen[w] + 1)
                              ELSE Row("FAILED", parent.lease, parent.attempt)
            /\ wakes' = wakes + 1
       ELSE UNCHANGED <<parent, wakes>>
    /\ UNCHANGED <<childVars, runVars, up, pauses, missed, faults>>

\* A statement fails: the waker returns, or ignores the error.
WakeFails(w) ==
    /\ wpc[w] # "idle" /\ Fault
    /\ WakeEnds(w)
    /\ missed' = missed \union {"unread"}
    /\ UNCHANGED <<parent, childVars, runVars, up, pauses, wakes>>

-----------------------------------------------------------------------------
(* The daemon is killed and started again.  The container of a cut run is   *)
(* gone, so Recover marks its execution ORPHANED and leaves the task row.   *)

Crash ==
    /\ up /\ Fault
    /\ up' = FALSE
    /\ RunOver
    /\ wpc' = [w \in Wakers |-> "idle"]
    /\ seen' = [w \in Wakers |-> 1]
    /\ anyFailed' = [w \in Wakers |-> FALSE]
    /\ missed' = IF ppc = "flip" \/ (ppc = "create" /\ created # {})
                 THEN missed \union {"cut"} ELSE missed
    /\ UNCHANGED <<parent, childVars, pauses, wakes>>

\* Recover ends with sweepStuckWaitingForChildren.
Restart ==
    /\ ~up
    /\ up' = TRUE
    /\ WakeTo(BootSweep, "get")
    /\ UNCHANGED <<parent, childVars, runVars, seen, anyFailed, history, faults>>

-----------------------------------------------------------------------------
Run ==
    \/ Finish \/ Create \/ Flip \/ Pause \/ HandleFailure
    \/ Classify \/ FinishFailed \/ Reload \/ Release
    \/ \E n \in 1..(FanOutLimit + 1), m \in Modes : Delegate(n, m)

Daemon == Lease \/ Run \/ RecoverExpired \/ Restart

Wake(w) == WakeGet(w) \/ WakeChildren(w) \/ WakeWrite(w)

Next ==
    \/ Daemon \/ GuardFails \/ CreateFails
    \/ \E c \in Ids :
          ChildRuns(c) \/ ChildCancelled(c) \/ ChildClosed(c) \/ ChildEndsSilently(c)
    \/ \E w \in Wakers : Wake(w) \/ WakeFails(w)
    \/ Crash

Spec == Init /\ [][Next]_vars

\* A daemon that is up works: a QUEUED parent is leased, its run and dispatch
\* proceed, an expired lease is found; one that was killed is started again.
\* The children's runs end, and the wakers return.
Fairness ==
    /\ WF_vars(Daemon)
    /\ WF_vars(\E c \in Ids : ChildRuns(c))
    /\ WF_vars(\E w \in Wakers : Wake(w))

FairSpec == Spec /\ Fairness

-----------------------------------------------------------------------------
(* Properties.                                                              *)

\* A child waits for one that has ended otherwise than COMPLETED: the lease
\* query never picks it.
Stranded ==
    \E c \in Existing :
        child[c] = "QUEUED" /\ dep[c] # 0 /\ child[dep[c]] \notin {"QUEUED", "COMPLETED"}

\* A paused parent ends, whatever order its children, its dispatcher and the
\* wakers write in, wherever the daemon is killed, and also if the dispatcher
\* cannot read how the run ended, as long as none of the recorded events robs
\* it of its wake-up and no child of a SEQUENTIAL batch is stranded.  The
\* re-check at the end of the pause is what covers a child that ends before it.
SettlesUnlessMissed ==
    parent.status = "WAITING_FOR_CHILDREN" ~>
        \/ parent.status \in {"COMPLETED", "FAILED"}
        \/ missed \ {"unguarded", "misread"} # {}
        \/ Stranded

\* workflow.go: "awaiting-children resumes are driven by the scheduler when the
\* last child completes": without faults every paused parent ends.
ParentSettles ==
    parent.status = "WAITING_FOR_CHILDREN" ~> parent.status \in {"COMPLETED", "FAILED"}

\* Children that end together wake their parent once ("exactly one concurrent
\* caller wins"), also across a restart, unless the release of the lease has
\* put the parent back to sleep.
WakesOnce == "clobbered" \in missed \/ wakes <= pauses

\* The step is guarded, and every look the guard took at the children was good.
Guarded == ResumeGuard /\ "unguarded" \notin missed

\* A resumed route step creates no children again, whatever ended the run that
\* created them: a new child only ever joins siblings of its own batch.  The
\* one way around the guard is a failing read of the children.
NoRespawn ==
    [][Guarded => \A c \in Ids :
           child[c] = "none" /\ child'[c] # "none" => Existing = created]_vars

\* workflow.go: the pause "holds the dispatcher's 'task done' signal until the
\* child (and its descendants) actually produced output".
CompletesAfterChildren ==
    parent.status = "COMPLETED" => \A c \in Existing : child[c] \in Terminal

\* The same, for a guarded route step whose runs were not cut between creating
\* children and pausing for them, and whose dispatcher could read the row and
\* the execution of a paused run: then even a waker that read parent and
\* children long ago wakes the parent only when all of them have ended.  An
\* operator's retry of an ended child is not in this module.
CompletesUnlessCut ==
    Guarded /\ missed \intersect {"cut", "misread"} = {} => CompletesAfterChildren

=============================================================================
