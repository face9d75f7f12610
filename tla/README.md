# Vornik: models, checks and proofs

Vornik is a daemon that runs AI agents on tasks. One or more daemons ("nodes")
share one Postgres database. This directory models the parts of it where
several goroutines, several nodes and crashes meet on the same state: how a task
is leased, run and given back, how a task waits for the tasks it delegated or for
a workflow of another project, how the nodes elect the one that runs a singleton
worker, how reminders go out, how workflow steps share warm containers, and how
chat calls queue for the provider.

Paths below are relative to the repository (`src/`).

## The system

| part | state | operations | talks to |
|---|---|---|---|
| Scheduler (`internal/scheduler/scheduler.go`) | `runningCount`, `recoveryIdleSince` | `schedule`, `dispatchTask`, `releaseExecutorLease`, `TaskCompleted`, `recoverExpiredLeases` | task table, executor |
| Task repository (`internal/persistence/postgres/task_repository.go`) | rows: status, lease, expiry, attempt | `LeaseTask`, `RenewLease`, `ReleaseLease`, `UpdateStatus`, `Update`, `TransitionConditional`, `FindExpiredLeases` | Postgres |
| Executor (`internal/executor`) | `activeExecutions`, execution rows, checkpoints | `ExecuteWithContext`, `runExecution`, `Cancel`, `Pause`, `Shutdown`, `Recover` | task table, containers |
| Delegation (`internal/executor/plan.go`, `workflow.go`) | parent and child rows | `createDelegatedTasks`, `pauseAwaitingChildren`, `unblockParentIfChildrenDone`, the resume guard, the boot sweep | scheduler, executor, API, UI |
| Leader election (`internal/leaderelection`) | one lock row per worker, cached leader bit and epoch | `Run`, `Release`, `VerifyEpoch` | autonomy, Telegram, e-mail |
| Operators (`internal/api`, `internal/ui`) | requests in flight | cancel, retry, answer, close | task table, executor |
| Task state machine (`internal/scheduler/state_machine.go`) | none | `ValidateTransition` | API, UI |
| Cross-project calls (`internal/executor`, `internal/api`) | ledger of calls, callee tasks | the `call_project` step, the resolve hook, the timeout scanner, `AdminCPCCancel` | task table, scheduler |
| Reminders (`internal/reminders`, the dispatcher's tools) | rows: status, time, recurrence | `LeaseDue`, `Reschedule`, `MarkFired`, create, update, cancel, delete | channels |
| Warm pool (`internal/runtime/pool.go`) | maps of slots and containers | `Acquire`, `StartWarm`, `InjectTask`, `WaitForTaskDone`, `Release`, the reaper, `Stop` | podman, workflow steps |
| Chat queue (`internal/chat`) | heap of calls, workers, a semaphore per route | `do`, `pop`, `run`, `acquire` | provider |
| External waits, watchdog, circuit breaker, rate limits, budgets | rows or maps of their own | claim, wake, sweep | task table, runtime |
| Chat, channels, memory, registry, forges, storage, UI, CLI, checks on agent output | mostly I/O and text | | |

`PROJECT.json` lists every part with its status.

What makes it hard: a status is read by one goroutine and written back after
another one changed it; a lease expires under a dispatch that is still alive; a
node dies between two statements; a statement commits and its answer is lost; an
operator cancels or answers in between; a parent is woken by several children,
by its own pause and by the boot sweep at once; an answer arrives after the one
who waited for it has given up. The hazards are listed, at their
lines, in `PROJECT.json`.

## Modules

| module | models | checked by | proved in |
|---|---|---|---|
| `TaskDispatch` | lease, dispatch, run, release, recovery, cancel, retry, answer | `MCTaskDispatch` | `TaskDispatchProofs`, `TaskDispatchLeaseProofs` |
| `ParentWakeup` | delegation, pause, wake-up, restart | `MCParentWakeup` | `ParentWakeupProofs` |
| `LeaderElection` | lock row, electors, drain, epoch fence | `MCLeaderElection` | `LeaderElectionProofs` |
| `CrossProjectCalls` | caller, ledger, callees, timeout scanner | `MCCrossProjectCalls` | `CrossProjectCallsProofs` |
| `Reminders`, against `ReminderService` | runners, lease, delivery, tools | `MCReminders` | `RemindersProofs` |
| `WarmPool` | jobs, pool, agents, reaper, `Stop` | `MCWarmPool` | `WarmPoolProofs` |
| `ChatQueue`, against `PriorityService` | callers, workers, heap, routes, gauges | `MCChatQueue` | `ChatQueueProofs` |

Conventions. An action is one database statement (or a read followed by the
statement that re-checks what was read) with the in-memory work around it that
nobody else can observe. Time is a flag: a lease or lock is `expired` or not,
and separate actions say when it may become so. A statement that fails draws on
the budget `MaxDBErrors` or, together with kills and operator requests,
`MaxFaults`; in TaskDispatch stalls, crashes, cancellations and requeues have
budgets of their own. Operators prefixed by a comment "Mutant:" are wrong
variants of the definition below them and are used by no specification.

### TaskDispatch

Several nodes, several tasks of one project. A lease id is fresh for every
`LeaseTask`, so a dispatch goroutine and the run it starts are indexed by the
lease they work under.

* `row` is the table; `slots` and `sched` are `runningCount` and the
  reservation in flight.
* `dTask`, `dNode`, `dpc`, `fails`, `victim`, `read` are the `dispatchTask`
  goroutine: its watch loop, its three-strikes escalation through
  `Executor.Cancel`, and `TaskCompleted`.
* `rpc`, `ctxDone`, `snap` are `runExecution`. `snap` is the row as the run
  loaded it: `handleFailure` writes every column of it back.
* `sTask`, `sRow`, `spc`, `idle` are a node's recovery sweep.
* `cpc`, `cNode`, `cVictim` are a `CancelTask` request.

`LeaseTask` counts the project's active tasks on the statement's snapshot and
locks only the candidate; `Reserve` takes the count and `LeaseTask` the row.
`LeaseLost` commits and loses the answer; for the other statements a failure
means the statement had no effect. A crash is final for the node's name; a
restarted daemon is another node.

Not in the module: pausing and children (see ParentWakeup, which also has the
dependencies of the lease query), shutdown and `Recover`, the order by priority
and age, the priority floor and the exclusion of archived projects in the lease
query. Any leasable task may be the candidate.

### ParentWakeup

One parent, one daemon that may be killed and restarted, up to `FanOutLimit`
children in the delegation mode the agent chose. `ppc` is the parent's run and
then the goroutine that dispatched it: `HandleFailure` writes the row as the run
loaded it, `Classify` reads the task and the execution, `FinishFailed` and
`Release` are `TaskCompleted`, `Reload` and `Release` the give-back of a pause;
`wpc`, `seen`, `anyFailed` are the concurrent calls of
`unblockParentIfChildrenDone`, one per child, one at the end of the pause, one
at boot. Children appear as QUEUED until they end (running, or awaiting an
answer); what happens inside them is TaskDispatch's subject.

`missed` records the events after which the code gives no promise: the release
of the lease overwrote a wake-up (`clobbered`), a child ended with nobody told
(`silent`), a run was cut between creating children and pausing (`cut`), a waker
could not read or write (`unread`), the resume guard could not read
(`unguarded`), the dispatcher could not read how the run ended and took it for
failed (`misread`). Properties say what holds without them; `parent_lost_wakeup`
shows that the first needs no fault at all.

One exception needs no fault either. The lease query picks a task only while all
its dependencies are COMPLETED, so when a child of a SEQUENTIAL batch fails, is
cancelled or has its result closed, its successors are never leased and the parent
waits for ever (`Stranded`). `configs/workflows/issue-fix.md:4` says of such a
batch "any subtask failure → FAILED"; the code does that for the last one only.

Failing statements: those of the guard, of the batch (`Create`, `Delete`), of the
pause, of `handleSuccess` and `handleFailure`, of the dispatcher's reads and
`ReleaseLease`, and of the wakers. Lease and recovery statements that fail are
repeated by their loops and are left out.

Not in the module: lost answers (a failing statement has no effect), operator
retries of ended children, trees deeper than one level, cross-project callees.
The depth and cycle guards refuse a batch just as the fan-out guard does. After
a kill the container is assumed gone, so `Recover` orphans the execution and
leaves the task row to lease recovery.

### LeaderElection

One worker id; every elector name is one boot of one daemon. `lock` is the row;
`pc`, `leader`, `epoch`, `reply` are `Run`; `drain` is the daemon's
`releaseAllLeaderLeases`, which runs beside `Run`; `workerPc`, `workerRow` are a
gated worker between `IsLeader`, `VerifyEpoch` and its write. Failing statements
may have taken effect or not.

### CrossProjectCalls

One caller whose workflow has one `call_project` step. A call is a row of the
ledger (`cpc`, `stamped`) and a callee task (`callee`, `rpc`). `ppc` is
the caller's run and then its dispatcher, which reads the status and writes it
back (`released`). `wpc` are the calls of `unblockParentIfChildrenDone`; `spc`,
`batch`, `named`, `hand` are a timeout scanner. `ClaimSelect` and `ClaimUpdate`
are one statement in the code, in two steps because the rows are chosen on its
snapshot; how many of the pending calls have timed out by then is a choice of
`ClaimSelect`. `missed` records the events that may cost the caller its wake-up: a
scanner that looked before the caller waited (`early`), a release that overwrote
the wake-up (`clobbered`), a claim whose scanner was killed or never got the answer
(`cut`), a failing read or write on the way (`unread`). It is about the present
call: `CreateCall` clears it.

Attempts are not counted. Whether a failed or recovered run of the caller or of a
callee was the last attempt is a choice, which allows more than the code does; all
properties here are safety properties, so what holds for every choice holds for the
code's. `TaskDispatch` and `ParentWakeup` count them.

`undone` records the callees for which "the call reads completed" and "the callee
is COMPLETED" may part: `handleSuccess` ignores the error of its own
`UpdateStatus(COMPLETED)` and resolves the call all the same (`CalleeUnwritten`),
a dispatcher that cannot read the ended callee gives it back (`CalleeMisread`),
and `RetryTask` or `PostTaskMessage` puts it in the queue again (`Requeue`).

Not in the module: a retry of a callee that the scanner cancelled under its running
run, operator requests for the caller, the closing of a callee that awaits an
answer; lost answers other than that of the claim.

### Reminders

`LeaseDue` takes a batch of due rows in one statement; a runner then sends each
message and finalizes its row. Any runner may tick at any time, since the leader
gate only thins the ticks out. The tools work on the rows meanwhile, and
`update_reminder` reads a row in one step and writes it in another. `arming`,
`sent` and `lastSlot` are history. `ReminderService` is the promise: an arming is
taken at most once and goes out at most once, and what is over stays over.

### WarmPool

A job is one call of `executeAgentStepWarm`; a container is named by the job that
started it. Job and agent talk through the files `inbox`, `result` and `done`, so
an agent may answer a task whose job stopped waiting. `Stop` waits for the
teardowns under way, empties the maps and tears down what was in them, or runs
out of time (`overdue`). An `EvictIdle` that was on its way still runs after `Stop`
has begun, as in the code.

### ChatQueue

An action is one critical section of `q.mu` or one step outside it, so the gauge
updates after the unlock are steps of their own. `Signal` wakes any one sleeping
worker. `PriorityService` is the promise: each server has one call at a time, the
next by priority and then arrival; a call whose caller hung up in time is never
started. A dead call still on the heap maps to one already withdrawn.

`timed` is the set of routes with a `queue_timeout_ms`. Zero, the default, lets
`acquire` wait until a slot is free or the caller's context ends, so a hung call
may hold up every worker that gets a call for its route. Every choice of `timed`
is an initial state.

## Runs

| run | instance | shows |
|---|---|---|
| `dispatch` | 2 nodes, 1 task, 2 leases, 2 attempts, crashes | `SingleWorker`, `LeaseNeverReturns`, `AttemptBounded`, `SlotAccounting` hold, every lease and every return to the queue is charged (`LeasesPaid`, `ChargedOnce`), and every task settles (`EveryTaskSettles`) |
| `dispatch_faults` | 1 node, 1 task, 1 lease, a stall, a cancellation, a retry or answer, 2 failing statements | `TypeOK`; a task that waits for the operator is left alone by its first lease (`AtRestKept`); every task settles |
| `dispatch_lost_cancel` | 2 nodes, 1 cancellation | `CancelledStays` fails: the run's `UpdateStatus(RUNNING)` overwrites CANCELLED |
| `dispatch_stale_watch` | 1 node, 3 leases, 1 answer | `NotCancelledUnasked` fails: the watch loop of the first lease cancels the second run |
| `parent` | guarded route step, 2 children, both modes, 2 attempts, any 2 of kills, silent ends and failing statements | `WakesOnce`, `NoRespawn`, `CompletesUnlessCut` hold, a paused parent ends (`SettlesUnlessMissed`) |
| `parent_lost_wakeup` | PARALLEL only, without faults | `ParentSettles` fails: the release of the lease writes WAITING_FOR_CHILDREN over the wake-up |
| `leader_election` | 2 electors, 1 worker, 2 stalls, 1 failing statement, crashes, drains | fence tokens are unique, the fence and its verdict are sound, a deposed leader notices, a leader reappears |
| `cross_project_calls` | 2 calls, 1 scanner that cancels callees, any number of attempts, 1 kill, failing statement or operator request | a call reads completed only if its callee is, but for the recorded cases, answers are not overwritten, an ended caller stays ended, a timed-out call leads to a wake-up |
| `cpc_calls_again` | 2 calls, no faults | `ContinuesAfterResult` fails: the woken caller starts at the entry step and makes the call again |
| `reminders` | 2 runners, a recurring and a one-shot reminder, 1 fault, 1 update | `ReminderService` is implemented, nothing goes out early, no occurrence comes back, every due row is settled |
| `warm_pool` | 2 jobs of one role, room for 1 container, 1 podman failure, 1 restart | the role's limit holds without phantom slots, one job per container, no job reads another's result, `Stop` leaves nothing it knew of, containers are reclaimed |
| `chat_queue` | 3 calls of 2 priorities, 2 workers, a route with 1 slot, with and without a wait limit, 1 hung upstream call | no wake-up is lost, the gauges balance, `PriorityService` is implemented, every caller returns unless all workers are stuck |

The runs that fail show disagreements between the code and what its comments or
documents say; `findings` in `PROJECT.json` quotes both sides.

Deadlock is checked for TaskDispatch, whose scheduling loops never stop. The
other modules really may stop: a parent or caller that has ended, electors that
have all stopped or crashed, jobs and calls that are all served, a clock at its
bound with every reminder settled.

### Bounds, and why they suffice

* Two nodes, electors or children are enough for every race here: each is
  between two writers of one row, or between a writer and its successor.
* `MaxLeases` equals `MaxAttempts` in `dispatch`: every give-back costs an
  attempt, so the bound on leases never stops a task that has attempts left
  and `EveryTaskSettles` is not met by running out of leases.
* `dispatch` has no failing statements and `dispatch_faults` no second node: the
  product of both is too large for one run. `SingleWorker`, `LeaseNeverReturns`,
  `AttemptBounded` and `SlotAccounting` are proved with all of them.
* `dispatch_faults` has one lease: `AtRestKept` is about what the dispatch, the
  run and the sweep of that lease still do after it was cleared. What a second
  lease adds is `dispatch_stale_watch`.
* Two attempts reach both sides of every comparison of `attempt` with
  `max_attempts`.
* Two stalls let a lock be taken over and taken back, so that an old token
  meets a row of its own holder with a newer epoch.
* Two failing statements in `dispatch_faults` let a renewal fail and the read that
  classifies the failure fail as well. They also lose the answer of `LeaseTask`,
  which `dispatch` therefore does not have: with it `SlotAccounting` is a theorem,
  not a run.
* Two faults in `parent` may be two of a kind or of two kinds: a kill between any
  two statements, a write of the run that fails and then a read of its dispatcher,
  a misread pause and then a silent child.
* `cross_project_calls` bounds no attempts: whether a task has another one is a
  choice, so an attempt can fail, resolve the call and be repeated. One scanner
  suffices because its statement is split, so every other writer gets between its
  snapshot and its update. The one fault may be any failing statement the module
  has, a kill, or an operator's request; two of them are covered by the theorems
  only.
* `BatchSize` 1 and two runners let both have a reminder in hand; the three
  instants of the clock let a recurring reminder fire late, and twice.
* Room for one container makes the second job meet a hit, a refusal, or a start
  after the first container went.
* Two workers and three calls: one worker can sleep, one hang, and a call still
  wait; the two equal priorities reach the tie-break by arrival.

### Fairness

Weak fairness of one goroutine's steps, and nothing more:

* the scheduling and recovery loops run on tickers (`runLoop`, `recoveryLoop`);
* a dispatch goroutine and a run make progress while their node is up. That a
  run ends is justified by the step timeouts; for a child this includes that
  somebody answers it when it asks;
* leases nobody renews run out and the idle grace passes, because time does;
* a cancel request, once begun, is served;
* in ParentWakeup the daemon's own steps (lease, run, dispatcher, recovery) go on
  while it is up, and a killed daemon is started again (`restart: unless-stopped`
  in `deployments/podman/podman-compose.yaml`); so do the children's runs and the
  wakers. Each of the three is one fairness condition: attempts, fan-out and faults
  are bounded, so no child or waker is starved by steps of the others;
* a reminder runner's heartbeat goes on; a fault costs it only what it had in hand;
* a job's wait for its agent has a timeout, teardowns run, the reaper ticks, and
  `Stop` ends by itself or by its context; nothing makes an agent answer;
* chat callers and workers run; the wait for a slot ends by itself on a route with
  a `queue_timeout_ms`, and on the others only with a slot or the caller's context;
  an upstream call returns unless it is one of the `MaxHung` that never do. With
  finitely many calls one fairness condition for all goroutines is enough;
* no fairness for the end of a caller's context, operators, stalls, crashes, failing statements, drains.

## Proofs

The theorems hold for every value of the constants, from the `ASSUME`s of the
modules: the special values are not members of the sets, limits are positive
naturals, budgets are naturals. The sets of nodes, tasks and electors need not
be finite.

**LeaderElectionProofs**: `TypeCorrect`, `TokensUnique`, `FenceCorrect`,
`VerdictCorrect`. `EpochUnique` is not inductive: a token is in flight between
the `Acquire` statement and the store of its answer. The invariant speaks of all
tokens an elector owns, stored or in flight: none exceeds the row's epoch, the
one equal to it is the holder's, two electors share none, and what a worker has
read is a past value of the row.

**TaskDispatchProofs**: `TypeCorrect`, `AttemptsBounded`, `SlotsAccounted`. The
invariant bounds the attempts of every copy of a row that some goroutine still
holds, because any of them may be written back later, and says who works under
which lease id. The slot count needs the latter: the id `LeaseTask` hands out is
of no dispatch yet, so the set of dispatches that hold a slot grows by exactly
one.

**TaskDispatchLeaseProofs**: `OneWorker` (`SingleWorker`), `LeasesNeverReturn`
(`LeaseNeverReturns`), `AttemptsCharged` (`ChargedOnce`) and `HandoutsPaid`
(`LeasesPaid`), for any nodes, crashes, failing statements, lost answers
and cancellations, as long as the history is `Undisturbed`: every live dispatch
renewed in time and no operator put a task back in the queue. The code needs
both. A stalled dispatch is taken for dead and its task is leased again under the
run that still works; a cancelled task may be retried before its run has noticed.
The invariant says that the lease of a run at work is in the row and in the copy
`handleFailure` writes back (`LeaseHeld`), so two runs at work on one task have
the same lease. To keep that through the statements that clear a lease, one has
to know for whom they clear it: the dispatch that ends, and the sweep, which acts
on a row it read earlier, only release a lease that is spent, that is, one whose
run is over or told to stop (`ExpiredSpent`). Spent leases stay spent. That the
escalation of a watch loop hits its own run needs `OneRun`: `activeExecutions`
has one run per task and node. The two theorems on attempts rest on
`CopiesCurrent`: a copy that will still be written back has the row's attempt.

**ParentWakeupProofs**: `TypeCorrect`, `WakesOncePerPause`, `CompletesLast`,
`NeverRespawns`. `WakesOnce` needs that a waiting parent has a pause not yet
paid for. `CompletesUnlessCut` needs two facts that support each other: once a
guarded step has paused, its family is fixed (`OneFamily`), so a waker that
judged the children long ago judged all of them; and a parent that may run or
has ended has no child left to wait for (`Settled`), because an ended child
never comes back. Failing writes of the run, failing reads of `TaskCompleted`,
failing releases and kills are all in the theorem; excepted are the cut between
creating and pausing and the misread pause.

**CrossProjectCallsProofs**: `CompletedIsTrueHolds`, `WakeOwedHolds`,
`ResolvedOnceHolds`, `EndedKeptHolds`. `CompletedIsTrue` needs that an answer on
its way is that of a completed task, finds its call timed out or is that of a
callee recorded in `undone` (`Runs`), which rests on what a scanner has claimed
(`Claims`) and on who named a callee (`Names`). `WakeOwed` needs the same promise one step earlier, while the caller is
still on its way to wait (`Coming`).

**RemindersProofs**: `NeverEarlyHolds`, `NextOccurrenceHolds`, and `Implements`:
`Spec => Promise!Spec`. A row that a runner has in hand is not pending and has
one holder (`Hands`); what is armed or in hand was not sent (`Letters`). These
make every delivery a first one of its arming.

**WarmPoolProofs**: `RoleBoundedHolds`, `ExclusiveHolds`, `OwnResultHolds`,
`StopCleanHolds`. The core is `Files`: a container that may be lent is quiet, no
task waits in it and none is worked on, so what a job finds in the container it
holds is its own.

**ChatQueueProofs**: `WorkConservingHolds`, `GaugesRight`, and `Implements`:
`Spec => Service!Spec`. `GaugesSettle` speaks of quiet moments only; the ledgers
behind it hold always. `queueDepth` is the size of the heap, plus the calls
popped or removed and not yet counted out, minus the calls pushed and not yet
counted in (`DepthLedger`); it may be negative meanwhile. `inFlight` counts the
workers between `StartRun` and the answer, and a route's semaphore the workers
upstream on it. The set of workers is finite; the set of calls need not be.

Each step lemma has one step per action. The type invariant is split by groups
of variables, and each lemma assumes only the groups it needs.

Only model-checked: the liveness properties (`EveryTaskSettles`,
`SettlesUnlessMissed`, `DeposedLeaderNotices`, `LeaderReappears`, `Settles`,
`Reclaimed`, `Answered`), because fairness is beyond the prover; and
`AtRestKept`, which is a property of a first lease with at most two failing
statements: with a second lease the older watch loop, with a third failing
statement the escalation of the task's own, does touch a task at rest.

`EveryTaskSettles` promises nothing after a stall. The sweep may then fail a task
whose run has yet to start, and that run's `UpdateStatus(RUNNING)` leaves the row
RUNNING without a lease; if the node dies now, no sweep will find it.

## Not modelled

Clocks (only the order of events), the container engine, agent output, SQL
beyond the rows above, and the parts `PROJECT.json` lists as not modelled. That
a run which was told to stop may overlap with its successor is not excluded:
`Executor.Cancel` does not wait, and `SingleWorker` counts only runs that were
not told. Nor is it excluded that two nodes exceed the project's cap on active
tasks: `LeaseTask` counts on its snapshot (`task_repository.go:500`), and the module
does as well. Hazards with no property in `PROJECT.json` are those the code is open
to; their notes name the exception that admits them.

## Plan

1. Executor lifecycle: pause and resume, `Shutdown`, `Recover`, the order of the
   drain, the workspace lock; composed with ParentWakeup's restart.
2. Task state machine: `ValidateTransition` as abstract specification of a task
   row; TaskDispatch and ParentWakeup related to it by refinement, or the
   differences recorded (the wakers write QUEUED where the table says a parent
   must end).
3. External waits, watchdog, circuit breaker, rate limiter, budget reservations.
4. Proofs: `SingleWorker` when operators answer questions, which requeues a task
   whose run has ended; what a stall costs at most.
