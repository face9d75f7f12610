------------------------------ MODULE WarmPool ------------------------------
(***************************************************************************)
(* The pool of warm agent containers, the workflow steps that borrow from  *)
(* it and the agent inside each container.                                 *)
(*                                                                         *)
(* A job is one call of executeAgentStepWarm.  It takes an idle container  *)
(* of its role or starts one, hands the task over through files (task.json *)
(* and .ready), polls for .done, and releases the container, healthy or    *)
(* not.  A reaper evicts containers that idled too long; Stop waits for    *)
(* the teardowns under way, then tears down every container it knows.      *)
(*                                                                         *)
(* A container is named by the job that started it, so slot j stands for   *)
(* the placeholder of job j while StartWarm runs and for the entry of its  *)
(* container afterwards.  An action is one critical section of p.mu, one   *)
(* podman call, or one move of the agent's loop.                           *)
(***************************************************************************)
EXTENDS Integers, FiniteSets

CONSTANTS
    Jobs, Keys, None,
    KeyOf,            \* the PoolKey of each job
    MaxPerRole,       \* PoolConfig.MaxPerRole
    MaxPodmanErrors,  \* bound: podman calls that fail
    MaxRestarts       \* bound: Start after Stop

ASSUME NamesAssumption == None \notin Jobs /\ KeyOf \in [Jobs -> Keys]
ASSUME LimitsAssumption ==
    MaxPerRole \in Nat /\ MaxPodmanErrors \in Nat /\ MaxRestarts \in Nat

VARIABLES
    stopped,    \* the flag stopped; started is its negation after Start
    reaper,     \* reaperLoop is running
    spc,        \* Stop: "none", waiting to "drain", tearing down in "bulk", "returned"
    late,       \* Stop's context is done
    overdue,    \* history: that has happened to some Stop
    slots,      \* byKey, all keys together
    entries,    \* the map entries
    inUse,      \* entries with InUse
    tearing,    \* teardownEntry goroutines, all counted by wg
    bulk,       \* ... the ones that run under Stop's context
    box,        \* podman's view of each container
    jpc, held, got,           \* each job: its place, its container, the result it read
    inbox, result, done,      \* its files: task.json under .ready, result.json, .done
    apc, atask, \* each agent: its place in warm_loop and the task it works on
    podmanErrors, restarts

poolVars == <<slots, entries, inUse, tearing, bulk>>
stopVars == <<stopped, reaper, spc, late, overdue, restarts>>
jobVars == <<jpc, held, got>>
fileVars == <<inbox, result, done>>
agentVars == <<apc, atask>>
vars == <<stopVars, poolVars, box, jobVars, fileVars, agentVars, podmanErrors>>

TypeOK ==
    /\ stopped \in BOOLEAN /\ reaper \in BOOLEAN /\ late \in BOOLEAN /\ overdue \in BOOLEAN
    /\ spc \in {"none", "drain", "bulk", "returned"}
    /\ slots \subseteq Jobs /\ entries \subseteq Jobs
    /\ inUse \subseteq Jobs
    /\ tearing \subseteq Jobs /\ bulk \subseteq Jobs
    /\ box \in [Jobs -> {"none", "running", "gone"}]
    /\ jpc \in [Jobs -> {"new", "start", "starting", "register", "inject", "write",
                         "wait", "persist", "done"}]
    /\ held \in [Jobs -> Jobs \cup {None}]
    /\ got \in [Jobs -> Jobs \cup {None}]
    /\ inbox \in [Jobs -> Jobs \cup {None}]
    /\ done \subseteq Jobs
    /\ result \in [Jobs -> Jobs \cup {None}]
    /\ apc \in [Jobs -> {"poll", "main", "wrote"}]
    /\ atask \in [Jobs -> Jobs \cup {None}]
    /\ podmanErrors \in 0..MaxPodmanErrors /\ restarts \in 0..MaxRestarts

Init ==
    /\ stopped = FALSE /\ reaper = TRUE /\ spc = "none" /\ late = FALSE /\ overdue = FALSE
    /\ restarts = 0
    /\ slots = {} /\ entries = {} /\ inUse = {} /\ tearing = {} /\ bulk = {}
    /\ box = [c \in Jobs |-> "none"]
    /\ jpc = [j \in Jobs |-> "new"]
    /\ held = [j \in Jobs |-> None]
    /\ got = [j \in Jobs |-> None]
    /\ inbox = [c \in Jobs |-> None]
    /\ done = {}
    /\ result = [c \in Jobs |-> None]
    /\ apc = [c \in Jobs |-> "poll"]
    /\ atask = [c \in Jobs |-> None]
    /\ podmanErrors = 0

PodmanError == podmanErrors < MaxPodmanErrors /\ podmanErrors' = podmanErrors + 1

Go(j, pc) == jpc' = [jpc EXCEPT ![j] = pc]

-----------------------------------------------------------------------------
(* Acquire and StartWarm.                                                   *)

\* byKey[key]
RoleSlots(k) == {c \in slots : KeyOf[c] = k}

\* What Acquire's scan accepts; a placeholder counts as in use.
IdleEntries(k) == (RoleSlots(k) \cap entries) \ inUse

AcquireHit(j, c) ==
    /\ jpc[j] = "new" /\ ~stopped
    /\ c \in IdleEntries(KeyOf[j])
    /\ inUse' = inUse \cup {c}
    /\ held' = [held EXCEPT ![j] = c]
    /\ Go(j, "inject")
    /\ UNCHANGED <<stopVars, slots, entries, tearing, bulk, box, got, fileVars,
                   agentVars, podmanErrors>>

AcquireMiss(j) ==
    /\ jpc[j] = "new"
    /\ stopped \/ IdleEntries(KeyOf[j]) = {}
    /\ Go(j, "start")
    /\ UNCHANGED <<stopVars, poolVars, box, held, got, fileVars, agentVars, podmanErrors>>

Room(k) == Cardinality(RoleSlots(k)) < MaxPerRole

\* StartWarm reserves its slot under the lock, or the step fails retryably.
Reserve(j) ==
    /\ jpc[j] = "start"
    /\ \/ /\ ~stopped /\ Room(KeyOf[j])
          /\ slots' = slots \cup {j}
          /\ Go(j, "starting")
       \/ /\ stopped \/ ~Room(KeyOf[j])
          /\ Go(j, "done")
          /\ UNCHANGED slots
    /\ UNCHANGED <<stopVars, entries, inUse, tearing, bulk, box, held, got, fileVars,
                   agentVars, podmanErrors>>

\* podman run
StartContainer(j) ==
    /\ jpc[j] = "starting"
    /\ box' = [box EXCEPT ![j] = "running"]
    /\ Go(j, "register")
    /\ UNCHANGED <<stopVars, poolVars, held, got, fileVars, agentVars, podmanErrors>>

\* Mutant: the reserved slot survives a failed start.
PlaceholderKept(j) == slots

\* removePlaceholder
PlaceholderRemoved(j) == slots \ {j}

\* No container, or one that runs although podman reported a failure.
StartContainerFails(j) ==
    /\ jpc[j] = "starting"
    /\ \/ UNCHANGED <<box, podmanErrors>>
       \/ PodmanError /\ box' = [box EXCEPT ![j] = "running"]
    /\ slots' = PlaceholderRemoved(j)
    /\ Go(j, "done")
    /\ UNCHANGED <<stopVars, entries, inUse, tearing, bulk, held, got, fileVars, agentVars>>

\* The entry replaces the placeholder where that still is; the map entries
\* takes it in any case, also after Stop has emptied both.
Register(j) ==
    /\ jpc[j] = "register"
    /\ entries' = entries \cup {j}
    /\ inUse' = inUse \cup {j}
    /\ held' = [held EXCEPT ![j] = j]
    /\ Go(j, "inject")
    /\ UNCHANGED <<stopVars, slots, tearing, bulk, box, got, fileVars, agentVars, podmanErrors>>

-----------------------------------------------------------------------------
(* Release, then the step's use of the container.                           *)

Surrendered(c) ==
    /\ inUse' = inUse \ {c}
    /\ UNCHANGED <<slots, entries, tearing, bulk>>

\* Mutant: the container of a failed job goes back to the pool.
ReleasedUnhealthyKept(c) ==
    /\ inUse' = inUse \ {c}
    /\ UNCHANGED <<slots, entries, tearing, bulk>>

\* removeEntryLocked, and the goroutine that tears the container down.
ReleasedUnhealthy(c) ==
    /\ slots' = slots \ {c}
    /\ entries' = entries \ {c}
    /\ inUse' = inUse \ {c}
    /\ tearing' = tearing \cup {c}
    /\ UNCHANGED bulk

\* Mutant: InUse is not reset.
ReleasedHealthyStillInUse(c) == UNCHANGED <<inUse, slots, entries, tearing, bulk>>

ReleasedHealthy(c) ==
    /\ inUse' = inUse \ {c}
    /\ UNCHANGED <<slots, entries, tearing, bulk>>

\* Release: while the pool stops, the entry is left to Stop.
Release(j, healthy) ==
    LET c == held[j] IN
    /\ IF stopped THEN Surrendered(c)
       ELSE IF healthy THEN ReleasedHealthy(c) ELSE ReleasedUnhealthy(c)
    /\ held' = [held EXCEPT ![j] = None]
    /\ Go(j, "done")

Cleared(c) ==
    /\ result' = [result EXCEPT ![c] = None]
    /\ done' = done \ {c}

\* InjectTask: remove result.json and .done ...
InjectClear(j) ==
    /\ jpc[j] = "inject"
    /\ Cleared(held[j])
    /\ Go(j, "write")
    /\ UNCHANGED <<stopVars, poolVars, box, held, got, inbox, agentVars, podmanErrors>>

\* ... then write task.json and .ready.
InjectWrite(j) ==
    /\ jpc[j] = "write"
    /\ inbox' = [inbox EXCEPT ![held[j]] = j]
    /\ Go(j, "wait")
    /\ UNCHANGED <<stopVars, poolVars, box, held, got, result, done, agentVars, podmanErrors>>

\* WaitForTaskDone sees .done and reads result.json.
WaitDone(j) ==
    /\ jpc[j] = "wait" /\ held[j] \in done
    /\ result[held[j]] # None
    /\ got' = [got EXCEPT ![j] = result[held[j]]]
    /\ Go(j, "persist")
    /\ UNCHANGED <<stopVars, poolVars, box, held, fileVars, agentVars, podmanErrors>>

\* Every error between Acquire and the end: staging or injecting fails, the
\* wait times out, the container died, result.json or an artifact is missing.
JobFails(j) ==
    /\ jpc[j] \in {"inject", "write", "wait", "persist"}
    /\ Release(j, FALSE)
    /\ got' = [got EXCEPT ![j] = None]
    /\ UNCHANGED <<stopVars, box, fileVars, agentVars, podmanErrors>>

JobSucceeds(j) ==
    /\ jpc[j] = "persist"
    /\ Release(j, TRUE)
    /\ got' = [got EXCEPT ![j] = None]
    /\ UNCHANGED <<stopVars, box, fileVars, agentVars, podmanErrors>>

-----------------------------------------------------------------------------
(* The agent: warm_loop of the container's entrypoint.                      *)

\* .ready seen: old output removed, .ready removed, main reads task.json.
AgentTake(c) ==
    /\ box[c] = "running" /\ apc[c] = "poll" /\ inbox[c] # None
    /\ inbox' = [inbox EXCEPT ![c] = None]
    /\ result' = [result EXCEPT ![c] = None]
    /\ done' = done \ {c}
    /\ atask' = [atask EXCEPT ![c] = inbox[c]]
    /\ apc' = [apc EXCEPT ![c] = "main"]
    /\ UNCHANGED <<stopVars, poolVars, box, jobVars, podmanErrors>>

\* main ends, with a result.json or without.
AgentResult(c, r) ==
    /\ box[c] = "running" /\ apc[c] = "main"
    /\ r \in {atask[c], None}
    /\ result' = [result EXCEPT ![c] = r]
    /\ apc' = [apc EXCEPT ![c] = "wrote"]
    /\ UNCHANGED <<stopVars, poolVars, box, jobVars, inbox, done, atask, podmanErrors>>

AgentDone(c) ==
    /\ box[c] = "running" /\ apc[c] = "wrote"
    /\ done' = done \cup {c}
    /\ atask' = [atask EXCEPT ![c] = None]
    /\ apc' = [apc EXCEPT ![c] = "poll"]
    /\ UNCHANGED <<stopVars, poolVars, box, jobVars, inbox, result, podmanErrors>>

Ended(c) ==
    /\ box' = [box EXCEPT ![c] = "gone"]
    /\ apc' = [apc EXCEPT ![c] = "poll"]
    /\ atask' = [atask EXCEPT ![c] = None]

\* The container dies: out of memory, removed by hand, or told by .shutdown.
AgentExit(c) ==
    /\ box[c] = "running"
    /\ Ended(c)
    /\ UNCHANGED <<stopVars, poolVars, jobVars, fileVars, podmanErrors>>

-----------------------------------------------------------------------------
(* The reaper, teardown, Stop and Start.                                    *)

\* Mutant: the reaper does not look at InUse.
EvictableBusy == entries

Evictable == entries \ inUse

\* evictIdle: the idle entries older than IdleTimeout, a set S of them, leave
\* the maps under the lock and are torn down, also by a tick that Stop overtakes.
EvictIdle(S) ==
    /\ reaper /\ S # {} /\ S \subseteq Evictable
    /\ slots' = slots \ S
    /\ entries' = entries \ S
    /\ inUse' = inUse \ S
    /\ tearing' = tearing \cup S
    /\ UNCHANGED <<stopVars, bulk, box, jobVars, fileVars, agentVars, podmanErrors>>

\* podman stop and rm, whose errors are ignored, then the directories go.
\* Under a context that is done podman is not even started.
Teardown(c) ==
    /\ c \in tearing
    /\ tearing' = tearing \ {c}
    /\ bulk' = bulk \ {c}
    /\ \/ /\ ~(c \in bulk /\ late)
          /\ Ended(c)
          /\ UNCHANGED podmanErrors
       \/ c \in bulk /\ late /\ UNCHANGED <<box, agentVars, podmanErrors>>
       \/ PodmanError /\ UNCHANGED <<box, agentVars>>
    /\ Cleared(c)
    /\ inbox' = [inbox EXCEPT ![c] = None]
    /\ UNCHANGED <<stopVars, slots, entries, inUse, jobVars>>

StopBegin ==
    /\ spc = "none"
    /\ stopped' = TRUE
    /\ spc' = "drain"
    /\ UNCHANGED <<reaper, late, overdue, restarts, poolVars, box, jobVars, fileVars, agentVars,
                   podmanErrors>>

\* stopCh is closed.
ReaperExit ==
    /\ reaper /\ stopped
    /\ reaper' = FALSE
    /\ UNCHANGED <<stopped, spc, late, overdue, restarts, poolVars, box, jobVars, fileVars, agentVars,
                   podmanErrors>>

WaitGroupDone == ~reaper /\ tearing = {}

\* Mutant: Stop passes over entries in use.
StopTakesIdle == entries \ inUse

StopTakes == entries

\* The first wait is over: both maps are emptied, what they held is torn down.
StopSnapshot ==
    /\ spc = "drain" /\ WaitGroupDone
    /\ spc' = "bulk"
    /\ slots' = {} /\ entries' = {} /\ inUse' = {}
    /\ tearing' = StopTakes
    /\ bulk' = StopTakes
    /\ UNCHANGED <<stopped, reaper, late, overdue, restarts, box, jobVars, fileVars, agentVars,
                   podmanErrors>>

StopReturn ==
    /\ spc = "bulk" /\ WaitGroupDone
    /\ spc' = "returned"
    /\ UNCHANGED <<stopped, reaper, late, overdue, restarts, poolVars, box, jobVars, fileVars,
                   agentVars, podmanErrors>>

\* The shutdown budget is spent ...
StopExpires ==
    /\ spc \in {"drain", "bulk"} /\ ~late
    /\ late' = TRUE /\ overdue' = TRUE
    /\ UNCHANGED <<stopped, reaper, spc, restarts, poolVars, box, jobVars, fileVars, agentVars,
                   podmanErrors>>

\* ... and either wait gives up; the entries stay as they are.
StopGivesUp ==
    /\ spc \in {"drain", "bulk"} /\ late
    /\ spc' = "returned"
    /\ UNCHANGED <<stopped, reaper, late, overdue, restarts, poolVars, box, jobVars, fileVars,
                   agentVars, podmanErrors>>

\* A stopped pool can be started again.
Restart ==
    /\ spc = "returned" /\ ~reaper /\ restarts < MaxRestarts
    /\ restarts' = restarts + 1
    /\ stopped' = FALSE /\ reaper' = TRUE /\ spc' = "none" /\ late' = FALSE
    /\ UNCHANGED <<overdue, poolVars, box, jobVars, fileVars, agentVars, podmanErrors>>

-----------------------------------------------------------------------------
Job(j) ==
    \/ \E c \in Jobs : AcquireHit(j, c)
    \/ AcquireMiss(j) \/ Reserve(j) \/ StartContainer(j) \/ StartContainerFails(j)
    \/ Register(j) \/ InjectClear(j) \/ InjectWrite(j) \/ WaitDone(j)
    \/ JobFails(j) \/ JobSucceeds(j)

Agent(c) == AgentTake(c) \/ AgentDone(c) \/ \E r \in Jobs \cup {None} : AgentResult(c, r)

Stop == StopSnapshot \/ StopReturn \/ StopGivesUp

Next ==
    \/ \E j \in Jobs : Job(j) \/ Agent(j) \/ AgentExit(j) \/ Teardown(j)
    \/ \E S \in SUBSET Jobs : EvictIdle(S)
    \/ ReaperExit \/ StopBegin \/ Stop \/ StopExpires \/ Restart

Spec == Init /\ [][Next]_vars

\* Goroutines run and the wait of a job is bounded; the reaper ticks and time
\* passes.  Nothing makes an agent finish, and nobody has to call Stop.
Fairness ==
    /\ \A j \in Jobs : WF_vars(Job(j)) /\ WF_vars(Teardown(j))
    /\ WF_vars(\E S \in SUBSET Jobs : EvictIdle(S)) /\ WF_vars(ReaperExit) /\ WF_vars(Stop)

LiveSpec == Spec /\ Fairness

-----------------------------------------------------------------------------
(* Properties.                                                              *)

\* Jobs that reserved a slot and have no entry yet.
Starting == {j \in Jobs : jpc[j] \in {"starting", "register"}}

\* Jobs that work in a container.
Busy == {j \in Jobs : jpc[j] \in {"inject", "write", "wait", "persist"}}

\* MaxPerRole holds for the slots whatever starts, failures, evictions and
\* restarts interleave, and slots are worth counting: each one is a start in
\* progress or a registered container, so a failed start or an unhealthy
\* release never leaves a phantom that would close the role for good.
RoleBounded ==
    /\ \A k \in Keys : Cardinality(RoleSlots(k)) <= MaxPerRole
    /\ slots \subseteq Starting \cup entries

\* A container serves one job at a time, is marked in use meanwhile, and is
\* not torn down under that job by the reaper or by another job's release;
\* only Stop's bulk teardown may.
Exclusive ==
    \A j \in Busy :
        /\ held[j] \in Jobs
        /\ \A i \in Busy : held[i] = held[j] => i = j
        /\ held[j] \in entries => held[j] \in inUse
        /\ held[j] \in tearing => held[j] \in bulk

\* A job never takes the answer to another job's task for its own, although
\* the container is reused, answers come late and waits time out.  (Starting
\* a pool again after a Stop that ran out of time is excepted: that Stop keeps
\* the containers that unhealthy releases left to it, and the pool lends them.)
OwnResult == restarts = 0 \/ ~overdue => \A j \in Jobs : got[j] \in {j, None}

\* When Stop has returned in time, the only containers left running are those
\* whose StartWarm was under way when Stop emptied the maps.
StopClean ==
    spc = "returned" /\ ~overdue /\ podmanErrors = 0 =>
        \A c \in Jobs : box[c] = "running" => c \notin slots /\ c \in entries \cup Starting

\* A container that runs is gone in the end: it goes idle, the reaper or Stop
\* takes it.  Excepted are the failures of podman, a Stop that ran out of time,
\* and a pool that stopped, where a late StartWarm may have left one behind.
Reclaimed ==
    \A c \in Jobs : box[c] = "running" ~>
        \/ box[c] # "running" \/ podmanErrors > 0 \/ overdue
        \/ spc = "returned" /\ c \notin slots
=============================================================================
