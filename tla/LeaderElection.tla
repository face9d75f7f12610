--------------------------- MODULE LeaderElection ---------------------------
(***************************************************************************)
(* The singleton-worker primitive of a multi-replica deployment: one row   *)
(* of daemon_leader_locks per worker, one Elector per daemon competing for *)
(* it, and the epoch fence a worker consults before a dangerous write      *)
(* (internal/leaderelection, internal/persistence/postgres/leader_lock_-   *)
(* repository.go, and the drain in internal/service).                      *)
(*                                                                         *)
(* One worker id is modelled.  Holder ids contain a boot uuid, so a        *)
(* restarted daemon is another member of Electors and a crash is final.    *)
(* Time is abstracted to the verdict the takeover clause computes from it: *)
(* lock.expired is "expires_at < the caller's now".  It becomes true when  *)
(* the holder stalls past the TTL (or the clocks are skewed), crashes, or  *)
(* releases.                                                               *)
(***************************************************************************)
EXTENDS Naturals

CONSTANTS
    Electors,     \* the holder ids that ever compete for the lock
    Workers,      \* those among them whose daemon runs the gated worker
    NoHolder,     \* no row in daemon_leader_locks yet
    MaxStalls,    \* bound: how often a live holder's lock may expire
    MaxDBErrors   \* bound: how many statements may return an error

ASSUME ElectorsAssumption == NoHolder \notin Electors /\ Workers \subseteq Electors
ASSUME BoundsAssumption == MaxStalls \in Nat /\ MaxDBErrors \in Nat

VARIABLES
    lock,       \* the row: holder_id, epoch, and whether it has expired
    pc,         \* each Elector's Run goroutine
    leader,     \* e.leader, the cached bit
    epoch,      \* e.epoch, the fence token last acquired (0: never)
    reply,      \* the token the statement in flight came back with (0: not ok)
    drain,      \* each daemon's shutdown: releaseAllLeaderLeases, then ctx
    workerPc,   \* each leader-gated worker: where it is in its tick
    workerRow,  \* ... and the row its VerifyEpoch has read
    stalls, dbErrors

runVars == <<pc, leader, epoch, reply>>
workerVars == <<workerPc, workerRow>>
vars == <<lock, runVars, drain, workerVars, stalls, dbErrors>>

Row == [holder : Electors \cup {NoHolder}, epoch : Nat, expired : BOOLEAN]

NoRow == [holder |-> NoHolder, epoch |-> 0, expired |-> FALSE]

TypeOK ==
    /\ lock \in Row
    /\ pc \in [Electors -> {"idle", "renew", "acquire", "store", "stopped", "crashed"}]
    /\ leader \in [Electors -> BOOLEAN]
    /\ epoch \in [Electors -> Nat]
    /\ reply \in [Electors -> Nat]
    /\ drain \in [Electors -> {"no", "releasing", "released"}]
    /\ workerPc \in [Electors -> {"idle", "gated", "read", "allowed"}]
    /\ workerRow \in [Electors -> Row]
    /\ stalls \in 0..MaxStalls
    /\ dbErrors \in 0..MaxDBErrors

Init ==
    /\ lock = NoRow
    /\ pc = [e \in Electors |-> "idle"]
    /\ leader = [e \in Electors |-> FALSE]
    /\ epoch = [e \in Electors |-> 0]
    /\ reply = [e \in Electors |-> 0]
    /\ drain = [e \in Electors |-> "no"]
    /\ workerPc = [e \in Electors |-> "idle"]
    /\ workerRow = [e \in Electors |-> NoRow]
    /\ stalls = 0
    /\ dbErrors = 0

Alive(e) == pc[e] # "crashed"
Running(e) == pc[e] \notin {"stopped", "crashed"}

-----------------------------------------------------------------------------
(* The repository.  Every statement is one atomic UPDATE of one row.        *)

\* Mutant: an expired lock is not taken over.
AcquirableIfFree(e) == lock.holder = NoHolder \/ lock.holder = e

\* The ON CONFLICT ... WHERE clause of Acquire: no row, expired, or ours.
Acquirable(e) == lock.holder = NoHolder \/ lock.expired \/ lock.holder = e

\* Mutant: a takeover keeps the epoch of the row it takes over.
EpochOnAcquireNoBump(e) == IF lock.holder = NoHolder THEN 1 ELSE lock.epoch

\* Mutant: a takeover steps the epoch back.
EpochOnAcquireBack(e) == IF lock.holder = e THEN lock.epoch ELSE lock.epoch - 1

\* The epoch Acquire leaves in the row: 1 on insert, kept by a refresh of
\* our own row, one more than before on a takeover.
EpochOnAcquire(e) == IF lock.holder = e THEN lock.epoch ELSE lock.epoch + 1

\* The row after a successful Acquire.
AcquiredRow(e) == [holder |-> e, epoch |-> EpochOnAcquire(e), expired |-> FALSE]

WithExpiry(b) == [holder |-> lock.holder, epoch |-> lock.epoch, expired |-> b]

\* Renew's WHERE clause asks for the holder only, never for the expiry.
RenewedRow(e) == IF lock.holder = e THEN WithExpiry(FALSE) ELSE lock

\* Release flips expires_at to NOW().
ReleasedRow(e) == IF lock.holder = e THEN WithExpiry(TRUE) ELSE lock

\* A statement may fail, before or after it took effect.
DBError == dbErrors < MaxDBErrors /\ dbErrors' = dbErrors + 1

-----------------------------------------------------------------------------
(* The Run goroutine: tryAcquireOrRenew at start-up and every ttl/3.        *)

\* wasLeader := e.IsLeader() decides between Renew and Acquire.
Tick(e) ==
    /\ pc[e] = "idle"
    /\ pc' = [pc EXCEPT ![e] = IF leader[e] THEN "renew" ELSE "acquire"]
    /\ UNCHANGED <<lock, leader, epoch, reply, drain, workerVars, stalls, dbErrors>>

\* Renew keeps the token the elector already has.
RenewLock(e) ==
    /\ pc[e] = "renew"
    /\ pc' = [pc EXCEPT ![e] = "store"]
    /\ \/ /\ lock' = RenewedRow(e)
          /\ reply' = [reply EXCEPT ![e] = IF lock.holder = e THEN epoch[e] ELSE 0]
          /\ UNCHANGED dbErrors
       \/ /\ lock' \in {lock, RenewedRow(e)}
          /\ DBError
          /\ UNCHANGED reply
    /\ UNCHANGED <<leader, epoch, drain, workerVars, stalls>>

AcquireLock(e) ==
    /\ pc[e] = "acquire"
    /\ pc' = [pc EXCEPT ![e] = "store"]
    /\ \/ /\ Acquirable(e)
          /\ lock' = AcquiredRow(e)
          /\ \/ reply' = [reply EXCEPT ![e] = EpochOnAcquire(e)] /\ UNCHANGED dbErrors
             \/ DBError /\ UNCHANGED reply
       \/ /\ ~Acquirable(e)
          /\ UNCHANGED <<lock, reply, dbErrors>>
       \/ DBError /\ UNCHANGED <<lock, reply>>
    /\ UNCHANGED <<leader, epoch, drain, workerVars, stalls>>

\* Mutant: a failed renewal leaves the cached leader bit alone.
StoreKeepsBit(e) ==
    /\ pc[e] = "store"
    /\ pc' = [pc EXCEPT ![e] = "idle"]
    /\ epoch' = [epoch EXCEPT ![e] = IF reply[e] # 0 THEN reply[e] ELSE @]
    /\ leader' = [leader EXCEPT ![e] = @ \/ reply[e] # 0]
    /\ reply' = [reply EXCEPT ![e] = 0]
    /\ UNCHANGED <<lock, drain, workerVars, stalls, dbErrors>>

\* e.epoch.Store(epoch) after a successful Acquire; e.leader := ok && err == nil
Store(e) ==
    /\ pc[e] = "store"
    /\ pc' = [pc EXCEPT ![e] = "idle"]
    /\ epoch' = [epoch EXCEPT ![e] = IF reply[e] # 0 THEN reply[e] ELSE @]
    /\ leader' = [leader EXCEPT ![e] = reply[e] # 0]
    /\ reply' = [reply EXCEPT ![e] = 0]
    /\ UNCHANGED <<lock, drain, workerVars, stalls, dbErrors>>

\* The select of Run picks ctx.Done(): gracefulRelease, then return.
RunExit(e) ==
    /\ pc[e] = "idle"
    /\ drain[e] = "released"
    /\ pc' = [pc EXCEPT ![e] = "stopped"]
    /\ leader' = [leader EXCEPT ![e] = FALSE]
    /\ \/ leader[e] /\ lock' = ReleasedRow(e) /\ UNCHANGED dbErrors
       \/ leader[e] /\ lock' \in {lock, ReleasedRow(e)} /\ DBError
       \/ ~leader[e] /\ UNCHANGED <<lock, dbErrors>>
    /\ UNCHANGED <<epoch, reply, drain, workerVars, stalls>>

-----------------------------------------------------------------------------
(* The daemon's shutdown runs beside Run: it releases every lease first and *)
(* cancels the context of the Run goroutines later.                         *)

\* releaseAllLeaderLeases: Release(ctx) of a leader issues the statement ...
DrainRelease(e) ==
    /\ Running(e) /\ drain[e] = "no"
    /\ \/ /\ leader[e]
          /\ drain' = [drain EXCEPT ![e] = "releasing"]
          /\ \/ lock' = ReleasedRow(e) /\ UNCHANGED dbErrors
             \/ lock' \in {lock, ReleasedRow(e)} /\ DBError
       \/ /\ ~leader[e]
          /\ drain' = [drain EXCEPT ![e] = "released"]
          /\ UNCHANGED <<lock, dbErrors>>
    /\ UNCHANGED <<runVars, workerVars, stalls>>

\* ... and then clears the leader bit, whatever the tick in flight does to it.
DrainClearBit(e) ==
    /\ Alive(e) /\ drain[e] = "releasing"
    /\ drain' = [drain EXCEPT ![e] = "released"]
    /\ leader' = [leader EXCEPT ![e] = FALSE]
    /\ UNCHANGED <<lock, pc, epoch, reply, workerVars, stalls, dbErrors>>

-----------------------------------------------------------------------------
(* A leader-gated worker (autonomy task creation, telegram polling, email). *)

\* if !gate.IsLeader() { return }
WorkerGate(e) ==
    /\ Alive(e)
    /\ workerPc[e] = "idle"
    /\ leader[e]
    /\ workerPc' = [workerPc EXCEPT ![e] = "gated"]
    /\ UNCHANGED <<lock, runVars, drain, workerRow, stalls, dbErrors>>

\* VerifyEpoch reads the row; an error fails closed.
VerifyRead(e) ==
    /\ Alive(e)
    /\ workerPc[e] = "gated"
    /\ \/ /\ workerPc' = [workerPc EXCEPT ![e] = "read"]
          /\ workerRow' = [workerRow EXCEPT ![e] = lock]
          /\ UNCHANGED dbErrors
       \/ /\ workerPc' = [workerPc EXCEPT ![e] = "idle"]
          /\ DBError
          /\ UNCHANGED workerRow
    /\ UNCHANGED <<lock, runVars, drain, stalls>>

\* Mutant: the fence compares holders and forgets the epoch.
PassesByHolderOnly(row, e) == row.holder = e

\* VerifyEpoch's verdict on a row: same holder, and no epoch past ours.
Passes(row, e) == row.holder = e /\ row.epoch <= epoch[e]

\* DangerousWriteAllowed: proceed or skip.
VerifyDecide(e) ==
    /\ Alive(e)
    /\ workerPc[e] = "read"
    /\ \/ /\ Passes(workerRow[e], e)
          /\ workerPc' = [workerPc EXCEPT ![e] = "allowed"]
          /\ UNCHANGED workerRow
       \/ /\ ~Passes(workerRow[e], e)
          /\ workerPc' = [workerPc EXCEPT ![e] = "idle"]
          /\ workerRow' = [workerRow EXCEPT ![e] = NoRow]
    /\ UNCHANGED <<lock, runVars, drain, stalls, dbErrors>>

\* The gated side effect: taskRepo.Create, getUpdates, handleRawMessage.
DangerousWrite(e) ==
    /\ Alive(e)
    /\ workerPc[e] = "allowed"
    /\ workerPc' = [workerPc EXCEPT ![e] = "idle"]
    /\ workerRow' = [workerRow EXCEPT ![e] = NoRow]
    /\ UNCHANGED <<lock, runVars, drain, stalls, dbErrors>>

-----------------------------------------------------------------------------
(* The environment.                                                         *)

\* The holder is alive but has not renewed for a TTL (a stall, clock skew).
ExpireStalled ==
    /\ lock.holder # NoHolder /\ ~lock.expired
    /\ stalls < MaxStalls
    /\ lock' = WithExpiry(TRUE)
    /\ stalls' = stalls + 1
    /\ UNCHANGED <<runVars, drain, workerVars, dbErrors>>

\* Nobody renews the lock of a daemon that is gone: it expires.
ExpireAbandoned ==
    /\ lock.holder \in Electors
    /\ ~Running(lock.holder) /\ ~lock.expired
    /\ lock' = WithExpiry(TRUE)
    /\ UNCHANGED <<runVars, drain, workerVars, stalls, dbErrors>>

\* The process dies: only the row, and the token others compare with, remain.
Crash(e) ==
    /\ Alive(e)
    /\ pc' = [pc EXCEPT ![e] = "crashed"]
    /\ leader' = [leader EXCEPT ![e] = FALSE]
    /\ reply' = [reply EXCEPT ![e] = 0]
    /\ drain' = [drain EXCEPT ![e] = "no"]
    /\ workerPc' = [workerPc EXCEPT ![e] = "idle"]
    /\ workerRow' = [workerRow EXCEPT ![e] = NoRow]
    /\ UNCHANGED <<lock, epoch, stalls, dbErrors>>

RunStep(e) == Tick(e) \/ RenewLock(e) \/ AcquireLock(e) \/ Store(e) \/ RunExit(e)

WorkerStep(e) == WorkerGate(e) \/ VerifyRead(e) \/ VerifyDecide(e) \/ DangerousWrite(e)

Next ==
    \/ \E e \in Electors : RunStep(e) \/ DrainRelease(e) \/ DrainClearBit(e) \/ Crash(e)
    \/ \E e \in Workers : WorkerStep(e)
    \/ ExpireStalled
    \/ ExpireAbandoned

Spec == Init /\ [][Next]_vars

\* The ticker keeps firing in a live daemon, and time keeps passing.
Fairness ==
    /\ \A e \in Electors : WF_vars(RunStep(e))
    /\ WF_vars(ExpireAbandoned)

FairSpec == Spec /\ Fairness

-----------------------------------------------------------------------------
(* What the election and the fence promise.                                 *)

\* Fence tokens are never shared: two electors that both hold a token obtained
\* from Acquire hold different ones, however the takeovers, lost replies and
\* refreshes interleaved ("epoch ... strictly increases across takeovers").
EpochUnique ==
    \A e, f \in Electors : e # f /\ epoch[e] # 0 => epoch[e] # epoch[f]

\* Whoever would pass VerifyEpoch on the row as it is now owns the highest
\* token ever handed out: a deposed leader that resumes after a stall, with
\* its leader bit still set, cannot pass once a successor has its token.
FenceSound ==
    \A e \in Electors : Passes(lock, e) /\ epoch[e] # 0 =>
        \A f \in Electors \ {e} : epoch[f] < epoch[e]

\* What a fence check that is about to be decided was computed from: if it
\* passes, no other elector owns the token of the row that was read, even
\* when Run stored a newer token between the read and the comparison.
VerdictSound ==
    \A e \in Electors : workerPc[e] \in {"read", "allowed"} /\ Passes(workerRow[e], e) =>
        \A f \in Electors \ {e} : epoch[f] # workerRow[e].epoch

\* A live elector whose lock was taken over learns it: its cached leader bit,
\* which workers read without a database round trip, does not stay set.
DeposedLeaderNotices ==
    \A e \in Electors : (leader[e] /\ lock.holder # e) ~> ~leader[e]

\* The worker never stays without a leader while some daemon is running its
\* elector: crashes, releases and stalls of the holder are always followed by
\* a takeover or a refresh.
LeaderReappears ==
    []<>(\/ \E e \in Electors : Running(e) /\ leader[e]
         \/ \A e \in Electors : ~Running(e))

=============================================================================
