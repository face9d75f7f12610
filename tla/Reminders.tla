------------------------------ MODULE Reminders ------------------------------
(***************************************************************************)
(* The scheduled reminders: rows of dispatcher_reminders, the runners that *)
(* lease the due ones and deliver them, and the tools that create, move,   *)
(* cancel and delete them.                                                 *)
(*                                                                         *)
(* A runner's tick leases a batch in one statement, then sends each        *)
(* reminder of it and finalizes the row.  Any runner may tick at any time: *)
(* the leader gate only thins the ticks out.  A fault loses what a runner  *)
(* had in hand: it crashed, or LeaseDue failed after the database commit.  *)
(***************************************************************************)
EXTENDS Integers, FiniteSets

CONSTANTS
    Runners, Rems, None,
    Recurring,  \* the reminders with a CronExpr; it matches every instant
    Until,      \* RecurrenceUntil of each reminder
    BatchSize,
    MaxTime,    \* bound: the clock
    MaxFaults,  \* bound: faults, failed sends and failed writes together
    MaxUpdates  \* bound: calls of update_reminder

ASSUME NamesAssumption == None \notin Rems /\ Recurring \subseteq Rems
ASSUME NumbersAssumption ==
    /\ MaxTime \in Nat /\ MaxFaults \in Nat /\ MaxUpdates \in Nat
    /\ Until \in [Rems -> Int] /\ BatchSize \in Nat

VARIABLES
    now,
    status, fireAt,     \* the rows; "none" before, "deleted" after
    rpc, batch, cur,    \* each runner: its place, the rest of its batch, its reminder
    upc, carried,       \* update_reminder on each row: its place, the time it will write
    arming, sent,       \* history: writes of fire_at, and those whose message went out
    lastSlot,           \* history: the fire_at of the last message, -1 before
    hurt,               \* history: rows some fault hit
    faults, updates

rowVars == <<status, fireAt, arming>>
runnerVars == <<rpc, batch, cur>>
updateVars == <<upc, carried, updates>>
logVars == <<sent, lastSlot>>
vars == <<now, rowVars, runnerVars, updateVars, logVars, hurt, faults>>

Times == 0..MaxTime

TypeOK ==
    /\ now \in Times
    /\ status \in [Rems -> {"none", "pending", "firing", "fired", "cancelled", "deleted"}]
    /\ fireAt \in [Rems -> Int]
    /\ rpc \in [Runners -> {"idle", "next", "send", "finalize"}]
    /\ batch \in [Runners -> SUBSET Rems] /\ cur \in [Runners -> Rems \cup {None}]
    /\ upc \in [Rems -> {"none", "write"}] /\ carried \in [Rems -> Int]
    /\ arming \in [Rems -> Nat] /\ sent \in [Rems -> SUBSET Nat]
    /\ lastSlot \in [Rems -> Int]
    /\ hurt \subseteq Rems
    /\ faults \in 0..MaxFaults /\ updates \in 0..MaxUpdates

Init ==
    /\ now = 0
    /\ status = [r \in Rems |-> "none"] /\ fireAt = [r \in Rems |-> 0]
    /\ rpc = [n \in Runners |-> "idle"] /\ batch = [n \in Runners |-> {}]
    /\ cur = [n \in Runners |-> None]
    /\ upc = [r \in Rems |-> "none"] /\ carried = [r \in Rems |-> 0]
    /\ arming = [r \in Rems |-> 0] /\ sent = [r \in Rems |-> {}]
    /\ lastSlot = [r \in Rems |-> -1]
    /\ hurt = {} /\ faults = 0 /\ updates = 0

Fault == faults < MaxFaults /\ faults' = faults + 1

-----------------------------------------------------------------------------
(* The runner: tickOnce, deliver, finalize.                                 *)

\* Mutant: what is firing and overdue is leased again.
LeasableFiring == {r \in Rems : status[r] \in {"pending", "firing"} /\ fireAt[r] <= now}

\* Mutant: a row is due only after its time.
LeasableLate == {r \in Rems : status[r] = "pending" /\ fireAt[r] < now}

\* WHERE status = 'pending' AND fire_at <= now
Leasable == {r \in Rems : status[r] = "pending" /\ fireAt[r] <= now}

\* ORDER BY fire_at LIMIT: no row left out is older than one taken.
Batches ==
    {S \in SUBSET Leasable :
        /\ S # {} /\ Cardinality(S) <= BatchSize
        /\ S = Leasable \/ Cardinality(S) = BatchSize
        /\ \A r \in S, q \in Leasable \ S : fireAt[r] <= fireAt[q]}

LeaseDue(n, S) ==
    /\ rpc[n] = "idle" /\ S \in Batches
    /\ status' = [r \in Rems |-> IF r \in S THEN "firing" ELSE status[r]]
    /\ batch' = [batch EXCEPT ![n] = S]
    /\ rpc' = [rpc EXCEPT ![n] = "next"]
    /\ UNCHANGED <<now, fireAt, arming, cur, updateVars, logVars, hurt, faults>>

\* The next reminder of the batch, in no particular order.
NextOfBatch(n, r) ==
    /\ rpc[n] = "next" /\ r \in batch[n]
    /\ cur' = [cur EXCEPT ![n] = r]
    /\ batch' = [batch EXCEPT ![n] = @ \ {r}]
    /\ rpc' = [rpc EXCEPT ![n] = "send"]
    /\ UNCHANGED <<now, rowVars, updateVars, logVars, hurt, faults>>

EndOfBatch(n) ==
    /\ rpc[n] = "next" /\ batch[n] = {}
    /\ rpc' = [rpc EXCEPT ![n] = "idle"]
    /\ UNCHANGED <<now, rowVars, batch, cur, updateVars, logVars, hurt, faults>>

Logged(r) ==
    /\ sent' = [sent EXCEPT ![r] = @ \cup {arming[r]}]
    /\ lastSlot' = [lastSlot EXCEPT ![r] = fireAt[r]]

SendSucceeds(n) ==
    /\ rpc[n] = "send"
    /\ Logged(cur[n])
    /\ rpc' = [rpc EXCEPT ![n] = "finalize"]
    /\ UNCHANGED <<now, rowVars, batch, cur, updateVars, hurt, faults>>

Done(n) ==
    /\ rpc' = [rpc EXCEPT ![n] = "next"]
    /\ cur' = [cur EXCEPT ![n] = None]
    /\ UNCHANGED batch

\* No such channel, or Send fails: MarkErrored leaves the status alone.
SendFails(n) ==
    /\ rpc[n] = "send" /\ Fault
    /\ hurt' = hurt \cup {cur[n]}
    /\ Done(n)
    /\ UNCHANGED <<now, rowVars, updateVars, logVars>>

\* Send reports an error although the message went out.
SendUnacknowledged(n) ==
    /\ rpc[n] = "send" /\ Fault
    /\ Logged(cur[n])
    /\ hurt' = hurt \cup {cur[n]}
    /\ Done(n)
    /\ UNCHANGED <<now, rowVars, updateVars>>

\* Mutant: the occurrence that is due now counts as the next one.
NextFireAtInclusive == now

\* NextFireAt is strictly later than now.
NextFireAt == now + 1

\* WHERE status = 'firing'
Finalizable(r) == status[r] = "firing"

Rearmed(r) == r \in Recurring /\ NextFireAt <= Until[r]

\* finalize re-arms a recurring reminder within its bound ...
Reschedule(n) ==
    LET r == cur[n] IN
    /\ rpc[n] = "finalize" /\ Finalizable(r) /\ Rearmed(r)
    /\ status' = [status EXCEPT ![r] = "pending"]
    /\ fireAt' = [fireAt EXCEPT ![r] = NextFireAt]
    /\ arming' = [arming EXCEPT ![r] = @ + 1]
    /\ Done(n)
    /\ UNCHANGED <<now, updateVars, logVars, hurt, faults>>

\* ... and retires any other.
MarkFired(n) ==
    LET r == cur[n] IN
    /\ rpc[n] = "finalize" /\ Finalizable(r) /\ ~Rearmed(r)
    /\ status' = [status EXCEPT ![r] = "fired"]
    /\ Done(n)
    /\ UNCHANGED <<now, fireAt, arming, updateVars, logVars, hurt, faults>>

\* On a row that is not firing any more either is refused and that is logged.
FinalizeRefused(n) ==
    /\ rpc[n] = "finalize" /\ ~Finalizable(cur[n])
    /\ Done(n)
    /\ UNCHANGED <<now, rowVars, updateVars, logVars, hurt, faults>>

\* The database refuses the write, or the cron expression has no next time.
FinalizeFails(n) ==
    /\ rpc[n] = "finalize" /\ Fault
    /\ hurt' = hurt \cup {cur[n]}
    /\ Done(n)
    /\ UNCHANGED <<now, rowVars, updateVars, logVars>>

\* What the runner had in hand is lost; a new one starts with empty hands.
Crash(n) ==
    /\ rpc[n] # "idle" /\ Fault
    /\ hurt' = hurt \cup batch[n] \cup ({cur[n]} \ {None})
    /\ rpc' = [rpc EXCEPT ![n] = "idle"]
    /\ batch' = [batch EXCEPT ![n] = {}]
    /\ cur' = [cur EXCEPT ![n] = None]
    /\ UNCHANGED <<now, rowVars, updateVars, logVars>>

-----------------------------------------------------------------------------
(* The tools.                                                               *)

\* set_reminder and the from-text route: a new pending row, not in the past (the
\* tool allows a minute, which is the same instant here).
Insert(r, t) ==
    /\ status[r] = "none" /\ t >= now
    /\ status' = [status EXCEPT ![r] = "pending"]
    /\ fireAt' = [fireAt EXCEPT ![r] = t]
    /\ arming' = [arming EXCEPT ![r] = @ + 1]
    /\ UNCHANGED <<now, runnerVars, updateVars, logVars, hurt, faults>>

\* Cancel: any row that is not terminal.
Cancel(r) ==
    /\ status[r] \in {"pending", "firing"}
    /\ status' = [status EXCEPT ![r] = "cancelled"]
    /\ UNCHANGED <<now, fireAt, arming, runnerVars, updateVars, logVars, hurt, faults>>

Delete(r) ==
    /\ status[r] \notin {"none", "deleted"}
    /\ status' = [status EXCEPT ![r] = "deleted"]
    /\ UNCHANGED <<now, fireAt, arming, runnerVars, updateVars, logVars, hurt, faults>>

\* update_reminder reads the row and settles the time to write: a new one, or
\* the one it read; either must lie ahead.
UpdateRead(r, t) ==
    /\ upc[r] = "none" /\ updates < MaxUpdates
    /\ status[r] = "pending" /\ t > now
    /\ upc' = [upc EXCEPT ![r] = "write"]
    /\ carried' = [carried EXCEPT ![r] = t]
    /\ updates' = updates + 1
    /\ UNCHANGED <<now, rowVars, runnerVars, logVars, hurt, faults>>

\* Mutant: UpdateFields writes the row whatever its status.
UpdatableAlways(r) == status[r] \notin {"none", "deleted"}

\* WHERE status = 'pending'
Updatable(r) == status[r] = "pending"

UpdateOver(r) ==
    /\ upc' = [upc EXCEPT ![r] = "none"]
    /\ carried' = [carried EXCEPT ![r] = 0]
    /\ UNCHANGED updates

UpdateFields(r) ==
    /\ upc[r] = "write" /\ Updatable(r)
    /\ fireAt' = [fireAt EXCEPT ![r] = carried[r]]
    /\ arming' = [arming EXCEPT ![r] = @ + 1]
    /\ UpdateOver(r)
    /\ UNCHANGED <<now, status, runnerVars, logVars, hurt, faults>>

\* "no longer pending; cannot modify"
UpdateRefused(r) ==
    /\ upc[r] = "write" /\ ~Updatable(r)
    /\ UpdateOver(r)
    /\ UNCHANGED <<now, rowVars, runnerVars, logVars, hurt, faults>>

Advance ==
    /\ now < MaxTime
    /\ now' = now + 1
    /\ UNCHANGED <<rowVars, runnerVars, updateVars, logVars, hurt, faults>>

-----------------------------------------------------------------------------
Finalize(n) == Reschedule(n) \/ MarkFired(n) \/ FinalizeRefused(n) \/ FinalizeFails(n)

Send(n) == SendSucceeds(n) \/ SendFails(n) \/ SendUnacknowledged(n)

Runner(n) ==
    \/ \E S \in SUBSET Rems : LeaseDue(n, S)
    \/ \E r \in Rems : NextOfBatch(n, r)
    \/ EndOfBatch(n) \/ Send(n) \/ Finalize(n)

Next ==
    \/ \E n \in Runners : Runner(n) \/ Crash(n)
    \/ \E r \in Rems : Cancel(r) \/ Delete(r) \/ UpdateFields(r) \/ UpdateRefused(r)
    \/ \E r \in Rems, t \in Times : Insert(r, t) \/ UpdateRead(r, t)
    \/ Advance

Spec == Init /\ [][Next]_vars

\* Each runner's heartbeat goes on.
Fairness == \A n \in Runners : WF_vars(Runner(n))

LiveSpec == Spec /\ Fairness

-----------------------------------------------------------------------------
(* Properties.                                                              *)

StateOf(r) ==
    IF status[r] = "pending" THEN "armed"
    ELSE IF status[r] \in {"none", "firing"} THEN status[r] ELSE "over"

\* Runner n has the message of r still to send.
Holds(n, r) == r \in batch[n] \/ (cur[n] = r /\ rpc[n] = "send")

\* Each arming of a reminder is sent at most once, and nothing is leased again
\* after it was cancelled or deleted, with several runners, faults between any
\* two steps, and tools at work meanwhile: the runners implement ReminderService.
Promise == INSTANCE ReminderService WITH
    state <- [r \in Rems |-> StateOf(r)],
    inHand <- {r \in Rems : \E n \in Runners : Holds(n, r)}

ImplementsPromise == Promise!Spec

\* A message never goes out before the time its row names: no update moves a
\* reminder that a runner has in hand.
NeverEarly ==
    \A n \in Runners, r \in Rems : Holds(n, r) => fireAt[r] <= now

\* Nothing due waits for ever and no row stays firing but for a fault: again
\* and again every due row has been leased and every leased row settled.
Settles ==
    []<>(\A r \in Rems :
            /\ status[r] = "pending" => fireAt[r] > now
            /\ status[r] = "firing" => r \in hurt)

\* A recurring reminder that went out for one occurrence is due next for a
\* later one, never for the same (cron.go, NextFireAt), however late the runner
\* was and whatever failed; only update_reminder, which writes back a time it
\* read earlier, can bring an occurrence back.
NextOccurrence ==
    updates = 0 => \A r \in Rems : status[r] = "pending" => fireAt[r] > lastSlot[r]
=============================================================================
