------------------------- MODULE TaskDispatchProofs -------------------------
(***************************************************************************)
(* Proofs about TaskDispatch, for any nodes, tasks, limits and budgets:    *)
(* type correctness, AttemptBounded and SlotAccounting.                    *)
(*                                                                         *)
(* The inductive invariant has one part per group of variables.  RowsOK    *)
(* bounds the attempts of the table and of every copy of a row that some   *)
(* goroutine still holds: a copy may be written back long after it was     *)
(* read.  LeaseIds says who may work under a lease; SlotAccounting needs   *)
(* it to know that LeaseTask's id is of no dispatch yet and that every     *)
(* dispatch has a node whose slot it gives back.                           *)
(***************************************************************************)
EXTENDS TaskDispatch, FiniteSetTheorems, TLAPS

\* A row of the table, and a copy of one (NoRow included).
LiveRow == {r \in Row : 1 <= r.attempt /\ r.attempt <= r.max}
SeenRow == {r \in Row : r.attempt <= r.max}

RowsOK ==
    /\ row \in [Tasks -> LiveRow]
    /\ read \in [Leases -> SeenRow]
    /\ snap \in [Leases -> SeenRow]
    /\ sRow \in [Nodes -> SeenRow]

DispatchPc == {"none", "dispatch", "watch", "await", "cancel", "cancelrow", "cancelfn",
               "succeeded", "failed", "terminated", "release", "done", "dead"}

DispatchOK ==
    /\ leaseSeq \in 0..MaxLeases
    /\ dTask \in [Leases -> Tasks \cup {None}]
    /\ dNode \in [Leases -> Nodes \cup {None}]
    /\ dpc \in [Leases -> DispatchPc]
    /\ victim \in [Leases -> 0..MaxLeases]
    /\ rpc \in [Leases -> {"none", "start", "work", "exit"}]
    /\ ctxDone \in [Leases -> BOOLEAN]

\* A lease id that was handed out has a task and a node; one that was not has
\* no dispatch.
LeaseIds ==
    \A l \in Leases : /\ dpc[l] # "none" => dTask[l] \in Tasks /\ dNode[l] \in Nodes
                      /\ dpc[l] = "none" => dNode[l] = None
                      /\ l > leaseSeq => dpc[l] = "none"

\* The third failure leaves the watch loop.
FailsOK ==
    /\ fails \in [Leases -> 0..maxRenewFailures]
    /\ \A l \in Leases : fails[l] = maxRenewFailures => dpc[l] = "cancel"

NodeOK ==
    /\ up \subseteq Nodes
    /\ sched \in [Nodes -> {"idle", "under", "over"}]
    /\ sTask \in [Nodes -> Tasks \cup {None}]
    /\ spc \in [Nodes -> {"idle", "found", "renew", "recover"}]
    /\ idle \in [Nodes -> [Tasks -> 0..2]]

RequestOK ==
    /\ cpc \in [Tasks -> {"idle", "running", "queued", "cancel", "cancelrow", "cancelfn"}]
    /\ cNode \in [Tasks -> Nodes \cup {None}]
    /\ cVictim \in [Tasks -> 0..MaxLeases]

BudgetOK ==
    /\ cancels \in 0..MaxCancels
    /\ requeues \in 0..MaxRequeues
    /\ stalls \in 0..MaxStalls
    /\ dbErrors \in 0..MaxDBErrors

SlotsOK == slots \in [Nodes -> Nat] /\ SlotAccounting

IInv ==
    RowsOK /\ DispatchOK /\ LeaseIds /\ FailsOK /\ NodeOK /\ RequestOK /\ BudgetOK /\ SlotsOK

-----------------------------------------------------------------------------
(* What the statements of the repository do to a row's attempts.            *)

\* ReleaseLease with an attempt that fits the maximum it is given.
LEMMA ReleasedRows ==
    ASSUME NEW r \in LiveRow, NEW l, NEW s \in Status, NEW a \in Nat, NEW m \in Nat,
           (a = 0 /\ m = 0) \/ (1 <= a /\ a <= m)
    PROVE  ReleasedRow(r, l, s, a, m) \in LiveRow
  BY LimitsAssumption DEF LiveRow, Row, ReleasedRow, Status

\* A failed dispatch, a recovered lease and a failed run write back what they
\* know of the attempts from the copy they hold.
LEMMA WrittenBackRows ==
    ASSUME NEW r \in LiveRow, NEW l, NEW seen \in SeenRow
    PROVE  /\ RetriedRow(r, l, seen) \in LiveRow
           /\ RecoveredRow(r, seen) \in LiveRow
           /\ \A a \in 1..seen.max, e \in BOOLEAN : FailedRow(seen, a, e) \in LiveRow
  <1>0. seen \in Row /\ seen.attempt \in Nat /\ seen.max \in Nat /\ seen.attempt <= seen.max
    BY Zenon DEF SeenRow, Row
  <1>a. "QUEUED" \in Status /\ "FAILED" \in Status
    BY Zenon DEF Status
  <1>1. RetriedRow(r, l, seen) \in LiveRow
    <2>1. CASE seen.attempt < seen.max
      <3>1. seen.attempt + 1 \in Nat /\ 1 <= seen.attempt + 1 /\ seen.attempt + 1 <= seen.max
        BY <1>0, <2>1
      <3>2. ReleasedRow(r, l, "QUEUED", seen.attempt + 1, seen.max) \in LiveRow
        BY Zenon, <1>a, <1>0, <3>1, ReleasedRows
      <3> QED BY Zenon, <2>1, <3>2 DEF RetriedRow
    <2>2. CASE ~(seen.attempt < seen.max)
      <3>1. ReleasedRow(r, l, "FAILED", 0, 0) \in LiveRow
        BY Zenon, ReleasedRows DEF Status
      <3> QED BY Zenon, <2>2, <3>1 DEF RetriedRow
    <2> QED BY Zenon, <2>1, <2>2
  <1>2. RecoveredRow(r, seen) \in LiveRow
    <2>1. CASE seen.attempt + 1 > seen.max
      <3>1. (seen.max = 0 /\ seen.max = 0) \/ (1 <= seen.max /\ seen.max <= seen.max)
        BY <1>0
      <3>2. ReleasedRow(r, seen.lease, "FAILED", seen.max, seen.max) \in LiveRow
        BY Zenon, <1>a, <1>0, <3>1, ReleasedRows
      <3> QED BY Zenon, <2>1, <3>2 DEF RecoveredRow
    <2>2. CASE ~(seen.attempt + 1 > seen.max)
      <3>1. seen.attempt + 1 \in Nat /\ 1 <= seen.attempt + 1 /\ seen.attempt + 1 <= seen.max
        BY <1>0, <2>2
      <3>2. ReleasedRow(r, seen.lease, "QUEUED", seen.attempt + 1, seen.max) \in LiveRow
        BY Zenon, <1>a, <1>0, <3>1, ReleasedRows
      <3> QED BY Zenon, <2>2, <3>2 DEF RecoveredRow
    <2> QED BY Zenon, <2>1, <2>2
  <1>3. ASSUME NEW a \in 1..seen.max, NEW e \in BOOLEAN PROVE FailedRow(seen, a, e) \in LiveRow
    <2>1. FailedRow(seen, a, e) \in Row
      BY <1>0 DEF Row, FailedRow, Status
    <2>2. FailedRow(seen, a, e).attempt = a /\ FailedRow(seen, a, e).max = seen.max
      BY Zenon DEF FailedRow
    <2> QED BY <1>0, <2>1, <2>2 DEF LiveRow
  <1> QED BY Zenon, <1>1, <1>2, <1>3

\* A live row, and the absent one, may be what somebody has read.
LEMMA RowSets == LiveRow \subseteq SeenRow /\ NoRow \in SeenRow
  BY LimitsAssumption DEF LiveRow, SeenRow, NoRow, Row, Status

\* A restarted node has counted no idle sweep of any task.
LEMMA FreshGrace == [t \in Tasks |-> 0] \in [Tasks -> 0..2]
  OBVIOUS

-----------------------------------------------------------------------------

\* The initial states satisfy IInv.
LEMMA InitIInv == Init => IInv
  <1> SUFFICES ASSUME Init PROVE IInv
    OBVIOUS
  <1> USE NamesAssumption, LimitsAssumption, BudgetAssumption
  <1>1. RowsOK
    <2>1. [status |-> "QUEUED", lease |-> 0, expired |-> FALSE, attempt |-> 1,
           max |-> MaxAttempts] \in LiveRow
      BY DEF LiveRow, Row, Status
    <2> QED BY Zenon, <2>1, RowSets DEF Init, RowsOK
  <1>2. DispatchOK /\ LeaseIds /\ FailsOK
    BY DEF Init, DispatchOK, LeaseIds, FailsOK, DispatchPc, maxRenewFailures
  <1>3. NodeOK /\ RequestOK
    BY DEF Init, NodeOK, RequestOK
  <1>4. BudgetOK
    BY DEF Init, BudgetOK
  <1>5. SlotsOK
    <2>1. \A n \in Nodes : Holding(n) = {} /\ Reserved(n) = 0
      BY Zenon DEF Init, Holding, Reserved
    <2>2. Cardinality({}) = 0
      BY Zenon, FS_EmptySet
    <2>3. slots = [n \in Nodes |-> 0]
      BY Zenon DEF Init
    <2>4. SlotAccounting
      <3> SUFFICES ASSUME NEW n \in Nodes
                   PROVE  slots[n] = Cardinality(Holding(n)) + Reserved(n) /\ slots[n] <= MaxConcurrency
        BY Zenon DEF SlotAccounting
      <3>1. Cardinality(Holding(n)) = 0 /\ Reserved(n) = 0 /\ slots[n] = 0
        BY Zenon, <2>1, <2>2, <2>3
      <3> QED BY <3>1
    <2> QED BY Zenon, <2>3, <2>4 DEF SlotsOK
  <1> QED BY ZenonT(60), <1>1, <1>2, <1>3, <1>4, <1>5 DEF IInv

-----------------------------------------------------------------------------
(* One lemma per part of the invariant.                                     *)

\* The slots: only the reservation, its rollback, the end of a dispatch and a
\* crash change what a node holds.
LEMMA HoldingFinite == \A n : IsFiniteSet(Holding(n)) /\ Cardinality(Holding(n)) \in Nat
  <1>1. IsFiniteSet(Leases)
    BY LimitsAssumption, FS_Interval DEF Leases
  <1>2. \A n : Holding(n) \subseteq Leases
    BY Zenon DEF Holding
  <1>3. \A n : IsFiniteSet(Holding(n))
    BY Zenon, <1>1, <1>2, FS_Subset
  <1> QED BY Zenon, <1>3, FS_CardinalityType

\* Every step keeps the slots of a node accounted for.
LEMMA SlotsStep == DispatchOK /\ LeaseIds /\ NodeOK /\ SlotsOK /\ [Next]_vars => SlotsOK'
  <1> SUFFICES ASSUME DispatchOK, LeaseIds, NodeOK, SlotsOK, [Next]_vars PROVE SlotsOK'
    OBVIOUS
  <1> DEFINE Away == {"none", "release", "done", "dead"}
             Card(n) == Cardinality(Holding(n))
  <1>0. \A n : Card(n) \in Nat
    BY Zenon, HoldingFinite
  <1>a. /\ slots \in [Nodes -> Nat]
        /\ \A n \in Nodes : slots[n] = Card(n) + Reserved(n) /\ slots[n] <= MaxConcurrency
    BY Zenon DEF SlotsOK, SlotAccounting
  <1>c. MaxConcurrency \in Nat /\ \A n : Reserved(n) \in {0, 1} /\ Reserved(n)' \in {0, 1}
    BY Zenon, LimitsAssumption DEF Reserved
  <1> HIDE DEF Card
  <1>1. ASSUME UNCHANGED <<slots, sched>>, \A n \in Nodes : Card(n)' = Card(n)
        PROVE  SlotsOK'
    BY Zenon, <1>1, <1>a DEF Reserved, SlotsOK, SlotAccounting, Card
  <1>2. ASSUME UNCHANGED dNode,
               \A l \in Leases : dpc'[l] \in Away <=> dpc[l] \in Away
        PROVE  \A n : Card(n)' = Card(n)
    BY Zenon, <1>2 DEF Card, Holding
  <1>3. ASSUME NEW n \in Nodes, Reserve(n) PROVE SlotsOK'
    <2>1. UNCHANGED <<dNode, dpc>>
      BY Zenon, <1>3 DEF Reserve, dispatchVars
    <2>2. \A m \in Nodes : Card(m)' = Card(m)
      BY Zenon, <2>1, <1>2
    <2>3. /\ slots' = [slots EXCEPT ![n] = slots[n] + 1] /\ slots[n] < MaxConcurrency
          /\ sched[n] = "idle" /\ sched'[n] # "idle"
          /\ \A m \in Nodes \ {n} : sched'[m] = sched[m]
      BY Zenon, <1>3 DEF Reserve, NodeOK
    <2>4. /\ Reserved(n) = 0 /\ Reserved(n)' = 1
          /\ \A m \in Nodes \ {n} : Reserved(m)' = Reserved(m)
      BY Zenon, <2>3 DEF Reserved
    <2> QED BY <1>a, <1>0, <1>c, <2>2, <2>3, <2>4 DEF SlotsOK, SlotAccounting, Card
  <1>4. ASSUME NEW n \in Nodes, \A m \in Nodes : Card(m)' = Card(m),
               slots' = [slots EXCEPT ![n] = slots[n] - 1],
               sched[n] # "idle", sched' = [sched EXCEPT ![n] = "idle"]
        PROVE  SlotsOK'
    <2>1. /\ Reserved(n) = 1 /\ Reserved(n)' = 0
          /\ \A m \in Nodes \ {n} : Reserved(m)' = Reserved(m)
      BY Zenon, <1>4 DEF Reserved, NodeOK
    <2>2. slots[n] \in Nat /\ slots[n] >= 1
      BY <1>a, <1>0, <2>1
    <2> QED BY <1>a, <1>0, <1>c, <1>4, <2>1, <2>2 DEF SlotsOK, SlotAccounting, Card
  <1>5. ASSUME NEW n \in Nodes, LeaseNothing(n) PROVE SlotsOK'
    <2>1. UNCHANGED <<dNode, dpc>>
      BY Zenon, <1>5 DEF LeaseNothing, dispatchVars
    <2>2. \A m \in Nodes : Card(m)' = Card(m)
      BY Zenon, <2>1, <1>2
    <2> QED BY Zenon, <1>4, <1>5, <2>2 DEF LeaseNothing
  <1>6. ASSUME NEW n \in Nodes, NEW t \in Tasks, LeaseLost(n, t) PROVE SlotsOK'
    <2> DEFINE k == leaseSeq + 1
    <2>1. /\ k \in Leases /\ dNode' = [dNode EXCEPT ![k] = n] /\ dpc' = [dpc EXCEPT ![k] = "dead"]
          /\ dpc[k] = "none"
      BY <1>6 DEF LeaseLost, LeaseIds, DispatchOK
    <2>2. \A m : Holding(m)' = Holding(m)
      BY Zenon, <2>1 DEF Holding, DispatchOK
    <2>3. \A m \in Nodes : Card(m)' = Card(m)
      BY Zenon, <2>2 DEF Card
    <2>4. sched[n] # "idle" /\ sched' = [sched EXCEPT ![n] = "idle"]
      BY Zenon, <1>6 DEF LeaseLost
    <2>5. slots' = [slots EXCEPT ![n] = slots[n] - 1]
      BY Zenon, <1>6 DEF LeaseLost
    <2> QED BY Zenon, <1>4, <2>3, <2>4, <2>5
  <1>7. ASSUME NEW n \in Nodes, NEW t \in Tasks, LeaseTask(n, t) PROVE SlotsOK'
    <2> DEFINE k == leaseSeq + 1
    <2>1. /\ k \in Leases /\ dNode' = [dNode EXCEPT ![k] = n]
          /\ dpc' = [dpc EXCEPT ![k] = "dispatch"] /\ dpc[k] = "none" /\ dNode[k] = None
      BY <1>7 DEF LeaseTask, LeaseIds, DispatchOK
    <2>2. Holding(n)' = Holding(n) \cup {k} /\ k \notin Holding(n)
      BY Zenon, <2>1 DEF Holding, DispatchOK
    <2>3. \A m \in Nodes \ {n} : Holding(m)' = Holding(m)
      BY Zenon, <2>1 DEF Holding, DispatchOK
    <2>4. Card(n)' = Card(n) + 1 /\ \A m \in Nodes \ {n} : Card(m)' = Card(m)
      BY ZenonT(60), <2>2, <2>3, HoldingFinite, FS_AddElement DEF Card
    <2>5. slots' = slots /\ sched[n] # "idle" /\ sched' = [sched EXCEPT ![n] = "idle"]
      BY Zenon, <1>7 DEF LeaseTask
    <2>6. /\ Reserved(n) = 1 /\ Reserved(n)' = 0
          /\ \A m \in Nodes \ {n} : Reserved(m)' = Reserved(m)
      BY Zenon, <2>5 DEF Reserved, NodeOK
    <2> QED BY <1>a, <1>0, <1>c, <2>4, <2>5, <2>6 DEF SlotsOK, SlotAccounting, Card
  <1>8. ASSUME NEW l \in Leases, FinishSucceeded(l) \/ FinishTerminated(l) \/ FinishFailed(l)
        PROVE  SlotsOK'
    <2>1. /\ dpc[l] \in {"succeeded", "terminated", "failed"} /\ UNCHANGED <<dNode, sched>>
          /\ dpc' = [dpc EXCEPT ![l] = "done"] \/ dpc' = [dpc EXCEPT ![l] = "release"]
          /\ slots' = [slots EXCEPT ![dNode[l]] = Decremented(dNode[l])]
      BY Zenon, <1>8 DEF FinishSucceeded, FinishTerminated, FinishFailed
    <2>2. PICK n \in Nodes : n = dNode[l]
      BY Zenon, <2>1 DEF LeaseIds
    <2>3. Holding(n)' = Holding(n) \ {l} /\ l \in Holding(n)
      BY Zenon, <2>1, <2>2 DEF Holding, DispatchOK
    <2>4. \A m \in Nodes \ {n} : Holding(m)' = Holding(m)
      BY Zenon, <2>1, <2>2 DEF Holding, DispatchOK
    <2>5. Card(n)' = Card(n) - 1 /\ \A m \in Nodes \ {n} : Card(m)' = Card(m)
      BY ZenonT(60), <2>3, <2>4, HoldingFinite, FS_RemoveElement DEF Card
    <2>6. Card(n)' \in Nat
      BY Zenon, <2>3, HoldingFinite, FS_RemoveElement, FS_CardinalityType DEF Card
    <2>7. \A m \in Nodes : Reserved(m)' = Reserved(m)
      BY Zenon, <2>1 DEF Reserved
    <2>8. slots[n] \in Nat /\ slots[n] > 0
      BY <1>a, <1>0, <1>c, <2>2, <2>5, <2>6
    <2>9. slots' = [slots EXCEPT ![n] = slots[n] - 1]
      BY ZenonT(60), <2>1, <2>2, <2>8 DEF Decremented
    <2>10. /\ slots' \in [Nodes -> Nat] /\ slots'[n] = slots[n] - 1
           /\ \A m \in Nodes \ {n} : slots'[m] = slots[m]
      BY <1>a, <2>2, <2>8, <2>9
    <2>11. \A m \in Nodes : slots'[m] = Card(m)' + Reserved(m)' /\ slots'[m] <= MaxConcurrency
      <3>1. slots'[n] = Card(n)' + Reserved(n)' /\ slots'[n] <= MaxConcurrency
        BY <1>a, <1>0, <1>c, <2>2, <2>5, <2>7, <2>8, <2>10
      <3>2. ASSUME NEW m \in Nodes \ {n}
            PROVE  slots'[m] = Card(m)' + Reserved(m)' /\ slots'[m] <= MaxConcurrency
        BY Zenon, <1>a, <2>5, <2>7, <2>10
      <3> QED BY Zenon, <3>1, <3>2
    <2> QED BY Zenon, <2>10, <2>11 DEF SlotsOK, SlotAccounting, Card
  <1>9. ASSUME NEW n \in Nodes, Crash(n) PROVE SlotsOK'
    <2>1. /\ dNode' = dNode
          /\ \A l \in Leases : dpc'[l] = IF dNode[l] = n /\ dpc[l] # "done" THEN "dead" ELSE dpc[l]
      BY Zenon, <1>9 DEF Crash
    <2>2. Holding(n)' = {}
      BY Zenon, <2>1 DEF Holding
    <2>3. \A m \in Nodes \ {n} : Holding(m)' = Holding(m)
      BY Zenon, <2>1 DEF Holding
    <2>4. Card(n)' = 0 /\ \A m \in Nodes \ {n} : Card(m)' = Card(m)
      BY Zenon, <2>2, <2>3, FS_EmptySet DEF Card
    <2>5. slots' = [slots EXCEPT ![n] = 0] /\ sched' = [sched EXCEPT ![n] = "idle"]
      BY Zenon, <1>9 DEF Crash
    <2>6. Reserved(n)' = 0 /\ \A m \in Nodes \ {n} : Reserved(m)' = Reserved(m)
      BY Zenon, <2>5 DEF Reserved, NodeOK
    <2> QED BY <1>a, <1>0, <1>c, <2>4, <2>5, <2>6 DEF SlotsOK, SlotAccounting, Card
  <1>10. ASSUME NEW l \in Leases,
                Execute(l) \/ Renew(l) \/ EscalateCancel(l) \/ EscalateCancelRow(l)
                \/ EscalateCancelFn(l) \/ Classify(l) \/ ReleaseFailed(l)
         PROVE  SlotsOK'
    <2>1. UNCHANGED <<slots, sched, dNode>>
      BY Zenon, <1>10 DEF Execute, Renew, EscalateCancel, EscalateCancelRow,
         EscalateCancelFn, Classify, ReleaseFailed
    <2>2. \A k \in Leases : dpc'[k] \in Away <=> dpc[k] \in Away
      <3>1. CASE Execute(l) \/ EscalateCancel(l) \/ EscalateCancelRow(l) \/ EscalateCancelFn(l)
        BY ZenonT(60), <3>1 DEF Execute, EscalateCancel, EscalateCancelRow, EscalateCancelFn,
           DispatchOK
      <3>2. CASE Renew(l)
        BY Zenon, <3>2 DEF Renew, RenewFailed, DispatchOK
      <3>3. CASE Classify(l)
        <4>1. /\ dpc[l] \in {"watch", "await"}
              /\ \/ dpc' = [dpc EXCEPT ![l] = "succeeded"]
                 \/ dpc' = [dpc EXCEPT ![l] = "terminated"]
                 \/ dpc' = [dpc EXCEPT ![l] = "failed"]
          BY Zenon, <3>3 DEF Classify
        <4> QED BY Zenon, <4>1 DEF DispatchOK
      <3>4. CASE ReleaseFailed(l)
        BY Zenon, <3>4 DEF ReleaseFailed, DispatchOK
      <3> QED BY Zenon, <1>10, <3>1, <3>2, <3>3, <3>4
    <2> QED BY Zenon, <1>1, <1>2, <2>1, <2>2
  <1>11. CASE UNCHANGED <<slots, sched, dispatchVars>>
    <2>1. UNCHANGED <<slots, sched, dNode, dpc>>
      BY Zenon, <1>11 DEF dispatchVars
    <2> QED BY Zenon, <1>1, <1>2, <2>1
  <1>12. ASSUME NEW n \in Nodes, Sweep(n) PROVE UNCHANGED <<slots, sched, dispatchVars>>
    BY Zenon, <1>12 DEF Sweep, SweepFind, SweepDecide, SweepRenew, SweepRecover
  <1>13. ASSUME NEW n \in Nodes, NEW t \in Tasks, GraceElapses(n, t) \/ CancelRead(n, t)
         PROVE  UNCHANGED <<slots, sched, dispatchVars>>
    BY Zenon, <1>13 DEF GraceElapses, CancelRead
  <1>14. ASSUME NEW l \in Leases, Run(l) PROVE UNCHANGED <<slots, sched, dispatchVars>>
    BY Zenon, <1>14 DEF Run, MarkRunning, RunSucceed, RunFail, RunHandoff, RunLost, Exit,
       Cleanup
  <1>15. ASSUME NEW t \in Tasks, CancelRequest(t) PROVE UNCHANGED <<slots, sched, dispatchVars>>
    BY Zenon, <1>15 DEF CancelRequest, CancelWrite, CancelLookup, CancelRow, CancelFn
  <1>16. ASSUME NEW t \in Tasks, NEW reset \in BOOLEAN,
                Answer(t) \/ ExpireStalled(t) \/ ExpireAbandoned(t) \/ Retry(t, reset)
         PROVE  UNCHANGED <<slots, sched, dispatchVars>>
    BY Zenon, <1>16 DEF Answer, Retry, Requeue, ExpireStalled, ExpireAbandoned, Expire
  <1>17. CASE UNCHANGED vars
    BY Zenon, <1>17, <1>11 DEF vars
  <1> QED
    <2>1. ASSUME NEW n \in Nodes, Schedule(n) PROVE SlotsOK'
      BY ZenonT(60), <2>1, <1>3, <1>5, <1>7 DEF Schedule
    <2>2. ASSUME NEW l \in Leases, Dispatch(l) PROVE SlotsOK'
      BY Zenon, <2>2, <1>8, <1>10 DEF Dispatch
    <2>3. ASSUME NEW n \in Nodes, Sweep(n) \/ Crash(n) PROVE SlotsOK'
      BY Zenon, <2>3, <1>9, <1>11, <1>12
    <2>4. ASSUME NEW n \in Nodes, NEW t \in Tasks,
                 LeaseLost(n, t) \/ GraceElapses(n, t) \/ CancelRead(n, t)
          PROVE  SlotsOK'
      BY Zenon, <2>4, <1>6, <1>11, <1>13
    <2>5. ASSUME NEW l \in Leases, Run(l) PROVE SlotsOK'
      BY Zenon, <2>5, <1>11, <1>14
    <2>6. ASSUME NEW t \in Tasks, NEW reset \in BOOLEAN,
                 \/ CancelRequest(t) \/ Answer(t) \/ ExpireStalled(t) \/ ExpireAbandoned(t)
                 \/ Retry(t, reset)
          PROVE  SlotsOK'
      BY Zenon, <2>6, <1>11, <1>15, <1>16
    <2> QED BY Zenon, <2>1, <2>2, <2>3, <2>4, <2>5, <2>6, <1>17 DEF Next

\* IInv is strong enough.
LEMMA IInvImplies == IInv => TypeOK /\ AttemptBounded /\ SlotAccounting
  <1> SUFFICES ASSUME IInv PROVE TypeOK /\ AttemptBounded /\ SlotAccounting
    OBVIOUS
  <1>1. LiveRow \subseteq Row /\ SeenRow \subseteq Row
    BY Zenon DEF LiveRow, SeenRow
  <1>2. TypeOK
    BY ZenonT(60), <1>1 DEF IInv, TypeOK, RowsOK, DispatchOK, DispatchPc, FailsOK, NodeOK,
       RequestOK, BudgetOK, SlotsOK
  <1>3. AttemptBounded
    BY DEF IInv, RowsOK, LiveRow, SeenRow, Row, AttemptBounded, RowAttemptOK
  <1> QED BY Zenon, <1>2, <1>3 DEF IInv, SlotsOK

\* The table and the copies of its rows.
LEMMA RowsStep == RowsOK /\ DispatchOK /\ LeaseIds /\ [Next]_vars => RowsOK'
  <1> SUFFICES ASSUME RowsOK, DispatchOK, LeaseIds, [Next]_vars PROVE RowsOK'
    OBVIOUS
  <1>a. \A r \in LiveRow : /\ SetStatus(r, "CANCELLED") \in LiveRow
                           /\ SetStatus(r, "RUNNING") \in LiveRow
                           /\ SetStatus(r, "COMPLETED") \in LiveRow
    BY Zenon DEF LiveRow, Row, SetStatus, Status
  <1>b. \A r \in LiveRow : WithExpiry(r, TRUE) \in LiveRow /\ WithExpiry(r, FALSE) \in LiveRow
    BY Zenon DEF LiveRow, Row, WithExpiry
  <1>c. \A r \in LiveRow : /\ ClearLease(r, "QUEUED") \in LiveRow
                           /\ ClearLease(r, "AWAITING_INPUT") \in LiveRow
                           /\ ClearLease(r, "COMPLETED") \in LiveRow
    BY LimitsAssumption DEF LiveRow, Row, ClearLease, Status
  <1>d. "COMPLETED" \in Status
    BY Zenon DEF Status
  <1>e. \A r \in LiveRow : r \in SeenRow
    BY Zenon, RowSets
  <1>f. NoRow \in SeenRow
    BY Zenon, RowSets
  <1>g. RequeuedRow(1, 1) \in LiveRow
    BY LimitsAssumption DEF LiveRow, Row, RequeuedRow, Status
  <1>1. ASSUME NEW n \in Nodes, Reserve(n) \/ LeaseNothing(n) PROVE RowsOK'
    BY Zenon, <1>1 DEF Reserve, LeaseNothing, dispatchVars, runVars, sweepVars, RowsOK
  <1>2. ASSUME NEW n \in Nodes, NEW t \in Tasks, LeaseTask(n, t) \/ LeaseLost(n, t) PROVE RowsOK'
    <2>1. leaseSeq + 1 \in Leases
      BY Zenon, <1>2 DEF LeaseTask, LeaseLost
    <2>2. \A r \in LiveRow : LeasedRow(r, leaseSeq + 1) \in LiveRow
      BY <2>1 DEF LiveRow, Row, LeasedRow, Status, Leases
    <2> QED BY <1>2, <2>2 DEF LeaseTask, LeaseLost, runVars, sweepVars, RowsOK
  <1>3. ASSUME NEW l \in Leases, Dispatch(l) PROVE RowsOK'
    <2>1. CASE Execute(l)
      <3>1. dTask[l] \in Tasks
        BY Zenon, <2>1 DEF LeaseIds, Execute
      <3> QED BY Zenon, <2>1, <3>1, <1>e DEF Execute, runVars, sweepVars, RowsOK
    <2>2. CASE Renew(l)
      <3>1. row' = row \/ row' = [row EXCEPT ![dTask[l]] = WithExpiry(row[dTask[l]], FALSE)]
        BY Zenon, <2>2 DEF Renew
      <3>2. UNCHANGED <<read, snap, sRow>>
        BY Zenon, <2>2 DEF Renew, runVars, sweepVars
      <3> QED BY ZenonT(60), <3>1, <3>2, <1>b DEF RowsOK
    <2>3. CASE EscalateCancel(l) \/ EscalateCancelFn(l) \/ Classify(l) \/ FinishTerminated(l)
      BY Zenon, <2>3 DEF EscalateCancel, EscalateCancelFn, Classify, FinishTerminated,
         runVars, sweepVars, RowsOK
    <2>4. CASE EscalateCancelRow(l)
      BY <2>4, <1>a DEF EscalateCancelRow, runVars, sweepVars, RowsOK
    <2>5. CASE FinishSucceeded(l)
      <3>1. \A r \in LiveRow : ReleasedRow(r, l, "COMPLETED", 0, 0) \in LiveRow
        BY Zenon, <1>d, ReleasedRows
      <3> QED BY ZenonT(60), <2>5, <3>1 DEF FinishSucceeded, runVars, sweepVars, RowsOK
    <2>6. CASE FinishFailed(l)
      <3>1. dTask[l] \in Tasks
        BY Zenon, <2>6 DEF LeaseIds, FinishFailed
      <3> QED BY Zenon, <2>6, <3>1, <1>e, <1>f DEF FinishFailed, runVars, sweepVars, RowsOK
    <2>7. CASE ReleaseFailed(l)
      <3>1. \A r \in LiveRow : RetriedRow(r, l, read[l]) \in LiveRow
        BY Zenon, WrittenBackRows DEF RowsOK
      <3> QED BY <2>7, <3>1, <1>f DEF ReleaseFailed, runVars, sweepVars, RowsOK
    <2> QED BY Zenon, <1>3, <2>1, <2>2, <2>3, <2>4, <2>5, <2>6, <2>7 DEF Dispatch
  <1>4. ASSUME NEW l \in Leases, Run(l) PROVE RowsOK'
    <2>0. snap[l] \in SeenRow
      BY Zenon DEF RowsOK
    <2>1. CASE MarkRunning(l)
      BY ZenonT(60), <2>1, <1>a DEF MarkRunning, dispatchVars, sweepVars, RowsOK
    <2>2. CASE RunSucceed(l)
      BY Zenon, <2>2, <1>a, <1>f DEF RunSucceed, Exit, dispatchVars, sweepVars, RowsOK
    <2>3. ASSUME NEW a \in 1..snap[l].max, NEW e \in BOOLEAN, RunFail(l, a, e) PROVE RowsOK'
      <3>1. FailedRow(snap[l], a, e) \in LiveRow
        BY Zenon, <2>0, <1>g, WrittenBackRows
      <3> QED BY Zenon, <2>3, <3>1, <1>f DEF RunFail, Exit, dispatchVars, sweepVars, RowsOK
    <2>4. ASSUME NEW s \in {"AWAITING_INPUT", "COMPLETED"}, RunHandoff(l, s) PROVE RowsOK'
      BY Zenon, <2>4, <1>c, <1>f DEF RunHandoff, Exit, dispatchVars, sweepVars, RowsOK
    <2>5. CASE RunLost(l)
      BY Zenon, <2>5, <1>f DEF RunLost, Exit, dispatchVars, sweepVars, RowsOK
    <2>6. CASE Cleanup(l)
      BY Zenon, <2>6 DEF Cleanup, dispatchVars, sweepVars, RowsOK
    <2> QED BY Zenon, <1>4, <2>1, <2>2, <2>3, <2>4, <2>5, <2>6 DEF Run
  <1>5. ASSUME NEW n \in Nodes, Sweep(n) PROVE RowsOK'
    <2>1. ASSUME NEW t \in Tasks, SweepFind(n, t) PROVE RowsOK'
      BY Zenon, <2>1, <1>e DEF SweepFind, dispatchVars, runVars, RowsOK
    <2>2. CASE SweepDecide(n)
      BY Zenon, <2>2, <1>f DEF SweepDecide, SweepGo, SweepEnd, dispatchVars, runVars, RowsOK
    <2>3. CASE SweepRenew(n)
      <3>1. row' = row \/ row' = [row EXCEPT ![sTask[n]] = WithExpiry(row[sTask[n]], FALSE)]
        BY Zenon, <2>3 DEF SweepRenew
      <3>2. UNCHANGED <<read, snap>> /\ sRow' \in [Nodes -> SeenRow]
        BY Zenon, <2>3, <1>f DEF SweepRenew, SweepGo, SweepEnd, dispatchVars, runVars,
           RowsOK
      <3> QED BY ZenonT(60), <3>1, <3>2, <1>b DEF RowsOK
    <2>4. CASE SweepRecover(n)
      <3>1. \A r \in LiveRow : RecoveredRow(r, sRow[n]) \in LiveRow
        BY Zenon, WrittenBackRows DEF RowsOK
      <3> QED BY ZenonT(60), <2>4, <3>1, <1>f DEF SweepRecover, SweepEnd, dispatchVars, runVars,
                 RowsOK
    <2> QED BY Zenon, <1>5, <2>1, <2>2, <2>3, <2>4 DEF Sweep
  <1>6. ASSUME NEW t \in Tasks, CancelRequest(t) PROVE RowsOK'
    <2>1. CASE CancelWrite(t)
      BY Zenon, <2>1, <1>a DEF CancelWrite, dispatchVars, runVars, sweepVars, RowsOK
    <2>2. CASE CancelLookup(t) \/ CancelFn(t)
      BY Zenon, <2>2 DEF CancelLookup, CancelFn, dispatchVars, runVars, sweepVars, RowsOK
    <2>3. CASE CancelRow(t)
      BY Zenon, <2>3, <1>a DEF CancelRow, dispatchVars, runVars, sweepVars, RowsOK
    <2> QED BY Zenon, <1>6, <2>1, <2>2, <2>3 DEF CancelRequest
  <1>7. ASSUME NEW t \in Tasks, NEW reset \in BOOLEAN, Retry(t, reset) PROVE RowsOK'
    <2> DEFINE a == IF reset THEN 1 ELSE row[t].attempt + 1
               m == IF a > row[t].max THEN a ELSE row[t].max
    <2>1. RequeuedRow(a, m) \in LiveRow
      BY LimitsAssumption DEF LiveRow, Row, RequeuedRow, Status, RowsOK
    <2> QED BY Zenon, <1>7, <2>1 DEF Retry, Requeue, dispatchVars, runVars, sweepVars,
               RowsOK
  <1>8. ASSUME NEW t \in Tasks, Answer(t) PROVE RowsOK'
    BY Zenon, <1>8, <1>c DEF Answer, Requeue, dispatchVars, runVars, sweepVars, RowsOK
  <1>9. ASSUME NEW t \in Tasks, ExpireStalled(t) \/ ExpireAbandoned(t) PROVE RowsOK'
    <2>1. row' = [row EXCEPT ![t] = WithExpiry(row[t], TRUE)] /\ UNCHANGED <<read, snap, sRow>>
      BY Zenon, <1>9 DEF ExpireStalled, ExpireAbandoned, Expire, dispatchVars, runVars, sweepVars
    <2> QED BY Zenon, <2>1, <1>b DEF RowsOK
  <1>10. ASSUME NEW n \in Nodes, NEW t \in Tasks, GraceElapses(n, t) \/ CancelRead(n, t) PROVE RowsOK'
    BY Zenon, <1>10 DEF GraceElapses, CancelRead, dispatchVars, runVars, sweepVars, RowsOK
  <1>11. ASSUME NEW n \in Nodes, Crash(n) PROVE RowsOK'
    <2>1. row' = row
      BY Zenon, <1>11 DEF Crash
    <2>2. read' \in [Leases -> SeenRow] /\ snap' \in [Leases -> SeenRow]
      BY Zenon, <1>11, <1>f DEF Crash, RowsOK
    <2>3. sRow' \in [Nodes -> SeenRow]
      BY Zenon, <1>11, <1>f DEF Crash, SweepEnd, RowsOK
    <2> QED BY Zenon, <2>1, <2>2, <2>3 DEF RowsOK
  <1>12. CASE UNCHANGED vars
    BY Zenon, <1>12 DEF vars, dispatchVars, runVars, sweepVars, RowsOK
  <1> QED BY ZenonT(60), <1>1, <1>2, <1>3, <1>4, <1>5, <1>6, <1>7, <1>8, <1>9, <1>10, <1>11,
             <1>12 DEF Next, Schedule

\* The dispatch goroutines and the runs.
LEMMA DispatchStep ==
    DispatchOK /\ LeaseIds /\ FailsOK /\ [Next]_vars => DispatchOK' /\ LeaseIds' /\ FailsOK'
  <1> SUFFICES ASSUME DispatchOK, LeaseIds, FailsOK, [Next]_vars
               PROVE  DispatchOK' /\ LeaseIds' /\ FailsOK'
    OBVIOUS
  <1>0. Leases \subseteq 1..MaxLeases /\ MaxLeases \in Nat /\ maxRenewFailures = 3
    BY Zenon, LimitsAssumption DEF Leases, maxRenewFailures
  <1>z. 0 \in 0..MaxLeases /\ 0 \in 0..maxRenewFailures
    BY <1>0
  <1>c. ASSUME NEW r, CancelContext(r) PROVE ctxDone' \in [Leases -> BOOLEAN]
    <2>1. \A b \in BOOLEAN : [ctxDone EXCEPT ![r] = b] \in [Leases -> BOOLEAN]
      BY Zenon DEF DispatchOK
    <2>2. (rpc[r] \in {"start", "work"}) \in BOOLEAN
      OBVIOUS
    <2> QED BY Zenon, <1>c, <2>1, <2>2 DEF CancelContext
  <1>1. ASSUME NEW n \in Nodes, NEW t \in Tasks, LeaseTask(n, t) \/ LeaseLost(n, t)
        PROVE  DispatchOK' /\ LeaseIds' /\ FailsOK'
    <2>1. leaseSeq + 1 \in Leases /\ leaseSeq' = leaseSeq + 1 /\ leaseSeq' \in 0..MaxLeases
      BY <1>1, <1>0 DEF LeaseTask, LeaseLost, DispatchOK
    <2>2. /\ dTask' = [dTask EXCEPT ![leaseSeq + 1] = t]
          /\ dNode' = [dNode EXCEPT ![leaseSeq + 1] = n]
          /\ \/ dpc' = [dpc EXCEPT ![leaseSeq + 1] = "dispatch"]
             \/ dpc' = [dpc EXCEPT ![leaseSeq + 1] = "dead"]
          /\ UNCHANGED <<fails, victim, rpc, ctxDone>>
      BY Zenon, <1>1 DEF LeaseTask, LeaseLost, runVars
    <2>3. DispatchOK'
      BY Zenon, <2>1, <2>2 DEF DispatchPc, DispatchOK
    <2>4. LeaseIds'
      BY <2>1, <2>2, <1>0 DEF DispatchOK, LeaseIds
    <2>5. FailsOK'
      BY <2>1, <2>2, <1>0 DEF DispatchOK, LeaseIds, FailsOK
    <2> QED BY Zenon, <2>3, <2>4, <2>5
  <1>2. ASSUME NEW l \in Leases, NEW pc \in DispatchPc \ {"none", "cancel"},
               dpc[l] # "none", dpc' = [dpc EXCEPT ![l] = pc],
               (fails' = fails /\ fails[l] # maxRenewFailures) \/ fails' = [fails EXCEPT ![l] = 0],
               victim' = victim \/ (\E r \in Leases \cup {0} : victim' = [victim EXCEPT ![l] = r]),
               UNCHANGED <<leaseSeq, dTask, dNode>>,
               rpc' \in [Leases -> {"none", "start", "work", "exit"}],
               ctxDone' \in [Leases -> BOOLEAN]
        PROVE  DispatchOK' /\ LeaseIds' /\ FailsOK'
    <2>1. DispatchOK'
      BY <1>2, <1>0 DEF DispatchOK
    <2>2. LeaseIds'
      BY <1>2, <1>0 DEF LeaseIds
    <2>3. FailsOK'
      BY <1>2, <1>0 DEF FailsOK
    <2> QED BY Zenon, <2>1, <2>2, <2>3
  <1>3. ASSUME NEW l \in Leases, Dispatch(l) PROVE DispatchOK' /\ LeaseIds' /\ FailsOK'
    <2>1. CASE Execute(l)
      <3>1. \/ dpc' = [dpc EXCEPT ![l] = "failed"]
            \/ dpc' = [dpc EXCEPT ![l] = "watch"]
        BY Zenon, <2>1 DEF Execute
      <3>2. rpc' \in [Leases -> {"none", "start", "work", "exit"}] /\ UNCHANGED ctxDone
        BY Zenon, <2>1 DEF Execute, runVars, DispatchOK
      <3>3. dpc[l] = "dispatch" /\ UNCHANGED <<leaseSeq, dTask, dNode, fails, victim>>
        BY Zenon, <2>1 DEF Execute
      <3>4. fails[l] # maxRenewFailures
        BY Zenon, <3>3 DEF FailsOK
      <3> QED BY Zenon, <1>2, <3>1, <3>2, <3>3, <3>4 DEF DispatchPc, DispatchOK
    <2>2. CASE Renew(l)
      <3>1. /\ dpc[l] = "watch"
            /\ \/ fails' = [fails EXCEPT ![l] = 0] /\ dpc' = dpc
               \/ fails' = [fails EXCEPT ![l] = 0] /\ dpc' = [dpc EXCEPT ![l] = "await"]
               \/ RenewFailed(l)
            /\ UNCHANGED <<leaseSeq, dTask, dNode, victim, rpc, ctxDone>>
        BY Zenon, <2>2 DEF Renew, runVars
      <3>2. fails[l] \in 0..2
        BY <3>1, <1>0 DEF FailsOK
      <3>3. CASE fails' = [fails EXCEPT ![l] = 0] /\ dpc' = dpc
        BY <3>1, <3>3, <1>0 DEF DispatchOK, LeaseIds, FailsOK
      <3>4. CASE fails' = [fails EXCEPT ![l] = 0] /\ dpc' = [dpc EXCEPT ![l] = "await"]
        BY Zenon, <3>1, <3>4, <1>2 DEF DispatchPc, DispatchOK
      <3>5. CASE RenewFailed(l)
        <4>1. /\ fails' = [fails EXCEPT ![l] = fails[l] + 1]
              /\ \/ fails[l] + 1 < 3 /\ dpc' = [dpc EXCEPT ![l] = "watch"]
                 \/ dpc' = [dpc EXCEPT ![l] = "cancel"]
          <5>1. CASE fails[l] + 1 >= maxRenewFailures
            BY Zenon, <3>5, <5>1 DEF RenewFailed, FailsOK
          <5>2. CASE ~(fails[l] + 1 >= maxRenewFailures)
            BY <3>2, <3>5, <5>2, <1>0 DEF RenewFailed, FailsOK
          <5> QED BY Zenon, <5>1, <5>2
        <4>2. fails' \in [Leases -> 0..maxRenewFailures] /\ fails'[l] = fails[l] + 1
          BY <4>1, <3>2, <1>0 DEF FailsOK
        <4>3. DispatchOK'
          BY Zenon, <3>1, <4>1 DEF DispatchPc, DispatchOK
        <4>4. LeaseIds'
          BY Zenon, <3>1, <4>1 DEF DispatchOK, LeaseIds
        <4>5. FailsOK'
          BY <4>1, <4>2, <3>2, <1>0 DEF DispatchOK, FailsOK
        <4> QED BY Zenon, <4>3, <4>4, <4>5
      <3> QED BY Zenon, <3>1, <3>3, <3>4, <3>5
    <2>3. CASE EscalateCancel(l)
      <3>1. /\ dpc[l] = "cancel" /\ fails' = [fails EXCEPT ![l] = 0]
            /\ UNCHANGED <<leaseSeq, dTask, dNode, rpc, ctxDone>>
        BY Zenon, <2>3 DEF EscalateCancel, runVars
      <3>2. \/ \E r \in Leases \cup {0} : /\ victim' = [victim EXCEPT ![l] = r]
                                          /\ dpc' = [dpc EXCEPT ![l] = "cancelrow"]
            \/ victim' = victim /\ dpc' = [dpc EXCEPT ![l] = "failed"]
        BY Zenon, <2>3 DEF EscalateCancel, ActiveRuns
      <3> QED BY Zenon, <1>2, <3>1, <3>2 DEF DispatchPc, DispatchOK
    <2>4. CASE EscalateCancelRow(l)
      <3>1. /\ dpc[l] = "cancelrow" /\ dpc' = [dpc EXCEPT ![l] = "cancelfn"]
            /\ UNCHANGED <<leaseSeq, dTask, dNode, fails, victim, rpc, ctxDone>>
        BY Zenon, <2>4 DEF EscalateCancelRow, runVars
      <3>2. fails[l] # maxRenewFailures
        BY Zenon, <3>1 DEF FailsOK
      <3> QED BY Zenon, <1>2, <3>1, <3>2 DEF DispatchPc, DispatchOK, LeaseIds, FailsOK
    <2>5. CASE EscalateCancelFn(l)
      <3>1. /\ dpc[l] = "cancelfn" /\ dpc' = [dpc EXCEPT ![l] = "failed"]
            /\ \E r \in Leases \cup {0} : victim' = [victim EXCEPT ![l] = r]
            /\ UNCHANGED <<leaseSeq, dTask, dNode, fails, rpc>>
        BY Zenon, <2>5 DEF EscalateCancelFn
      <3>2. ctxDone' \in [Leases -> BOOLEAN]
        BY Zenon, <2>5, <1>c DEF EscalateCancelFn
      <3>3. fails[l] # maxRenewFailures
        BY Zenon, <3>1 DEF FailsOK
      <3> QED BY Zenon, <1>2, <3>1, <3>2, <3>3 DEF DispatchPc, DispatchOK
    <2>6. CASE Classify(l)
      <3>1. /\ dpc[l] \in {"watch", "await"} /\ fails' = [fails EXCEPT ![l] = 0]
            /\ UNCHANGED <<leaseSeq, dTask, dNode, victim, rpc, ctxDone>>
        BY Zenon, <2>6 DEF Classify, runVars
      <3>2. \/ dpc' = [dpc EXCEPT ![l] = "succeeded"]
            \/ dpc' = [dpc EXCEPT ![l] = "terminated"]
            \/ dpc' = [dpc EXCEPT ![l] = "failed"]
        BY Zenon, <2>6 DEF Classify
      <3> QED BY Zenon, <1>2, <3>1, <3>2 DEF DispatchPc, DispatchOK
    <2>7. CASE FinishSucceeded(l) \/ FinishTerminated(l) \/ FinishFailed(l) \/ ReleaseFailed(l)
      <3>1. /\ dpc[l] \in {"succeeded", "terminated", "failed", "release"}
            /\ dpc' = [dpc EXCEPT ![l] = "done"] \/ dpc' = [dpc EXCEPT ![l] = "release"]
            /\ UNCHANGED <<leaseSeq, dTask, dNode, fails, victim, rpc, ctxDone>>
        BY Zenon, <2>7 DEF FinishSucceeded, FinishTerminated, FinishFailed, ReleaseFailed,
           runVars
      <3>2. fails[l] # maxRenewFailures
        BY Zenon, <3>1 DEF FailsOK
      <3> QED BY Zenon, <1>2, <3>1, <3>2 DEF DispatchPc, DispatchOK
    <2> QED BY Zenon, <1>3, <2>1, <2>2, <2>3, <2>4, <2>5, <2>6, <2>7 DEF Dispatch
  <1>4. ASSUME NEW l \in Leases, Run(l) PROVE DispatchOK' /\ LeaseIds' /\ FailsOK'
    <2>1. UNCHANGED <<leaseSeq, dispatchVars>>
      BY Zenon, <1>4 DEF Run, MarkRunning, RunSucceed, RunFail, RunHandoff, RunLost, Exit, Cleanup
    <2>2. rpc' \in [Leases -> {"none", "start", "work", "exit"}]
      <3>1. \E pc \in {"none", "work", "exit"} : rpc' = [rpc EXCEPT ![l] = pc]
        BY Zenon, <1>4 DEF Run, MarkRunning, RunSucceed, RunFail, RunHandoff, RunLost, Exit, Cleanup
      <3> QED BY Zenon, <3>1 DEF DispatchOK
    <2>3. ctxDone' = ctxDone \/ ctxDone' = [ctxDone EXCEPT ![l] = FALSE]
      BY Zenon, <1>4 DEF Run, MarkRunning, RunSucceed, RunFail, RunHandoff, RunLost, Exit, Cleanup
    <2> QED BY Zenon, <2>1, <2>2, <2>3 DEF dispatchVars, DispatchOK, LeaseIds, FailsOK
  <1>5. ASSUME NEW n \in Nodes, Crash(n) PROVE DispatchOK' /\ LeaseIds' /\ FailsOK'
    <2>1. UNCHANGED <<leaseSeq, dTask, dNode>>
      BY Zenon, <1>5 DEF Crash
    <2>2. \A l \in Leases : dpc'[l] = dpc[l] \/ (dNode[l] = n /\ dpc[l] # "done" /\ dpc'[l] = "dead")
      BY Zenon, <1>5 DEF Crash
    <2>3. dpc' \in [Leases -> DispatchPc]
      BY Zenon, <1>5 DEF Crash, DispatchPc, DispatchOK
    <2>4. victim' \in [Leases -> 0..MaxLeases]
      BY Zenon, <1>5, <1>z DEF Crash, DispatchOK
    <2>5. rpc' \in [Leases -> {"none", "start", "work", "exit"}]
      BY Zenon, <1>5 DEF Crash, DispatchOK
    <2>6. ctxDone' \in [Leases -> BOOLEAN]
      BY Zenon, <1>5 DEF Crash
    <2>7. fails' \in [Leases -> 0..maxRenewFailures]
      BY Zenon, <1>5, <1>z DEF Crash, FailsOK
    <2>8. \A l \in Leases : fails'[l] = IF dNode[l] = n THEN 0 ELSE fails[l]
      BY Zenon, <1>5 DEF Crash
    <2>9. DispatchOK'
      BY Zenon, <2>1, <2>3, <2>4, <2>5, <2>6 DEF DispatchOK
    <2>10. LeaseIds'
      BY Zenon, <2>1, <2>2, NamesAssumption DEF LeaseIds
    <2>11. FailsOK'
      BY <2>2, <2>7, <2>8 DEF FailsOK, maxRenewFailures
    <2> QED BY Zenon, <2>9, <2>10, <2>11
  <1>6. ASSUME NEW t \in Tasks, CancelRequest(t) PROVE DispatchOK' /\ LeaseIds' /\ FailsOK'
    <2>1. UNCHANGED <<leaseSeq, dispatchVars, rpc>>
      BY Zenon, <1>6 DEF CancelRequest, CancelWrite, CancelLookup, CancelRow, CancelFn, runVars
    <2>2. ctxDone' \in [Leases -> BOOLEAN]
      BY Zenon, <1>6, <1>c DEF CancelRequest, CancelWrite, CancelLookup, CancelRow, CancelFn,
         runVars, DispatchOK
    <2> QED BY Zenon, <2>1, <2>2 DEF dispatchVars, DispatchOK, LeaseIds, FailsOK
  <1>7. CASE UNCHANGED <<leaseSeq, dispatchVars, runVars>>
    BY Zenon, <1>7 DEF dispatchVars, runVars, DispatchOK, LeaseIds, FailsOK
  <1>8. ASSUME NEW n \in Nodes, Reserve(n) \/ LeaseNothing(n) \/ Sweep(n)
        PROVE  UNCHANGED <<leaseSeq, dispatchVars, runVars>>
    BY Zenon, <1>8 DEF Reserve, LeaseNothing, Sweep, SweepFind, SweepDecide, SweepRenew,
       SweepRecover
  <1>9. ASSUME NEW n \in Nodes, NEW t \in Tasks, GraceElapses(n, t) \/ CancelRead(n, t)
        PROVE  UNCHANGED <<leaseSeq, dispatchVars, runVars>>
    BY Zenon, <1>9 DEF GraceElapses, CancelRead
  <1>10. ASSUME NEW t \in Tasks, NEW reset \in BOOLEAN,
                Answer(t) \/ ExpireStalled(t) \/ ExpireAbandoned(t) \/ Retry(t, reset)
         PROVE  UNCHANGED <<leaseSeq, dispatchVars, runVars>>
    BY Zenon, <1>10 DEF Answer, Retry, Requeue, ExpireStalled, ExpireAbandoned, Expire
  <1>11. CASE UNCHANGED vars
    BY Zenon, <1>11, <1>7 DEF vars
  <1> QED BY Zenon, <1>1, <1>3, <1>4, <1>5, <1>6, <1>7, <1>8, <1>9, <1>10, <1>11 DEF Next,
             Schedule

\* The scheduling loop and the recovery sweep of every node.
LEMMA NodeStep == NodeOK /\ [Next]_vars => NodeOK'
  <1> SUFFICES ASSUME NodeOK, [Next]_vars PROVE NodeOK'
    OBVIOUS
  <1>0. ASSUME NEW n \in Nodes, NEW v \in 0..2, SetIdle(n, v)
        PROVE  idle' \in [Nodes -> [Tasks -> 0..2]]
    <2>1. [idle[n] EXCEPT ![sTask[n]] = v] \in [Tasks -> 0..2]
      BY Zenon DEF NodeOK
    <2> QED BY Zenon, <1>0, <2>1 DEF SetIdle, NodeOK
  <1>1. ASSUME NEW n \in Nodes, Schedule(n) PROVE NodeOK'
    BY Zenon, <1>1 DEF Schedule, Reserve, LeaseNothing, LeaseTask, sweepVars, NodeOK
  <1>2. ASSUME NEW n \in Nodes, NEW t \in Tasks, LeaseLost(n, t) \/ CancelRead(n, t) PROVE NodeOK'
    BY Zenon, <1>2 DEF LeaseLost, CancelRead, sweepVars, NodeOK
  <1>3. ASSUME NEW n \in Nodes, Sweep(n) PROVE NodeOK'
    <2>1. up' \subseteq Nodes /\ sched' = sched
      BY Zenon, <1>3 DEF Sweep, SweepFind, SweepDecide, SweepRenew, SweepRecover, NodeOK
    <2>2. idle' \in [Nodes -> [Tasks -> 0..2]]
      <3>1. idle' = idle \/ SetIdle(n, 0) \/ SetIdle(n, 1)
        BY Zenon, <1>3 DEF Sweep, SweepFind, SweepDecide, SweepRenew, SweepRecover
      <3> QED BY <3>1, <1>0 DEF NodeOK
    <2>3. sTask' \in [Nodes -> Tasks \cup {None}]
      BY Zenon, <1>3 DEF Sweep, SweepFind, SweepDecide, SweepRenew, SweepRecover, SweepGo,
         SweepEnd, NodeOK
    <2>4. spc' \in [Nodes -> {"idle", "found", "renew", "recover"}]
      BY ZenonT(60), <1>3 DEF Sweep, SweepFind, SweepDecide, SweepRenew, SweepRecover, SweepGo,
         SweepEnd, NodeOK
    <2> QED BY Zenon, <2>1, <2>2, <2>3, <2>4 DEF NodeOK
  <1>4. ASSUME NEW n \in Nodes, NEW t \in Tasks, GraceElapses(n, t) PROVE NodeOK'
    BY <1>4 DEF GraceElapses, NodeOK
  <1>5. ASSUME NEW n \in Nodes, Crash(n) PROVE NodeOK'
    <2>1. up' \subseteq Nodes /\ sched' \in [Nodes -> {"idle", "under", "over"}]
      BY Zenon, <1>5 DEF Crash, NodeOK
    <2>2. idle' \in [Nodes -> [Tasks -> 0..2]]
      <3> DEFINE fresh == [t \in Tasks |-> 0]
      <3>1. idle' = [idle EXCEPT ![n] = fresh]
        BY Zenon, <1>5 DEF Crash
      <3>2. fresh \in [Tasks -> 0..2]
        BY Zenon, FreshGrace
      <3> HIDE DEF fresh
      <3> QED BY Zenon, <3>1, <3>2 DEF NodeOK
    <2>3. sTask' \in [Nodes -> Tasks \cup {None}]
      BY Zenon, <1>5 DEF Crash, SweepEnd, NodeOK
    <2>4. spc' \in [Nodes -> {"idle", "found", "renew", "recover"}]
      BY Zenon, <1>5 DEF Crash, SweepEnd, NodeOK
    <2> QED BY Zenon, <2>1, <2>2, <2>3, <2>4 DEF NodeOK
  <1>6. CASE UNCHANGED <<up, sched, sweepVars>>
    BY Zenon, <1>6 DEF sweepVars, NodeOK
  <1>7. ASSUME NEW l \in Leases, Dispatch(l) PROVE UNCHANGED <<up, sched, sweepVars>>
    BY Zenon, <1>7 DEF Dispatch, Execute, Renew, EscalateCancel, EscalateCancelRow,
       EscalateCancelFn, FinishSucceeded, FinishTerminated, FinishFailed, ReleaseFailed,
       Classify
  <1>8. ASSUME NEW l \in Leases, Run(l) PROVE UNCHANGED <<up, sched, sweepVars>>
    BY Zenon, <1>8 DEF Run, MarkRunning, RunSucceed, RunFail, RunHandoff, RunLost, Exit,
       Cleanup
  <1>9. ASSUME NEW t \in Tasks, CancelRequest(t) PROVE UNCHANGED <<up, sched, sweepVars>>
    BY Zenon, <1>9 DEF CancelRequest, CancelWrite, CancelLookup, CancelRow, CancelFn
  <1>10. ASSUME NEW t \in Tasks, NEW reset \in BOOLEAN,
                Answer(t) \/ ExpireStalled(t) \/ ExpireAbandoned(t) \/ Retry(t, reset)
         PROVE  UNCHANGED <<up, sched, sweepVars>>
    BY Zenon, <1>10 DEF Answer, Retry, Requeue, ExpireStalled, ExpireAbandoned, Expire
  <1>11. CASE UNCHANGED vars
    BY Zenon, <1>11, <1>6 DEF vars
  <1> QED BY ZenonT(60), <1>1, <1>2, <1>3, <1>4, <1>5, <1>6, <1>7, <1>8, <1>9, <1>10, <1>11 DEF Next

\* The operator's requests.
LEMMA RequestStep == RequestOK /\ [Next]_vars => RequestOK'
  <1> SUFFICES ASSUME RequestOK, [Next]_vars PROVE RequestOK'
    OBVIOUS
  <1>0. \A n, t : ActiveRuns(n, t) \subseteq 0..MaxLeases
    BY DEF ActiveRuns, Leases
  <1>a. 0 \in 0..MaxLeases
    BY LimitsAssumption
  <1>1. ASSUME NEW n \in Nodes, NEW t \in Tasks, CancelRead(n, t) PROVE RequestOK'
    BY Zenon, <1>1 DEF CancelRead, RequestOK
  <1>2. ASSUME NEW t \in Tasks, CancelRequest(t) PROVE RequestOK'
    <2>1. CASE CancelWrite(t)
      BY ZenonT(60), <2>1, <1>a DEF CancelWrite, CancelEnd, RequestOK
    <2>2. CASE CancelLookup(t)
      BY <2>2, <1>0, <1>a DEF CancelLookup, CancelEnd, RequestOK
    <2>3. CASE CancelRow(t) \/ CancelFn(t)
      BY ZenonT(60), <2>3, <1>a DEF CancelRow, CancelFn, CancelEnd, RequestOK
    <2> QED BY Zenon, <1>2, <2>1, <2>2, <2>3 DEF CancelRequest
  <1>3. ASSUME NEW n \in Nodes, Crash(n) PROVE RequestOK'
    BY Zenon, <1>3, <1>a DEF Crash, RequestOK
  <1>4. CASE UNCHANGED cancelVars
    BY Zenon, <1>4 DEF cancelVars, RequestOK
  <1>5. ASSUME NEW n \in Nodes, Schedule(n) \/ Sweep(n) PROVE UNCHANGED cancelVars
    BY Zenon, <1>5 DEF Schedule, Reserve, LeaseNothing, LeaseTask, Sweep, SweepFind,
       SweepDecide, SweepRenew, SweepRecover
  <1>6. ASSUME NEW n \in Nodes, NEW t \in Tasks, LeaseLost(n, t) \/ GraceElapses(n, t)
        PROVE  UNCHANGED cancelVars
    BY Zenon, <1>6 DEF LeaseLost, GraceElapses
  <1>7. ASSUME NEW l \in Leases, Dispatch(l) PROVE UNCHANGED cancelVars
    BY Zenon, <1>7 DEF Dispatch, Execute, Renew, EscalateCancel, EscalateCancelRow,
       EscalateCancelFn, FinishSucceeded, FinishTerminated, FinishFailed, ReleaseFailed,
       Classify
  <1>8. ASSUME NEW l \in Leases, Run(l) PROVE UNCHANGED cancelVars
    BY Zenon, <1>8 DEF Run, MarkRunning, RunSucceed, RunFail, RunHandoff, RunLost, Exit,
       Cleanup
  <1>9. ASSUME NEW t \in Tasks, NEW reset \in BOOLEAN,
               Answer(t) \/ ExpireStalled(t) \/ ExpireAbandoned(t) \/ Retry(t, reset)
        PROVE  UNCHANGED cancelVars
    BY Zenon, <1>9 DEF Answer, Retry, Requeue, ExpireStalled, ExpireAbandoned, Expire
  <1>10. CASE UNCHANGED vars
    BY Zenon, <1>10, <1>4 DEF vars
  <1> QED BY ZenonT(60), <1>1, <1>2, <1>3, <1>4, <1>5, <1>6, <1>7, <1>8, <1>9, <1>10 DEF Next

\* The budgets of the environment.
LEMMA BudgetStep == BudgetOK /\ [Next]_vars => BudgetOK'
  <1> SUFFICES ASSUME BudgetOK, [Next]_vars PROVE BudgetOK'
    OBVIOUS
  <1>0. DBError => dbErrors' \in 0..MaxDBErrors
    BY BudgetAssumption DEF DBError, BudgetOK
  <1>1. ASSUME NEW n \in Nodes, Schedule(n) \/ Sweep(n) \/ Crash(n) PROVE BudgetOK'
    BY ZenonT(60), <1>1, <1>0 DEF Schedule, Reserve, LeaseNothing, LeaseTask, Sweep, SweepFind,
       SweepDecide, SweepRenew, SweepRecover, Crash, budgets, BudgetOK
  <1>2. ASSUME NEW n \in Nodes, NEW t \in Tasks,
               LeaseLost(n, t) \/ GraceElapses(n, t) \/ CancelRead(n, t)
        PROVE  BudgetOK'
    BY <1>2, <1>0, BudgetAssumption DEF LeaseLost, GraceElapses, CancelRead, budgets,
       BudgetOK
  <1>3. ASSUME NEW l \in Leases, Dispatch(l) PROVE BudgetOK'
    <2>1. UNCHANGED <<cancels, requeues, stalls>> /\ (dbErrors' = dbErrors \/ DBError)
      BY Zenon, <1>3 DEF Dispatch, Execute, Renew, EscalateCancel, EscalateCancelRow,
         EscalateCancelFn, FinishSucceeded, FinishTerminated, FinishFailed, ReleaseFailed,
         Classify, budgets
    <2> QED BY Zenon, <2>1, <1>0 DEF BudgetOK
  <1>4. ASSUME NEW l \in Leases, Run(l) PROVE BudgetOK'
    <2>1. UNCHANGED <<cancels, requeues, stalls>> /\ (dbErrors' = dbErrors \/ DBError)
      BY Zenon, <1>4 DEF Run, MarkRunning, RunSucceed, RunFail, RunHandoff, RunLost, Exit,
         Cleanup, budgets
    <2> QED BY Zenon, <2>1, <1>0 DEF BudgetOK
  <1>5. ASSUME NEW t \in Tasks, CancelRequest(t) PROVE BudgetOK'
    BY Zenon, <1>5, <1>0 DEF CancelRequest, CancelWrite, CancelLookup, CancelRow, CancelFn,
       budgets, BudgetOK
  <1>6. ASSUME NEW t \in Tasks, NEW reset \in BOOLEAN,
               Answer(t) \/ ExpireStalled(t) \/ ExpireAbandoned(t) \/ Retry(t, reset)
        PROVE  BudgetOK'
    <2>1. \/ UNCHANGED <<cancels, stalls, dbErrors>> /\ requeues < MaxRequeues /\ requeues' = requeues + 1
          \/ UNCHANGED <<cancels, requeues, dbErrors>> /\ stalls < MaxStalls /\ stalls' = stalls + 1
          \/ UNCHANGED <<cancels, requeues, dbErrors, stalls>>
      BY Zenon, <1>6 DEF Answer, Retry, Requeue, ExpireStalled, ExpireAbandoned, Expire
    <2> QED BY <2>1, BudgetAssumption DEF BudgetOK
  <1>7. CASE UNCHANGED vars
    BY Zenon, <1>7 DEF vars, budgets, BudgetOK
  <1> QED BY ZenonT(60), <1>1, <1>2, <1>3, <1>4, <1>5, <1>6, <1>7 DEF Next

-----------------------------------------------------------------------------
\* Every step preserves IInv.
LEMMA NextIInv == IInv /\ [Next]_vars => IInv'
  BY Zenon, RowsStep, DispatchStep, NodeStep, RequestStep, BudgetStep, SlotsStep DEF IInv

\* Every variable keeps its type; in particular the watch loop never counts
\* more than maxRenewFailures failures.
THEOREM TypeCorrect == Spec => []TypeOK
  <1>1. Init => IInv
    BY Zenon, InitIInv
  <1>2. IInv /\ [Next]_vars => IInv'
    BY Zenon, NextIInv
  <1>3. IInv => TypeOK
    BY Zenon, IInvImplies
  <1> QED BY <1>1, <1>2, <1>3, PTL DEF Spec

\* For any number of nodes, tasks, leases and failures: TaskCompleted, the
\* recovery sweep, handleFailure's full-row Update and an operator's retry
\* never take a task past its attempts, however old the row they act on is.
THEOREM AttemptsBounded == Spec => []AttemptBounded
  <1>1. Init => IInv
    BY Zenon, InitIInv
  <1>2. IInv /\ [Next]_vars => IInv'
    BY Zenon, NextIInv
  <1>3. IInv => AttemptBounded
    BY Zenon, IInvImplies
  <1> QED BY <1>1, <1>2, <1>3, PTL DEF Spec

\* For any number of nodes, tasks, leases and failures: runningCount is the
\* reservation in flight plus the dispatches that still hold a slot, and stays
\* within MaxConcurrency.
THEOREM SlotsAccounted == Spec => []SlotAccounting
  <1>1. Init => IInv
    BY Zenon, InitIInv
  <1>2. IInv /\ [Next]_vars => IInv'
    BY Zenon, NextIInv
  <1>3. IInv => SlotAccounting
    BY Zenon, IInvImplies
  <1> QED BY <1>1, <1>2, <1>3, PTL DEF Spec

=============================================================================
