---------------------- MODULE TaskDispatchLeaseProofs ----------------------
(***************************************************************************)
(* Proofs about the leases of TaskDispatch, for any nodes, tasks, limits    *)
(* and budgets: SingleWorker, LeaseNeverReturns, ChargedOnce, LeasesPaid.   *)
(*                                                                         *)
(* The first two follow from LeaseHeld: a run that works untold holds the   *)
(* lease of its task's row.  To keep that through the statements that clear *)
(* a lease one has to know that whoever releases it (the dispatch that      *)
(* ends, the sweep with the row it found earlier) does so for a run that is *)
(* over or told to stop: a lease is then spent, and stays so.  The other    *)
(* two need that the copies written back are current (CopiesCurrent): only  *)
(* a run at work raises the attempts of a row that keeps its lease, and a   *)
(* lease that is released or recovered is spent.                            *)
(***************************************************************************)
EXTENDS TaskDispatchProofs

\* A run that works and has not been told to stop.
Busy(l) == rpc[l] \in {"start", "work"} /\ ~ctxDone[l]

\* A lease under which nothing will work any more.
Spent(l) == dpc[l] \notin {"none", "dispatch"} /\ ~Busy(l)

\* Where a dispatch is while its run works: Cancel has found its own run.
RunPlaces ==
    \A l \in Leases :
        /\ dpc[l] \in {"none", "dispatch"} => rpc[l] = "none"
        /\ Busy(l) => dpc[l] \in {"watch", "await", "cancel", "cancelrow", "cancelfn"}
        /\ Busy(l) /\ dpc[l] \in {"cancelrow", "cancelfn"} => victim[l] = l

\* activeExecutions: one run per task and node.
OneRun ==
    \A l, m \in Leases :
        rpc[l] # "none" /\ rpc[m] # "none" /\ dNode[l] = dNode[m] /\ dTask[l] = dTask[m] => l = m

\* The lease of a run at work is in the row, and in the copy handleFailure
\* will write back.
LeaseHeld ==
    \A l \in Leases : /\ dpc[l] = "dispatch" \/ Busy(l) => row[dTask[l]].lease = l
                      /\ Busy(l) => snap[l].lease = l

\* Only a spent lease is seen to expire, and only such a one is recovered.
ExpiredSpent ==
    /\ \A t \in Tasks : row[t].lease # 0 => dpc[row[t].lease] # "none"
    /\ \A t \in Tasks : row[t].expired => row[t].lease # 0 /\ Spent(row[t].lease)
    /\ \A n \in Nodes : sRow[n].lease # 0 => Spent(sRow[n].lease)

LeaseInv == Undisturbed => LeaseHeld /\ ExpiredSpent

-----------------------------------------------------------------------------
(* What the steps do to the dispatches and the runs.                        *)

\* A lease in a row, or in a copy of one, is 0 or an id.
LEMMA LeaseRange ==
    ASSUME RowsOK
    PROVE  /\ \A t \in Tasks : row[t].lease # 0 => row[t].lease \in Leases
           /\ \A n \in Nodes : sRow[n].lease # 0 => sRow[n].lease \in Leases
  BY LimitsAssumption DEF RowsOK, LiveRow, SeenRow, Row, Leases

\* CancelContext tells a run at work to stop, and concerns no other.
LEMMA CancelledRun ==
    ASSUME DispatchOK, NEW r, CancelContext(r)
    PROVE  /\ \A l \in Leases : rpc[l] \in {"start", "work"} /\ ctxDone[l] => ctxDone'[l]
           /\ r \in Leases /\ rpc[r] \in {"start", "work"} => ctxDone'[r]
  BY Zenon DEF DispatchOK, CancelContext

\* A step of the dispatches, the runs, the operator or a crash makes no run
\* busy but the one it starts, and no lease undecided but the one it hands out.
LEMMA SpentStep ==
    ASSUME DispatchOK, LeaseIds, [Next]_vars, NEW k \in Leases, Spent(k)
    PROVE  Spent(k)'
  <1>1. CASE UNCHANGED <<dpc, rpc, ctxDone>>
    BY Zenon, <1>1 DEF Spent, Busy
  <1>2. ASSUME NEW n \in Nodes, NEW t \in Tasks, LeaseTask(n, t) \/ LeaseLost(n, t) PROVE Spent(k)'
    <2>1. leaseSeq + 1 \in Leases /\ dpc[leaseSeq + 1] = "none"
      BY <1>2 DEF LeaseTask, LeaseLost, LeaseIds, DispatchOK
    <2>2. dpc'[k] = dpc[k] /\ UNCHANGED <<rpc, ctxDone>>
      BY Zenon, <1>2, <2>1 DEF LeaseTask, LeaseLost, runVars, DispatchOK, Spent
    <2> QED BY Zenon, <2>2 DEF Spent, Busy
  <1>3. ASSUME NEW l \in Leases, Execute(l) PROVE Spent(k)'
    <2>1. dpc[l] = "dispatch" /\ UNCHANGED ctxDone
      BY Zenon, <1>3 DEF Execute, runVars
    <2>2. dpc'[k] = dpc[k] /\ rpc'[k] = rpc[k]
      BY Zenon, <1>3, <2>1 DEF Execute, runVars, DispatchOK, Spent
    <2> QED BY Zenon, <2>1, <2>2 DEF Spent, Busy
  <1>4. ASSUME NEW l \in Leases, Dispatch(l), ~Execute(l), ~EscalateCancelFn(l) PROVE Spent(k)'
    <2>1. UNCHANGED <<rpc, ctxDone>>
      BY Zenon, <1>4 DEF Dispatch, Renew, EscalateCancel, EscalateCancelRow, Classify,
         FinishSucceeded, FinishTerminated, FinishFailed, ReleaseFailed, runVars
    <2>2. dpc' = dpc \/ \E pc \in DispatchPc \ {"none", "dispatch"} : dpc' = [dpc EXCEPT ![l] = pc]
      <3>1. CASE Renew(l)
        BY Zenon, <3>1 DEF Renew, RenewFailed, DispatchPc
      <3>2. CASE EscalateCancel(l) \/ EscalateCancelRow(l)
        BY Zenon, <3>2 DEF EscalateCancel, EscalateCancelRow, DispatchPc
      <3>3. CASE Classify(l)
        <4>1. \/ dpc' = [dpc EXCEPT ![l] = "succeeded"]
              \/ dpc' = [dpc EXCEPT ![l] = "terminated"]
              \/ dpc' = [dpc EXCEPT ![l] = "failed"]
          BY Zenon, <3>3 DEF Classify
        <4> QED BY Zenon, <4>1 DEF DispatchPc
      <3>4. CASE FinishSucceeded(l) \/ FinishTerminated(l) \/ FinishFailed(l) \/ ReleaseFailed(l)
        BY Zenon, <3>4 DEF FinishSucceeded, FinishTerminated, FinishFailed, ReleaseFailed,
           DispatchPc
      <3> QED BY Zenon, <1>4, <3>1, <3>2, <3>3, <3>4 DEF Dispatch
    <2> QED BY Zenon, <2>1, <2>2 DEF DispatchOK, Spent, Busy
  <1>5. ASSUME NEW l \in Leases, EscalateCancelFn(l) PROVE Spent(k)'
    <2>1. dpc'[k] \notin {"none", "dispatch"} /\ rpc'[k] = rpc[k]
      BY <1>5 DEF EscalateCancelFn, Spent
    <2>2. ctxDone[k] /\ rpc[k] \in {"start", "work"} => ctxDone'[k]
      BY Zenon, <1>5, CancelledRun DEF EscalateCancelFn
    <2> QED BY Zenon, <2>1, <2>2 DEF Spent, Busy
  <1>6. ASSUME NEW l \in Leases, Run(l) PROVE Spent(k)'
    <2>1. UNCHANGED dpc
      BY Zenon, <1>6 DEF Run, MarkRunning, RunSucceed, RunFail, RunHandoff, RunLost, Exit,
         Cleanup, dispatchVars
    <2>2. \/ rpc[l] = "start" /\ rpc' = [rpc EXCEPT ![l] = "work"] /\ UNCHANGED ctxDone
          \/ rpc' = [rpc EXCEPT ![l] = "exit"] /\ ctxDone' = [ctxDone EXCEPT ![l] = FALSE]
          \/ rpc' = [rpc EXCEPT ![l] = "none"] /\ UNCHANGED ctxDone
      BY Zenon, <1>6 DEF Run, MarkRunning, RunSucceed, RunFail, RunHandoff, RunLost, Exit,
         Cleanup
    <2> QED BY ZenonT(60), <2>1, <2>2 DEF DispatchOK, Spent, Busy
  <1>7. ASSUME NEW n \in Nodes, Crash(n) PROVE Spent(k)'
    BY Zenon, <1>7 DEF Crash, Spent, Busy
  <1>8. ASSUME NEW t \in Tasks, CancelRequest(t) PROVE Spent(k)'
    <2>1. UNCHANGED <<dpc, rpc>>
      BY Zenon, <1>8 DEF CancelRequest, CancelWrite, CancelLookup, CancelRow, CancelFn,
         runVars, dispatchVars
    <2>2. UNCHANGED ctxDone \/ CancelContext(cVictim[t])
      BY Zenon, <1>8 DEF CancelRequest, CancelWrite, CancelLookup, CancelRow, CancelFn,
         runVars
    <2>3. ctxDone[k] /\ rpc[k] \in {"start", "work"} => ctxDone'[k]
      BY Zenon, <2>2, CancelledRun
    <2> QED BY Zenon, <2>1, <2>3 DEF Spent, Busy
  <1>9. ASSUME NEW n \in Nodes, Reserve(n) \/ LeaseNothing(n) \/ Sweep(n)
        PROVE  UNCHANGED <<dpc, rpc, ctxDone>>
    BY Zenon, <1>9 DEF Reserve, LeaseNothing, Sweep, SweepFind, SweepDecide, SweepRenew,
       SweepRecover, dispatchVars, runVars
  <1>10. ASSUME NEW n \in Nodes, NEW t \in Tasks, GraceElapses(n, t) \/ CancelRead(n, t)
         PROVE  UNCHANGED <<dpc, rpc, ctxDone>>
    BY Zenon, <1>10 DEF GraceElapses, CancelRead, dispatchVars, runVars
  <1>11. ASSUME NEW t \in Tasks, NEW reset \in BOOLEAN,
                Answer(t) \/ ExpireStalled(t) \/ ExpireAbandoned(t) \/ Retry(t, reset)
         PROVE  UNCHANGED <<dpc, rpc, ctxDone>>
    BY Zenon, <1>11 DEF Answer, Retry, Requeue, ExpireStalled, ExpireAbandoned, Expire,
       dispatchVars, runVars
  <1>12. CASE UNCHANGED vars
    BY Zenon, <1>12, <1>1 DEF vars, dispatchVars, runVars
  <1> QED
    BY Zenon, <1>1, <1>2, <1>3, <1>4, <1>5, <1>6, <1>7, <1>8, <1>9, <1>10, <1>11, <1>12 DEF Next,
       Schedule

\* activeExecutions holds one run per task and node.
LEMMA OneRunStep ==
    ASSUME DispatchOK, LeaseIds, RunPlaces, OneRun, [Next]_vars
    PROVE  OneRun'
  <1>1. CASE UNCHANGED <<dTask, dNode>> /\ \A l \in Leases : rpc'[l] # "none" => rpc[l] # "none"
    BY Zenon, <1>1 DEF OneRun
  <1>2. ASSUME NEW n \in Nodes, NEW t \in Tasks, LeaseTask(n, t) \/ LeaseLost(n, t) PROVE OneRun'
    <2> DEFINE k == leaseSeq + 1
    <2>1. k \in Leases /\ rpc[k] = "none" /\ rpc' = rpc
      BY <1>2 DEF LeaseTask, LeaseLost, LeaseIds, DispatchOK, RunPlaces, runVars
    <2>2. \A l \in Leases : l # k => dTask'[l] = dTask[l] /\ dNode'[l] = dNode[l]
      BY Zenon, <1>2 DEF LeaseTask, LeaseLost, DispatchOK
    <2> QED BY ZenonT(60), <2>1, <2>2 DEF OneRun
  <1>3. ASSUME NEW l \in Leases, Execute(l) PROVE OneRun'
    <2>1. UNCHANGED <<dTask, dNode>>
      BY Zenon, <1>3 DEF Execute
    <2>2. CASE rpc' = rpc
      BY Zenon, <2>1, <2>2 DEF OneRun
    <2>3. CASE ~IsExecuting(dNode[l], dTask[l]) /\ rpc' = [rpc EXCEPT ![l] = "start"]
      <3>1. \A m \in Leases : rpc[m] # "none" => dNode[m] # dNode[l] \/ dTask[m] # dTask[l]
        BY Zenon, <2>3 DEF IsExecuting, ActiveRuns
      <3> QED BY <2>1, <2>3, <3>1 DEF OneRun
    <2> QED BY Zenon, <1>3, <2>2, <2>3 DEF Execute, runVars
  <1>4. ASSUME NEW l \in Leases, Dispatch(l), ~Execute(l) PROVE UNCHANGED <<dTask, dNode, rpc>>
    BY Zenon, <1>4 DEF Dispatch, Renew, EscalateCancel, EscalateCancelRow, EscalateCancelFn,
       Classify, FinishSucceeded, FinishTerminated, FinishFailed, ReleaseFailed, runVars
  <1>5. ASSUME NEW l \in Leases, Run(l) PROVE OneRun'
    <2>1. UNCHANGED <<dTask, dNode>>
      BY Zenon, <1>5 DEF Run, MarkRunning, RunSucceed, RunFail, RunHandoff, RunLost, Exit,
         Cleanup, dispatchVars
    <2>2. rpc[l] # "none" /\ \E pc \in {"work", "exit", "none"} : rpc' = [rpc EXCEPT ![l] = pc]
      BY Zenon, <1>5 DEF Run, MarkRunning, RunSucceed, RunFail, RunHandoff, RunLost, Exit,
         Cleanup
    <2>3. \A m \in Leases : rpc'[m] # "none" => rpc[m] # "none"
      BY <2>2
    <2> QED BY Zenon, <1>1, <2>1, <2>3
  <1>6. ASSUME NEW n \in Nodes, Crash(n) PROVE OneRun'
    BY Zenon, <1>6, <1>1 DEF Crash
  <1>7. ASSUME NEW t \in Tasks, CancelRequest(t) PROVE UNCHANGED <<dTask, dNode, rpc>>
    BY Zenon, <1>7 DEF CancelRequest, CancelWrite, CancelLookup, CancelRow, CancelFn,
       runVars, dispatchVars
  <1>8. ASSUME NEW n \in Nodes, Reserve(n) \/ LeaseNothing(n) \/ Sweep(n)
        PROVE  UNCHANGED <<dTask, dNode, rpc>>
    BY Zenon, <1>8 DEF Reserve, LeaseNothing, Sweep, SweepFind, SweepDecide, SweepRenew,
       SweepRecover, dispatchVars, runVars
  <1>9. ASSUME NEW n \in Nodes, NEW t \in Tasks, GraceElapses(n, t) \/ CancelRead(n, t)
        PROVE  UNCHANGED <<dTask, dNode, rpc>>
    BY Zenon, <1>9 DEF GraceElapses, CancelRead, dispatchVars, runVars
  <1>10. ASSUME NEW t \in Tasks, NEW reset \in BOOLEAN,
                Answer(t) \/ ExpireStalled(t) \/ ExpireAbandoned(t) \/ Retry(t, reset)
         PROVE  UNCHANGED <<dTask, dNode, rpc>>
    BY Zenon, <1>10 DEF Answer, Retry, Requeue, ExpireStalled, ExpireAbandoned, Expire,
       dispatchVars, runVars
  <1>11. CASE UNCHANGED <<dTask, dNode, rpc>>
    BY Zenon, <1>11, <1>1
  <1>12. CASE UNCHANGED vars
    BY Zenon, <1>12, <1>11 DEF vars, dispatchVars, runVars
  <1> QED
    BY Zenon, <1>2, <1>3, <1>4, <1>5, <1>6, <1>7, <1>8, <1>9, <1>10, <1>11, <1>12 DEF Next,
       Schedule

\* A run at work is watched, or about to be told to stop, by its own dispatch.
LEMMA PlacesStep ==
    ASSUME DispatchOK, LeaseIds, RunPlaces, OneRun, [Next]_vars
    PROVE  RunPlaces'
  <1>1. CASE UNCHANGED <<dpc, victim, rpc, ctxDone>>
    BY Zenon, <1>1 DEF RunPlaces, Busy
  <1>2. ASSUME NEW n \in Nodes, NEW t \in Tasks, LeaseTask(n, t) \/ LeaseLost(n, t) PROVE RunPlaces'
    <2> DEFINE k == leaseSeq + 1
    <2>1. k \in Leases /\ rpc[k] = "none" /\ UNCHANGED <<rpc, ctxDone, victim>>
      BY <1>2 DEF LeaseTask, LeaseLost, LeaseIds, DispatchOK, runVars, RunPlaces
    <2>2. \A l \in Leases : l # k => dpc'[l] = dpc[l]
      BY Zenon, <1>2 DEF LeaseTask, LeaseLost, DispatchOK
    <2> QED BY Zenon, <2>1, <2>2 DEF RunPlaces, Busy
  <1>3. ASSUME NEW l \in Leases, Dispatch(l) PROVE RunPlaces'
    <2>0. l \in Leases /\ rpc[l] \in {"none", "start", "work", "exit"}
      BY Zenon DEF DispatchOK
    <2>a. ~IsExecuting(dNode[l], dTask[l]) => rpc[l] = "none"
      BY Zenon DEF IsExecuting, ActiveRuns
    <2>1. CASE Execute(l)
      <3>1. /\ dpc[l] = "dispatch" /\ rpc[l] = "none" /\ UNCHANGED <<ctxDone, victim>>
            /\ \/ dpc' = [dpc EXCEPT ![l] = "failed"] /\ rpc' = rpc
               \/ dpc' = [dpc EXCEPT ![l] = "watch"] /\ rpc' = [rpc EXCEPT ![l] = "start"]
        BY Zenon, <2>1 DEF Execute, runVars, RunPlaces
      <3> QED BY <3>1 DEF DispatchOK, RunPlaces, Busy
    <2>2. CASE Renew(l)
      <3>1. /\ dpc[l] = "watch" /\ UNCHANGED <<rpc, ctxDone, victim>>
            /\ dpc' = dpc \/ \E pc \in {"watch", "await", "cancel"} : dpc' = [dpc EXCEPT ![l] = pc]
        BY Zenon, <2>2 DEF Renew, RenewFailed, runVars
      <3> QED BY ZenonT(60), <3>1 DEF DispatchOK, RunPlaces, Busy
    <2>3. CASE EscalateCancel(l)
      <3>0. dpc[l] = "cancel" /\ UNCHANGED <<rpc, ctxDone>>
        BY Zenon, <2>3 DEF EscalateCancel, runVars
      <3>1. CASE \E r \in ActiveRuns(dNode[l], dTask[l]) :
                     victim' = [victim EXCEPT ![l] = r] /\ dpc' = [dpc EXCEPT ![l] = "cancelrow"]
        <4>1. PICK r \in ActiveRuns(dNode[l], dTask[l]) :
                     victim' = [victim EXCEPT ![l] = r] /\ dpc' = [dpc EXCEPT ![l] = "cancelrow"]
          BY Zenon, <3>1
        <4>2. r = l \/ rpc[l] = "none"
          BY ZenonT(60), <2>0 DEF ActiveRuns, OneRun
        <4> QED BY Zenon, <3>0, <4>1, <4>2 DEF DispatchOK, RunPlaces, Busy
      <3>2. CASE ~IsExecuting(dNode[l], dTask[l]) /\ dpc' = [dpc EXCEPT ![l] = "failed"] /\ victim' = victim
        BY <3>0, <3>2, <2>a DEF RunPlaces, Busy
      <3> QED BY Zenon, <2>3, <3>1, <3>2 DEF EscalateCancel
    <2>4. CASE EscalateCancelRow(l)
      <3>1. /\ dpc[l] = "cancelrow" /\ dpc' = [dpc EXCEPT ![l] = "cancelfn"]
            /\ UNCHANGED <<rpc, ctxDone, victim>>
        BY Zenon, <2>4 DEF EscalateCancelRow, runVars
      <3> QED BY <3>1 DEF RunPlaces, Busy
    <2>5. CASE EscalateCancelFn(l)
      <3>1. /\ dpc[l] = "cancelfn" /\ dpc' = [dpc EXCEPT ![l] = "failed"] /\ UNCHANGED rpc
            /\ victim' = [victim EXCEPT ![l] = 0] /\ CancelContext(victim[l])
        BY Zenon, <2>5 DEF EscalateCancelFn
      <3>2. \A m \in Leases : Busy(m)' => Busy(m)
        BY Zenon, <3>1, CancelledRun DEF Busy
      <3>3. ~Busy(l)'
        <4>1. CASE victim[l] = l
          BY Zenon, <3>1, <4>1, CancelledRun DEF Busy
        <4>2. CASE victim[l] # l
          BY Zenon, <3>1, <3>2, <4>2 DEF RunPlaces
        <4> QED BY Zenon, <4>1, <4>2
      <3> QED BY <3>1, <3>2, <3>3 DEF RunPlaces
    <2>6. CASE Classify(l)
      <3>1. /\ dpc[l] \in {"watch", "await"} /\ rpc[l] = "none" /\ UNCHANGED <<rpc, ctxDone, victim>>
        BY Zenon, <2>6, <2>a DEF Classify, runVars
      <3>2. \/ dpc' = [dpc EXCEPT ![l] = "succeeded"]
            \/ dpc' = [dpc EXCEPT ![l] = "terminated"]
            \/ dpc' = [dpc EXCEPT ![l] = "failed"]
        BY Zenon, <2>6 DEF Classify
      <3> QED BY <3>1, <3>2 DEF DispatchOK, RunPlaces, Busy
    <2>7. CASE FinishSucceeded(l) \/ FinishTerminated(l) \/ FinishFailed(l) \/ ReleaseFailed(l)
      <3>1. /\ dpc[l] \in {"succeeded", "terminated", "failed", "release"}
            /\ dpc' = [dpc EXCEPT ![l] = "done"] \/ dpc' = [dpc EXCEPT ![l] = "release"]
            /\ UNCHANGED <<rpc, ctxDone, victim>>
        BY Zenon, <2>7 DEF FinishSucceeded, FinishTerminated, FinishFailed, ReleaseFailed,
           runVars
      <3> QED BY <3>1 DEF DispatchOK, RunPlaces, Busy
    <2> QED BY Zenon, <1>3, <2>1, <2>2, <2>3, <2>4, <2>5, <2>6, <2>7 DEF Dispatch
  <1>4. ASSUME NEW l \in Leases, Run(l) PROVE RunPlaces'
    <2>1. UNCHANGED <<dpc, victim>>
      BY Zenon, <1>4 DEF Run, MarkRunning, RunSucceed, RunFail, RunHandoff, RunLost, Exit,
         Cleanup, dispatchVars
    <2>2. \/ rpc[l] = "start" /\ rpc' = [rpc EXCEPT ![l] = "work"] /\ UNCHANGED ctxDone
          \/ rpc[l] = "work" /\ rpc' = [rpc EXCEPT ![l] = "exit"] /\ ctxDone' = [ctxDone EXCEPT ![l] = FALSE]
          \/ rpc[l] = "exit" /\ rpc' = [rpc EXCEPT ![l] = "none"] /\ UNCHANGED ctxDone
      BY Zenon, <1>4 DEF Run, MarkRunning, RunSucceed, RunFail, RunHandoff, RunLost, Exit,
         Cleanup
    <2> QED BY <2>1, <2>2 DEF DispatchOK, RunPlaces, Busy
  <1>5. ASSUME NEW n \in Nodes, Crash(n) PROVE RunPlaces'
    BY Zenon, <1>5 DEF Crash, RunPlaces, Busy
  <1>6. ASSUME NEW t \in Tasks, CancelRequest(t) PROVE RunPlaces'
    <2>1. UNCHANGED <<dpc, rpc, victim>>
      BY Zenon, <1>6 DEF CancelRequest, CancelWrite, CancelLookup, CancelRow, CancelFn,
         runVars, dispatchVars
    <2>2. UNCHANGED ctxDone \/ CancelContext(cVictim[t])
      BY Zenon, <1>6 DEF CancelRequest, CancelWrite, CancelLookup, CancelRow, CancelFn,
         runVars
    <2>3. \A m \in Leases : Busy(m)' => Busy(m)
      BY Zenon, <2>1, <2>2, CancelledRun DEF Busy
    <2> QED BY Zenon, <2>1, <2>3 DEF RunPlaces
  <1>7. ASSUME NEW n \in Nodes, Reserve(n) \/ LeaseNothing(n) \/ Sweep(n)
        PROVE  UNCHANGED <<dpc, victim, rpc, ctxDone>>
    BY Zenon, <1>7 DEF Reserve, LeaseNothing, Sweep, SweepFind, SweepDecide, SweepRenew,
       SweepRecover, dispatchVars, runVars
  <1>8. ASSUME NEW n \in Nodes, NEW t \in Tasks, GraceElapses(n, t) \/ CancelRead(n, t)
        PROVE  UNCHANGED <<dpc, victim, rpc, ctxDone>>
    BY Zenon, <1>8 DEF GraceElapses, CancelRead, dispatchVars, runVars
  <1>9. ASSUME NEW t \in Tasks, NEW reset \in BOOLEAN,
               Answer(t) \/ ExpireStalled(t) \/ ExpireAbandoned(t) \/ Retry(t, reset)
        PROVE  UNCHANGED <<dpc, victim, rpc, ctxDone>>
    BY Zenon, <1>9 DEF Answer, Retry, Requeue, ExpireStalled, ExpireAbandoned, Expire,
       dispatchVars, runVars
  <1>10. CASE UNCHANGED vars
    BY Zenon, <1>10, <1>1 DEF vars, dispatchVars, runVars
  <1> QED BY ZenonT(60), <1>1, <1>2, <1>3, <1>4, <1>5, <1>6, <1>7, <1>8, <1>9, <1>10 DEF Next,
             Schedule

\* A lease id is handed out by LeaseTask alone.
LEMMA HandedOut ==
    ASSUME DispatchOK, LeaseIds, [Next]_vars, UNCHANGED leaseSeq, NEW k \in Leases
    PROVE  dpc[k] = "none" <=> dpc'[k] = "none"
  <1>0. leaseSeq \in Nat
    BY DEF DispatchOK
  <1>1. ASSUME NEW n \in Nodes, NEW t \in Tasks, LeaseTask(n, t) \/ LeaseLost(n, t) PROVE FALSE
    BY <1>0, <1>1 DEF LeaseTask, LeaseLost
  <1>2. ASSUME NEW l \in Leases, Dispatch(l) PROVE dpc[k] = "none" <=> dpc'[k] = "none"
    <2>1. dpc[l] # "none"
      BY Zenon, <1>2 DEF Dispatch, Execute, Renew, EscalateCancel, EscalateCancelRow,
         EscalateCancelFn, Classify, FinishSucceeded, FinishTerminated, FinishFailed,
         ReleaseFailed
    <2>2. dpc' = dpc \/ \E pc \in DispatchPc \ {"none"} : dpc' = [dpc EXCEPT ![l] = pc]
      <3>1. CASE Execute(l) \/ Renew(l)
        BY Zenon, <3>1 DEF Execute, Renew, RenewFailed, DispatchPc
      <3>2. CASE EscalateCancel(l) \/ EscalateCancelRow(l) \/ EscalateCancelFn(l)
        BY Zenon, <3>2 DEF EscalateCancel, EscalateCancelRow, EscalateCancelFn, DispatchPc
      <3>3. CASE Classify(l)
        <4>1. \/ dpc' = [dpc EXCEPT ![l] = "succeeded"]
              \/ dpc' = [dpc EXCEPT ![l] = "terminated"]
              \/ dpc' = [dpc EXCEPT ![l] = "failed"]
          BY Zenon, <3>3 DEF Classify
        <4> QED BY Zenon, <4>1 DEF DispatchPc
      <3>4. CASE FinishSucceeded(l) \/ FinishTerminated(l) \/ FinishFailed(l) \/ ReleaseFailed(l)
        BY Zenon, <3>4 DEF FinishSucceeded, FinishTerminated, FinishFailed, ReleaseFailed,
           DispatchPc
      <3> QED BY ZenonT(60), <1>2, <3>1, <3>2, <3>3, <3>4 DEF Dispatch
    <2> QED BY Zenon, <2>1, <2>2 DEF DispatchOK
  <1>3. ASSUME NEW l \in Leases, Run(l) PROVE UNCHANGED dpc
    BY Zenon, <1>3 DEF Run, MarkRunning, RunSucceed, RunFail, RunHandoff, RunLost, Exit,
       Cleanup, dispatchVars
  <1>4. ASSUME NEW n \in Nodes, Crash(n) PROVE dpc[k] = "none" <=> dpc'[k] = "none"
    BY Zenon, <1>4, NamesAssumption DEF Crash, LeaseIds
  <1>5. ASSUME NEW t \in Tasks, CancelRequest(t) PROVE UNCHANGED dpc
    BY Zenon, <1>5 DEF CancelRequest, CancelWrite, CancelLookup, CancelRow, CancelFn,
       dispatchVars
  <1>6. ASSUME NEW n \in Nodes, Reserve(n) \/ LeaseNothing(n) \/ Sweep(n) PROVE UNCHANGED dpc
    BY Zenon, <1>6 DEF Reserve, LeaseNothing, Sweep, SweepFind, SweepDecide, SweepRenew,
       SweepRecover, dispatchVars
  <1>7. ASSUME NEW n \in Nodes, NEW t \in Tasks, GraceElapses(n, t) \/ CancelRead(n, t)
        PROVE  UNCHANGED dpc
    BY Zenon, <1>7 DEF GraceElapses, CancelRead, dispatchVars
  <1>8. ASSUME NEW t \in Tasks, NEW reset \in BOOLEAN,
               Answer(t) \/ ExpireStalled(t) \/ ExpireAbandoned(t) \/ Retry(t, reset)
        PROVE  UNCHANGED dpc
    BY Zenon, <1>8 DEF Answer, Retry, Requeue, ExpireStalled, ExpireAbandoned, Expire,
       dispatchVars
  <1>9. CASE UNCHANGED vars
    BY Zenon, <1>9 DEF vars, dispatchVars
  <1> QED BY ZenonT(60), <1>1, <1>2, <1>3, <1>4, <1>5, <1>6, <1>7, <1>8, <1>9 DEF Next, Schedule

\* The copy handleFailure will write back: kept, or loaded as the run begins.
CopyKept(k) == Busy(k) /\ snap'[k] = snap[k]
CopyLoaded(k) == dpc[k] = "dispatch" /\ snap'[k] = row[dTask[k]] /\ row' = row

\* What a step does to the row a dispatch loaded.
LEMMA SnapStep ==
    ASSUME DispatchOK, [Next]_vars, RowsOK, NEW k \in Leases, Busy(k)'
    PROVE  CopyKept(k) \/ CopyLoaded(k)
  <1>1. CASE rpc'[k] = rpc[k] /\ snap'[k] = snap[k] /\ (ctxDone[k] => ctxDone'[k])
    BY Zenon, <1>1 DEF CopyKept, Busy
  <1>2. ASSUME NEW l \in Leases, Execute(l) PROVE CopyKept(k) \/ CopyLoaded(k)
    <2>1. CASE UNCHANGED runVars
      BY Zenon, <2>1, <1>1 DEF runVars
    <2>2. CASE /\ rpc' = [rpc EXCEPT ![l] = "start"]
               /\ snap' = [snap EXCEPT ![l] = row[dTask[l]]] /\ UNCHANGED ctxDone
      <3>1. dpc[l] = "dispatch" /\ row' = row
        BY Zenon, <1>2 DEF Execute
      <3>2. CASE k = l
        BY Zenon, <2>2, <3>1, <3>2 DEF RowsOK, CopyLoaded
      <3>3. CASE k # l
        BY <2>2, <3>3, <1>1
      <3> QED BY Zenon, <3>2, <3>3
    <2> QED BY Zenon, <1>2, <2>1, <2>2 DEF Execute
  <1>3. ASSUME NEW l \in Leases, Dispatch(l), ~Execute(l), ~EscalateCancelFn(l)
        PROVE  UNCHANGED runVars
    BY Zenon, <1>3 DEF Dispatch, Renew, EscalateCancel, EscalateCancelRow, Classify,
       FinishSucceeded, FinishTerminated, FinishFailed, ReleaseFailed
  <1>4. ASSUME NEW l \in Leases, EscalateCancelFn(l) PROVE CopyKept(k) \/ CopyLoaded(k)
    <2>1. UNCHANGED <<rpc, snap>> /\ CancelContext(victim[l])
      BY Zenon, <1>4 DEF EscalateCancelFn
    <2> QED BY Zenon, <2>1, <1>1, CancelledRun DEF Busy
  <1>5. ASSUME NEW l \in Leases, Run(l) PROVE CopyKept(k) \/ CopyLoaded(k)
    <2>1. \/ rpc[l] = "start" /\ rpc' = [rpc EXCEPT ![l] = "work"] /\ UNCHANGED <<ctxDone, snap>>
          \/ /\ rpc' = [rpc EXCEPT ![l] = "exit"] /\ ctxDone' = [ctxDone EXCEPT ![l] = FALSE]
             /\ snap' = [snap EXCEPT ![l] = NoRow]
          \/ rpc' = [rpc EXCEPT ![l] = "none"] /\ UNCHANGED <<ctxDone, snap>>
      BY Zenon, <1>5 DEF Run, MarkRunning, RunSucceed, RunFail, RunHandoff, RunLost, Exit,
         Cleanup
    <2>2. CASE k = l
      BY ZenonT(60), <2>1, <2>2 DEF DispatchOK, RowsOK, CopyKept, Busy
    <2>3. CASE k # l
      BY ZenonT(60), <2>1, <2>3, <1>1 DEF DispatchOK, RowsOK
    <2> QED BY Zenon, <2>2, <2>3
  <1>6. ASSUME NEW n \in Nodes, Crash(n) PROVE CopyKept(k) \/ CopyLoaded(k)
    BY Zenon, <1>6 DEF Crash, CopyKept, Busy
  <1>7. ASSUME NEW t \in Tasks, CancelRequest(t) PROVE CopyKept(k) \/ CopyLoaded(k)
    <2>1. UNCHANGED <<rpc, snap>>
      BY Zenon, <1>7 DEF CancelRequest, CancelWrite, CancelLookup, CancelRow, CancelFn,
         runVars
    <2>2. UNCHANGED ctxDone \/ CancelContext(cVictim[t])
      BY Zenon, <1>7 DEF CancelRequest, CancelWrite, CancelLookup, CancelRow, CancelFn,
         runVars
    <2> QED BY Zenon, <2>1, <2>2, <1>1, CancelledRun DEF Busy
  <1>8. ASSUME NEW n \in Nodes, Schedule(n) \/ Sweep(n) PROVE UNCHANGED runVars
    BY Zenon, <1>8 DEF Schedule, Reserve, LeaseNothing, LeaseTask, Sweep, SweepFind,
       SweepDecide, SweepRenew, SweepRecover
  <1>9. ASSUME NEW n \in Nodes, NEW t \in Tasks,
               LeaseLost(n, t) \/ GraceElapses(n, t) \/ CancelRead(n, t)
        PROVE  UNCHANGED runVars
    BY Zenon, <1>9 DEF LeaseLost, GraceElapses, CancelRead
  <1>10. ASSUME NEW t \in Tasks, NEW reset \in BOOLEAN,
               Answer(t) \/ ExpireStalled(t) \/ ExpireAbandoned(t) \/ Retry(t, reset)
         PROVE  UNCHANGED runVars
    BY Zenon, <1>10 DEF Answer, Retry, Requeue, ExpireStalled, ExpireAbandoned, Expire
  <1>11. CASE UNCHANGED vars
    BY Zenon, <1>11 DEF vars, CopyKept, runVars, Busy
  <1>12. CASE UNCHANGED runVars
    BY Zenon, <1>12, <1>1 DEF runVars
  <1> QED BY Zenon, <1>2, <1>3, <1>4, <1>5, <1>6, <1>7, <1>8, <1>9, <1>10, <1>11, <1>12 DEF Next

\* Spent in the state after a step, of a lease read before it.
SpentAfter(l) == /\ dpc'[l] \notin {"none", "dispatch"}
                 /\ ~(rpc'[l] \in {"start", "work"} /\ ~ctxDone'[l])

\* The row a sweep works on: kept, dropped, or found expired in the table.
SweepKept(m) == /\ sRow'[m] = sRow[m] /\ sTask'[m] = sTask[m]
                /\ spc'[m] # "idle" => spc[m] # "idle"
SweepDropped(m) == sRow'[m] = NoRow /\ spc'[m] = "idle"
SweepFound(m, t) == row[t].expired /\ sRow'[m] = row[t] /\ sTask'[m] = t /\ row' = row

\* What a step does to the row the recovery sweep holds.
LEMMA SweepStep ==
    ASSUME RowsOK, NodeOK, [Next]_vars, NEW m \in Nodes
    PROVE  SweepKept(m) \/ SweepDropped(m) \/ \E t \in Tasks : SweepFound(m, t)
  <1>1. CASE UNCHANGED <<sRow, sTask, spc>>
    BY Zenon, <1>1 DEF SweepKept
  <1>2. ASSUME NEW n \in Nodes, n # m,
               \E s, u, p : /\ sRow' = [sRow EXCEPT ![n] = s] /\ sTask' = [sTask EXCEPT ![n] = u]
                            /\ spc' = [spc EXCEPT ![n] = p]
        PROVE  SweepKept(m)
    BY Zenon, <1>2 DEF SweepKept, RowsOK, NodeOK
  <1>3. ASSUME NEW n \in Nodes, NEW t \in Tasks, SweepFind(n, t)
        PROVE  SweepKept(m) \/ SweepFound(m, t)
    <2>1. /\ row[t].expired /\ row' = row
          /\ sRow' = [sRow EXCEPT ![n] = row[t]] /\ sTask' = [sTask EXCEPT ![n] = t]
          /\ spc' = [spc EXCEPT ![n] = "found"]
      BY Zenon, <1>3 DEF SweepFind, ExpiredLease
    <2>2. CASE n = m
      BY Zenon, <2>1, <2>2 DEF SweepFound, RowsOK, NodeOK
    <2>3. CASE n # m
      BY Zenon, <2>1, <2>3, <1>2
    <2> QED BY Zenon, <2>2, <2>3
  <1>4. ASSUME NEW n \in Nodes, SweepEnd(n) PROVE SweepKept(m) \/ SweepDropped(m)
    <2>1. CASE n = m
      BY Zenon, <1>4, <2>1 DEF SweepEnd, SweepDropped, RowsOK, NodeOK
    <2>2. CASE n # m
      BY Zenon, <1>4, <2>2, <1>2 DEF SweepEnd
    <2> QED BY Zenon, <2>1, <2>2
  <1>5. ASSUME NEW n \in Nodes, SweepDecide(n) \/ SweepRenew(n) \/ SweepRecover(n) \/ Crash(n)
        PROVE  SweepKept(m) \/ SweepDropped(m)
    <2>1. SweepEnd(n) \/ \E to : SweepGo(n, to) /\ spc[n] # "idle"
      BY Zenon, <1>5 DEF SweepDecide, SweepRenew, SweepRecover, Crash
    <2>2. ASSUME NEW to, SweepGo(n, to), spc[n] # "idle" PROVE SweepKept(m)
      BY Zenon, <2>2 DEF SweepGo, SweepKept, NodeOK
    <2> QED BY Zenon, <2>1, <2>2, <1>4
  <1>6. ASSUME NEW n \in Nodes, Schedule(n) PROVE UNCHANGED <<sRow, sTask, spc>>
    BY Zenon, <1>6 DEF Schedule, Reserve, LeaseNothing, LeaseTask, sweepVars
  <1>7. ASSUME NEW n \in Nodes, NEW t \in Tasks,
               LeaseLost(n, t) \/ GraceElapses(n, t) \/ CancelRead(n, t)
        PROVE  UNCHANGED <<sRow, sTask, spc>>
    BY Zenon, <1>7 DEF LeaseLost, GraceElapses, CancelRead, sweepVars
  <1>8. ASSUME NEW l \in Leases, Dispatch(l) PROVE UNCHANGED <<sRow, sTask, spc>>
    BY Zenon, <1>8 DEF Dispatch, Execute, Renew, EscalateCancel, EscalateCancelRow,
       EscalateCancelFn, Classify, FinishSucceeded, FinishTerminated, FinishFailed,
       ReleaseFailed, sweepVars
  <1>9. ASSUME NEW l \in Leases, Run(l) PROVE UNCHANGED <<sRow, sTask, spc>>
    BY Zenon, <1>9 DEF Run, MarkRunning, RunSucceed, RunFail, RunHandoff, RunLost, Exit,
       Cleanup, sweepVars
  <1>10. ASSUME NEW t \in Tasks, CancelRequest(t) PROVE UNCHANGED <<sRow, sTask, spc>>
    BY Zenon, <1>10 DEF CancelRequest, CancelWrite, CancelLookup, CancelRow, CancelFn,
       sweepVars
  <1>11. ASSUME NEW t \in Tasks, NEW reset \in BOOLEAN,
                Answer(t) \/ ExpireStalled(t) \/ ExpireAbandoned(t) \/ Retry(t, reset)
         PROVE  UNCHANGED <<sRow, sTask, spc>>
    BY Zenon, <1>11 DEF Answer, Retry, Requeue, ExpireStalled, ExpireAbandoned, Expire,
       sweepVars
  <1>12. CASE UNCHANGED vars
    BY Zenon, <1>12, <1>1 DEF vars, sweepVars
  <1> QED BY ZenonT(60), <1>1, <1>3, <1>5, <1>6, <1>7, <1>8, <1>9, <1>10, <1>11, <1>12 DEF Next,
             Sweep

\* The sweep only remembers rows whose lease it found expired.
LEMMA SweptStep ==
    ASSUME RowsOK, DispatchOK, LeaseIds, NodeOK, ExpiredSpent, [Next]_vars, NEW m \in Nodes,
           sRow'[m].lease # 0
    PROVE  SpentAfter(sRow'[m].lease)
  <1>1. \A k \in Leases : Spent(k) => SpentAfter(k)
    BY Zenon, SpentStep DEF Spent, Busy, SpentAfter
  <1>2. /\ \A t \in Tasks : row[t].lease # 0 => row[t].lease \in Leases
        /\ \A n \in Nodes : sRow[n].lease # 0 => sRow[n].lease \in Leases
    BY Zenon, LeaseRange
  <1>3. CASE SweepKept(m)
    BY Zenon, <1>1, <1>2, <1>3 DEF ExpiredSpent, SweepKept
  <1>4. CASE SweepDropped(m)
    BY <1>4 DEF SweepDropped, NoRow
  <1>5. ASSUME NEW t \in Tasks, SweepFound(m, t) PROVE SpentAfter(sRow'[m].lease)
    BY Zenon, <1>1, <1>2, <1>5 DEF ExpiredSpent, SweepFound
  <1> QED BY Zenon, <1>3, <1>4, <1>5, SweepStep

-----------------------------------------------------------------------------
(* What the statements do to the lease of a row.                            *)

\* A statement keeps the lease, and marks it expired only when it is spent, or
\* clears the lease of a run that is over or told to stop.
Kept(t, r) == /\ r.lease = row[t].lease
              /\ r.expired => row[t].expired \/ (r.lease # 0 /\ SpentAfter(row[t].lease))
Cleared(t, r) == r.lease = 0 /\ ~r.expired /\ (row[t].lease # 0 => SpentAfter(row[t].lease))
LeaseWrite == \A t \in Tasks : Kept(t, row'[t]) \/ Cleared(t, row'[t])

\* ReleaseLease under a spent lease id.
LEMMA ReleasedLease ==
    ASSUME NEW t \in Tasks, NEW l, SpentAfter(l) \/ l = 0, NEW s, NEW a, NEW m
    PROVE  LET r == ReleasedRow(row[t], l, s, a, m) IN Kept(t, r) \/ Cleared(t, r)
  BY Zenon DEF ReleasedRow, Kept, Cleared

\* Every write to the tasks table but LeaseTask's.
LEMMA WriteStep ==
    ASSUME RowsOK, DispatchOK, LeaseIds, NodeOK, BudgetOK, RunPlaces, OneRun, LeaseHeld,
           ExpiredSpent, [Next]_vars, UNCHANGED <<leaseSeq, stalls, requeues>>
    PROVE  LeaseWrite
  <1>0. leaseSeq \in Nat /\ stalls \in Nat /\ requeues \in Nat
    BY DEF DispatchOK, BudgetOK
  <1>a. \A k \in Leases : Spent(k) => SpentAfter(k)
    BY Zenon, SpentStep DEF Spent, Busy, SpentAfter
  <1>b. RunPlaces'
    BY Zenon, PlacesStep
  <1>c. \A t \in Tasks : row[t].lease # 0 => row[t].lease \in Leases
    BY Zenon, LeaseRange
  <1>d. \A t \in Tasks : Kept(t, row[t])
    BY Zenon DEF Kept
  <1>e. \A t \in Tasks : /\ \A s : Kept(t, SetStatus(row[t], s))
                         /\ Kept(t, WithExpiry(row[t], FALSE))
    BY Zenon DEF Kept, SetStatus, WithExpiry
  <1>1. ASSUME NEW u, NEW r, row' = row \/ row' = [row EXCEPT ![u] = r],
               u \in Tasks => Kept(u, r) \/ Cleared(u, r)
        PROVE  LeaseWrite
    BY Zenon, <1>1, <1>d DEF LeaseWrite, RowsOK
  <1>2. ASSUME NEW n \in Nodes, NEW t \in Tasks, LeaseTask(n, t) \/ LeaseLost(n, t) PROVE FALSE
    BY <1>0, <1>2 DEF LeaseTask, LeaseLost
  <1>3. ASSUME NEW t \in Tasks, NEW reset \in BOOLEAN, Answer(t) \/ Retry(t, reset) \/ ExpireStalled(t)
        PROVE  FALSE
    <2>1. CASE Answer(t)
      BY <1>0, <2>1 DEF Answer, Requeue
    <2>2. CASE Retry(t, reset)
      BY <1>0, <2>2 DEF Retry, Requeue
    <2>3. CASE ExpireStalled(t)
      BY <1>0, <2>3 DEF ExpireStalled
    <2> QED BY Zenon, <1>3, <2>1, <2>2, <2>3
  <1>4. CASE UNCHANGED row
    BY Zenon, <1>4, <1>d DEF LeaseWrite
  <1>5. ASSUME NEW l \in Leases, Dispatch(l) PROVE LeaseWrite
    <2>1. CASE Execute(l) \/ EscalateCancel(l) \/ EscalateCancelFn(l) \/ Classify(l)
               \/ FinishTerminated(l) \/ FinishFailed(l)
      BY Zenon, <2>1, <1>4 DEF Execute, EscalateCancel, EscalateCancelFn, Classify,
         FinishTerminated, FinishFailed
    <2>2. CASE Renew(l)
      <3>1. row' = row \/ row' = [row EXCEPT ![dTask[l]] = WithExpiry(row[dTask[l]], FALSE)]
        BY Zenon, <2>2 DEF Renew
      <3> QED BY Zenon, <3>1, <1>1, <1>e
    <2>3. CASE EscalateCancelRow(l)
      <3>1. row' = row \/ row' = [row EXCEPT ![dTask[l]] = SetStatus(row[dTask[l]], "CANCELLED")]
        BY Zenon, <2>3 DEF EscalateCancelRow
      <3> QED BY Zenon, <3>1, <1>1, <1>e
    <2>4. CASE FinishSucceeded(l)
      <3>1. row' = row \/ row' = [row EXCEPT ![dTask[l]] = ReleasedRow(row[dTask[l]], l, "COMPLETED", 0, 0)]
        BY Zenon, <2>4 DEF FinishSucceeded
      <3>2. SpentAfter(l)
        BY Zenon, <2>4, <1>a DEF FinishSucceeded, RunPlaces, Spent
      <3> QED BY Zenon, <3>1, <3>2, <1>1, ReleasedLease
    <2>5. CASE ReleaseFailed(l)
      <3>1. row' = row \/ row' = [row EXCEPT ![dTask[l]] = RetriedRow(row[dTask[l]], l, read[l])]
        BY Zenon, <2>5 DEF ReleaseFailed
      <3>2. SpentAfter(l)
        BY Zenon, <2>5, <1>a DEF ReleaseFailed, RunPlaces, Spent
      <3>3. dTask[l] \in Tasks => \/ Kept(dTask[l], RetriedRow(row[dTask[l]], l, read[l]))
                                  \/ Cleared(dTask[l], RetriedRow(row[dTask[l]], l, read[l]))
        BY Zenon, <3>2, ReleasedLease DEF RetriedRow
      <3> QED BY Zenon, <3>1, <3>3, <1>1
    <2> QED BY Zenon, <1>5, <2>1, <2>2, <2>3, <2>4, <2>5 DEF Dispatch
  <1>6. ASSUME NEW l \in Leases, Run(l) PROVE LeaseWrite
    <2>1. CASE RunLost(l) \/ Cleanup(l)
      BY Zenon, <2>1, <1>4 DEF RunLost, Cleanup
    <2>2. CASE MarkRunning(l)
      <3>1. row' = row \/ row' = [row EXCEPT ![dTask[l]] = SetStatus(row[dTask[l]], "RUNNING")]
        BY Zenon, <2>2 DEF MarkRunning
      <3> QED BY Zenon, <3>1, <1>1, <1>e
    <2>3. CASE RunSucceed(l)
      <3>1. row' = [row EXCEPT ![dTask[l]] = SetStatus(row[dTask[l]], "COMPLETED")]
        BY Zenon, <2>3 DEF RunSucceed
      <3> QED BY Zenon, <3>1, <1>1, <1>e
    <2>4. ASSUME Exit(l), ~ctxDone[l]
          PROVE  /\ row[dTask[l]].lease = l /\ snap[l].lease = l /\ SpentAfter(l)
      <3>1. Busy(l) /\ dpc'[l] = dpc[l] /\ rpc'[l] = "exit"
        BY Zenon, <2>4 DEF Exit, Busy, dispatchVars, DispatchOK
      <3>2. dpc[l] \notin {"none", "dispatch"}
        BY Zenon, <3>1 DEF RunPlaces
      <3> QED BY Zenon, <3>1, <3>2 DEF LeaseHeld, SpentAfter
    <2>5. ASSUME NEW a \in 1..snap[l].max, NEW e \in BOOLEAN, RunFail(l, a, e) PROVE LeaseWrite
      <3>1. Exit(l) /\ ~ctxDone[l] /\ row' = [row EXCEPT ![dTask[l]] = FailedRow(snap[l], a, e)]
        BY Zenon, <2>5 DEF RunFail
      <3>2. Kept(dTask[l], FailedRow(snap[l], a, e))
        BY Zenon, <2>4, <3>1 DEF Kept, FailedRow
      <3> QED BY Zenon, <3>1, <3>2, <1>1
    <2>6. ASSUME NEW s \in {"AWAITING_INPUT", "COMPLETED"}, RunHandoff(l, s) PROVE LeaseWrite
      <3>1. /\ Exit(l) /\ ~ctxDone[l]
            /\ row' = row \/ row' = [row EXCEPT ![dTask[l]] = ClearLease(row[dTask[l]], s)]
        BY Zenon, <2>6 DEF RunHandoff, RowsOK
      <3>2. Cleared(dTask[l], ClearLease(row[dTask[l]], s))
        BY Zenon, <2>4, <3>1 DEF Cleared, ClearLease
      <3> QED BY Zenon, <3>1, <3>2, <1>1
    <2> QED BY Zenon, <1>6, <2>1, <2>2, <2>3, <2>5, <2>6 DEF Run
  <1>7. ASSUME NEW n \in Nodes, Sweep(n) PROVE LeaseWrite
    <2>1. CASE (\E t \in Tasks : SweepFind(n, t)) \/ SweepDecide(n)
      BY Zenon, <2>1, <1>4 DEF SweepFind, SweepDecide
    <2>2. CASE SweepRenew(n)
      <3>1. row' = row \/ row' = [row EXCEPT ![sTask[n]] = WithExpiry(row[sTask[n]], FALSE)]
        BY Zenon, <2>2 DEF SweepRenew
      <3> QED BY Zenon, <3>1, <1>1, <1>e
    <2>3. CASE SweepRecover(n)
      <3>1. row' = row \/ row' = [row EXCEPT ![sTask[n]] = RecoveredRow(row[sTask[n]], sRow[n])]
        BY Zenon, <2>3 DEF SweepRecover
      <3>2. sRow[n].lease = 0 \/ SpentAfter(sRow[n].lease)
        <4>1. sRow[n].lease # 0 => sRow[n].lease \in Leases
          BY Zenon, LeaseRange
        <4> QED BY Zenon, <4>1, <1>a DEF ExpiredSpent
      <3>3. sTask[n] \in Tasks => \/ Kept(sTask[n], RecoveredRow(row[sTask[n]], sRow[n]))
                                  \/ Cleared(sTask[n], RecoveredRow(row[sTask[n]], sRow[n]))
        BY Zenon, <3>2, ReleasedLease DEF RecoveredRow
      <3> QED BY Zenon, <3>1, <3>3, <1>1
    <2> QED BY Zenon, <1>7, <2>1, <2>2, <2>3 DEF Sweep
  <1>8. ASSUME NEW t \in Tasks, CancelRequest(t) PROVE LeaseWrite
    <2>1. row' = row \/ row' = [row EXCEPT ![t] = SetStatus(row[t], "CANCELLED")]
      BY Zenon, <1>8 DEF CancelRequest, CancelWrite, CancelLookup, CancelRow, CancelFn
    <2> QED BY Zenon, <2>1, <1>1, <1>e
  <1>9. ASSUME NEW t \in Tasks, ExpireAbandoned(t) PROVE LeaseWrite
    <2>1. /\ row[t].lease # 0 /\ dpc[row[t].lease] \in {"done", "dead"}
          /\ row' = [row EXCEPT ![t] = WithExpiry(row[t], TRUE)]
      BY Zenon, <1>9 DEF ExpireAbandoned, Expire
    <2>2. SpentAfter(row[t].lease)
      BY Zenon, <2>1, <1>a, <1>c DEF RunPlaces, Spent
    <2>3. Kept(t, WithExpiry(row[t], TRUE))
      BY Zenon, <2>1, <2>2 DEF Kept, WithExpiry
    <2> QED BY Zenon, <2>1, <2>3, <1>1
  <1>10. ASSUME NEW n \in Nodes, Reserve(n) \/ LeaseNothing(n) \/ Crash(n) PROVE UNCHANGED row
    BY Zenon, <1>10 DEF Reserve, LeaseNothing, Crash
  <1>11. ASSUME NEW n \in Nodes, NEW t \in Tasks, GraceElapses(n, t) \/ CancelRead(n, t)
         PROVE  UNCHANGED row
    BY Zenon, <1>11 DEF GraceElapses, CancelRead
  <1>12. CASE UNCHANGED vars
    BY Zenon, <1>12, <1>4 DEF vars
  <1> QED
    BY Zenon, <1>2, <1>3, <1>4, <1>5, <1>6, <1>7, <1>8, <1>9, <1>10, <1>11, <1>12 DEF Next,
       Schedule

-----------------------------------------------------------------------------
(* The invariant.                                                           *)

LInv == IInv /\ RunPlaces /\ OneRun /\ LeaseInv

\* Leases are handed out by LeaseTask, and disturbed by a stall or an operator.
Leasing == \E n \in Nodes, t \in Tasks : LeaseTask(n, t) \/ LeaseLost(n, t)
Disturbing == \E t \in Tasks : \/ Answer(t) \/ ExpireStalled(t)
                               \/ \E reset \in BOOLEAN : Retry(t, reset)

\* A step hands out a lease, disturbs, or leaves the leases' owners alone.
LEMMA StepKinds ==
    ASSUME [Next]_vars
    PROVE  Leasing \/ Disturbing \/ UNCHANGED <<leaseSeq, dTask, stalls, requeues>>
  <1>1. ASSUME NEW l \in Leases, Dispatch(l) PROVE UNCHANGED <<leaseSeq, dTask, stalls, requeues>>
    <2>1. CASE Execute(l) \/ Renew(l) \/ Classify(l) \/ FinishSucceeded(l) \/ FinishFailed(l)
               \/ ReleaseFailed(l) \/ EscalateCancelRow(l)
      BY ZenonT(60), <2>1 DEF Execute, Renew, Classify, FinishSucceeded, FinishFailed,
                              ReleaseFailed,
                  EscalateCancelRow
    <2>2. CASE EscalateCancel(l) \/ EscalateCancelFn(l) \/ FinishTerminated(l)
      BY Zenon, <2>2 DEF EscalateCancel, EscalateCancelFn, FinishTerminated, budgets
    <2> QED BY Zenon, <1>1, <2>1, <2>2 DEF Dispatch
  <1>2. ASSUME NEW l \in Leases, Run(l) PROVE UNCHANGED <<leaseSeq, dTask, stalls, requeues>>
    BY ZenonT(60), <1>2 DEF Run, MarkRunning, RunSucceed, RunFail, RunHandoff, RunLost, Exit,
                            Cleanup,
                dispatchVars, budgets
  <1>3. ASSUME NEW n \in Nodes, Reserve(n) \/ LeaseNothing(n) \/ Sweep(n) \/ Crash(n)
        PROVE  UNCHANGED <<leaseSeq, dTask, stalls, requeues>>
    BY Zenon, <1>3 DEF Reserve, LeaseNothing, Sweep, SweepFind, SweepDecide, SweepRenew,
                       SweepRecover,
                Crash, dispatchVars, budgets
  <1>4. ASSUME NEW n \in Nodes, NEW t \in Tasks, GraceElapses(n, t) \/ CancelRead(n, t)
        PROVE  UNCHANGED <<leaseSeq, dTask, stalls, requeues>>
    BY Zenon, <1>4 DEF GraceElapses, CancelRead, dispatchVars, budgets
  <1>5. ASSUME NEW t \in Tasks, CancelRequest(t) \/ ExpireAbandoned(t)
        PROVE  UNCHANGED <<leaseSeq, dTask, stalls, requeues>>
    BY Zenon, <1>5 DEF CancelRequest, CancelWrite, CancelLookup, CancelRow, CancelFn,
                       ExpireAbandoned,
                Expire, dispatchVars, budgets
  <1>6. CASE UNCHANGED vars
    BY Zenon, <1>6 DEF vars, dispatchVars, budgets
  <1> QED BY ZenonT(60), <1>1, <1>2, <1>3, <1>4, <1>5, <1>6 DEF Next, Schedule, Leasing,
             Disturbing

\* A stall and a request of the operator are counted.
LEMMA Disturbs ==
    ASSUME BudgetOK, Disturbing
    PROVE  ~Undisturbed'
  <1>1. stalls \in Nat /\ requeues \in Nat
    BY BudgetAssumption DEF BudgetOK
  <1>2. stalls' = stalls + 1 \/ requeues' = requeues + 1
    BY Zenon DEF Disturbing, Answer, Retry, Requeue, ExpireStalled
  <1> QED BY <1>1, <1>2 DEF Undisturbed

\* What is undisturbed after a step was so before it, and the step did not disturb.
LEMMA UndisturbedSoFar ==
    ASSUME BudgetOK, [Next]_vars, Undisturbed'
    PROVE  ~Disturbing /\ Undisturbed
  <1>1. ~Disturbing
    BY Zenon, Disturbs
  <1>2. CASE Leasing
    BY Zenon, <1>1, <1>2 DEF Leasing, LeaseTask, LeaseLost, Undisturbed, budgets
  <1>3. CASE UNCHANGED <<leaseSeq, dTask, stalls, requeues>>
    BY Zenon, <1>1, <1>3 DEF Undisturbed
  <1> QED BY Zenon, <1>1, <1>2, <1>3, StepKinds

\* The lease handed out is the only one that becomes live.
LEMMA LeasingStep ==
    ASSUME RowsOK, DispatchOK, LeaseIds, RunPlaces, LeaseHeld, ExpiredSpent, [Next]_vars,
           NEW n \in Nodes, NEW t \in Tasks, LeaseTask(n, t) \/ LeaseLost(n, t)
    PROVE  LeaseHeld' /\ ExpiredSpent'
  <1> DEFINE k == leaseSeq + 1
  <1>1. /\ k \in Leases /\ k # 0 /\ dpc[k] = "none" /\ row[t].lease = 0
        /\ UNCHANGED <<rpc, ctxDone, snap, sRow>>
    <2>1. /\ leaseSeq + 1 \in Leases /\ row[t].lease = 0
          /\ UNCHANGED <<rpc, ctxDone, snap, sRow>>
      BY Zenon DEF LeaseTask, LeaseLost, runVars, sweepVars
    <2>2. leaseSeq \in Nat
      BY DEF DispatchOK
    <2>3. leaseSeq + 1 # 0 /\ leaseSeq + 1 > leaseSeq
      BY <2>2
    <2> QED BY Zenon, <2>1, <2>3 DEF LeaseIds
  <1>2. /\ row' = [row EXCEPT ![t] = LeasedRow(row[t], k)]
        /\ dTask' = [dTask EXCEPT ![k] = t]
        /\ dpc' = [dpc EXCEPT ![k] = "dispatch"] \/ dpc' = [dpc EXCEPT ![k] = "dead"]
    BY Zenon DEF LeaseTask, LeaseLost
  <1> HIDE DEF k
  <1>3. row'[t].lease = k /\ ~row'[t].expired /\ \A u \in Tasks : u # t => row'[u] = row[u]
    BY Zenon, <1>2 DEF RowsOK, LeasedRow
  <1>4. dTask'[k] = t /\ dpc'[k] \in {"dispatch", "dead"} /\ rpc'[k] = "none"
    BY Zenon, <1>1, <1>2 DEF DispatchOK, RunPlaces
  <1>5. \A l \in Leases : l # k => dTask'[l] = dTask[l] /\ dpc'[l] = dpc[l]
    BY Zenon, <1>2 DEF DispatchOK
  <1>6. /\ \A u \in Tasks : row[u].lease # 0 => row[u].lease \in Leases
        /\ \A m \in Nodes : sRow[m].lease # 0 => sRow[m].lease \in Leases
    BY Zenon, LeaseRange
  <1>7. LeaseHeld'
    <2> SUFFICES ASSUME NEW l \in Leases
                 PROVE  /\ dpc'[l] = "dispatch" \/ Busy(l)' => row'[dTask'[l]].lease = l
                        /\ Busy(l)' => snap'[l].lease = l
      BY Zenon DEF LeaseHeld
    <2>1. CASE l = k
      BY Zenon, <2>1, <1>3, <1>4 DEF Busy
    <2>2. CASE l # k
      <3>1. dpc'[l] = "dispatch" \/ Busy(l)' => dpc[l] = "dispatch" \/ Busy(l)
        BY Zenon, <2>2, <1>1, <1>5 DEF Busy
      <3>2. dpc[l] = "dispatch" \/ Busy(l) => dTask[l] \in Tasks /\ row[dTask[l]].lease = l /\ l # 0
        BY DEF LeaseIds, RunPlaces, LeaseHeld, Leases
      <3>3. Busy(l)' => snap'[l].lease = l
        BY Zenon, <1>1 DEF Busy, LeaseHeld
      <3> QED BY Zenon, <2>2, <3>1, <3>2, <3>3, <1>1, <1>3, <1>5
    <2> QED BY Zenon, <2>1, <2>2
  <1>8. ExpiredSpent'
    <2>1. \A j \in Leases : /\ Spent(j) => Spent(j)'
                            /\ dpc[j] # "none" => dpc'[j] # "none"
      BY Zenon, <1>1, <1>4, <1>5 DEF Spent, Busy
    <2>2. \A u \in Tasks : row'[u].lease # 0 => dpc'[row'[u].lease] # "none"
      BY Zenon, <2>1, <1>3, <1>4, <1>6 DEF ExpiredSpent
    <2>3. ASSUME NEW u \in Tasks, row'[u].expired PROVE row'[u].lease # 0 /\ SpentAfter(row'[u].lease)
      <3>1. row'[u] = row[u]
        BY Zenon, <2>3, <1>3
      <3> QED BY Zenon, <2>1, <2>3, <3>1, <1>6 DEF ExpiredSpent, Spent, Busy, SpentAfter
    <2>4. ASSUME NEW m \in Nodes, sRow'[m].lease # 0 PROVE SpentAfter(sRow'[m].lease)
      BY Zenon, <2>1, <2>4, <1>1, <1>6 DEF ExpiredSpent, Spent, Busy, SpentAfter
    <2> QED BY Zenon, <2>2, <2>3, <2>4 DEF ExpiredSpent, Spent, Busy, SpentAfter
  <1> QED BY Zenon, <1>7, <1>8

\* Every other step while undisturbed.
LEMMA WorkingStep ==
    ASSUME RowsOK, DispatchOK, LeaseIds, NodeOK, BudgetOK, RunPlaces, OneRun, LeaseHeld,
           ExpiredSpent, [Next]_vars, UNCHANGED <<leaseSeq, dTask, stalls, requeues>>
    PROVE  LeaseHeld' /\ ExpiredSpent'
  <1>1. LeaseWrite
    BY Zenon, WriteStep
  <1>2. \A l \in Leases : Spent(l) => SpentAfter(l)
    BY Zenon, SpentStep DEF Spent, Busy, SpentAfter
  <1>3. \A l \in Leases : dpc[l] = "none" <=> dpc'[l] = "none"
    BY Zenon, HandedOut
  <1>4. RunPlaces'
    BY Zenon, PlacesStep
  <1>5. \A t \in Tasks : row[t].lease # 0 => row[t].lease \in Leases
    BY Zenon, LeaseRange
  <1>6. LeaseHeld'
    <2> SUFFICES ASSUME NEW l \in Leases, dpc'[l] = "dispatch" \/ Busy(l)'
                 PROVE  /\ row'[dTask'[l]].lease = l
                        /\ Busy(l)' => snap'[l].lease = l
      BY Zenon DEF LeaseHeld
    <2>1. dpc'[l] # "none" /\ ~SpentAfter(l)
      BY Zenon, <1>4 DEF RunPlaces, SpentAfter, Busy
    <2>2. dpc[l] # "none" /\ ~Spent(l)
      BY Zenon, <2>1, <1>2, <1>3
    <2>3. dTask[l] \in Tasks /\ row[dTask[l]].lease = l /\ l # 0
      BY <2>2 DEF LeaseIds, LeaseHeld, Spent, Leases
    <2>4. row'[dTask[l]].lease = l
      BY Zenon, <2>1, <2>3, <1>1 DEF LeaseWrite, Kept, Cleared
    <2>5. Busy(l)' => snap'[l].lease = l
      BY Zenon, SnapStep DEF CopyKept, CopyLoaded, LeaseHeld
    <2> QED BY Zenon, <2>4, <2>5
  <1>7. ExpiredSpent'
    <2>1. ASSUME NEW t \in Tasks, row'[t].lease # 0 PROVE dpc'[row'[t].lease] # "none"
      <3>1. row'[t].lease = row[t].lease
        BY Zenon, <2>1, <1>1 DEF LeaseWrite, Kept, Cleared
      <3> QED BY Zenon, <2>1, <3>1, <1>3, <1>5 DEF ExpiredSpent
    <2>2. ASSUME NEW t \in Tasks, row'[t].expired PROVE row'[t].lease # 0 /\ SpentAfter(row'[t].lease)
      <3>1. /\ row'[t].lease = row[t].lease
            /\ row[t].expired \/ (row'[t].lease # 0 /\ SpentAfter(row[t].lease))
        BY Zenon, <2>2, <1>1 DEF LeaseWrite, Kept, Cleared
      <3> QED BY Zenon, <3>1, <1>2, <1>5 DEF ExpiredSpent
    <2>3. ASSUME NEW m \in Nodes, sRow'[m].lease # 0 PROVE SpentAfter(sRow'[m].lease)
      BY Zenon, <2>3, SweptStep
    <2> QED BY Zenon, <2>1, <2>2, <2>3 DEF ExpiredSpent, Spent, Busy, SpentAfter
  <1> QED BY Zenon, <1>6, <1>7

\* The initial states satisfy LInv.
LEMMA InitLInv == Init => LInv
  <1> SUFFICES ASSUME Init PROVE LInv
    OBVIOUS
  <1>1. IInv
    BY Zenon, InitIInv
  <1>2. RunPlaces /\ OneRun
    BY Zenon DEF Init, RunPlaces, OneRun, Busy
  <1>3. LeaseInv
    BY Zenon DEF Init, LeaseInv, LeaseHeld, ExpiredSpent, Busy, NoRow
  <1> QED BY Zenon, <1>1, <1>2, <1>3 DEF LInv

\* Every step preserves LInv.
LEMMA NextLInv == LInv /\ [Next]_vars => LInv'
  <1> SUFFICES ASSUME LInv, [Next]_vars PROVE LInv'
    OBVIOUS
  <1> USE DEF LInv
  <1>0. RowsOK /\ DispatchOK /\ LeaseIds /\ NodeOK /\ BudgetOK
    BY Zenon DEF IInv
  <1>1. IInv'
    BY Zenon, NextIInv
  <1>2. RunPlaces' /\ OneRun'
    BY Zenon, <1>0, PlacesStep, OneRunStep
  <1>3. LeaseInv'
    <2> SUFFICES ASSUME Undisturbed' PROVE LeaseHeld' /\ ExpiredSpent'
      BY Zenon DEF LeaseInv
    <2>1. ~Disturbing /\ Undisturbed
      BY Zenon, <1>0, UndisturbedSoFar
    <2>2. LeaseHeld /\ ExpiredSpent
      BY Zenon, <2>1 DEF LeaseInv
    <2>3. CASE Leasing
      BY Zenon, <2>2, <2>3, <1>0, LeasingStep DEF Leasing
    <2>4. CASE UNCHANGED <<leaseSeq, dTask, stalls, requeues>>
      BY Zenon, <2>2, <2>4, <1>0, WorkingStep
    <2> QED BY Zenon, <2>1, <2>3, <2>4, StepKinds
  <1> QED BY Zenon, <1>1, <1>2, <1>3

\* Two runs at work on a task would hold one lease: there is one run.
LEMMA HeldSingle == LInv => SingleWorker
  <1> SUFFICES ASSUME LInv, Undisturbed, NEW t \in Tasks PROVE Cardinality(Working(t)) <= 1
    BY Zenon DEF SingleWorker
  <1>1. Working(t) \subseteq {row[t].lease}
    BY Zenon DEF LInv, LeaseInv, LeaseHeld, Busy, Working
  <1>2. IsFiniteSet({row[t].lease}) /\ Cardinality({row[t].lease}) = 1
    BY Zenon, FS_Singleton
  <1>3. Cardinality(Working(t)) <= Cardinality({row[t].lease})
    BY Zenon, <1>1, <1>2, FS_Subset
  <1> QED BY Zenon, <1>2, <1>3

\* What a step does to the lease of a row.
LEMMA LeaseStep ==
    ASSUME LInv, [Next]_vars, Undisturbed, NEW t \in Tasks
    PROVE  \/ row'[t].lease \in {row[t].lease, 0}
           \/ row'[t].lease = leaseSeq' /\ leaseSeq' > leaseSeq
  <1>0. RowsOK /\ DispatchOK /\ LeaseIds /\ NodeOK /\ BudgetOK /\ RunPlaces /\ OneRun
        /\ LeaseHeld /\ ExpiredSpent
    BY Zenon DEF LInv, IInv, LeaseInv
  <1>1. CASE Leasing
    <2>1. PICK n \in Nodes, u \in Tasks : LeaseTask(n, u) \/ LeaseLost(n, u)
      BY Zenon, <1>1 DEF Leasing
    <2>2. leaseSeq \in Nat /\ leaseSeq' = leaseSeq + 1
      BY <2>1, <1>0 DEF LeaseTask, LeaseLost, DispatchOK
    <2>3. row' = [row EXCEPT ![u] = LeasedRow(row[u], leaseSeq')]
      BY Zenon, <2>1 DEF LeaseTask, LeaseLost
    <2>4. row'[t] = row[t] \/ row'[t].lease = leaseSeq'
      BY <2>3, <1>0 DEF LeasedRow
    <2> QED BY <2>2, <2>4
  <1>2. CASE Disturbing
    <2>1. \E u \in Tasks : \E r :
             row' = [row EXCEPT ![u] = r] /\ r.lease \in {row[u].lease, 0}
      BY <1>2 DEF Disturbing, Answer, ExpireStalled, Expire, Retry, Requeue, ClearLease,
         RequeuedRow, WithExpiry
    <2> QED BY <2>1, <1>0
  <1>3. CASE UNCHANGED <<leaseSeq, dTask, stalls, requeues>>
    BY Zenon, <1>0, <1>3, WriteStep DEF LeaseWrite, Kept, Cleared
  <1> QED BY Zenon, <1>1, <1>2, <1>3, StepKinds

-----------------------------------------------------------------------------
(* What a task is charged.                                                  *)

\* The copies of a row that will be written back know its attempts: the run's,
\* the one TaskCompleted has loaded, and the one the sweep has found, as long
\* as the row still has the lease it is written back under.
SnapCurrent ==
    \A l \in Leases : Busy(l) => snap[l].attempt = row[dTask[l]].attempt
ReadCurrent ==
    \A l \in Leases : dpc[l] = "release" /\ row[dTask[l]].lease = l =>
        read[l] = NoRow \/ read[l].attempt = row[dTask[l]].attempt
SweptCurrent ==
    \A n \in Nodes :
        /\ spc[n] # "idle" => sRow[n].lease # 0
        /\ \A t \in Tasks : sTask[n] = t /\ sRow[n].lease # 0 /\ row[t].lease = sRow[n].lease =>
               sRow[n].attempt = row[t].attempt
CopiesCurrent == SnapCurrent /\ ReadCurrent /\ SweptCurrent

\* A statement leaves the attempts alone, or clears the lease and charges one,
\* or is the last one of a run, which may have used up several.
Quiet(t, r) == r.attempt = row[t].attempt /\ (InQueue(r) => InQueue(row[t]))
Charged(t, r) == r.lease = 0 /\ row[t].lease # 0 /\ r.attempt = row[t].attempt + 1
Raised(t, r) == /\ r.attempt >= row[t].attempt
                /\ r.lease # 0 /\ r.lease = row[t].lease /\ Busy(r.lease) /\ SpentAfter(r.lease)
ChargeWrite == \A t \in Tasks : LET r == row'[t] IN Quiet(t, r) \/ Charged(t, r) \/ Raised(t, r)

\* TaskCompleted(success = false) of a dispatch that holds the row's lease, with
\* a copy that is current.
LEMMA RetriedCharge ==
    ASSUME NEW t \in Tasks, row[t] \in LiveRow, NEW l \in Leases, NEW seen \in SeenRow,
           row[t].lease = l => seen = NoRow \/ seen.attempt = row[t].attempt
    PROVE  LET r == RetriedRow(row[t], l, seen) IN Quiet(t, r) \/ Charged(t, r)
  <1>0. /\ row[t].attempt \in Nat /\ seen.attempt \in Nat /\ l # 0
        /\ ~(NoRow.attempt < NoRow.max)
    BY DEF LiveRow, SeenRow, Row, Leases, NoRow
  <1>1. seen.attempt + 1 # 0
    BY <1>0
  <1>2. CASE row[t].lease # l
    BY Zenon, <1>2 DEF RetriedRow, ReleasedRow, Quiet
  <1>3. CASE row[t].lease = l /\ seen.attempt < seen.max
    <2>1. seen.attempt = row[t].attempt
      BY Zenon, <1>0, <1>3
    <2> QED BY Zenon, <1>0, <1>1, <1>3, <2>1 DEF RetriedRow, ReleasedRow, Charged
  <1>4. CASE row[t].lease = l /\ ~(seen.attempt < seen.max)
    BY Zenon, <1>4 DEF RetriedRow, ReleasedRow, Quiet, InQueue
  <1> QED BY Zenon, <1>2, <1>3, <1>4

\* recoverExpiredLeases with a row that has the lease it had when found.
LEMMA RecoveredCharge ==
    ASSUME NEW t \in Tasks, row[t] \in LiveRow, NEW seen \in SeenRow, seen.lease # 0,
           row[t].lease = seen.lease => seen.attempt = row[t].attempt
    PROVE  LET r == RecoveredRow(row[t], seen) IN Quiet(t, r) \/ Charged(t, r)
  <1>0. /\ row[t].attempt \in Nat /\ seen.attempt \in Nat /\ seen.max \in Nat
        /\ seen.attempt <= seen.max
    BY DEF LiveRow, SeenRow, Row
  <1>1. seen.attempt + 1 # 0
    BY <1>0
  <1>2. CASE row[t].lease # seen.lease
    BY Zenon, <1>2 DEF RecoveredRow, ReleasedRow, Quiet
  <1>3. CASE row[t].lease = seen.lease /\ ~(seen.attempt + 1 > seen.max)
    BY Zenon, <1>1, <1>3 DEF RecoveredRow, ReleasedRow, Charged
  <1>4. CASE row[t].lease = seen.lease /\ seen.attempt + 1 > seen.max
    <2>1. seen.max = row[t].attempt
      BY <1>0, <1>4
    <2> QED BY Zenon, <1>4, <2>1 DEF RecoveredRow, ReleasedRow, Quiet, InQueue
  <1> QED BY Zenon, <1>2, <1>3, <1>4

\* The row TaskCompleted has loaded: kept, or loaded just now.
ReadKept(k) == dpc[k] = "release" /\ read'[k] = read[k]
ReadLoaded(k) == row' = row /\ dpc[k] = "failed" /\ read'[k] \in {row[dTask[k]], NoRow}

\* What a step does to the row a release has read.
LEMMA ReadStep ==
    ASSUME DispatchOK, RowsOK, [Next]_vars, NEW k \in Leases, dpc'[k] = "release"
    PROVE  ReadKept(k) \/ ReadLoaded(k)
  <1>1. CASE dpc'[k] = dpc[k] /\ read'[k] = read[k]
    BY Zenon, <1>1 DEF ReadKept
  <1>2. ASSUME NEW l \in Leases, Dispatch(l) PROVE ReadKept(k) \/ ReadLoaded(k)
    <2>1. CASE FinishFailed(l)
      <3>1. /\ dpc[l] = "failed" /\ dpc' = [dpc EXCEPT ![l] = "release"] /\ row' = row
            /\ \/ read' = [read EXCEPT ![l] = row[dTask[l]]]
               \/ read' = [read EXCEPT ![l] = NoRow]
        BY Zenon, <2>1 DEF FinishFailed
      <3>2. CASE k = l
        BY Zenon, <3>1, <3>2 DEF ReadLoaded, RowsOK
      <3>3. CASE k # l
        BY Zenon, <3>1, <3>3, <1>1 DEF DispatchOK, RowsOK
      <3> QED BY Zenon, <3>2, <3>3
    <2>2. CASE ReleaseFailed(l)
      <3>1. dpc' = [dpc EXCEPT ![l] = "done"] /\ read' = [read EXCEPT ![l] = NoRow]
        BY Zenon, <2>2 DEF ReleaseFailed
      <3>2. k # l
        BY Zenon, <3>1 DEF DispatchOK
      <3> QED BY Zenon, <3>1, <3>2, <1>1 DEF DispatchOK, RowsOK
    <2>3. ASSUME UNCHANGED read, NEW pc, pc # "release", dpc' = [dpc EXCEPT ![l] = pc]
          PROVE  ReadKept(k)
      <3>1. k # l
        BY Zenon, <2>3 DEF DispatchOK
      <3> QED BY Zenon, <2>3, <3>1, <1>1 DEF DispatchOK, ReadKept
    <2>4. CASE Execute(l) \/ Renew(l)
      <3>1. UNCHANGED read /\ \/ dpc' = dpc
                              \/ \E pc : pc # "release" /\ dpc' = [dpc EXCEPT ![l] = pc]
        BY Zenon, <2>4 DEF Execute, Renew, RenewFailed
      <3> QED BY Zenon, <3>1, <2>3, <1>1
    <2>5. CASE Classify(l)
      <3>1. UNCHANGED read /\ \/ dpc' = [dpc EXCEPT ![l] = "succeeded"]
                              \/ dpc' = [dpc EXCEPT ![l] = "terminated"]
                              \/ dpc' = [dpc EXCEPT ![l] = "failed"]
        BY Zenon, <2>5 DEF Classify
      <3> QED BY Zenon, <3>1, <2>3
    <2>6. CASE EscalateCancel(l) \/ EscalateCancelRow(l) \/ EscalateCancelFn(l)
               \/ FinishSucceeded(l) \/ FinishTerminated(l)
      <3>1. UNCHANGED read /\ \E pc : pc # "release" /\ dpc' = [dpc EXCEPT ![l] = pc]
        BY Zenon, <2>6 DEF EscalateCancel, EscalateCancelRow, EscalateCancelFn, FinishSucceeded,
           FinishTerminated
      <3> QED BY Zenon, <3>1, <2>3
    <2> QED BY ZenonT(60), <1>2, <2>1, <2>2, <2>4, <2>5, <2>6 DEF Dispatch
  <1>3. ASSUME NEW n \in Nodes, NEW t \in Tasks, LeaseTask(n, t) \/ LeaseLost(n, t)
        PROVE  ReadKept(k)
    <2>1. UNCHANGED read /\ \/ dpc' = [dpc EXCEPT ![leaseSeq + 1] = "dispatch"]
                            \/ dpc' = [dpc EXCEPT ![leaseSeq + 1] = "dead"]
      BY Zenon, <1>3 DEF LeaseTask, LeaseLost
    <2> QED BY Zenon, <2>1 DEF DispatchOK, ReadKept
  <1>4. ASSUME NEW n \in Nodes, Crash(n) PROVE ReadKept(k)
    BY Zenon, <1>4 DEF Crash, ReadKept
  <1>5. ASSUME NEW l \in Leases, Run(l) PROVE UNCHANGED <<dpc, read>>
    BY Zenon, <1>5 DEF Run, MarkRunning, RunSucceed, RunFail, RunHandoff, RunLost, Exit,
       Cleanup, dispatchVars
  <1>6. ASSUME NEW t \in Tasks, CancelRequest(t) PROVE UNCHANGED <<dpc, read>>
    BY Zenon, <1>6 DEF CancelRequest, CancelWrite, CancelLookup, CancelRow, CancelFn,
       dispatchVars
  <1>7. ASSUME NEW n \in Nodes, Reserve(n) \/ LeaseNothing(n) \/ Sweep(n)
        PROVE  UNCHANGED <<dpc, read>>
    BY Zenon, <1>7 DEF Reserve, LeaseNothing, Sweep, SweepFind, SweepDecide, SweepRenew,
       SweepRecover, dispatchVars
  <1>8. ASSUME NEW n \in Nodes, NEW t \in Tasks, GraceElapses(n, t) \/ CancelRead(n, t)
        PROVE  UNCHANGED <<dpc, read>>
    BY Zenon, <1>8 DEF GraceElapses, CancelRead, dispatchVars
  <1>9. ASSUME NEW t \in Tasks, NEW reset \in BOOLEAN,
               Answer(t) \/ ExpireStalled(t) \/ ExpireAbandoned(t) \/ Retry(t, reset)
        PROVE  UNCHANGED <<dpc, read>>
    BY Zenon, <1>9 DEF Answer, Retry, Requeue, ExpireStalled, ExpireAbandoned, Expire,
       dispatchVars
  <1>10. CASE UNCHANGED vars
    BY Zenon, <1>10, <1>1 DEF vars, dispatchVars
  <1> QED BY ZenonT(60), <1>1, <1>2, <1>3, <1>4, <1>5, <1>6, <1>7, <1>8, <1>9, <1>10 DEF Next,
             Schedule

\* Every write to the tasks table but the operator's.
LEMMA ChargeStep ==
    ASSUME RowsOK, DispatchOK, NodeOK, RunPlaces, LeaseHeld, CopiesCurrent, [Next]_vars,
           ~Disturbing
    PROVE  ChargeWrite
  <1> DEFINE Fair(t, r) == Quiet(t, r) \/ Charged(t, r) \/ Raised(t, r)
  <1>a. \A t \in Tasks : Quiet(t, row[t])
    BY Zenon DEF Quiet
  <1>b. \A t \in Tasks : /\ \A s : s # "QUEUED" => /\ Quiet(t, SetStatus(row[t], s))
                                                   /\ Quiet(t, ClearLease(row[t], s))
                         /\ \A x : Quiet(t, WithExpiry(row[t], x))
    BY Zenon DEF Quiet, InQueue, SetStatus, ClearLease, WithExpiry
  <1>1. ASSUME NEW u, NEW r, row' = row \/ row' = [row EXCEPT ![u] = r], u \in Tasks => Fair(u, r)
        PROVE  ChargeWrite
    BY Zenon, <1>1, <1>a DEF ChargeWrite, RowsOK
  <1> HIDE DEF Fair
  <1>c. \A t, r : Quiet(t, r) \/ Charged(t, r) \/ Raised(t, r) => Fair(t, r)
    BY Zenon DEF Fair
  <1>2. CASE UNCHANGED row
    BY Zenon, <1>2, <1>a DEF ChargeWrite
  <1>3. ASSUME NEW n \in Nodes, NEW t \in Tasks, LeaseTask(n, t) \/ LeaseLost(n, t)
        PROVE  ChargeWrite
    <2>1. row' = [row EXCEPT ![t] = LeasedRow(row[t], leaseSeq + 1)]
      BY Zenon, <1>3 DEF LeaseTask, LeaseLost
    <2>2. Quiet(t, LeasedRow(row[t], leaseSeq + 1))
      BY Zenon DEF Quiet, InQueue, LeasedRow
    <2> QED BY Zenon, <2>1, <2>2, <1>c, <1>1
  <1>4. ASSUME NEW l \in Leases, Dispatch(l) PROVE ChargeWrite
    <2>1. CASE Execute(l) \/ EscalateCancel(l) \/ EscalateCancelFn(l) \/ Classify(l)
               \/ FinishTerminated(l) \/ FinishFailed(l)
      BY Zenon, <2>1, <1>2 DEF Execute, EscalateCancel, EscalateCancelFn, Classify,
         FinishTerminated, FinishFailed
    <2>2. CASE Renew(l)
      <3>1. row' = row \/ row' = [row EXCEPT ![dTask[l]] = WithExpiry(row[dTask[l]], FALSE)]
        BY Zenon, <2>2 DEF Renew
      <3> QED BY Zenon, <3>1, <1>1, <1>b, <1>c
    <2>3. CASE EscalateCancelRow(l)
      <3>1. row' = row \/ row' = [row EXCEPT ![dTask[l]] = SetStatus(row[dTask[l]], "CANCELLED")]
        BY Zenon, <2>3 DEF EscalateCancelRow
      <3> QED BY Zenon, <3>1, <1>1, <1>b, <1>c
    <2>4. CASE FinishSucceeded(l)
      <3>1. row' = row \/ row' = [row EXCEPT ![dTask[l]] = ReleasedRow(row[dTask[l]], l, "COMPLETED", 0, 0)]
        BY Zenon, <2>4 DEF FinishSucceeded
      <3>2. \A t \in Tasks : Quiet(t, ReleasedRow(row[t], l, "COMPLETED", 0, 0))
        BY Zenon DEF Quiet, InQueue, ReleasedRow
      <3> QED BY Zenon, <3>1, <3>2, <1>1, <1>c
    <2>5. CASE ReleaseFailed(l)
      <3>1. /\ dpc[l] = "release"
            /\ row' = row \/ row' = [row EXCEPT ![dTask[l]] = RetriedRow(row[dTask[l]], l, read[l])]
        BY Zenon, <2>5 DEF ReleaseFailed
      <3>2. ASSUME dTask[l] \in Tasks
            PROVE  LET r == RetriedRow(row[dTask[l]], l, read[l])
                   IN  Quiet(dTask[l], r) \/ Charged(dTask[l], r)
        <4>1. row[dTask[l]] \in LiveRow /\ read[l] \in SeenRow
          BY Zenon, <3>2 DEF RowsOK
        <4>2. row[dTask[l]].lease = l => read[l] = NoRow \/ read[l].attempt = row[dTask[l]].attempt
          BY Zenon, <3>1 DEF CopiesCurrent, ReadCurrent
        <4> QED BY Zenon, <3>2, <4>1, <4>2, RetriedCharge
      <3> QED BY Zenon, <3>1, <3>2, <1>1, <1>c
    <2> QED BY ZenonT(60), <1>4, <2>1, <2>2, <2>3, <2>4, <2>5 DEF Dispatch
  <1>5. ASSUME NEW l \in Leases, Run(l) PROVE ChargeWrite
    <2>1. CASE RunLost(l) \/ Cleanup(l)
      BY Zenon, <2>1, <1>2 DEF RunLost, Cleanup
    <2>2. CASE MarkRunning(l)
      <3>1. row' = row \/ row' = [row EXCEPT ![dTask[l]] = SetStatus(row[dTask[l]], "RUNNING")]
        BY Zenon, <2>2 DEF MarkRunning
      <3> QED BY Zenon, <3>1, <1>1, <1>b, <1>c
    <2>3. CASE RunSucceed(l)
      <3>1. row' = [row EXCEPT ![dTask[l]] = SetStatus(row[dTask[l]], "COMPLETED")]
        BY Zenon, <2>3 DEF RunSucceed
      <3> QED BY Zenon, <3>1, <1>1, <1>b, <1>c
    <2>4. ASSUME NEW a \in 1..snap[l].max, NEW e \in BOOLEAN, RunFail(l, a, e) PROVE ChargeWrite
      <3>1. /\ Exit(l) /\ ~ctxDone[l] /\ a \in snap[l].attempt..snap[l].max
            /\ row' = [row EXCEPT ![dTask[l]] = FailedRow(snap[l], a, e)]
        BY Zenon, <2>4 DEF RunFail
      <3>2. Busy(l) /\ dpc'[l] = dpc[l] /\ rpc'[l] = "exit"
        BY Zenon, <3>1 DEF Exit, Busy, dispatchVars, DispatchOK
      <3>3. /\ row[dTask[l]].lease = l /\ snap[l].lease = l /\ SpentAfter(l)
            /\ snap[l].attempt = row[dTask[l]].attempt
        BY Zenon, <3>2 DEF LeaseHeld, CopiesCurrent, SnapCurrent, RunPlaces, SpentAfter
      <3>4. l # 0 /\ a >= snap[l].attempt
        BY <3>1 DEF RowsOK, SeenRow, Row, Leases
      <3>5. Raised(dTask[l], FailedRow(snap[l], a, e))
        BY Zenon, <3>2, <3>3, <3>4 DEF Raised, FailedRow
      <3> QED BY Zenon, <3>1, <3>5, <1>1, <1>c
    <2>5. ASSUME NEW s \in {"AWAITING_INPUT", "COMPLETED"}, RunHandoff(l, s) PROVE ChargeWrite
      <3>1. row' = row \/ row' = [row EXCEPT ![dTask[l]] = ClearLease(row[dTask[l]], s)]
        BY Zenon, <2>5 DEF RunHandoff, RowsOK
      <3>2. s # "QUEUED"
        BY Zenon
      <3> QED BY Zenon, <3>1, <3>2, <1>1, <1>b, <1>c
    <2> QED BY Zenon, <1>5, <2>1, <2>2, <2>3, <2>4, <2>5 DEF Run
  <1>6. ASSUME NEW n \in Nodes, Sweep(n) PROVE ChargeWrite
    <2>1. CASE (\E t \in Tasks : SweepFind(n, t)) \/ SweepDecide(n)
      BY Zenon, <2>1, <1>2 DEF SweepFind, SweepDecide
    <2>2. CASE SweepRenew(n)
      <3>1. row' = row \/ row' = [row EXCEPT ![sTask[n]] = WithExpiry(row[sTask[n]], FALSE)]
        BY Zenon, <2>2 DEF SweepRenew
      <3> QED BY Zenon, <3>1, <1>1, <1>b, <1>c
    <2>3. CASE SweepRecover(n)
      <3>1. /\ spc[n] = "recover"
            /\ row' = row \/ row' = [row EXCEPT ![sTask[n]] = RecoveredRow(row[sTask[n]], sRow[n])]
        BY Zenon, <2>3 DEF SweepRecover
      <3>2. sRow[n].lease # 0
        BY Zenon, <3>1 DEF CopiesCurrent, SweptCurrent
      <3>3. ASSUME sTask[n] \in Tasks
            PROVE  LET r == RecoveredRow(row[sTask[n]], sRow[n])
                   IN  Quiet(sTask[n], r) \/ Charged(sTask[n], r)
        <4>1. row[sTask[n]] \in LiveRow /\ sRow[n] \in SeenRow
          BY Zenon, <3>3 DEF RowsOK
        <4>2. row[sTask[n]].lease = sRow[n].lease => sRow[n].attempt = row[sTask[n]].attempt
          BY Zenon, <3>2, <3>3 DEF CopiesCurrent, SweptCurrent
        <4> QED BY Zenon, <3>2, <3>3, <4>1, <4>2, RecoveredCharge
      <3> QED BY Zenon, <3>1, <3>3, <1>1, <1>c
    <2> QED BY Zenon, <1>6, <2>1, <2>2, <2>3 DEF Sweep
  <1>7. ASSUME NEW t \in Tasks, CancelRequest(t) PROVE ChargeWrite
    <2>1. row' = row \/ row' = [row EXCEPT ![t] = SetStatus(row[t], "CANCELLED")]
      BY Zenon, <1>7 DEF CancelRequest, CancelWrite, CancelLookup, CancelRow, CancelFn
    <2> QED BY Zenon, <2>1, <1>1, <1>b, <1>c
  <1>8. ASSUME NEW t \in Tasks, ExpireAbandoned(t) PROVE ChargeWrite
    <2>1. row' = [row EXCEPT ![t] = WithExpiry(row[t], TRUE)]
      BY Zenon, <1>8 DEF ExpireAbandoned, Expire
    <2> QED BY Zenon, <2>1, <1>1, <1>b, <1>c
  <1>9. ASSUME NEW n \in Nodes, Reserve(n) \/ LeaseNothing(n) \/ Crash(n) PROVE UNCHANGED row
    BY Zenon, <1>9 DEF Reserve, LeaseNothing, Crash
  <1>10. ASSUME NEW n \in Nodes, NEW t \in Tasks, GraceElapses(n, t) \/ CancelRead(n, t)
         PROVE  UNCHANGED row
    BY Zenon, <1>10 DEF GraceElapses, CancelRead
  <1>11. CASE UNCHANGED vars
    BY Zenon, <1>11, <1>2 DEF vars
  <1> QED
    BY ZenonT(60), <1>2, <1>3, <1>4, <1>5, <1>6, <1>7, <1>8, <1>9, <1>10, <1>11 DEF Next,
       Schedule, Disturbing

\* The copies stay current, given what the step did to leases and attempts.
LEMMA CopiesStep ==
    ASSUME RowsOK, DispatchOK, LeaseIds, NodeOK, RunPlaces, LeaseHeld', ExpiredSpent, CopiesCurrent,
           [Next]_vars, ChargeWrite,
           \A t \in Tasks : row'[t].lease # 0 =>
               row'[t].lease = row[t].lease \/ dpc[row'[t].lease] = "none",
           \A l \in Leases : dpc[l] # "none" => dTask'[l] = dTask[l]
    PROVE  CopiesCurrent'
  <1>0. \A l \in Leases : l # 0
    BY DEF Leases
  <1>1. ASSUME NEW l \in Leases, Busy(l)' PROVE snap'[l].attempt = row'[dTask'[l]].attempt
    <2>1. dpc[l] # "none"
      BY Zenon, <1>1, SnapStep DEF CopyKept, CopyLoaded, RunPlaces, Busy
    <2>2. dTask'[l] = dTask[l] /\ dTask[l] \in Tasks
      BY Zenon, <2>1 DEF LeaseIds
    <2>3. row'[dTask[l]].lease = l /\ ~SpentAfter(l)
      BY Zenon, <1>1, <2>2 DEF LeaseHeld, Busy, SpentAfter
    <2>4. Quiet(dTask[l], row'[dTask[l]])
      BY Zenon, <2>2, <2>3, <1>0 DEF ChargeWrite, Charged, Raised
    <2>5. CASE CopyKept(l)
      BY Zenon, <2>2, <2>4, <2>5 DEF CopyKept, CopiesCurrent, SnapCurrent, Quiet
    <2>6. CASE CopyLoaded(l)
      BY Zenon, <2>2, <2>6 DEF CopyLoaded
    <2> QED BY Zenon, <1>1, <2>5, <2>6, SnapStep
  <1>2. ASSUME NEW l \in Leases, dpc'[l] = "release", row'[dTask'[l]].lease = l
        PROVE  read'[l] = NoRow \/ read'[l].attempt = row'[dTask'[l]].attempt
    <2>1. ReadKept(l) \/ ReadLoaded(l)
      BY Zenon, <1>2, ReadStep
    <2>2. dpc[l] # "none" /\ ~Busy(l)
      BY Zenon, <2>1 DEF ReadKept, ReadLoaded, RunPlaces
    <2>3. dTask'[l] = dTask[l] /\ dTask[l] \in Tasks
      BY Zenon, <2>2 DEF LeaseIds
    <2>4. CASE ReadLoaded(l)
      BY Zenon, <2>3, <2>4 DEF ReadLoaded
    <2>5. CASE ReadKept(l)
      <3>1. row[dTask[l]].lease = l
        BY Zenon, <1>2, <2>2, <2>3, <1>0
      <3>2. Quiet(dTask[l], row'[dTask[l]])
        BY Zenon, <1>2, <2>2, <2>3, <1>0 DEF ChargeWrite, Charged, Raised
      <3> QED BY Zenon, <2>3, <2>5, <3>1, <3>2 DEF ReadKept, CopiesCurrent, ReadCurrent, Quiet
    <2> QED BY Zenon, <2>1, <2>4, <2>5
  <1>3. ASSUME NEW n \in Nodes, spc'[n] # "idle" PROVE sRow'[n].lease # 0
    <2>1. CASE SweepKept(n)
      BY Zenon, <1>3, <2>1 DEF SweepKept, CopiesCurrent, SweptCurrent
    <2>2. ASSUME NEW t \in Tasks, SweepFound(n, t) PROVE sRow'[n].lease # 0
      BY Zenon, <2>2 DEF SweepFound, ExpiredSpent
    <2> QED BY Zenon, <1>3, <2>1, <2>2, SweepStep DEF SweepDropped
  <1>4. ASSUME NEW n \in Nodes, NEW t \in Tasks, sTask'[n] = t, sRow'[n].lease # 0,
               row'[t].lease = sRow'[n].lease
        PROVE  sRow'[n].attempt = row'[t].attempt
    <2>1. CASE SweepKept(n)
      <3>1. sRow'[n] = sRow[n] /\ sTask[n] = t
        BY Zenon, <1>4, <2>1 DEF SweepKept
      <3>2. Spent(sRow[n].lease)
        BY Zenon, <1>4, <3>1 DEF ExpiredSpent
      <3>3. row'[t].lease = row[t].lease /\ row'[t].lease # 0 /\ ~Busy(row'[t].lease)
        BY Zenon, <1>4, <3>1, <3>2 DEF Spent
      <3>4. Quiet(t, row'[t])
        BY Zenon, <3>3 DEF ChargeWrite, Charged, Raised
      <3> QED BY Zenon, <1>4, <3>1, <3>3, <3>4 DEF CopiesCurrent, SweptCurrent, Quiet
    <2>2. CASE SweepDropped(n)
      BY <1>4, <2>2 DEF SweepDropped, NoRow
    <2>3. ASSUME NEW u \in Tasks, SweepFound(n, u) PROVE sRow'[n].attempt = row'[t].attempt
      BY Zenon, <1>4, <2>3 DEF SweepFound
    <2> QED BY Zenon, <2>1, <2>2, <2>3, SweepStep
  <1> QED BY Zenon, <1>1, <1>2, <1>3, <1>4 DEF CopiesCurrent, SnapCurrent, ReadCurrent, SweptCurrent

\* Leases and charges: one more lease only out of the queue, into which the task
\* returns only charged.
Owing(r) == IF InQueue(r) THEN 1 ELSE 0
Paid == \A t \in Tasks : Cardinality(Handouts(t)) + Owing(row[t]) <= row[t].attempt

\* The leases of a task are counted in whole numbers.
LEMMA HandoutsFinite == \A t : IsFiniteSet(Handouts(t)) /\ Cardinality(Handouts(t)) \in Nat
  <1>1. IsFiniteSet(Leases)
    BY LimitsAssumption, FS_Interval DEF Leases
  <1>2. \A t : Handouts(t) \subseteq Leases
    BY Zenon DEF Handouts
  <1>3. \A t : IsFiniteSet(Handouts(t))
    BY Zenon, <1>1, <1>2, FS_Subset
  <1> QED BY Zenon, <1>3, FS_CardinalityType


\* What the writes of a step amount to.
LEMMA ChargeOf ==
    ASSUME RowsOK, RowsOK', ChargeWrite, NEW t \in Tasks
    PROVE  /\ row[t].attempt + Owing(row'[t]) <= row'[t].attempt + Owing(row[t])
           /\ row'[t].attempt >= row[t].attempt
           /\ InQueue(row'[t]) /\ ~InQueue(row[t]) => row'[t].attempt = row[t].attempt + 1
  <1>0. row[t].attempt \in Nat /\ row'[t].attempt \in Nat
    BY Zenon DEF RowsOK, LiveRow, Row
  <1>1. Owing(row[t]) \in {0, 1} /\ Owing(row'[t]) \in {0, 1}
    BY Zenon DEF Owing
  <1>2. CASE Quiet(t, row'[t])
    <2>1. /\ row'[t].attempt = row[t].attempt
          /\ Owing(row'[t]) = Owing(row[t]) \/ (Owing(row'[t]) = 0 /\ Owing(row[t]) = 1)
          /\ ~(InQueue(row'[t]) /\ ~InQueue(row[t]))
      BY Zenon, <1>2 DEF Quiet, Owing
    <2> QED BY <1>0, <1>1, <2>1
  <1>3. CASE Charged(t, row'[t])
    <2>1. row'[t].attempt = row[t].attempt + 1
      BY Zenon, <1>3 DEF Charged
    <2> QED BY <1>0, <1>1, <2>1
  <1>4. CASE Raised(t, row'[t])
    <2>1. row'[t].attempt >= row[t].attempt /\ ~InQueue(row'[t]) /\ Owing(row'[t]) = 0
      BY Zenon, <1>4 DEF Raised, InQueue, Owing
    <2> QED BY <1>0, <1>1, <2>1
  <1> QED BY Zenon, <1>2, <1>3, <1>4 DEF ChargeWrite

\* A lease handed out uses up what the task in the queue had left.
LEMMA PaidLeasing ==
    ASSUME RowsOK, RowsOK', DispatchOK, Paid, ChargeWrite, NEW n \in Nodes, NEW t \in Tasks,
           LeaseTask(n, t) \/ LeaseLost(n, t)
    PROVE  Paid'
  <1> DEFINE k == leaseSeq + 1
  <1>1. /\ k \in Leases /\ InQueue(row[t]) /\ dTask' = [dTask EXCEPT ![k] = t]
        /\ row' = [row EXCEPT ![t] = LeasedRow(row[t], k)]
    BY Zenon DEF LeaseTask, LeaseLost, InQueue
  <1> HIDE DEF k
  <1> SUFFICES ASSUME NEW u \in Tasks
               PROVE  Cardinality(Handouts(u)') + Owing(row'[u]) <= row'[u].attempt
    BY Zenon DEF Paid, Handouts
  <1>2. /\ Cardinality(Handouts(u)) + Owing(row[u]) <= row[u].attempt
        /\ IsFiniteSet(Handouts(u)) /\ Cardinality(Handouts(u)) \in Nat
    BY Zenon, HandoutsFinite DEF Paid
  <1>3. row[u].attempt \in Nat /\ row'[u].attempt \in Nat
    BY Zenon DEF RowsOK, LiveRow, Row
  <1>4. CASE u = t
    <2>1. Handouts(u)' \subseteq Handouts(u) \cup {k}
      BY Zenon, <1>1 DEF Handouts, DispatchOK
    <2>2. /\ IsFiniteSet(Handouts(u) \cup {k})
          /\ \/ Cardinality(Handouts(u) \cup {k}) = Cardinality(Handouts(u))
             \/ Cardinality(Handouts(u) \cup {k}) = Cardinality(Handouts(u)) + 1
      BY Zenon, <1>2, FS_AddElement
    <2>3. /\ Cardinality(Handouts(u)') <= Cardinality(Handouts(u) \cup {k})
          /\ Cardinality(Handouts(u)') \in Nat
      BY Zenon, <2>1, <2>2, FS_Subset, FS_CardinalityType
    <2>4. Owing(row[u]) = 1 /\ Owing(row'[u]) = 0 /\ row'[u].attempt = row[u].attempt
      BY Zenon, <1>1, <1>4 DEF Owing, InQueue, LeasedRow, RowsOK
    <2> QED BY <1>2, <1>3, <2>2, <2>3, <2>4
  <1>5. CASE u # t
    <2>1. Handouts(u)' \subseteq Handouts(u)
      BY Zenon, <1>1, <1>5 DEF Handouts, DispatchOK
    <2>2. /\ Cardinality(Handouts(u)') <= Cardinality(Handouts(u))
          /\ Cardinality(Handouts(u)') \in Nat
      BY Zenon, <1>2, <2>1, FS_Subset, FS_CardinalityType
    <2>3. row'[u] = row[u] /\ Owing(row[u]) \in {0, 1}
      BY Zenon, <1>1, <1>5 DEF RowsOK, Owing
    <2> QED BY <1>2, <1>3, <2>2, <2>3
  <1> QED BY Zenon, <1>4, <1>5

\* Every other step.
LEMMA PaidWorking ==
    ASSUME RowsOK, RowsOK', Paid, ChargeWrite, UNCHANGED dTask
    PROVE  Paid'
  <1> SUFFICES ASSUME NEW u \in Tasks
               PROVE  Cardinality(Handouts(u)') + Owing(row'[u]) <= row'[u].attempt
    BY Zenon DEF Paid, Handouts
  <1>1. /\ Cardinality(Handouts(u)) + Owing(row[u]) <= row[u].attempt
        /\ Cardinality(Handouts(u)) \in Nat
    BY Zenon, HandoutsFinite DEF Paid
  <1>2. Handouts(u)' = Handouts(u)
    BY Zenon DEF Handouts
  <1>3. row[u].attempt \in Nat /\ row'[u].attempt \in Nat
    BY Zenon DEF RowsOK, LiveRow, Row
  <1>4. Owing(row[u]) \in {0, 1} /\ Owing(row'[u]) \in {0, 1}
    BY Zenon DEF Owing
  <1>5. row[u].attempt + Owing(row'[u]) <= row'[u].attempt + Owing(row[u])
    BY Zenon, ChargeOf
  <1> QED BY <1>1, <1>2, <1>3, <1>4, <1>5

ChargeInv == Undisturbed => CopiesCurrent /\ Paid

\* Undisturbed, every step charges as ChargeWrite says and keeps copies and accounts.
LEMMA ChargesStep ==
    ASSUME LInv, LInv', ChargeInv, [Next]_vars, Undisturbed'
    PROVE  ChargeWrite /\ CopiesCurrent' /\ Paid'
  <1>0. /\ RowsOK /\ DispatchOK /\ LeaseIds /\ NodeOK /\ BudgetOK /\ RunPlaces /\ OneRun
        /\ ~Disturbing /\ Undisturbed /\ RowsOK' /\ LeaseHeld'
    BY Zenon, UndisturbedSoFar DEF LInv, IInv, LeaseInv
  <1>1. LeaseHeld /\ ExpiredSpent /\ CopiesCurrent /\ Paid
    BY Zenon, <1>0 DEF LInv, LeaseInv, ChargeInv
  <1>2. ChargeWrite
    BY Zenon, <1>0, <1>1, ChargeStep
  <1>3. CASE Leasing
    <2>1. PICK n \in Nodes, t \in Tasks : LeaseTask(n, t) \/ LeaseLost(n, t)
      BY Zenon, <1>3 DEF Leasing
    <2> DEFINE k == leaseSeq + 1
    <2>2. /\ k \in Leases /\ dTask' = [dTask EXCEPT ![k] = t]
          /\ row' = [row EXCEPT ![t] = LeasedRow(row[t], k)]
      BY Zenon, <2>1 DEF LeaseTask, LeaseLost
    <2>3. k > leaseSeq
      BY <1>0 DEF DispatchOK
    <2>4. dpc[k] = "none"
      BY Zenon, <1>0, <2>2, <2>3 DEF LeaseIds
    <2> HIDE DEF k
    <2>5. \A u \in Tasks : row'[u].lease # 0 =>
             row'[u].lease = row[u].lease \/ dpc[row'[u].lease] = "none"
      BY Zenon, <1>0, <2>2, <2>4 DEF RowsOK, LeasedRow
    <2>6. \A l \in Leases : dpc[l] # "none" => dTask'[l] = dTask[l]
      BY Zenon, <1>0, <2>2, <2>4 DEF DispatchOK
    <2>7. CopiesCurrent'
      BY Zenon, <1>0, <1>1, <1>2, <2>5, <2>6, CopiesStep
    <2>8. Paid'
      BY Zenon, <1>0, <1>1, <1>2, <2>1, PaidLeasing
    <2> QED BY Zenon, <1>2, <2>7, <2>8
  <1>4. CASE UNCHANGED <<leaseSeq, dTask, stalls, requeues>>
    <2>1. LeaseWrite
      BY Zenon, <1>0, <1>1, <1>4, WriteStep
    <2>2. \A u \in Tasks : row'[u].lease # 0 =>
             row'[u].lease = row[u].lease \/ dpc[row'[u].lease] = "none"
      BY Zenon, <2>1 DEF LeaseWrite, Kept, Cleared
    <2>3. CopiesCurrent'
      BY Zenon, <1>0, <1>1, <1>2, <1>4, <2>2, CopiesStep
    <2>4. Paid'
      BY Zenon, <1>0, <1>1, <1>2, <1>4, PaidWorking
    <2> QED BY Zenon, <1>2, <2>3, <2>4
  <1> QED BY Zenon, <1>0, <1>3, <1>4, StepKinds

\* Nothing has been leased or charged yet.
LEMMA InitCharge == Init => ChargeInv
  <1> SUFFICES ASSUME Init PROVE CopiesCurrent /\ Paid
    BY Zenon DEF ChargeInv
  <1>1. CopiesCurrent
    BY Zenon DEF Init, CopiesCurrent, SnapCurrent, ReadCurrent, SweptCurrent, Busy, NoRow
  <1>2. Paid
    <2> SUFFICES ASSUME NEW t \in Tasks
                 PROVE  Cardinality(Handouts(t)) + Owing(row[t]) <= row[t].attempt
      BY Zenon DEF Paid
    <2>1. Handouts(t) = {}
      BY Zenon, NamesAssumption DEF Init, Handouts
    <2>2. Cardinality(Handouts(t)) = 0 /\ Owing(row[t]) = 1 /\ row[t].attempt = 1
      BY Zenon, <2>1, FS_EmptySet DEF Init, Owing, InQueue
    <2> QED BY <2>2
  <1> QED BY Zenon, <1>1, <1>2

\* The accounts bound the number of leases.
LEMMA PaidLeases == IInv /\ ChargeInv => LeasesPaid
  <1> SUFFICES ASSUME IInv, ChargeInv, Undisturbed, NEW t \in Tasks
               PROVE  Cardinality(Handouts(t)) <= row[t].attempt
    BY Zenon DEF LeasesPaid
  <1>1. Cardinality(Handouts(t)) + Owing(row[t]) <= row[t].attempt /\ Cardinality(Handouts(t)) \in Nat
    BY Zenon, HandoutsFinite DEF ChargeInv, Paid
  <1>2. row[t].attempt \in Nat /\ Owing(row[t]) \in {0, 1}
    BY Zenon DEF IInv, RowsOK, LiveRow, Row, Owing
  <1> QED BY <1>1, <1>2

\* For any number of nodes, tasks, leases, crashes, failing statements and
\* cancellations: while dispatches renew in time and no operator puts a task
\* back in the queue, two runs never work untold on one task, because the
\* dispatch, the recovery sweep and the executor take a lease from a row only
\* when its run is over or has been told to stop.
THEOREM OneWorker == Spec => []SingleWorker
  <1>1. Init => LInv
    BY Zenon, InitLInv
  <1>2. LInv /\ [Next]_vars => LInv'
    BY Zenon, NextLInv
  <1>3. LInv => SingleWorker
    BY Zenon, HeldSingle
  <1> QED BY <1>1, <1>2, <1>3, PTL DEF Spec

\* Under the same conditions no statement, the full-row Update of handleFailure
\* included, writes a lease id to a row that has lost it.
THEOREM LeasesNeverReturn == Spec => LeaseNeverReturns
  <1>1. Init => LInv
    BY Zenon, InitLInv
  <1>2. LInv /\ [Next]_vars => LInv'
    BY Zenon, NextLInv
  <1>3. LInv /\ [Next]_vars =>
          [Undisturbed =>
             \A t \in Tasks : \/ row'[t].lease \in {row[t].lease, 0}
                              \/ row'[t].lease = leaseSeq' /\ leaseSeq' > leaseSeq]_vars
    BY Zenon, LeaseStep
  <1> QED BY <1>1, <1>2, <1>3, PTL DEF Spec, LeaseNeverReturns

\* Under the same conditions every attempt is counted: the dispatch that fails,
\* the sweep and the run that ends write an attempt count computed from an older
\* copy, but the lease they write under shows that the copy is current.
THEOREM AttemptsCharged == Spec => ChargedOnce
  <1>1. Init => LInv /\ ChargeInv
    BY Zenon, InitLInv, InitCharge
  <1>2. LInv /\ ChargeInv /\ [Next]_vars => (LInv /\ ChargeInv)'
    BY Zenon, NextLInv, ChargesStep DEF ChargeInv
  <1>3. LInv /\ ChargeInv /\ [Next]_vars =>
          [Undisturbed' =>
             \A t \in Tasks :
                /\ row'[t].attempt >= row[t].attempt
                /\ InQueue(row'[t]) /\ ~InQueue(row[t]) => row'[t].attempt = row[t].attempt + 1]_vars
    <2>1. LInv => RowsOK
      BY Zenon DEF LInv, IInv
    <2>2. LInv' => RowsOK'
      BY Zenon DEF LInv, IInv
    <2> QED BY Zenon, <2>1, <2>2, NextLInv, ChargesStep, ChargeOf
  <1> QED BY <1>1, <1>2, <1>3, PTL DEF Spec, ChargedOnce

\* Under the same conditions a task is handed out once per attempt at most,
\* whatever leases die with their node or are granted without anybody knowing.
THEOREM HandoutsPaid == Spec => []LeasesPaid
  <1>1. Init => LInv /\ ChargeInv
    BY Zenon, InitLInv, InitCharge
  <1>2. LInv /\ ChargeInv /\ [Next]_vars => (LInv /\ ChargeInv)'
    BY Zenon, NextLInv, ChargesStep DEF ChargeInv
  <1>3. LInv /\ ChargeInv => LeasesPaid
    BY Zenon, PaidLeases DEF LInv
  <1> QED BY <1>1, <1>2, <1>3, PTL DEF Spec

=============================================================================
