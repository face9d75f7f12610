----------------------- MODULE CrossProjectCallsProofs -----------------------
(***************************************************************************)
(* CompletedIsTrue, WakeOwed, ResolvedOnce and EndedKept, for any number   *)
(* of calls, attempts, scanners and faults.                                *)
(***************************************************************************)
EXTENDS CrossProjectCalls, TLAPS

\* Calls are made one after the other, and a run that is under way does not wait.
Shape ==
    /\ \A c \in Calls : c > made => cpc[c] = "none" /\ callee[c] = "none"
    /\ ppc = "callee" => callee[made] = "none"
    /\ ppc \in {"callee", "stamp", "flip", "paused", "release"} => made >= 1
    /\ caller = "WAITING_FOR_CHILDREN" => made >= 1
    /\ ppc \in {"entry", "callee", "stamp", "flip", "after"} =>
         caller # "WAITING_FOR_CHILDREN"
    /\ ppc = "release" /\ released = "WAITING_FOR_CHILDREN" => caller # "RUNNING"

\* What a scanner has claimed is timed out, and remains so.
Claims ==
    /\ \A s \in Scanners : spc[s] = "idle" => batch[s] = {}
    /\ \A s \in Scanners : spc[s] # "claim" => \A c \in batch[s] : cpc[c] = "timed_out"
    /\ \A s \in Scanners : \A c \in batch[s] : cpc[c] # "none"
    /\ \A s \in Scanners :
         spc[s] \in {"wake", "cascade", "kill"} => hand[s] # 0 /\ cpc[hand[s]] = "timed_out"

\* A row that names its callee has one.
Names ==
    /\ ppc = "stamp" => callee[made] # "none"
    /\ \A c \in stamped : callee[c] # "none"
    /\ \A s \in Scanners : named[s] \subseteq stamped
    /\ \A s \in Scanners : spc[s] = "kill" => hand[s] \in named[s]

\* A run works on a task that has not ended by itself, and an answer on its way
\* is that of a completed task, unless the call has timed out meanwhile or the
\* callee is recorded as undone.
Runs ==
    /\ \A c \in Calls : rpc[c] # "idle" => callee[c] # "none"
    /\ \A c \in Calls : rpc[c] = "work" => callee[c] \in {"RUNNING", "CANCELLED"}
    /\ \A c \in Calls : rpc[c] = "success" =>
         callee[c] = "COMPLETED" \/ cpc[c] = "timed_out" \/ c \in undone

\* A caller that is about to wait for a timed-out call: its row is yet to be
\* handled.
Coming ==
    ppc \in {"callee", "stamp", "flip"} /\ cpc[made] = "timed_out" /\ missed = {} =>
        \E s \in Scanners : spc[s] \in {"next", "wake", "cascade", "kill"} /\ made \in batch[s]

Owed == Coming /\ WakeOwed

IInv == TypeOK /\ Shape /\ Claims /\ Names /\ Runs /\ CompletedIsTrue /\ Owed

-----------------------------------------------------------------------------
\* The callee's row is written by someone other than its run.
Moved(c) == CalleeGivenBack(c) \/ CalleeMisread(c) \/ RecoverCallee(c) \/ Requeue(c)

\* A callee that is given back or re-queued: only its row changes.
LEMMA CalleeBack ==
    ASSUME TypeOK, NEW c \in Calls, NEW t \in {"QUEUED", "FAILED"}, CalleeTo(c, t)
    PROVE  /\ callee' \in [Calls -> CalleeStatus]
           /\ callee'[c] \in {"QUEUED", "FAILED"}
           /\ \A d \in Calls : d # c => callee'[d] = callee[d]
<1>1. callee \in [Calls -> CalleeStatus] /\ t \in CalleeStatus
  BY Zenon DEF TypeOK, CalleeTypes, CalleeStatus
<1>2. callee' = [callee EXCEPT ![c] = t]
  BY Zenon DEF CalleeTo
<1> QED BY Zenon, <1>1, <1>2

\* What Moved(c) leaves alone, and what becomes of c.
LEMMA MovedCallee ==
    ASSUME TypeOK, Runs, NEW c \in Calls, Moved(c)
    PROVE  /\ UNCHANGED <<callerVars, ledger, wakeVars, scanVars, up, missed>>
           /\ callee' \in [Calls -> CalleeStatus]
           /\ rpc' = rpc \/ rpc' = [rpc EXCEPT ![c] = "idle"]
           /\ rpc'[c] # "work"
           /\ undone' = undone \/ undone' = undone \union {c}
           /\ \A d \in Calls : d # c => callee'[d] = callee[d]
           /\ \/ callee'[c] = callee[c]
              \/ /\ callee[c] # "none" /\ callee'[c] # "none"
                 /\ c \in undone' \/ (callee[c] = "RUNNING" /\ rpc'[c] = "idle")
<1>t. rpc \in [Calls -> {"idle", "work", "success", "failure", "wake"}]
  BY Zenon DEF TypeOK, CalleeTypes
<1>1. CASE CalleeGivenBack(c)
  <2>1. /\ UNCHANGED <<callerVars, ledger, undone, wakeVars, scanVars, up, missed>>
        /\ rpc' = [rpc EXCEPT ![c] = "idle"] /\ callee[c] = "RUNNING"
    BY Zenon, <1>1 DEF CalleeGivenBack, RunTo
  <2>2. PICK t \in {"QUEUED", "FAILED"} : CalleeTo(c, t)
    BY Zenon, <1>1 DEF CalleeGivenBack, GiveCalleeBack
  <2> QED BY Zenon, <1>t, <2>1, <2>2, CalleeBack
<1>2. CASE RecoverCallee(c)
  <2>1. /\ UNCHANGED <<callerVars, ledger, undone, wakeVars, scanVars, up, missed>>
        /\ rpc' = rpc /\ rpc[c] = "idle" /\ callee[c] = "RUNNING"
    BY Zenon, <1>2 DEF RecoverCallee
  <2>2. PICK t \in {"QUEUED", "FAILED"} : CalleeTo(c, t)
    BY Zenon, <1>2 DEF RecoverCallee, GiveCalleeBack
  <2> QED BY Zenon, <1>t, <2>1, <2>2, CalleeBack
<1>3. CASE Requeue(c)
  <2>1. /\ UNCHANGED <<callerVars, ledger, wakeVars, scanVars, up, missed>>
        /\ rpc' = rpc /\ rpc[c] # "work" /\ callee[c] # "none"
        /\ undone' = undone \union {c}
    BY Zenon, <1>3 DEF Requeue, Ended
  <2>2. CalleeTo(c, "QUEUED")
    BY Zenon, <1>3 DEF Requeue
  <2> QED BY Zenon, <1>t, <2>1, <2>2, CalleeBack
<1>4. CASE CalleeMisread(c)
  <2>1. /\ UNCHANGED <<callerVars, ledger, wakeVars, scanVars, up, missed>>
        /\ rpc' = [rpc EXCEPT ![c] = "idle"] /\ callee[c] # "none"
    BY Zenon, <1>4 DEF CalleeMisread, RunTo, Runs
  <2>2. CASE UNCHANGED <<callee, undone>>
    BY Zenon, <1>t, <2>1, <2>2 DEF TypeOK, CalleeTypes
  <2>3. CASE /\ GiveCalleeBack(c)
             /\ undone' = undone \union {c}
    BY Zenon, <1>t, <2>1, <2>3, CalleeBack DEF GiveCalleeBack
  <2> QED BY Zenon, <1>4, <2>2, <2>3 DEF CalleeMisread
<1> QED BY Zenon, <1>1, <1>2, <1>3, <1>4 DEF Moved

\* Nothing has been called: the initial states satisfy IInv.
LEMMA InitInv == Init => IInv
<1> SUFFICES ASSUME Init PROVE IInv
  OBVIOUS
<1>1. TypeOK
  <2>1. caller \in Status
    BY CallsAssumption DEF Status, Init
  <2>2. callee \in [Calls -> CalleeStatus]
    BY CallsAssumption DEF CalleeStatus, Init
  <2>8. leased \in BOOLEAN
    BY Zenon DEF Init
  <2>9. ppc = "idle" /\ made \in 0..MaxCalls /\ released \in Status
    BY CallsAssumption DEF Status, Init
  <2>3. CallerTypes
    BY Zenon, <2>1, <2>8, <2>9 DEF CallerTypes
  <2>6. LedgerTypes
    BY Zenon DEF LedgerTypes, Init
  <2>7. CalleeTypes
    BY Zenon, <2>2 DEF CalleeTypes, Init
  <2>4. WakeTypes
    BY CallsAssumption DEF WakeTypes, Init
  <2>5. ScanTypes /\ RestTypes
    BY CallsAssumption DEF ScanTypes, RestTypes, Init
  <2> QED BY Zenon, <2>3, <2>4, <2>5, <2>6, <2>7 DEF TypeOK
<1>2. Shape /\ Claims /\ Names /\ Runs
  BY Zenon DEF Shape, Claims, Names, Runs, Init
<1>3. CompletedIsTrue /\ Owed
  BY Zenon DEF CompletedIsTrue, Owed, Coming, WakeOwed, Init
<1> QED BY Zenon, <1>1, <1>2, <1>3 DEF IInv

\* No step but the recorded ones loses a wake-up.
LEMMA OwedStep ==
    TypeOK /\ Shape /\ Claims /\ Owed /\ [Next]_vars => Owed'
<1> SUFFICES ASSUME TypeOK, Shape, Claims, Owed, [Next]_vars PROVE Owed'
  OBVIOUS
<1>1. CASE UNCHANGED <<caller, ppc, made, cpc, spc, batch, missed>>
  BY Zenon, <1>1 DEF Owed, Coming, WakeOwed, InHand
<1>2. CASE Lease
  <2>1. caller' # "WAITING_FOR_CHILDREN" /\ ppc' \in {"idle", "entry"}
    BY Zenon, <1>2 DEF Lease
  <2> QED BY Zenon, <2>1 DEF Owed, Coming, WakeOwed
<1>3. CASE Finish
  <2>1. caller' # "WAITING_FOR_CHILDREN" /\ ppc' \in {"idle", "entry"}
    BY Zenon, <1>3 DEF Finish
  <2> QED BY Zenon, <2>1 DEF Owed, Coming, WakeOwed
<1>4. CASE FinishBadly
  <2>1. caller' # "WAITING_FOR_CHILDREN" /\ ppc' \in {"idle", "entry"}
    BY Zenon, <1>4 DEF FinishBadly, GiveBack
  <2> QED BY Zenon, <2>1 DEF Owed, Coming, WakeOwed
<1>5. CASE CreateCall
  <2>1. made' \in Calls /\ cpc'[made'] = "pending"
    BY <1>5, CallsAssumption DEF CreateCall, TypeOK, CallerTypes, LedgerTypes, Calls
  <2> QED BY Zenon, <2>1 DEF Owed, Coming, WakeOwed
<1>6. CASE CreateCallee
  BY Zenon, <1>6 DEF CreateCallee, ledger, scanVars, Owed, Coming, WakeOwed, InHand
<1>7. CASE CreateCalleeFails
  BY Zenon, <1>7 DEF CreateCalleeFails, Owed, Coming, WakeOwed, Shape
<1>8. CASE Stamp
  BY Zenon, <1>8 DEF Stamp, scanVars, Owed, Coming, WakeOwed, InHand
<1>9. CASE StampFails
  BY Zenon, <1>9 DEF StampFails, ledger, scanVars, Owed, Coming, WakeOwed, InHand
<1>10. CASE Flip
  BY Zenon, <1>10 DEF Flip, ledger, scanVars, Owed, Coming, WakeOwed, InHand
<1>11. CASE FlipFails
  BY Zenon, <1>11 DEF FlipFails, Owed, Coming, WakeOwed
<1>12. CASE CheckpointFails
  <2>1. caller' # "WAITING_FOR_CHILDREN" /\ ppc' \in {"idle", "entry"}
    BY Zenon, <1>12 DEF CheckpointFails, GiveBack
  <2> QED BY Zenon, <2>1 DEF Owed, Coming, WakeOwed
<1>13. CASE FinishFailed
  <2>1. caller' # "WAITING_FOR_CHILDREN" /\ ppc' \in {"idle", "entry"}
    BY Zenon, <1>13 DEF FinishFailed, GiveBack
  <2> QED BY Zenon, <2>1 DEF Owed, Coming, WakeOwed
<1>14. CASE Reload
  BY Zenon, <1>14 DEF Reload, ledger, scanVars, Owed, Coming, WakeOwed, InHand
<1>15. CASE Release
  BY Zenon, <1>15 DEF Release, ledger, scanVars, Shape, Owed, Coming, WakeOwed, InHand
<1>16. CASE RecoverCaller
  <2>1. caller' # "WAITING_FOR_CHILDREN" /\ ppc' \in {"idle", "entry"}
    BY Zenon, <1>16 DEF RecoverCaller, GiveBack
  <2> QED BY Zenon, <2>1 DEF Owed, Coming, WakeOwed
<1>17. ASSUME NEW c \in Calls, Resolve(c) PROVE Owed'
  <2>1. \A d \in Calls : cpc'[d] = "timed_out" => cpc[d] = "timed_out"
    BY Zenon, <1>17 DEF Resolve, Mark, Answers, TypeOK, LedgerTypes
  <2>2. UNCHANGED <<caller, ppc, made, missed, spc, batch>>
    BY Zenon, <1>17 DEF Resolve, callerVars, scanVars
  <2>3. ppc \in {"callee", "stamp", "flip"} \/ caller = "WAITING_FOR_CHILDREN"
           => made \in Calls
    BY DEF TypeOK, CallerTypes, Calls, Shape
  <2> QED BY Zenon, <2>1, <2>2, <2>3 DEF Owed, Coming, WakeOwed, InHand
<1>18. ASSUME NEW w \in Wakers, WakeWrite(w) PROVE Owed'
  BY Zenon, <1>18 DEF WakeWrite, Movable, ledger, scanVars, Owed, Coming, WakeOwed
<1>19. ASSUME NEW s \in Scanners, ClaimSelect(s) PROVE Owed'
  BY Zenon, <1>19 DEF ClaimSelect, ScanTo, callerVars, ledger, TypeOK, ScanTypes, Owed,
     Coming, WakeOwed, InHand
<1>20. ASSUME NEW s \in Scanners, ClaimUpdate(s) PROVE Owed'
  BY <1>20 DEF ClaimUpdate, Claim, ScanTo, callerVars, TypeOK, CallerTypes, ScanTypes, Calls,
     Shape, Owed, Coming, WakeOwed, InHand
<1>21. ASSUME NEW s \in Scanners, ScanCaller(s) PROVE Owed'
  <2>1. PICK c \in batch[s] :
           /\ batch' = [batch EXCEPT ![s] = @ \ {c}]
           /\ missed' = IF ~WakesFor /\ WaitsFor(c) THEN missed \union {"early"} ELSE missed
    BY Zenon, <1>21 DEF ScanCaller
  <2>2. UNCHANGED <<caller, ppc, made, cpc>>
    BY Zenon, <1>21 DEF ScanCaller, callerVars, ledger
  <2>3. spc' = [spc EXCEPT ![s] = IF WakesFor THEN "wake" ELSE "cascade"] /\ spc[s] = "next"
    BY Zenon, <1>21 DEF ScanCaller, ScanTo
  <2>4. CASE WakesFor
    <3>1. Coming'
      BY Zenon, <2>2, <2>4 DEF WakesFor, Coming, Shape
    <3>2. WakeOwed'
      BY Zenon, <2>3, <2>4 DEF WakeOwed, InHand, TypeOK, ScanTypes
    <3> QED BY Zenon, <3>1, <3>2 DEF Owed
  <2>5. CASE ~WakesFor
    <3>1. WakeOwed'
      BY Zenon, <2>2, <2>5 DEF WakesFor, WakeOwed
    <3>2. ASSUME ppc \in {"callee", "stamp", "flip"}, cpc[made] = "timed_out", missed' = {}
          PROVE  \E t \in Scanners :
                    spc'[t] \in {"next", "wake", "cascade", "kill"} /\ made \in batch'[t]
      <4>1. c # made /\ missed = {}
        BY Zenon, <2>1, <2>5, <3>2 DEF WaitsFor
      <4>2. PICK t \in Scanners :
               spc[t] \in {"next", "wake", "cascade", "kill"} /\ made \in batch[t]
        BY Zenon, <3>2, <4>1 DEF Owed, Coming
      <4> QED BY Zenon, <2>1, <2>3, <2>5, <4>1, <4>2 DEF TypeOK, ScanTypes
    <3>3. Coming'
      BY Zenon, <2>2, <3>2 DEF Coming
    <3> QED BY Zenon, <3>1, <3>3 DEF Owed
  <2> QED BY Zenon, <2>4, <2>5
<1>22. ASSUME NEW s \in Scanners, ScanWake(s) PROVE Owed'
  BY Zenon, <1>22 DEF ScanWake, ScanTo, ledger, TypeOK, ScanTypes, Owed, Coming,
     WakeOwed
<1>23. ASSUME NEW s \in Scanners, ScanWakeFails(s) PROVE Owed'
  BY Zenon, <1>23 DEF ScanWakeFails, Owed, Coming, WakeOwed
<1>24. ASSUME NEW s \in Scanners, ScanCallee(s) PROVE Owed'
  BY <1>24 DEF ScanCallee, ScanTo, callerVars, ledger, Owed, Coming, WakeOwed, InHand
<1>25. ASSUME NEW s \in Scanners, ScanReturns(s) PROVE Owed'
  BY Zenon, <1>25 DEF ScanReturns, ScanTo, HandDone, callerVars, ledger, TypeOK, ScanTypes,
     Owed, Coming, WakeOwed, InHand
<1>26. ASSUME NEW s \in Scanners, ScanKill(s) PROVE Owed'
  BY <1>26 DEF ScanKill, ScanTo, HandDone, callerVars, ledger, Owed, Coming, WakeOwed,
     InHand
<1>27. ASSUME NEW s \in Scanners, ScanCalleeFails(s) PROVE Owed'
  BY Zenon, <1>27 DEF ScanCalleeFails, ScanTo, HandDone, callerVars, ledger, TypeOK,
     ScanTypes, Owed, Coming, WakeOwed, InHand
<1>28. ASSUME NEW c \in Calls, AdminCancel(c) PROVE Owed'
  <2>1. \A d \in Calls : cpc'[d] = "timed_out" => cpc[d] = "timed_out"
    BY Zenon, <1>28 DEF AdminCancel, Mark, TypeOK, LedgerTypes
  <2>2. UNCHANGED <<caller, ppc, made, missed, spc, batch>>
    BY Zenon, <1>28 DEF AdminCancel, callerVars, scanVars
  <2>3. ppc \in {"callee", "stamp", "flip"} \/ caller = "WAITING_FOR_CHILDREN"
           => made \in Calls
    BY DEF TypeOK, CallerTypes, Calls, Shape
  <2> QED BY Zenon, <2>1, <2>2, <2>3 DEF Owed, Coming, WakeOwed, InHand
<1>29. CASE Crash
  BY Zenon, <1>29 DEF Crash, ledger, Owed, Coming, WakeOwed, InHand
<1>30. CASE CallerMisread
  <2>1. ppc' = "idle" /\ caller' # "WAITING_FOR_CHILDREN"
    BY Zenon, <1>30 DEF CallerMisread, GiveBack
  <2> QED BY Zenon, <2>1 DEF Owed, Coming, WakeOwed
<1>31. CASE ReleaseFails
  BY Zenon, <1>31 DEF ReleaseFails, ledger, scanVars, Owed, Coming, WakeOwed, InHand
<1>32. ASSUME NEW s \in Scanners, ClaimFails(s) PROVE Owed'
  <2>1. missed' # {} \/ UNCHANGED <<cpc, missed>>
    BY Zenon, <1>32 DEF ClaimFails
  <2>2. UNCHANGED <<caller, ppc, made>>
    BY Zenon, <1>32 DEF ClaimFails, callerVars
  <2>3. /\ spc[s] = "claim"
        /\ \A t \in Scanners : t # s => spc'[t] = spc[t] /\ batch'[t] = batch[t]
    BY Zenon, <1>32 DEF ClaimFails, ScanTo, TypeOK, ScanTypes
  <2> QED BY Zenon, <2>1, <2>2, <2>3 DEF Owed, Coming, WakeOwed, InHand
<1>33. ASSUME NEW s \in Scanners, ScanCallerFails(s) PROVE Owed'
  BY Zenon, <1>33 DEF ScanCallerFails, Owed, Coming, WakeOwed
<1> QED BY ZenonT(60), <1>1, <1>2, <1>3, <1>4, <1>5, <1>6, <1>7, <1>8, <1>9, <1>10, <1>11,
           <1>12, <1>13, <1>14, <1>15, <1>16, <1>17, <1>18, <1>19, <1>20, <1>21, <1>22,
           <1>23, <1>24, <1>25, <1>26, <1>27, <1>28, <1>29, <1>30, <1>31, <1>32, <1>33,
           CallsAssumption DEF Next, Run, CalleeStep, Wake, Scan, vars, CalleeLease,
           CalleeSucceeds, CalleeFails, CancelRunning, CancelQueued, ResolveFails,
           CalleeGivenBack, CalleeReleased, RecoverCallee, WakeRead, WakeReturns, Restart,
           calleeVars, callerVars, ledger, scanVars, wakeVars, CalleeUnwritten,
           CalleeMisread, Requeue, WakeFails

\* TaskCompleted gives back a row of the right type.
LEMMA GiveBackTypes ==
    ASSUME GiveBack
    PROVE  caller' \in Status /\ leased' = FALSE
BY Zenon DEF GiveBack, Status

\* Every step preserves the types of the caller, ...
LEMMA CallerTypesStep ==
    TypeOK /\ Shape /\ [Next]_vars => CallerTypes'
<1> SUFFICES ASSUME TypeOK, Shape, [Next]_vars PROVE CallerTypes'
  OBVIOUS
<1>1. CASE UNCHANGED <<caller, leased, ppc, made, released>>
  BY Zenon, <1>1 DEF TypeOK, CallerTypes
<1>2. CASE Lease
  BY Zenon, <1>2 DEF Lease, TypeOK, CallerTypes, Status
<1>3. CASE Finish
  BY Zenon, <1>3 DEF Finish, TypeOK, CallerTypes, Status
<1>4. CASE FinishBadly
  BY Zenon, <1>4, GiveBackTypes DEF FinishBadly, TypeOK, CallerTypes
<1>5. CASE CreateCall
  BY <1>5, CallsAssumption DEF CreateCall, TypeOK, CallerTypes
<1>6. CASE CreateCallee
  BY Zenon, <1>6 DEF CreateCallee, TypeOK, CallerTypes
<1>7. CASE CreateCalleeFails
  BY Zenon, <1>7 DEF CreateCalleeFails, TypeOK, CallerTypes
<1>8. CASE Stamp
  BY Zenon, <1>8 DEF Stamp, TypeOK, CallerTypes
<1>9. CASE StampFails
  BY Zenon, <1>9 DEF StampFails, TypeOK, CallerTypes
<1>10. CASE Flip
  BY Zenon, <1>10 DEF Flip, TypeOK, CallerTypes, Status
<1>11. CASE FlipFails
  BY Zenon, <1>11 DEF FlipFails, TypeOK, CallerTypes
<1>12. CASE CheckpointFails
  BY Zenon, <1>12, GiveBackTypes DEF CheckpointFails, TypeOK, CallerTypes
<1>13. CASE FinishFailed
  BY Zenon, <1>13, GiveBackTypes DEF FinishFailed, TypeOK, CallerTypes
<1>14. CASE Reload
  BY Zenon, <1>14 DEF Reload, TypeOK, CallerTypes, Status
<1>15. CASE Release
  BY Zenon, <1>15 DEF Release, TypeOK, CallerTypes, Status
<1>16. CASE RecoverCaller
  BY Zenon, <1>16, GiveBackTypes DEF RecoverCaller, TypeOK, CallerTypes
<1>17. ASSUME NEW w \in Wakers, WakeWrite(w) PROVE CallerTypes'
  BY Zenon, <1>17 DEF WakeWrite, TypeOK, CallerTypes, Status
<1>18. ASSUME NEW s \in Scanners, ScanWake(s) PROVE CallerTypes'
  BY Zenon, <1>18 DEF ScanWake, TypeOK, CallerTypes, Status
<1>19. CASE Crash
  BY Zenon, <1>19 DEF Crash, TypeOK, CallerTypes, Status
<1>20. CASE CallerMisread
  BY Zenon, <1>20, GiveBackTypes DEF CallerMisread, TypeOK, CallerTypes, Status
<1>21. CASE ReleaseFails
  BY Zenon, <1>21 DEF ReleaseFails, TypeOK, CallerTypes, Status
<1> QED BY ZenonT(60), <1>1, <1>2, <1>3, <1>4, <1>5, <1>6, <1>7, <1>8, <1>9, <1>10, <1>11,
           <1>12, <1>13, <1>14, <1>15, <1>16, <1>17, <1>18, <1>19, <1>20, <1>21,
           CallsAssumption DEF Next, Run, CalleeStep, Wake, Scan, vars, CalleeLease,
           CalleeSucceeds, CalleeFails, CancelRunning, CancelQueued, Resolve,
           ResolveFails, CalleeGivenBack, CalleeReleased, RecoverCallee, WakeRead,
           WakeReturns, ClaimSelect, ClaimUpdate, ScanCaller, ScanWakeFails, ScanCallee,
           ScanReturns, ScanKill, ScanCalleeFails, AdminCancel, Restart, calleeVars,
           callerVars, ledger, scanVars, wakeVars, CalleeUnwritten, CalleeMisread,
           Requeue, WakeFails, ClaimFails, ScanCallerFails

\* ... of the ledger, ...
LEMMA LedgerTypesStep ==
    TypeOK /\ Shape /\ [Next]_vars => LedgerTypes'
<1> SUFFICES ASSUME TypeOK, Shape, [Next]_vars PROVE LedgerTypes'
  OBVIOUS
<1>1. CASE UNCHANGED <<cpc, stamped>>
  BY Zenon, <1>1 DEF TypeOK, LedgerTypes
<1>2. CASE CreateCall
  BY Zenon, <1>2 DEF CreateCall, TypeOK, LedgerTypes
<1>3. CASE CreateCalleeFails
  BY Zenon, <1>3 DEF CreateCalleeFails, Mark, TypeOK, LedgerTypes, Resolved
<1>4. CASE Stamp
  <2>1. made \in Calls
    BY <1>4 DEF Stamp, TypeOK, CallerTypes, Calls, Shape
  <2> QED BY Zenon, <1>4, <2>1 DEF Stamp, TypeOK, LedgerTypes
<1>5. ASSUME NEW c \in Calls, Resolve(c) PROVE LedgerTypes'
  <2>1. PICK t \in Answers(c) : Mark(c, t)
    BY Zenon, <1>5 DEF Resolve
  <2>2. t \in Resolved
    BY Zenon DEF Answers, Resolved
  <2>3. stamped' = stamped
    BY Zenon, <1>5 DEF Resolve
  <2>4. cpc' \in [Calls -> {"none", "pending"} \union Resolved]
    BY Zenon, <2>1, <2>2 DEF Mark, TypeOK, LedgerTypes
  <2> QED BY Zenon, <2>3, <2>4 DEF TypeOK, LedgerTypes
<1>7. ASSUME NEW s \in Scanners, ClaimUpdate(s) PROVE LedgerTypes'
  BY Zenon, <1>7 DEF ClaimUpdate, Claim, TypeOK, LedgerTypes, Resolved
<1>8. ASSUME NEW c \in Calls, AdminCancel(c) PROVE LedgerTypes'
  BY Zenon, <1>8 DEF AdminCancel, Mark, TypeOK, LedgerTypes, Resolved
<1>9. ASSUME NEW s \in Scanners, ClaimFails(s) PROVE LedgerTypes'
  BY Zenon, <1>9 DEF ClaimFails, Claim, TypeOK, LedgerTypes, Resolved
<1> QED BY ZenonT(60), <1>1, <1>2, <1>3, <1>4, <1>5, <1>7, <1>8, <1>9, CallsAssumption DEF
           Next, Run, CalleeStep, Wake, Scan, vars, Lease, Finish, FinishBadly,
           CreateCallee, StampFails, Flip, FlipFails, CheckpointFails, FinishFailed,
           Reload, Release, RecoverCaller, CalleeLease, CalleeSucceeds, CalleeFails,
           CancelRunning, CancelQueued, ResolveFails, CalleeGivenBack, CalleeReleased,
           RecoverCallee, WakeRead, WakeReturns, WakeWrite, ClaimSelect, ScanCaller,
           ScanWake, ScanWakeFails, ScanCallee, ScanReturns, ScanKill, ScanCalleeFails,
           Crash, Restart, calleeVars, callerVars, ledger, scanVars, wakeVars,
           CallerMisread, ReleaseFails, CalleeUnwritten, CalleeMisread, Requeue,
           WakeFails, ScanCallerFails

\* ... of the callees, ...
LEMMA CalleeTypesStep ==
    TypeOK /\ Shape /\ Runs /\ [Next]_vars => CalleeTypes'
<1> SUFFICES ASSUME TypeOK, Shape, Runs, [Next]_vars PROVE CalleeTypes'
  OBVIOUS
<1>1. CASE UNCHANGED <<callee, rpc, undone>>
  BY Zenon, <1>1 DEF TypeOK, CalleeTypes
<1>2. CASE CreateCallee
  BY <1>2, CallsAssumption DEF CreateCallee, TypeOK, CallerTypes, CalleeTypes,
     CalleeStatus, Calls, Shape
<1>3. ASSUME NEW c \in Calls, CalleeLease(c) PROVE CalleeTypes'
  BY Zenon, <1>3 DEF CalleeLease, CalleeTo, RunTo, TypeOK, CalleeTypes,
     CalleeStatus
<1>4. ASSUME NEW c \in Calls, CalleeSucceeds(c) PROVE CalleeTypes'
  BY Zenon, <1>4 DEF CalleeSucceeds, CalleeTo, RunTo, TypeOK, CalleeTypes,
     CalleeStatus
<1>5. ASSUME NEW c \in Calls, CalleeFails(c) PROVE CalleeTypes'
  BY Zenon, <1>5 DEF CalleeFails, CalleeTo, RunTo, TypeOK, CalleeTypes,
     CalleeStatus
<1>7. ASSUME NEW c \in Calls, CancelRunning(c) PROVE CalleeTypes'
  BY Zenon, <1>7 DEF CancelRunning, CalleeTo, RunTo, TypeOK, CalleeTypes,
     CalleeStatus
<1>8. ASSUME NEW c \in Calls, CancelQueued(c) PROVE CalleeTypes'
  BY Zenon, <1>8 DEF CancelQueued, CalleeTo, TypeOK, CalleeTypes, CalleeStatus
<1>9. ASSUME NEW c \in Calls, Resolve(c) PROVE CalleeTypes'
  BY Zenon, <1>9 DEF Resolve, RunTo, TypeOK, CalleeTypes
<1>10. ASSUME NEW c \in Calls, ResolveFails(c) PROVE CalleeTypes'
  BY Zenon, <1>10 DEF ResolveFails, RunTo, TypeOK, CalleeTypes
<1>12. ASSUME NEW c \in Calls, CalleeReleased(c) PROVE CalleeTypes'
  BY Zenon, <1>12 DEF CalleeReleased, RunTo, TypeOK, CalleeTypes
<1>15. ASSUME NEW s \in Scanners, ScanKill(s) PROVE CalleeTypes'
  BY Zenon, <1>15 DEF ScanKill, CalleeTo, TypeOK, CalleeTypes, CalleeStatus
<1>16. CASE Crash
  BY Zenon, <1>16 DEF Crash, TypeOK, CalleeTypes
<1>17. ASSUME NEW c \in Calls, Moved(c) PROVE CalleeTypes'
  <2>1. callee' \in [Calls -> CalleeStatus]
    BY Zenon, <1>17, MovedCallee
  <2>2. rpc' = rpc \/ rpc' = [rpc EXCEPT ![c] = "idle"]
    BY Zenon, <1>17, MovedCallee
  <2>3. undone' = undone \/ undone' = undone \union {c}
    BY Zenon, <1>17, MovedCallee
  <2>4. rpc' \in [Calls -> {"idle", "work", "success", "failure", "wake"}]
    BY Zenon, <2>2 DEF TypeOK, CalleeTypes
  <2>5. undone' \subseteq Calls
    BY Zenon, <2>3 DEF TypeOK, CalleeTypes
  <2> QED BY Zenon, <2>1, <2>4, <2>5 DEF CalleeTypes
<1>18. ASSUME NEW c \in Calls, CalleeUnwritten(c) PROVE CalleeTypes'
  BY Zenon, <1>18 DEF CalleeUnwritten, RunTo, TypeOK, CalleeTypes
<1> QED BY ZenonT(60), <1>1, <1>2, <1>3, <1>4, <1>5, <1>7, <1>8, <1>9, <1>10, <1>12,
           <1>15, <1>16, <1>17, <1>18, CallsAssumption DEF Next, Run, CalleeStep, Wake,
           Scan, vars, Lease, Finish, FinishBadly, CreateCall, CreateCalleeFails, Stamp,
           StampFails, Flip, FlipFails, CheckpointFails, FinishFailed, Reload, Release,
           RecoverCaller, WakeRead, WakeReturns, WakeWrite, ClaimSelect, ClaimUpdate,
           ScanCaller, ScanWake, ScanWakeFails, ScanCallee, ScanReturns, ScanCalleeFails,
           AdminCancel, Restart, calleeVars, Moved, CallerMisread, ReleaseFails,
           WakeFails, ClaimFails, ScanCallerFails

\* ... of the wakers, ...
LEMMA WakeTypesStep ==
    TypeOK /\ Shape /\ [Next]_vars => WakeTypes'
<1> SUFFICES ASSUME TypeOK, Shape, [Next]_vars PROVE WakeTypes'
  OBVIOUS
<1>1. CASE UNCHANGED <<wpc, anyFailed>>
  BY Zenon, <1>1 DEF TypeOK, WakeTypes
<1>2. CASE Flip
  BY Zenon, <1>2 DEF Flip, WakeTo, TypeOK, WakeTypes
<1>3. CASE FlipFails
  BY Zenon, <1>3 DEF FlipFails, WakeTo, TypeOK, WakeTypes
<1>4. ASSUME NEW c \in Calls, CancelQueued(c) PROVE WakeTypes'
  BY Zenon, <1>4 DEF CancelQueued, WakeTo, TypeOK, WakeTypes
<1>5. ASSUME NEW c \in Calls, Resolve(c) PROVE WakeTypes'
  BY Zenon, <1>5 DEF Resolve, WakeTo, TypeOK, WakeTypes
<1>6. ASSUME NEW c \in Calls, ResolveFails(c) PROVE WakeTypes'
  BY Zenon, <1>6 DEF ResolveFails, WakeTo, TypeOK, WakeTypes
<1>7. ASSUME NEW w \in Wakers, WakeRead(w) PROVE WakeTypes'
  BY Zenon, <1>7 DEF WakeRead, WakeTo, TypeOK, CallerTypes, WakeTypes
<1>8. ASSUME NEW w \in Wakers, WakeReturns(w) PROVE WakeTypes'
  BY <1>8, CallsAssumption DEF WakeReturns, WakeTo, WakeEnds, TypeOK, WakeTypes
<1>9. ASSUME NEW w \in Wakers, WakeWrite(w) PROVE WakeTypes'
  BY <1>9, CallsAssumption DEF WakeWrite, WakeTo, WakeEnds, TypeOK, WakeTypes
<1>10. CASE Crash
  BY <1>10, CallsAssumption DEF Crash, WakeTypes
<1>11. CASE Restart
  BY Zenon, <1>11 DEF Restart, WakeTo, TypeOK, WakeTypes
<1>12. ASSUME NEW w \in Wakers, WakeFails(w) PROVE WakeTypes'
  BY <1>12, CallsAssumption DEF WakeFails, WakeTo, WakeEnds, TypeOK, WakeTypes
<1> QED BY ZenonT(60), <1>1, <1>2, <1>3, <1>4, <1>5, <1>6, <1>7, <1>8, <1>9, <1>10, <1>11,
           <1>12 DEF Next, Run, CalleeStep, Wake, Scan, vars, Lease, Finish, FinishBadly,
           CreateCall, CreateCallee, CreateCalleeFails, Stamp, StampFails,
           CheckpointFails, FinishFailed, Reload, Release, RecoverCaller, CalleeLease,
           CalleeSucceeds, CalleeFails, CancelRunning, CalleeGivenBack, CalleeReleased,
           RecoverCallee, ClaimSelect, ClaimUpdate, ScanCaller, ScanWake, ScanWakeFails,
           ScanCallee, ScanReturns, ScanKill, ScanCalleeFails, AdminCancel, calleeVars,
           scanVars, wakeVars, CallerMisread, ReleaseFails, CalleeUnwritten,
           CalleeMisread, Requeue, ClaimFails, ScanCallerFails

\* ... of the scanners, ...
LEMMA ScanTypesStep ==
    TypeOK /\ Shape /\ [Next]_vars => ScanTypes'
<1> SUFFICES ASSUME TypeOK, Shape, [Next]_vars PROVE ScanTypes'
  OBVIOUS
<1>1. CASE UNCHANGED <<spc, batch, named, hand>>
  BY Zenon, <1>1 DEF TypeOK, ScanTypes
<1>2. ASSUME NEW s \in Scanners, ClaimSelect(s) PROVE ScanTypes'
  BY Zenon, <1>2 DEF ClaimSelect, ScanTo, Due, TypeOK, ScanTypes
<1>3. ASSUME NEW s \in Scanners, ClaimUpdate(s) PROVE ScanTypes'
  BY Zenon, <1>3 DEF ClaimUpdate, ScanTo, TypeOK, ScanTypes
<1>4. ASSUME NEW s \in Scanners, ScanCaller(s) PROVE ScanTypes'
  BY <1>4 DEF ScanCaller, ScanTo, TypeOK, ScanTypes, Calls
<1>5. ASSUME NEW s \in Scanners, ScanWake(s) PROVE ScanTypes'
  BY Zenon, <1>5 DEF ScanWake, ScanTo, TypeOK, ScanTypes
<1>6. ASSUME NEW s \in Scanners, ScanWakeFails(s) PROVE ScanTypes'
  BY Zenon, <1>6 DEF ScanWakeFails, ScanTo, TypeOK, ScanTypes
<1>7. ASSUME NEW s \in Scanners, ScanCallee(s) PROVE ScanTypes'
  BY Zenon, <1>7 DEF ScanCallee, ScanTo, TypeOK, ScanTypes
<1>8. ASSUME NEW s \in Scanners, ScanReturns(s) PROVE ScanTypes'
  BY <1>8, CallsAssumption DEF ScanReturns, ScanTo, HandDone, TypeOK, ScanTypes
<1>9. ASSUME NEW s \in Scanners, ScanKill(s) PROVE ScanTypes'
  BY <1>9, CallsAssumption DEF ScanKill, ScanTo, HandDone, TypeOK, ScanTypes
<1>10. ASSUME NEW s \in Scanners, ScanCalleeFails(s) PROVE ScanTypes'
  BY <1>10, CallsAssumption DEF ScanCalleeFails, ScanTo, HandDone, TypeOK, ScanTypes
<1>11. CASE Crash
  BY <1>11, CallsAssumption DEF Crash, ScanTypes
<1>12. ASSUME NEW s \in Scanners, ClaimFails(s) PROVE ScanTypes'
  BY Zenon, <1>12 DEF ClaimFails, ScanTo, TypeOK, ScanTypes
<1>13. ASSUME NEW s \in Scanners, ScanCallerFails(s) PROVE ScanTypes'
  BY <1>13 DEF ScanCallerFails, ScanTo, TypeOK, ScanTypes, Calls
<1> QED BY ZenonT(60), <1>1, <1>2, <1>3, <1>4, <1>5, <1>6, <1>7, <1>8, <1>9, <1>10, <1>11,
           <1>12, <1>13, CallsAssumption DEF Next, Run, CalleeStep, Wake, Scan, vars,
           Lease, Finish, FinishBadly, CreateCall, CreateCallee, CreateCalleeFails, Stamp,
           StampFails, Flip, FlipFails, CheckpointFails, FinishFailed, Reload, Release,
           RecoverCaller, CalleeLease, CalleeSucceeds, CalleeFails, CancelRunning,
           CancelQueued, Resolve, ResolveFails, CalleeGivenBack, CalleeReleased,
           RecoverCallee, WakeRead, WakeReturns, WakeWrite, AdminCancel, Restart,
           scanVars, wakeVars, CallerMisread, ReleaseFails, CalleeUnwritten,
           CalleeMisread, Requeue, WakeFails

\* ... and of the history.
LEMMA RestTypesStep ==
    TypeOK /\ Shape /\ [Next]_vars => RestTypes'
<1> SUFFICES ASSUME TypeOK, Shape, [Next]_vars PROVE RestTypes'
  OBVIOUS
<1>1. CASE UNCHANGED <<up, missed, faults>>
  BY Zenon, <1>1 DEF TypeOK, RestTypes
<1>2. CASE CreateCalleeFails
  BY <1>2, CallsAssumption DEF CreateCalleeFails, Fault, TypeOK, RestTypes
<1>3. CASE StampFails
  BY <1>3, CallsAssumption DEF StampFails, Fault, TypeOK, RestTypes
<1>4. CASE FlipFails
  BY <1>4, CallsAssumption DEF FlipFails, Fault, TypeOK, RestTypes
<1>5. CASE CheckpointFails
  BY <1>5, CallsAssumption DEF CheckpointFails, Fault, TypeOK, RestTypes
<1>6. CASE Release
  BY Zenon, <1>6 DEF Release, TypeOK, RestTypes
<1>7. ASSUME NEW c \in Calls, CancelRunning(c) PROVE RestTypes'
  BY <1>7, CallsAssumption DEF CancelRunning, Fault, TypeOK, RestTypes
<1>8. ASSUME NEW c \in Calls, CancelQueued(c) PROVE RestTypes'
  BY <1>8, CallsAssumption DEF CancelQueued, Fault, TypeOK, RestTypes
<1>9. ASSUME NEW c \in Calls, ResolveFails(c) PROVE RestTypes'
  BY <1>9, CallsAssumption DEF ResolveFails, Fault, TypeOK, RestTypes
<1>10. ASSUME NEW s \in Scanners, ScanCaller(s) PROVE RestTypes'
  BY Zenon, <1>10 DEF ScanCaller, TypeOK, RestTypes
<1>11. ASSUME NEW s \in Scanners, ScanWakeFails(s) PROVE RestTypes'
  BY <1>11, CallsAssumption DEF ScanWakeFails, Fault, TypeOK, RestTypes
<1>12. ASSUME NEW s \in Scanners, ScanCalleeFails(s) PROVE RestTypes'
  BY <1>12, CallsAssumption DEF ScanCalleeFails, Fault, TypeOK, RestTypes
<1>13. ASSUME NEW c \in Calls, AdminCancel(c) PROVE RestTypes'
  BY <1>13, CallsAssumption DEF AdminCancel, Fault, TypeOK, RestTypes
<1>14. CASE Crash
  <2>1. missed' \subseteq missed \union {"cut"}
    BY Zenon, <1>14 DEF Crash
  <2>2. faults' \in 0..MaxFaults
    BY <1>14, CallsAssumption DEF Crash, Fault, TypeOK, RestTypes
  <2>3. up' \in BOOLEAN
    BY Zenon, <1>14 DEF Crash
  <2> QED BY Zenon, <2>1, <2>2, <2>3 DEF TypeOK, RestTypes
<1>15. CASE Restart
  BY Zenon, <1>15 DEF Restart, TypeOK, RestTypes
<1>16. CASE CallerMisread
  BY <1>16, CallsAssumption DEF CallerMisread, Fault, TypeOK, RestTypes
<1>17. CASE ReleaseFails
  BY <1>17, CallsAssumption DEF ReleaseFails, Fault, TypeOK, RestTypes
<1>18. ASSUME NEW c \in Calls, CalleeUnwritten(c) PROVE RestTypes'
  BY <1>18, CallsAssumption DEF CalleeUnwritten, Fault, TypeOK, RestTypes
<1>19. ASSUME NEW c \in Calls, CalleeMisread(c) PROVE RestTypes'
  BY <1>19, CallsAssumption DEF CalleeMisread, Fault, TypeOK, RestTypes
<1>20. ASSUME NEW c \in Calls, Requeue(c) PROVE RestTypes'
  BY <1>20, CallsAssumption DEF Requeue, Fault, TypeOK, RestTypes
<1>21. ASSUME NEW w \in Wakers, WakeFails(w) PROVE RestTypes'
  BY <1>21, CallsAssumption DEF WakeFails, Fault, TypeOK, RestTypes
<1>22. ASSUME NEW s \in Scanners, ClaimFails(s) PROVE RestTypes'
  <2>1. missed' \subseteq missed \union {"cut"} /\ up' = up
    BY Zenon, <1>22 DEF ClaimFails
  <2>2. faults' \in 0..MaxFaults
    BY <1>22, CallsAssumption DEF ClaimFails, Fault, TypeOK, RestTypes
  <2> QED BY Zenon, <2>1, <2>2 DEF TypeOK, RestTypes
<1>23. ASSUME NEW s \in Scanners, ScanCallerFails(s) PROVE RestTypes'
  BY <1>23, CallsAssumption DEF ScanCallerFails, Fault, TypeOK, RestTypes
<1>24. CASE CreateCall
  BY Zenon, <1>24 DEF CreateCall, TypeOK, RestTypes
<1> QED BY ZenonT(60), <1>1, <1>2, <1>3, <1>4, <1>5, <1>6, <1>7, <1>8, <1>9, <1>10, <1>11,
           <1>12, <1>13, <1>14, <1>15, <1>16, <1>17, <1>18, <1>19, <1>20, <1>21, <1>22,
           <1>23, <1>24 DEF Next, Run, CalleeStep, Wake, Scan, vars, Lease, Finish,
           FinishBadly, CreateCallee, Stamp, Flip, FinishFailed, Reload, RecoverCaller,
           CalleeLease, CalleeSucceeds, CalleeFails, Resolve, CalleeGivenBack,
           CalleeReleased, RecoverCallee, WakeRead, WakeReturns, WakeWrite, ClaimSelect,
           ClaimUpdate, ScanWake, ScanCallee, ScanReturns, ScanKill

\* Every step preserves the types.
LEMMA TypeStep == TypeOK /\ Shape /\ Runs /\ [Next]_vars => TypeOK'
BY Zenon, CallerTypesStep, LedgerTypesStep, CalleeTypesStep, WakeTypesStep, ScanTypesStep,
   RestTypesStep DEF TypeOK

\* Every step preserves the order of the calls.
LEMMA ShapeStep ==
    TypeOK /\ Shape /\ Claims /\ Names /\ Runs /\ [Next]_vars => Shape'
<1> SUFFICES ASSUME TypeOK, Shape, Claims, Names, Runs, [Next]_vars PROVE Shape'
  OBVIOUS
<1>1. CASE UNCHANGED <<caller, ppc, made, released, cpc, callee>>
  BY Zenon, <1>1 DEF Shape
<1>2. CASE Lease
  BY Zenon, <1>2 DEF Lease, ledger, calleeVars, Shape
<1>3. CASE Finish
  BY Zenon, <1>3 DEF Finish, ledger, calleeVars, Shape
<1>4. CASE FinishBadly
  BY Zenon, <1>4 DEF FinishBadly, GiveBack, ledger, calleeVars, Shape
<1>5. CASE CreateCall
  BY <1>5, CallsAssumption DEF CreateCall, calleeVars, TypeOK, CallerTypes, Calls, Shape
<1>6. CASE CreateCallee
  BY <1>6 DEF CreateCallee, ledger, TypeOK, CallerTypes, Shape
<1>7. CASE CreateCalleeFails
  BY <1>7 DEF CreateCalleeFails, Mark, calleeVars, TypeOK, CallerTypes, LedgerTypes, Shape
<1>8. CASE Stamp
  BY Zenon, <1>8 DEF Stamp, calleeVars, Shape
<1>9. CASE StampFails
  BY Zenon, <1>9 DEF StampFails, ledger, calleeVars, Shape
<1>10. CASE Flip
  BY Zenon, <1>10 DEF Flip, ledger, calleeVars, Shape
<1>11. CASE FlipFails
  BY Zenon, <1>11 DEF FlipFails, ledger, calleeVars, Shape
<1>12. CASE CheckpointFails
  BY Zenon, <1>12 DEF CheckpointFails, ledger, calleeVars, Shape
<1>13. CASE FinishFailed
  BY Zenon, <1>13 DEF FinishFailed, ledger, calleeVars, Shape
<1>14. CASE Reload
  BY Zenon, <1>14 DEF Reload, ledger, calleeVars, Shape
<1>15. CASE Release
  BY Zenon, <1>15 DEF Release, ledger, calleeVars, Shape
<1>16. CASE RecoverCaller
  BY Zenon, <1>16 DEF RecoverCaller, GiveBack, ledger, calleeVars, Shape
<1>17. ASSUME NEW c \in Calls, CalleeLease(c) PROVE Shape'
  BY <1>17 DEF CalleeLease, CalleeTo, callerVars, ledger, Shape
<1>18. ASSUME NEW c \in Calls, CalleeSucceeds(c) PROVE Shape'
  BY <1>18 DEF CalleeSucceeds, CalleeTo, callerVars, ledger, Shape, Runs
<1>19. ASSUME NEW c \in Calls, CalleeFails(c) PROVE Shape'
  BY <1>19 DEF CalleeFails, CalleeTo, callerVars, ledger, Shape, Runs
<1>21. ASSUME NEW c \in Calls, CancelRunning(c) PROVE Shape'
  BY <1>21 DEF CancelRunning, CalleeTo, callerVars, ledger, Shape, Runs
<1>22. ASSUME NEW c \in Calls, CancelQueued(c) PROVE Shape'
  BY <1>22 DEF CancelQueued, CalleeTo, callerVars, ledger, Shape
<1>23. ASSUME NEW c \in Calls, Resolve(c) PROVE Shape'
  <2>1. c <= made
    BY <1>23 DEF Resolve, TypeOK, CallerTypes, Calls, Shape, Runs
  <2>2. \A d \in Calls : d > made => cpc'[d] = cpc[d]
    BY <1>23, <2>1, CallsAssumption DEF Resolve, Mark, TypeOK, LedgerTypes, CallerTypes,
       Calls
  <2>3. UNCHANGED <<callerVars, callee>>
    BY Zenon, <1>23 DEF Resolve
  <2> QED BY Zenon, <2>2, <2>3 DEF callerVars, Shape
<1>27. ASSUME NEW w \in Wakers, WakeWrite(w) PROVE Shape'
  BY Zenon, <1>27 DEF WakeWrite, ledger, calleeVars, Shape
<1>28. ASSUME NEW s \in Scanners, ClaimUpdate(s) PROVE Shape'
  <2>1. cpc' = [d \in Calls |-> IF d \in batch[s] THEN "timed_out" ELSE cpc[d]]
    BY Zenon, <1>28 DEF ClaimUpdate, Claim
  <2>2. \A d \in Calls : cpc[d] = "none" => cpc'[d] = "none"
    BY Zenon, <2>1 DEF Claims
  <2>3. UNCHANGED <<callerVars, calleeVars>>
    BY Zenon, <1>28 DEF ClaimUpdate
  <2> QED BY Zenon, <2>2, <2>3 DEF callerVars, calleeVars, Shape
<1>29. ASSUME NEW s \in Scanners, ScanWake(s) PROVE Shape'
  BY Zenon, <1>29 DEF ScanWake, ledger, calleeVars, Shape
<1>30. ASSUME NEW s \in Scanners, ScanKill(s) PROVE Shape'
  <2>1. hand[s] \in Calls => callee[hand[s]] # "none"
    BY Zenon, <1>30 DEF ScanKill, Names
  <2>2. \A d \in Calls : d # hand[s] => callee'[d] = callee[d]
    BY Zenon, <1>30 DEF ScanKill, CalleeTo, TypeOK, CalleeTypes
  <2>3. UNCHANGED <<callerVars, ledger>>
    BY Zenon, <1>30 DEF ScanKill
  <2> QED BY <2>1, <2>2, <2>3 DEF callerVars, ledger, TypeOK, CallerTypes, Calls, Shape
<1>31. ASSUME NEW c \in Calls, AdminCancel(c) PROVE Shape'
  <2>1. \A d \in Calls : cpc[d] = "none" => cpc'[d] = "none"
    BY Zenon, <1>31 DEF AdminCancel, Mark, TypeOK, LedgerTypes
  <2>2. UNCHANGED <<callerVars, calleeVars>>
    BY Zenon, <1>31 DEF AdminCancel
  <2> QED BY Zenon, <2>1, <2>2 DEF callerVars, calleeVars, Shape
<1>32. CASE Crash
  BY Zenon, <1>32 DEF Crash, ledger, Shape
<1>33. ASSUME NEW c \in Calls, Moved(c) PROVE Shape'
  <2>1. UNCHANGED <<callerVars, ledger>> /\ (\A d \in Calls : d # c => callee'[d] = callee[d])
    BY Zenon, <1>33, MovedCallee
  <2>2. callee'[c] = callee[c] \/ callee[c] # "none"
    BY Zenon, <1>33, MovedCallee
  <2> QED BY <2>1, <2>2 DEF callerVars, ledger, TypeOK, CallerTypes, Calls, Shape
<1>34. CASE CallerMisread
  BY Zenon, <1>34 DEF CallerMisread, GiveBack, ledger, calleeVars, Shape
<1>35. CASE ReleaseFails
  BY Zenon, <1>35 DEF ReleaseFails, ledger, calleeVars, Shape
<1>36. ASSUME NEW s \in Scanners, ClaimFails(s) PROVE Shape'
  <2>1. \/ cpc' = cpc
        \/ cpc' = [d \in Calls |-> IF d \in batch[s] THEN "timed_out" ELSE cpc[d]]
    BY Zenon, <1>36 DEF ClaimFails, Claim
  <2>2. \A d \in Calls : cpc[d] = "none" => cpc'[d] = "none"
    BY Zenon, <2>1 DEF Claims
  <2>3. UNCHANGED <<callerVars, calleeVars>>
    BY Zenon, <1>36 DEF ClaimFails
  <2> QED BY Zenon, <2>2, <2>3 DEF callerVars, calleeVars, Shape
<1> QED BY ZenonT(60), <1>1, <1>2, <1>3, <1>4, <1>5, <1>6, <1>7, <1>8, <1>9, <1>10, <1>11,
           <1>12, <1>13, <1>14, <1>15, <1>16, <1>17, <1>18, <1>19, <1>21, <1>22, <1>23,
           <1>27, <1>28, <1>29, <1>30, <1>31, <1>32, <1>33, <1>34, <1>35, <1>36 DEF Next,
           Run, CalleeStep, Wake, Scan, vars, ResolveFails, CalleeReleased, WakeRead,
           WakeReturns, ClaimSelect, ScanCaller, ScanWakeFails, ScanCallee, ScanReturns,
           ScanCalleeFails, Restart, calleeVars, callerVars, ledger, Moved,
           CalleeUnwritten, WakeFails, ScanCallerFails

\* No step takes a claim back.
LEMMA ClaimsStep ==
    TypeOK /\ Shape /\ Claims /\ [Next]_vars => Claims'
<1> SUFFICES ASSUME TypeOK, Shape, Claims, [Next]_vars PROVE Claims'
  OBVIOUS
<1>1. CASE UNCHANGED <<cpc, spc, batch, hand>>
  BY ZenonT(60), <1>1 DEF Claims
<1>2. CASE CreateCall
  <2>1. made + 1 \in Calls
    BY <1>2, CallsAssumption DEF CreateCall, TypeOK, CallerTypes, Calls
  <2>2. UNCHANGED <<spc, batch, hand>>
    BY Zenon, <1>2 DEF CreateCall, scanVars
  <2>3. \A c \in Calls : cpc[c] # "none" => cpc'[c] = cpc[c]
    <3>1. made + 1 > made
      BY CallsAssumption DEF TypeOK, CallerTypes
    <3>2. cpc[made + 1] = "none" /\ cpc' = [cpc EXCEPT ![made + 1] = "pending"]
      BY Zenon, <1>2, <2>1, <3>1 DEF CreateCall, Shape
    <3> QED BY Zenon, <2>1, <3>2 DEF TypeOK, LedgerTypes
  <2>4. \A s \in Scanners : hand[s] # 0 => hand[s] \in Calls
    BY CallsAssumption DEF TypeOK, ScanTypes, Calls
  <2> QED BY Zenon, <2>2, <2>3, <2>4 DEF Claims, TypeOK, ScanTypes
<1>3. CASE CreateCalleeFails
  BY <1>3, CallsAssumption DEF CreateCalleeFails, Mark, Unresolved, scanVars, TypeOK,
     CallerTypes, LedgerTypes, ScanTypes, Calls, Claims
<1>4. ASSUME NEW c \in Calls, Resolve(c) PROVE Claims'
  BY <1>4, CallsAssumption DEF Resolve, Mark, Unresolved, Answers, scanVars, TypeOK,
     LedgerTypes, ScanTypes, Calls, Claims
<1>5. ASSUME NEW s \in Scanners, ClaimSelect(s) PROVE Claims'
  BY <1>5 DEF ClaimSelect, ScanTo, Due, ledger, TypeOK, ScanTypes, Claims
<1>6. ASSUME NEW s \in Scanners, ClaimUpdate(s) PROVE Claims'
  BY <1>6 DEF ClaimUpdate, Claim, ScanTo, TypeOK, ScanTypes, Calls, Claims
<1>7. ASSUME NEW s \in Scanners, ScanCaller(s) PROVE Claims'
  BY <1>7 DEF ScanCaller, ScanTo, ledger, TypeOK, ScanTypes, Calls, Claims
<1>8. ASSUME NEW s \in Scanners, ScanWake(s) PROVE Claims'
  BY <1>8 DEF ScanWake, ScanTo, ledger, Claims
<1>9. ASSUME NEW s \in Scanners, ScanWakeFails(s) PROVE Claims'
  BY <1>9 DEF ScanWakeFails, ScanTo, ledger, Claims
<1>10. ASSUME NEW s \in Scanners, ScanCallee(s) PROVE Claims'
  BY <1>10 DEF ScanCallee, ScanTo, ledger, Claims
<1>11. ASSUME NEW s \in Scanners, ScanReturns(s) PROVE Claims'
  BY Zenon, <1>11 DEF ScanReturns, ScanTo, HandDone, ledger, TypeOK, ScanTypes, Claims
<1>12. ASSUME NEW s \in Scanners, ScanKill(s) PROVE Claims'
  BY Zenon, <1>12 DEF ScanKill, ScanTo, HandDone, ledger, TypeOK, ScanTypes, Claims
<1>13. ASSUME NEW s \in Scanners, ScanCalleeFails(s) PROVE Claims'
  BY Zenon, <1>13 DEF ScanCalleeFails, ScanTo, HandDone, ledger, TypeOK, ScanTypes, Claims
<1>14. ASSUME NEW c \in Calls, AdminCancel(c) PROVE Claims'
  BY <1>14, CallsAssumption DEF AdminCancel, Fault, Mark, scanVars, TypeOK, LedgerTypes,
     ScanTypes, Resolved, Calls, Claims
<1>15. CASE Crash
  BY Zenon, <1>15 DEF Crash, Claims
<1>16. ASSUME NEW s \in Scanners, ClaimFails(s) PROVE Claims'
  <2>1. cpc' = cpc \/ cpc' = [c \in Calls |-> IF c \in batch[s] THEN "timed_out" ELSE cpc[c]]
    BY Zenon, <1>16 DEF ClaimFails, Claim
  <2>2. \A c \in Calls : /\ cpc[c] = "timed_out" => cpc'[c] = "timed_out"
                         /\ cpc[c] # "none" => cpc'[c] # "none"
    BY Zenon, <2>1
  <2>3. /\ spc' = [spc EXCEPT ![s] = "idle"] /\ batch' = [batch EXCEPT ![s] = {}]
        /\ hand' = hand
    BY Zenon, <1>16 DEF ClaimFails, ScanTo
  <2>4. \A t \in Scanners : batch[t] \subseteq Calls /\ (hand[t] # 0 => hand[t] \in Calls)
    BY CallsAssumption DEF TypeOK, ScanTypes, Calls
  <2>5. /\ spc'[s] = "idle" /\ batch'[s] = {}
        /\ \A t \in Scanners : t # s => spc'[t] = spc[t] /\ batch'[t] = batch[t]
    BY Zenon, <2>3 DEF TypeOK, ScanTypes
  <2>6. ASSUME NEW t \in Scanners
        PROVE  /\ spc'[t] = "idle" => batch'[t] = {}
               /\ spc'[t] # "claim" => \A c \in batch'[t] : cpc'[c] = "timed_out"
               /\ \A c \in batch'[t] : cpc'[c] # "none"
               /\ spc'[t] \in {"wake", "cascade", "kill"} =>
                     hand'[t] # 0 /\ cpc'[hand'[t]] = "timed_out"
    <3>1. CASE t = s
      BY Zenon, <2>5, <3>1
    <3>2. CASE t # s
      <4>1. spc'[t] = spc[t] /\ batch'[t] = batch[t] /\ hand'[t] = hand[t]
        BY Zenon, <2>3, <2>5, <3>2
      <4> QED BY Zenon, <2>2, <2>4, <4>1 DEF Claims
    <3> QED BY Zenon, <3>1, <3>2
  <2> QED BY Zenon, <2>6 DEF Claims
<1>17. ASSUME NEW s \in Scanners, ScanCallerFails(s) PROVE Claims'
  BY <1>17 DEF ScanCallerFails, ScanTo, ledger, TypeOK, ScanTypes, Calls, Claims
<1> QED BY ZenonT(60), <1>1, <1>2, <1>3, <1>4, <1>5, <1>6, <1>7, <1>8, <1>9, <1>10, <1>11,
           <1>12, <1>13, <1>14, <1>15, <1>16, <1>17, CallsAssumption DEF Next, Run,
           CalleeStep, Wake, Scan, vars, Lease, Finish, FinishBadly, CreateCallee, Stamp,
           StampFails, Flip, FlipFails, CheckpointFails, FinishFailed, Reload, Release,
           RecoverCaller, CalleeLease, CalleeSucceeds, CalleeFails, CancelRunning,
           CancelQueued, ResolveFails, CalleeGivenBack, CalleeReleased, RecoverCallee,
           WakeRead, WakeReturns, WakeWrite, Restart, calleeVars, callerVars, ledger,
           scanVars, wakeVars, CallerMisread, ReleaseFails, CalleeUnwritten,
           CalleeMisread, Requeue, WakeFails

\* Every step keeps the named callees.
LEMMA NamesStep ==
    TypeOK /\ Shape /\ Claims /\ Names /\ Runs /\ [Next]_vars => Names'
<1> SUFFICES ASSUME TypeOK, Shape, Claims, Names, Runs, [Next]_vars PROVE Names'
  OBVIOUS
<1>1. CASE UNCHANGED <<ppc, made, stamped, callee, spc, named, hand>>
  BY Zenon, <1>1 DEF Names
<1>2. CASE Lease
  BY Zenon, <1>2 DEF Lease, ledger, calleeVars, scanVars, Names
<1>3. CASE Finish
  BY Zenon, <1>3 DEF Finish, ledger, calleeVars, scanVars, Names
<1>4. CASE FinishBadly
  BY Zenon, <1>4 DEF FinishBadly, ledger, calleeVars, scanVars, Names
<1>5. CASE CreateCall
  BY Zenon, <1>5 DEF CreateCall, calleeVars, scanVars, Names
<1>6. CASE CreateCallee
  BY <1>6 DEF CreateCallee, ledger, scanVars, TypeOK, CallerTypes, CalleeTypes,
     Calls, Shape, Names
<1>7. CASE CreateCalleeFails
  BY Zenon, <1>7 DEF CreateCalleeFails, calleeVars, scanVars, Names
<1>8. CASE Stamp
  BY Zenon, <1>8 DEF Stamp, calleeVars, scanVars, Names
<1>9. CASE StampFails
  BY Zenon, <1>9 DEF StampFails, ledger, calleeVars, scanVars, Names
<1>10. CASE Flip
  BY Zenon, <1>10 DEF Flip, ledger, calleeVars, scanVars, Names
<1>11. CASE FlipFails
  BY Zenon, <1>11 DEF FlipFails, ledger, calleeVars, scanVars, Names
<1>12. CASE CheckpointFails
  BY Zenon, <1>12 DEF CheckpointFails, ledger, calleeVars, scanVars, Names
<1>13. CASE FinishFailed
  BY Zenon, <1>13 DEF FinishFailed, ledger, calleeVars, scanVars, Names
<1>14. CASE Reload
  BY Zenon, <1>14 DEF Reload, ledger, calleeVars, scanVars, Names
<1>15. CASE Release
  BY Zenon, <1>15 DEF Release, ledger, calleeVars, scanVars, Names
<1>16. ASSUME NEW c \in Calls, CalleeLease(c) PROVE Names'
  BY <1>16 DEF CalleeLease, CalleeTo, callerVars, ledger, scanVars, Names
<1>17. ASSUME NEW c \in Calls, CalleeSucceeds(c) PROVE Names'
  BY <1>17 DEF CalleeSucceeds, CalleeTo, callerVars, ledger, scanVars, Names
<1>18. ASSUME NEW c \in Calls, CalleeFails(c) PROVE Names'
  BY <1>18 DEF CalleeFails, CalleeTo, callerVars, ledger, scanVars, Names
<1>20. ASSUME NEW c \in Calls, CancelRunning(c) PROVE Names'
  BY <1>20 DEF CancelRunning, CalleeTo, callerVars, ledger, scanVars, Names
<1>21. ASSUME NEW c \in Calls, CancelQueued(c) PROVE Names'
  BY <1>21 DEF CancelQueued, CalleeTo, callerVars, ledger, scanVars, Names
<1>25. ASSUME NEW s \in Scanners, ClaimSelect(s) PROVE Names'
  BY <1>25 DEF ClaimSelect, ScanTo, callerVars, ledger, calleeVars, Names
<1>26. ASSUME NEW s \in Scanners, ClaimUpdate(s) PROVE Names'
  BY <1>26 DEF ClaimUpdate, ScanTo, callerVars, calleeVars, Names
<1>27. ASSUME NEW s \in Scanners, ScanCaller(s) PROVE Names'
  BY <1>27 DEF ScanCaller, ScanTo, callerVars, ledger, calleeVars, Names
<1>28. ASSUME NEW s \in Scanners, ScanWake(s) PROVE Names'
  BY <1>28 DEF ScanWake, ScanTo, ledger, calleeVars, Names
<1>29. ASSUME NEW s \in Scanners, ScanWakeFails(s) PROVE Names'
  BY <1>29 DEF ScanWakeFails, ScanTo, callerVars, ledger, calleeVars, Names
<1>30. ASSUME NEW s \in Scanners, ScanCallee(s) PROVE Names'
  BY <1>30 DEF ScanCallee, ScanTo, Cascades, callerVars, ledger, calleeVars, Names
<1>31. ASSUME NEW s \in Scanners, ScanReturns(s) PROVE Names'
  BY <1>31 DEF ScanReturns, ScanTo, HandDone, callerVars, ledger, calleeVars, Names
<1>32. ASSUME NEW s \in Scanners, ScanKill(s) PROVE Names'
  BY <1>32 DEF ScanKill, ScanTo, HandDone, CalleeTo, callerVars, ledger, TypeOK,
     ScanTypes, Names
<1>33. ASSUME NEW s \in Scanners, ScanCalleeFails(s) PROVE Names'
  BY Zenon, <1>33 DEF ScanCalleeFails, ScanTo, HandDone, callerVars, ledger, calleeVars,
     TypeOK, ScanTypes, Names
<1>34. CASE Crash
  BY Zenon, <1>34 DEF Crash, ledger, Names
<1>35. ASSUME NEW c \in Calls, Moved(c) PROVE Names'
  <2>1. UNCHANGED <<callerVars, ledger, scanVars>>
    BY Zenon, <1>35, MovedCallee
  <2>2. \A d \in Calls : callee[d] # "none" => callee'[d] # "none"
    BY Zenon, <1>35, MovedCallee
  <2>3. ppc = "stamp" => made \in Calls
    BY DEF TypeOK, CallerTypes, Calls, Shape
  <2> QED BY Zenon, <2>1, <2>2, <2>3 DEF callerVars, ledger, scanVars, TypeOK, LedgerTypes,
             Names
<1>36. CASE CallerMisread
  BY Zenon, <1>36 DEF CallerMisread, ledger, calleeVars, scanVars, Names
<1>37. CASE ReleaseFails
  BY Zenon, <1>37 DEF ReleaseFails, ledger, calleeVars, scanVars, Names
<1>38. ASSUME NEW s \in Scanners, ClaimFails(s) PROVE Names'
  BY <1>38 DEF ClaimFails, ScanTo, callerVars, calleeVars, Names
<1>39. ASSUME NEW s \in Scanners, ScanCallerFails(s) PROVE Names'
  BY <1>39 DEF ScanCallerFails, ScanTo, callerVars, ledger, calleeVars, Names
<1> QED BY ZenonT(60), <1>1, <1>2, <1>3, <1>4, <1>5, <1>6, <1>7, <1>8, <1>9, <1>10, <1>11,
           <1>12, <1>13, <1>14, <1>15, <1>16, <1>17, <1>18, <1>20, <1>21, <1>25, <1>26,
           <1>27, <1>28, <1>29, <1>30, <1>31, <1>32, <1>33, <1>34, <1>35, <1>36, <1>37,
           <1>38, <1>39 DEF Next, Run, CalleeStep, Wake, Scan, vars, RecoverCaller,
           Resolve, ResolveFails, CalleeReleased, WakeRead, WakeReturns, WakeWrite,
           AdminCancel, Restart, calleeVars, callerVars, ledger, scanVars, Moved,
           CalleeUnwritten, WakeFails

\* Every step keeps the runs and their tasks together.
LEMMA RunsStep ==
    TypeOK /\ Shape /\ Claims /\ Runs /\ [Next]_vars => Runs'
<1> SUFFICES ASSUME TypeOK, Shape, Claims, Runs, [Next]_vars PROVE Runs'
  OBVIOUS
<1>1. CASE UNCHANGED <<cpc, callee, rpc, undone>>
  BY Zenon, <1>1 DEF Runs
<1>2. CASE CreateCall
  BY <1>2 DEF CreateCall, calleeVars, TypeOK, CallerTypes, Shape, Runs
<1>3. CASE CreateCallee
  BY <1>3 DEF CreateCallee, ledger, Shape, Runs
<1>4. CASE CreateCalleeFails
  BY Zenon, <1>4 DEF CreateCalleeFails, Mark, Unresolved, calleeVars, TypeOK, LedgerTypes,
     Runs
<1>5. ASSUME NEW c \in Calls, CalleeLease(c) PROVE Runs'
  BY Zenon, <1>5 DEF CalleeLease, CalleeTo, RunTo, ledger, TypeOK, CalleeTypes,
     Runs
<1>6. ASSUME NEW c \in Calls, CalleeSucceeds(c) PROVE Runs'
  BY Zenon, <1>6 DEF CalleeSucceeds, CalleeTo, RunTo, ledger, TypeOK,
     CalleeTypes, Runs
<1>7. ASSUME NEW c \in Calls, CalleeFails(c) PROVE Runs'
  <2>1. PICK t \in {"RUNNING", "FAILED"} : CalleeTo(c, t)
    BY Zenon, <1>7 DEF CalleeFails
  <2> QED BY Zenon, <1>7, <2>1 DEF CalleeFails, CalleeTo, RunTo, ledger, TypeOK, CalleeTypes,
             Runs
<1>9. ASSUME NEW c \in Calls, CancelRunning(c) PROVE Runs'
  BY <1>9 DEF CancelRunning, CalleeTo, RunTo, ledger, Runs
<1>10. ASSUME NEW c \in Calls, CancelQueued(c) PROVE Runs'
  BY <1>10 DEF CancelQueued, CalleeTo, ledger, Runs
<1>11. ASSUME NEW c \in Calls, Resolve(c) PROVE Runs'
  BY Zenon, <1>11 DEF Resolve, RunTo, Mark, TypeOK, LedgerTypes, CalleeTypes, Runs
<1>12. ASSUME NEW c \in Calls, ResolveFails(c) PROVE Runs'
  BY <1>12 DEF ResolveFails, RunTo, ledger, Runs
<1>14. ASSUME NEW c \in Calls, CalleeReleased(c) PROVE Runs'
  BY <1>14 DEF CalleeReleased, RunTo, ledger, Runs
<1>17. ASSUME NEW s \in Scanners, ClaimUpdate(s) PROVE Runs'
  BY Zenon, <1>17 DEF ClaimUpdate, Claim, calleeVars, Runs
<1>18. ASSUME NEW s \in Scanners, ScanKill(s) PROVE Runs'
  BY <1>18 DEF ScanKill, CalleeTo, ledger, Claims, Runs
<1>19. ASSUME NEW c \in Calls, AdminCancel(c) PROVE Runs'
  BY Zenon, <1>19 DEF AdminCancel, Mark, calleeVars, TypeOK, LedgerTypes, Runs
<1>20. CASE Crash
  BY Zenon, <1>20 DEF Crash, Runs
<1>21. ASSUME NEW c \in Calls, Moved(c) PROVE Runs'
  <2>1. cpc' = cpc /\ undone \subseteq undone'
    BY Zenon, <1>21, MovedCallee DEF ledger
  <2>5. rpc' = rpc \/ rpc' = [rpc EXCEPT ![c] = "idle"]
    BY Zenon, <1>21, MovedCallee
  <2>6. \A d \in Calls : d # c => callee'[d] = callee[d]
    BY Zenon, <1>21, MovedCallee
  <2>2. \A d \in Calls : d # c => rpc'[d] = rpc[d] /\ callee'[d] = callee[d]
    BY Zenon, <2>5, <2>6 DEF TypeOK, CalleeTypes
  <2>3. rpc'[c] # "work" /\ rpc'[c] \in {rpc[c], "idle"}
    BY Zenon, <1>21, MovedCallee DEF TypeOK, CalleeTypes
  <2>4. \/ callee'[c] = callee[c]
        \/ callee'[c] # "none" /\ (c \in undone' \/ rpc'[c] = "idle")
    BY Zenon, <1>21, MovedCallee
  <2> QED BY Zenon, <2>1, <2>2, <2>3, <2>4 DEF Runs
<1>22. ASSUME NEW c \in Calls, CalleeUnwritten(c) PROVE Runs'
  BY Zenon, <1>22 DEF CalleeUnwritten, RunTo, ledger, TypeOK, CalleeTypes, Runs
<1>23. ASSUME NEW s \in Scanners, ClaimFails(s) PROVE Runs'
  BY Zenon, <1>23 DEF ClaimFails, Claim, calleeVars, Runs
<1> QED BY ZenonT(60), <1>1, <1>2, <1>3, <1>4, <1>5, <1>6, <1>7, <1>9, <1>10, <1>11,
           <1>12, <1>14, <1>17, <1>18, <1>19, <1>20, <1>21, <1>22, <1>23, CallsAssumption
           DEF Next, Run, CalleeStep, Wake, Scan, vars, Lease, Finish, FinishBadly, Stamp,
           StampFails, Flip, FlipFails, CheckpointFails, FinishFailed, Reload, Release,
           RecoverCaller, WakeRead, WakeReturns, WakeWrite, ClaimSelect, ScanCaller,
           ScanWake, ScanWakeFails, ScanCallee, ScanReturns, ScanCalleeFails, Restart,
           calleeVars, ledger, Moved, CallerMisread, ReleaseFails, WakeFails,
           ScanCallerFails

\* No step completes a call alone, or undoes the task behind it.
LEMMA CompletedStep ==
    TypeOK /\ Shape /\ Claims /\ Runs /\ CompletedIsTrue /\ [Next]_vars => CompletedIsTrue'
<1> SUFFICES ASSUME TypeOK, Shape, Claims, Runs, CompletedIsTrue, [Next]_vars PROVE CompletedIsTrue'
  OBVIOUS
<1>1. CASE UNCHANGED <<cpc, callee, undone>>
  BY Zenon, <1>1 DEF CompletedIsTrue
<1>2. CASE CreateCall
  BY <1>2 DEF CreateCall, calleeVars, CompletedIsTrue
<1>3. CASE CreateCallee
  BY <1>3 DEF CreateCallee, ledger, Shape, CompletedIsTrue
<1>4. CASE CreateCalleeFails
  <2>1. made \in Calls
    BY <1>4 DEF CreateCalleeFails, TypeOK, CallerTypes, Calls, Shape
  <2>2. \A d \in Calls : cpc'[d] \in {cpc[d], "rejected"}
    BY Zenon, <1>4, <2>1 DEF CreateCalleeFails, Mark, TypeOK, LedgerTypes
  <2>3. UNCHANGED <<callee, undone>>
    BY Zenon, <1>4 DEF CreateCalleeFails, calleeVars
  <2> QED BY Zenon, <2>2, <2>3 DEF CompletedIsTrue
<1>5. ASSUME NEW c \in Calls, CalleeLease(c) PROVE CompletedIsTrue'
  BY <1>5 DEF CalleeLease, CalleeTo, ledger, CompletedIsTrue
<1>6. ASSUME NEW c \in Calls, CalleeSucceeds(c) PROVE CompletedIsTrue'
  BY <1>6 DEF CalleeSucceeds, CalleeTo, ledger, CompletedIsTrue
<1>7. ASSUME NEW c \in Calls, CalleeFails(c) PROVE CompletedIsTrue'
  BY <1>7 DEF CalleeFails, CalleeTo, ledger, Runs, CompletedIsTrue
<1>9. ASSUME NEW c \in Calls, CancelRunning(c) PROVE CompletedIsTrue'
  BY <1>9 DEF CancelRunning, CalleeTo, ledger, Runs, CompletedIsTrue
<1>10. ASSUME NEW c \in Calls, CancelQueued(c) PROVE CompletedIsTrue'
  BY <1>10 DEF CancelQueued, CalleeTo, ledger, CompletedIsTrue
<1>11. ASSUME NEW c \in Calls, Resolve(c) PROVE CompletedIsTrue'
  <2>1. \A d \in Calls : cpc'[d] = "completed" =>
           cpc[d] = "completed" \/ (d = c /\ rpc[c] = "success" /\ Unresolved(c))
    BY Zenon, <1>11 DEF Resolve, Mark, Answers, TypeOK, LedgerTypes
  <2>2. UNCHANGED <<callee, undone>>
    BY Zenon, <1>11 DEF Resolve
  <2> QED BY Zenon, <2>1, <2>2 DEF Unresolved, Resolved, Runs, CompletedIsTrue
<1>15. ASSUME NEW s \in Scanners, ClaimUpdate(s) PROVE CompletedIsTrue'
  BY Zenon, <1>15 DEF ClaimUpdate, Claim, calleeVars, CompletedIsTrue
<1>16. ASSUME NEW s \in Scanners, ScanKill(s) PROVE CompletedIsTrue'
  BY <1>16 DEF ScanKill, CalleeTo, ledger, Claims, CompletedIsTrue
<1>17. ASSUME NEW c \in Calls, AdminCancel(c) PROVE CompletedIsTrue'
  <2>1. \A d \in Calls : cpc'[d] \in {cpc[d], "rejected"}
    BY Zenon, <1>17 DEF AdminCancel, Mark, TypeOK, LedgerTypes
  <2>2. UNCHANGED <<callee, undone>>
    BY Zenon, <1>17 DEF AdminCancel, calleeVars
  <2> QED BY Zenon, <2>1, <2>2 DEF CompletedIsTrue
<1>18. ASSUME NEW c \in Calls, Moved(c) PROVE CompletedIsTrue'
  <2>1. cpc' = cpc /\ undone \subseteq undone'
    BY Zenon, <1>18, MovedCallee DEF ledger
  <2>2. \A d \in Calls : d # c => callee'[d] = callee[d]
    BY Zenon, <1>18, MovedCallee
  <2>3. callee'[c] = callee[c] \/ callee[c] = "RUNNING" \/ c \in undone'
    BY Zenon, <1>18, MovedCallee
  <2> QED BY Zenon, <2>1, <2>2, <2>3 DEF CompletedIsTrue
<1>19. ASSUME NEW c \in Calls, CalleeUnwritten(c) PROVE CompletedIsTrue'
  BY Zenon, <1>19 DEF CalleeUnwritten, ledger, CompletedIsTrue
<1>20. ASSUME NEW s \in Scanners, ClaimFails(s) PROVE CompletedIsTrue'
  BY Zenon, <1>20 DEF ClaimFails, Claim, calleeVars, CompletedIsTrue
<1> QED BY ZenonT(60), <1>1, <1>2, <1>3, <1>4, <1>5, <1>6, <1>7, <1>9, <1>10, <1>11,
           <1>15, <1>16, <1>17, <1>18, <1>19, <1>20 DEF Next, Run, CalleeStep, Wake, Scan,
           vars, Lease, Finish, FinishBadly, Stamp, StampFails, Flip, FlipFails,
           CheckpointFails, FinishFailed, Reload, Release, RecoverCaller, ResolveFails,
           CalleeReleased, WakeRead, WakeReturns, WakeWrite, ClaimSelect, ScanCaller,
           ScanWake, ScanWakeFails, ScanCallee, ScanReturns, ScanCalleeFails, Crash,
           Restart, calleeVars, ledger, Moved, CallerMisread, ReleaseFails, WakeFails,
           ScanCallerFails

-----------------------------------------------------------------------------
\* IInv is an invariant of the calls.
THEOREM Invariance == Spec => []IInv
<1>1. IInv /\ [Next]_vars => IInv'
  BY Zenon, TypeStep, ShapeStep, ClaimsStep, NamesStep, RunsStep, CompletedStep, OwedStep
     DEF IInv
<1> QED BY InitInv, <1>1, PTL DEF Spec

\* Type correctness.
THEOREM TypeCorrect == Spec => []TypeOK
BY Invariance, PTL DEF IInv

\* A call reads completed only while its callee is COMPLETED (call_project.go,
\* resolveCrossProjectCallForTask, against cascadeCancelCallee), unless the
\* COMPLETED was never written, was given back or was re-queued: handleSuccess,
\* the dispatcher and RequeueTerminalTask record that in undone.
THEOREM CompletedIsTrueHolds == Spec => []CompletedIsTrue
BY Invariance, PTL DEF IInv

\* A caller that waits for a timed-out call has a scanner on its way to it
\* (cpc_timeout_scanner.go, tick and processOne), unless a recorded event cost
\* it that.
THEOREM WakeOwedHolds == Spec => []WakeOwed
<1>1. IInv => WakeOwed
  BY Zenon DEF IInv, Owed
<1> QED BY <1>1, Invariance, PTL

-----------------------------------------------------------------------------
\* One step of ResolvedOnce and of EndedKept.
AnswerKept ==
    \A c \in Calls : cpc[c] \in Resolved =>
        cpc'[c] = cpc[c] \/ \E s \in Scanners : spc[s] = "claim" /\ c \in batch[s]

EndKept ==
    caller \in {"COMPLETED", "FAILED"} /\ ppc = "idle" =>
        caller' = caller \/ \E s \in Scanners : spc[s] = "wake"

\* No step but a claim overwrites an answer.
LEMMA AnswerStep ==
    TypeOK /\ Shape /\ [Next]_vars => AnswerKept
<1> SUFFICES ASSUME TypeOK, Shape, [Next]_vars PROVE AnswerKept
  OBVIOUS
<1>1. CASE UNCHANGED <<cpc>>
  BY Zenon, <1>1 DEF AnswerKept
<1>2. CASE CreateCall
  BY <1>2 DEF CreateCall, TypeOK, CallerTypes, Resolved, Shape, AnswerKept
<1>3. CASE CreateCalleeFails
  BY Zenon, <1>3 DEF CreateCalleeFails, Mark, Unresolved, TypeOK, LedgerTypes, AnswerKept
<1>4. ASSUME NEW c \in Calls, Resolve(c) PROVE AnswerKept
  BY Zenon, <1>4 DEF Resolve, Mark, Unresolved, TypeOK, LedgerTypes, AnswerKept
<1>5. ASSUME NEW s \in Scanners, ClaimUpdate(s) PROVE AnswerKept
  BY Zenon, <1>5 DEF ClaimUpdate, Claim, AnswerKept
<1>6. ASSUME NEW c \in Calls, AdminCancel(c) PROVE AnswerKept
  BY Zenon, <1>6 DEF AdminCancel, Mark, Unresolved, TypeOK, LedgerTypes, AnswerKept
<1>7. ASSUME NEW s \in Scanners, ClaimFails(s) PROVE AnswerKept
  BY Zenon, <1>7 DEF ClaimFails, Claim, AnswerKept
<1> QED BY ZenonT(60), <1>1, <1>2, <1>3, <1>4, <1>5, <1>6, <1>7, CallsAssumption DEF Next,
           Run, CalleeStep, Wake, Scan, vars, Lease, Finish, FinishBadly, CreateCallee,
           Stamp, StampFails, Flip, FlipFails, CheckpointFails, FinishFailed, Reload,
           Release, RecoverCaller, CalleeLease, CalleeSucceeds, CalleeFails,
           CancelRunning, CancelQueued, ResolveFails, CalleeGivenBack, CalleeReleased,
           RecoverCallee, WakeRead, WakeReturns, WakeWrite, ClaimSelect, ScanCaller,
           ScanWake, ScanWakeFails, ScanCallee, ScanReturns, ScanKill, ScanCalleeFails,
           Crash, Restart, calleeVars, callerVars, ledger, scanVars, wakeVars,
           CallerMisread, ReleaseFails, CalleeUnwritten, CalleeMisread, Requeue,
           WakeFails, ScanCallerFails

\* No step but the scanner's wake-up starts an ended caller again.
LEMMA EndStep ==
    TypeOK /\ [Next]_vars => EndKept
<1> SUFFICES ASSUME TypeOK, [Next]_vars PROVE EndKept
  OBVIOUS
<1>1. CASE UNCHANGED <<caller>>
  BY Zenon, <1>1 DEF EndKept
<1>2. CASE Lease
  BY Zenon, <1>2 DEF Lease, EndKept
<1>3. CASE Finish
  BY Zenon, <1>3 DEF Finish, EndKept
<1>4. CASE FinishBadly
  BY Zenon, <1>4 DEF FinishBadly, EndKept
<1>5. CASE Flip
  BY Zenon, <1>5 DEF Flip, EndKept
<1>6. CASE CheckpointFails
  BY Zenon, <1>6 DEF CheckpointFails, EndKept
<1>7. CASE FinishFailed
  BY Zenon, <1>7 DEF FinishFailed, EndKept
<1>8. CASE Release
  BY Zenon, <1>8 DEF Release, EndKept
<1>9. CASE RecoverCaller
  BY Zenon, <1>9 DEF RecoverCaller, EndKept
<1>10. ASSUME NEW w \in Wakers, WakeWrite(w) PROVE EndKept
  BY Zenon, <1>10 DEF WakeWrite, Movable, EndKept
<1>11. ASSUME NEW s \in Scanners, ScanWake(s) PROVE EndKept
  BY Zenon, <1>11 DEF ScanWake, EndKept
<1>12. CASE CallerMisread
  BY Zenon, <1>12 DEF CallerMisread, EndKept
<1> QED BY ZenonT(60), <1>1, <1>2, <1>3, <1>4, <1>5, <1>6, <1>7, <1>8, <1>9, <1>10, <1>11,
           <1>12, CallsAssumption DEF Next, Run, CalleeStep, Wake, Scan, vars, CreateCall,
           CreateCallee, CreateCalleeFails, Stamp, StampFails, FlipFails, Reload,
           CalleeLease, CalleeSucceeds, CalleeFails, CancelRunning, CancelQueued, Resolve,
           ResolveFails, CalleeGivenBack, CalleeReleased, RecoverCallee, WakeRead,
           WakeReturns, ClaimSelect, ClaimUpdate, ScanCaller, ScanWakeFails, ScanCallee,
           ScanReturns, ScanKill, ScanCalleeFails, AdminCancel, Crash, Restart,
           calleeVars, callerVars, wakeVars, ReleaseFails, CalleeUnwritten, CalleeMisread,
           Requeue, WakeFails, ClaimFails, ScanCallerFails

\* An answered call keeps its answer (cross_project_call_repository.go, the
\* condition of the Mark statements), but for a claim made from an older
\* snapshot.
THEOREM ResolvedOnceHolds == Spec => ResolvedOnce
<1>1. IInv /\ [Next]_vars => [AnswerKept]_vars
  BY Zenon, AnswerStep DEF IInv
<1> QED BY <1>1, Invariance, PTL DEF Spec, ResolvedOnce, AnswerKept

\* An ended caller is not started again by a late waker (workflow.go,
\* unblockParentIfChildrenDone and its conditional write).
THEOREM EndedKeptHolds == Spec => EndedKept
<1>1. IInv /\ [Next]_vars => [EndKept]_vars
  BY Zenon, EndStep DEF IInv
<1> QED BY <1>1, Invariance, PTL DEF Spec, EndedKept, EndKept

=============================================================================
