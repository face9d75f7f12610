------------------------- MODULE ParentWakeupProofs -------------------------
(* Proofs about ParentWakeup, for any fan-out, attempts and faults.  *)
EXTENDS ParentWakeup, FiniteSetTheorems, TLAPS

\* The type invariant in parts.
ParentOK == parent \in [status : Status, lease : BOOLEAN, attempt : 1..MaxAttempts]
ChildOK == child \in [Ids -> ChildStatus] /\ dep \in [Ids -> 0..FanOutLimit]
RunOK ==
    /\ ppc \in {"idle", "step", "blind", "create", "flip", "pause", "error", "classify", "failed",
               "reload", "release"}
    /\ loaded \in 1..MaxAttempts
    /\ want \in Ids /\ mode \in {"PARALLEL", "SEQUENTIAL"} /\ created \subseteq Ids
    /\ execPaused \in BOOLEAN /\ released \in Status /\ charged \in 0..MaxAttempts
WakeOK ==
    /\ wpc \in [Wakers -> {"idle", "get", "children", "write"}]
    /\ seen \in [Wakers -> 1..MaxAttempts]
    /\ anyFailed \in [Wakers -> BOOLEAN]
BudgetOK ==
    /\ up \in BOOLEAN
    /\ pauses \in Nat /\ wakes \in Nat /\ missed \subseteq Reasons
    /\ faults \in 0..MaxFaults

Waiting == parent.status = "WAITING_FOR_CHILDREN"

\* Every child that exists has ended.
AllEnded == \A c \in Existing : child[c] \in Terminal

\* What the place of the parent's run says about its row and its children.
RunShape ==
    /\ ppc \in {"step", "blind", "create", "flip"} => parent.status = "RUNNING"
    /\ ppc # "create" => created = {}
    /\ created \subseteq Existing
    /\ ppc = "flip" => Existing # {}
    /\ ppc = "release" => released # "RUNNING"

\* Each pause pays for one wake-up, and a waiting parent has not used its own.
Counted ==
    "clobbered" \notin missed => wakes <= pauses /\ (Waiting => wakes < pauses)

\* A guarded route step delegates only into an empty family; from the first
\* pause on the family is fixed, so a waker cannot meet new children.
OneFamily ==
    /\ ppc # "blind"
    /\ ppc = "create" => Existing = created
    /\ Waiting => Existing # {}
    /\ ppc = "release" /\ released = "WAITING_FOR_CHILDREN" => Existing # {}
    /\ \A w \in Wakers : wpc[w] \in {"children", "write"} =>
           Existing # {} /\ ppc \notin {"create", "flip"}

\* Unless a run was cut or misread, a parent that may run or has ended has no
\* child left to wait for, and neither has a waker or a dispatcher that has made
\* up its mind.
Settled ==
    /\ parent.status \in {"QUEUED", "FAILED", "COMPLETED"} => AllEnded
    /\ parent.status = "RUNNING" /\ ppc \notin {"create", "flip"} => AllEnded
    /\ ppc = "classify" /\ ~execPaused => AllEnded
    /\ ppc \in {"error", "failed"} => AllEnded
    /\ ppc = "release" /\ released \in {"QUEUED", "FAILED", "COMPLETED"} => AllEnded
    /\ \A w \in Wakers : wpc[w] = "write" => AllEnded

Family == Guarded => OneFamily
Ended == Guarded /\ missed \intersect {"cut", "misread"} = {} => Settled

IInv == TypeOK /\ RunShape /\ Counted /\ Family /\ Ended

-----------------------------------------------------------------------------
(* Proofs.                                                                  *)

\* Rows made of parts of the right types.
LEMMA RowTypes ==
    ASSUME ParentOK
    PROVE  \A s \in Status, a \in 1..MaxAttempts :
               /\ Row(s, TRUE, a) \in [status : Status, lease : BOOLEAN, attempt : 1..MaxAttempts]
               /\ Row(s, FALSE, a) \in [status : Status, lease : BOOLEAN, attempt : 1..MaxAttempts]
               /\ Row(s, parent.lease, a) \in [status : Status, lease : BOOLEAN, attempt : 1..MaxAttempts]
  BY Zenon DEF Row, ParentOK

\* There are finitely many children, which the fan-out guard counts.
LEMMA ExistingFinite == IsFiniteSet(Existing) /\ Cardinality(Existing) \in Nat
  <1>1. IsFiniteSet(Ids)
    BY LimitsAssumption, FS_Interval DEF Ids
  <1>2. Existing \subseteq Ids
    BY Zenon DEF Existing
  <1> QED BY Zenon, <1>1, <1>2, FS_Subset, FS_CardinalityType

\* The family of a route step is fixed once it has paused.
LEMMA FamilyStep ==
    ASSUME ParentOK, ChildOK, RunOK, WakeOK, RunShape,
           ResumeGuard, OneFamily, "unguarded" \notin missed', [Next]_vars
    PROVE  OneFamily'
  <1>1. CASE Lease
    BY Zenon, <1>1 DEF Lease, Row, childVars, wakeVars, OneFamily, Waiting, Existing
  <1>2. CASE GuardFails
    BY Zenon, <1>2 DEF GuardFails
  <1>3. CASE Finish
    <2>1. ppc' \in {"classify", "error"} /\ UNCHANGED <<child, wpc>>
      BY Zenon, <1>3 DEF Finish, childVars, wakeVars
    <2>2. parent' = parent \/ parent'.status # "WAITING_FOR_CHILDREN"
      <3>1. parent' = parent \/ parent' = Row("COMPLETED", parent.lease, parent.attempt)
        BY Zenon, <1>3 DEF Finish
      <3>2. CASE parent' = Row("COMPLETED", parent.lease, parent.attempt)
        BY Zenon, <3>2 DEF Row
      <3> QED BY Zenon, <3>1, <3>2
    <2> QED BY Zenon, <2>1, <2>2 DEF OneFamily, Waiting, Existing
  <1>4. ASSUME NEW n \in 1..(FanOutLimit + 1), NEW m \in Modes, Delegate(n, m)
        PROVE  OneFamily'
    <2>1. /\ UNCHANGED <<child, wpc, parent, created>>
          /\ ~Resumed /\ created = {} /\ parent.status = "RUNNING"
          /\ ppc' \in {"create", "error"}
      BY Zenon, <1>4 DEF Delegate, childVars, wakeVars, RunShape, OneFamily
    <2>2. Existing = {} /\ Existing' = Existing
      BY Zenon, <2>1 DEF Resumed, Existing
    <2> QED BY Zenon, <2>1, <2>2 DEF OneFamily, Waiting
  <1>5. CASE Create
    <2>1. PICK c \in Ids : /\ child' = [child EXCEPT ![c] = "QUEUED"]
                           /\ \/ ppc' = "flip"
                              \/ ppc' = "create" /\ created' = created \union {c}
      BY Zenon, <1>5 DEF Create
    <2>2. ppc = "create" /\ UNCHANGED <<parent, wpc>> /\ parent.status = "RUNNING"
      BY Zenon, <1>5 DEF Create, wakeVars, RunShape
    <2>3. Existing' = Existing \union {c}
      BY Zenon, <2>1 DEF ChildOK, Existing
    <2> QED BY Zenon, <2>1, <2>2, <2>3 DEF OneFamily, Waiting
  <1>6. CASE Flip
    BY Zenon, <1>6 DEF Flip, childVars, wakeVars, RunShape, OneFamily, Existing
  <1>7. CASE Pause
    <2>1. UNCHANGED <<child, parent>> /\ ppc' \in {"error", "classify"}
      BY Zenon, <1>7 DEF Pause, childVars
    <2>2. \A w \in Wakers : wpc'[w] \in {"children", "write"} => wpc'[w] = wpc[w]
      BY Zenon, <1>7 DEF Pause, StartHeal, WakeOK
    <2> QED BY Zenon, <2>1, <2>2 DEF OneFamily, Waiting, Existing
  <1>8. CASE HandleFailure
    <2>1. ppc' = "failed" /\ UNCHANGED <<child, wpc>>
      BY Zenon, <1>8 DEF HandleFailure, childVars, wakeVars
    <2>2. parent' = parent \/ parent'.status # "WAITING_FOR_CHILDREN"
      <3>1. \/ parent' = parent
            \/ parent' = Row(IF loaded < MaxAttempts THEN "RUNNING" ELSE "FAILED", TRUE, loaded)
        BY Zenon, <1>8 DEF HandleFailure
      <3>2. CASE parent' = Row(IF loaded < MaxAttempts THEN "RUNNING" ELSE "FAILED", TRUE, loaded)
        BY Zenon, <3>2 DEF Row
      <3> QED BY Zenon, <3>1, <3>2
    <2> QED BY Zenon, <2>1, <2>2 DEF OneFamily, Waiting, Existing
  <1>9. CASE Classify
    <2>1. /\ UNCHANGED <<child, wpc, parent>> /\ ppc' \in {"release", "reload", "failed"}
          /\ ppc' = "release" => released' = "COMPLETED"
      BY Zenon, <1>9 DEF Classify, childVars, wakeVars
    <2> QED BY Zenon, <2>1 DEF OneFamily, Waiting, Existing
  <1>10. CASE FinishFailed
    <2>1. UNCHANGED <<child, wpc, parent>> /\ ppc' = "release" /\ released' \in {"QUEUED", "FAILED"}
      BY Zenon, <1>10 DEF FinishFailed, childVars, wakeVars
    <2> QED BY Zenon, <2>1 DEF OneFamily, Waiting, Existing
  <1>11. CASE Reload
    <2>1. /\ UNCHANGED <<child, wpc, parent>>
          /\ \/ ppc' = "idle"
             \/ ppc' = "release" /\ (released' = "WAITING_FOR_CHILDREN" => Waiting)
      BY Zenon, <1>11 DEF Reload, RunOver, childVars, wakeVars, Waiting
    <2> QED BY Zenon, <2>1 DEF OneFamily, Waiting, Existing
  <1>12. CASE Release
    <2>1. ppc = "release" /\ ppc' = "idle" /\ UNCHANGED <<child, wpc>>
      BY Zenon, <1>12 DEF Release, RunOver, childVars, wakeVars
    <2>2. parent' = parent \/ parent'.status = released
      <3>1. \/ parent' = parent
            \/ parent' = Row(released, FALSE, IF charged = 0 THEN parent.attempt ELSE charged)
        BY Zenon, <1>12 DEF Release
      <3>2. CASE parent' = Row(released, FALSE, IF charged = 0 THEN parent.attempt ELSE charged)
        BY Zenon, <3>2 DEF Row
      <3> QED BY Zenon, <3>1, <3>2
    <2> QED BY Zenon, <2>1, <2>2 DEF OneFamily, Waiting, Existing
  <1>13. CASE CreateFails
    BY Zenon, <1>13 DEF CreateFails, wakeVars, RunShape, OneFamily, Waiting
  <1>14. CASE RecoverExpired
    <2>1. UNCHANGED <<child, wpc, ppc, created, released>>
      BY Zenon, <1>14 DEF RecoverExpired, childVars, runVars, batchVars, releaseVars, batchVars, releaseVars, wakeVars
    <2>2. parent'.status # "WAITING_FOR_CHILDREN"
      BY Zenon, <1>14 DEF RecoverExpired, Row
    <2> QED BY Zenon, <2>1, <2>2 DEF OneFamily, Waiting, Existing
  <1>15. ASSUME NEW c \in Ids, ChildRuns(c) \/ ChildCancelled(c) \/ ChildClosed(c) PROVE OneFamily'
    <2>1. PICK s \in ChildStatus : s # "none" /\ child' = [child EXCEPT ![c] = s] /\ child[c] # "none"
      BY Zenon, <1>15 DEF ChildRuns, ChildCancelled, ChildClosed, ChildTo, Leasable,
         ChildStatus
    <2>2. Existing' = Existing
      BY Zenon, <2>1 DEF ChildOK, Existing
    <2>3. wpc' = [wpc EXCEPT ![c] = "get"] /\ UNCHANGED <<parent, ppc, created, released>>
      BY Zenon, <1>15 DEF ChildRuns, ChildCancelled, ChildClosed, ChildTo, runVars, batchVars, releaseVars
    <2> QED BY Zenon, <2>2, <2>3 DEF WakeOK, OneFamily, Waiting
  <1>16. ASSUME NEW c \in Ids, ChildEndsSilently(c) PROVE OneFamily'
    BY ZenonT(60), <1>16 DEF ChildEndsSilently, Leasable, runVars, batchVars, releaseVars, wakeVars, ChildOK, WakeOK,
       Ids, Wakers, RunShape, OneFamily, Waiting, Existing
  <1>17. ASSUME NEW w \in Wakers, WakeGet(w) PROVE OneFamily'
    BY ZenonT(60), <1>17 DEF WakeGet, WakeTo, WakeEnds, childVars, runVars, batchVars, releaseVars, ChildOK, WakeOK,
       ChildStatus, RunShape, OneFamily, Waiting, Existing
  <1>18. ASSUME NEW w \in Wakers, WakeChildren(w) PROVE OneFamily'
    BY Zenon, <1>18 DEF WakeChildren, childVars, runVars, batchVars, releaseVars, OneFamily, Existing
  <1>19. ASSUME NEW w \in Wakers, WakeWrite(w) PROVE OneFamily'
    BY Zenon, <1>19 DEF WakeWrite, childVars, runVars, batchVars, releaseVars, OneFamily, Existing
  <1>20. ASSUME NEW w \in Wakers, WakeFails(w) PROVE OneFamily'
    BY Zenon, <1>20 DEF WakeFails, WakeTo, WakeEnds, childVars, runVars, batchVars, releaseVars, WakeOK, OneFamily,
       Waiting, Existing
  <1>21. CASE Crash
    BY Zenon, <1>21 DEF Crash, RunOver, childVars, OneFamily, Waiting, Existing
  <1>22. CASE Restart
    BY Zenon, <1>22 DEF Restart, WakeTo, childVars, runVars, batchVars, releaseVars, WakeOK, OneFamily, Waiting,
       Existing
  <1>23. CASE UNCHANGED vars
    BY Zenon, <1>23 DEF vars, OneFamily, Waiting, Existing
  <1> QED
    BY Zenon, <1>1, <1>2, <1>3, <1>4, <1>5, <1>6, <1>7, <1>8, <1>9, <1>10, <1>11, <1>12,
       <1>13, <1>14, <1>15, <1>16, <1>17, <1>18, <1>19, <1>20, <1>21, <1>22, <1>23
       DEF Next, Daemon, Run, Wake

\* Nobody moves on before the children have ended.
LEMMA EndedStep ==
    ASSUME ParentOK, ChildOK, RunOK, WakeOK, RunShape, ResumeGuard,
           OneFamily, Settled, {"unguarded", "cut", "misread"} \intersect missed' = {}, [Next]_vars
    PROVE  Settled'
  <1>1. CASE Lease
    BY Zenon, <1>1 DEF Lease, childVars, Settled, AllEnded, Existing
  <1>2. CASE GuardFails
    BY Zenon, <1>2 DEF GuardFails
  <1>3. CASE Finish
    BY Zenon, <1>3 DEF Finish, childVars, wakeVars, RunShape, Settled, AllEnded, Existing
  <1>4. ASSUME NEW n \in 1..(FanOutLimit + 1), NEW m \in Modes, Delegate(n, m)
        PROVE  Settled'
    BY Zenon, <1>4 DEF Delegate, Resumed, childVars, wakeVars, RunShape, OneFamily, Settled,
       AllEnded, Existing
  <1>5. CASE Create
    BY Zenon, <1>5 DEF Create, wakeVars, RunShape, OneFamily, Settled
  <1>6. CASE Flip
    <2>1. ppc = "flip" /\ ppc' = "pause" /\ UNCHANGED <<child, wpc>> /\ parent.status = "RUNNING"
      BY Zenon, <1>6 DEF Flip, childVars, wakeVars, RunShape
    <2>2. parent'.status = "WAITING_FOR_CHILDREN"
      <3>1. "cut" \notin missed'
        OBVIOUS
      <3>2. \/ parent' = Row("WAITING_FOR_CHILDREN", parent.lease, parent.attempt)
            \/ missed' = missed \union {"cut"}
        BY Zenon, <1>6 DEF Flip
      <3>3. parent' = Row("WAITING_FOR_CHILDREN", parent.lease, parent.attempt)
        BY Zenon, <3>1, <3>2
      <3> QED BY Zenon, <3>3 DEF Row
    <2>3. AllEnded' = AllEnded
      BY Zenon, <2>1 DEF AllEnded, Existing
    <2> QED BY Zenon, <2>1, <2>2, <2>3 DEF Settled
  <1>7. CASE Pause
    <2>1. "cut" \notin missed'
      OBVIOUS
    <2>2. execPaused' = TRUE /\ ppc' = "classify" /\ wpc' = StartHeal
      BY Zenon, <1>7, <2>1 DEF Pause
    <2>3. ppc = "pause" /\ UNCHANGED <<parent, child>>
      BY Zenon, <1>7 DEF Pause, childVars
    <2>4. \A w \in Wakers : wpc'[w] = "write" => wpc[w] = "write"
      BY Zenon, <2>2 DEF StartHeal, WakeOK
    <2> QED BY Zenon, <2>2, <2>3, <2>4 DEF Settled, AllEnded, Existing
  <1>8. CASE HandleFailure
    BY Zenon, <1>8 DEF HandleFailure, childVars, wakeVars, Settled, AllEnded, Existing
  <1>9. CASE Classify
    <2>1. "misread" \notin missed'
      OBVIOUS
    <2>2. /\ ppc = "classify" /\ UNCHANGED <<parent, child, wpc, execPaused>>
          /\ \/ ppc' = "release" /\ parent.status = "COMPLETED"
             \/ ppc' = "reload"
             \/ ppc' = "failed" /\ (parent.status = "FAILED" \/ ~execPaused)
      BY Zenon, <1>9, <2>1 DEF Classify, childVars, wakeVars
    <2>3. AllEnded' = AllEnded
      BY Zenon, <2>2 DEF AllEnded, Existing
    <2> QED BY Zenon, <2>2, <2>3 DEF Settled
  <1>10. CASE FinishFailed
    BY Zenon, <1>10 DEF FinishFailed, childVars, wakeVars, Settled, AllEnded, Existing
  <1>11. CASE Reload
    <2>1. /\ ppc = "reload" /\ UNCHANGED <<parent, child, wpc>>
          /\ \/ ppc' = "idle"
             \/ ppc' = "release" /\ released' \in {"PENDING", parent.status}
      BY Zenon, <1>11 DEF Reload, RunOver, childVars, wakeVars
    <2>2. AllEnded' = AllEnded
      BY Zenon, <2>1 DEF AllEnded, Existing
    <2> QED BY Zenon, <2>1, <2>2 DEF Settled
  <1>12. CASE Release
    <2>1. ppc = "release" /\ ppc' = "idle" /\ UNCHANGED <<child, wpc>>
      BY Zenon, <1>12 DEF Release, RunOver, childVars, wakeVars
    <2>2. parent' = parent \/ parent'.status = released
      <3>1. \/ parent' = parent
            \/ parent' = Row(released, FALSE, IF charged = 0 THEN parent.attempt ELSE charged)
        BY Zenon, <1>12 DEF Release
      <3>2. CASE parent' = Row(released, FALSE, IF charged = 0 THEN parent.attempt ELSE charged)
        BY Zenon, <3>2 DEF Row
      <3> QED BY Zenon, <3>1, <3>2
    <2>3. AllEnded' = AllEnded
      BY Zenon, <2>1 DEF AllEnded, Existing
    <2> QED BY Zenon, <2>1, <2>2, <2>3 DEF RunShape, Settled
  <1>13. CASE CreateFails
    <2>1. "cut" \notin missed'
      OBVIOUS
    <2>2. child' = [c \in Ids |-> IF c \in created THEN "none" ELSE child[c]]
      BY Zenon, <1>13, <2>1 DEF CreateFails
    <2>3. ppc = "create" /\ ppc' = "error" /\ UNCHANGED wpc
      BY Zenon, <1>13 DEF CreateFails, wakeVars
    <2>4. Existing' = {}
      BY Zenon, <2>2, <2>3 DEF OneFamily, Existing
    <2>5. AllEnded'
      BY Zenon, <2>4 DEF AllEnded
    <2> QED BY Zenon, <2>3, <2>5 DEF Settled
  <1>14. CASE RecoverExpired
    BY Zenon, <1>14 DEF RecoverExpired, childVars, runVars, batchVars, releaseVars, Settled, AllEnded, Existing
  <1>15. ASSUME NEW c \in Ids, ChildRuns(c) \/ ChildCancelled(c) \/ ChildClosed(c) PROVE Settled'
    BY ZenonT(60), <1>15, LimitsAssumption DEF ChildRuns, ChildCancelled, ChildClosed, ChildTo,
       Leasable, runVars, batchVars, releaseVars, history, ChildOK, WakeOK, ChildStatus, Ids, Wakers, RunShape,
       OneFamily, Settled, Waiting, AllEnded, Existing, Terminal
  <1>16. ASSUME NEW c \in Ids, ChildEndsSilently(c) PROVE Settled'
    BY Zenon, <1>16 DEF ChildEndsSilently, runVars, batchVars, releaseVars, wakeVars, ChildOK, Settled, AllEnded,
       Existing, Terminal
  <1>17. ASSUME NEW w \in Wakers, WakeGet(w) PROVE Settled'
    BY ZenonT(60), <1>17 DEF WakeGet, WakeTo, WakeEnds, childVars, runVars, batchVars, releaseVars, WakeOK, Settled,
       AllEnded, Existing
  <1>18. ASSUME NEW w \in Wakers, WakeChildren(w) PROVE Settled'
    BY Zenon, <1>18 DEF WakeChildren, WakeTo, WakeEnds, AllDone, childVars, runVars, batchVars, releaseVars, WakeOK,
       Settled, AllEnded, Existing
  <1>19. ASSUME NEW w \in Wakers, WakeWrite(w) PROVE Settled'
    BY Zenon, <1>19 DEF WakeWrite, childVars, runVars, batchVars, releaseVars, Settled, AllEnded, Existing
  <1>20. ASSUME NEW w \in Wakers, WakeFails(w) PROVE Settled'
    BY Zenon, <1>20 DEF WakeFails, WakeTo, WakeEnds, childVars, runVars, batchVars, releaseVars, WakeOK, Settled,
       AllEnded, Existing
  <1>21. CASE Crash
    <2>1. "cut" \notin missed'
      OBVIOUS
    <2>2. ppc # "flip" /\ (ppc = "create" => created = {})
      BY Zenon, <1>21, <2>1 DEF Crash
    <2>3. ppc' = "idle" /\ UNCHANGED <<parent, child>> /\ \A w \in Wakers : wpc'[w] = "idle"
      BY Zenon, <1>21 DEF Crash, RunOver, childVars
    <2>4. AllEnded' = AllEnded /\ (ppc = "create" => AllEnded)
      BY Zenon, <2>2, <2>3 DEF OneFamily, AllEnded, Existing
    <2> QED BY Zenon, <2>2, <2>3, <2>4 DEF Settled
  <1>22. CASE Restart
    BY Zenon, <1>22 DEF Restart, WakeTo, childVars, runVars, batchVars, releaseVars, WakeOK, Settled, AllEnded,
       Existing
  <1>23. CASE UNCHANGED vars
    BY Zenon, <1>23 DEF vars, Settled, AllEnded, Existing
  <1> QED
    BY Zenon, <1>1, <1>2, <1>3, <1>4, <1>5, <1>6, <1>7, <1>8, <1>9, <1>10, <1>11, <1>12,
       <1>13, <1>14, <1>15, <1>16, <1>17, <1>18, <1>19, <1>20, <1>21, <1>22, <1>23
       DEF Next, Daemon, Run, Wake

\* A step leaves the parent's row, writes a row of the right type, or gives
\* the parent back.
LEMMA ParentStep ==
    ASSUME TypeOK, [Next]_vars
    PROVE  ParentOK'
  <1>a. ParentOK /\ parent.attempt \in 1..MaxAttempts /\ loaded \in 1..MaxAttempts /\ released \in Status
    BY Zenon DEF TypeOK, ParentOK
  <1>b. {"QUEUED", "RUNNING", "WAITING_FOR_CHILDREN", "COMPLETED", "FAILED"} \subseteq Status
    BY Zenon DEF Status
  <1>c. ASSUME UNCHANGED parent PROVE ParentOK'
    BY Zenon, <1>a, <1>c DEF ParentOK
  <1>1. CASE Lease
    <2>1. parent' = Row("RUNNING", TRUE, parent.attempt)
      BY Zenon, <1>1 DEF Lease
    <2> QED BY Zenon, <1>a, <1>b, <2>1, RowTypes DEF ParentOK
  <1>2. CASE GuardFails
    BY Zenon, <1>c, <1>2 DEF GuardFails
  <1>3. CASE Finish
    <2>1. \/ parent' = parent
          \/ parent' = Row("COMPLETED", parent.lease, parent.attempt)
      BY Zenon, <1>3 DEF Finish
    <2>2. CASE parent' = Row("COMPLETED", parent.lease, parent.attempt)
      BY Zenon, <1>a, <1>b, <2>2, RowTypes DEF ParentOK
    <2> QED BY Zenon, <2>1, <1>c, <2>2
  <1>4. ASSUME NEW n \in 1..(FanOutLimit + 1), NEW m \in Modes, Delegate(n, m)
        PROVE  ParentOK'
    BY Zenon, <1>c, <1>4 DEF Delegate
  <1>5. CASE Create
    BY Zenon, <1>c, <1>5 DEF Create
  <1>6. CASE Flip
    <2>1. \/ parent' = parent
          \/ parent' = Row("WAITING_FOR_CHILDREN", parent.lease, parent.attempt)
      BY Zenon, <1>6 DEF Flip
    <2>3. CASE parent' = Row("WAITING_FOR_CHILDREN", parent.lease, parent.attempt)
      BY Zenon, <1>a, <1>b, <2>3, RowTypes DEF ParentOK
    <2> QED BY Zenon, <2>1, <1>c, <2>3
  <1>7. CASE Pause
    BY Zenon, <1>c, <1>7 DEF Pause
  <1>8. CASE HandleFailure
    <2>1. PICK s \in {"RUNNING", "FAILED"} : parent' = parent \/ parent' = Row(s, TRUE, loaded)
      BY Zenon, <1>8 DEF HandleFailure
    <2>2. CASE parent' = Row(s, TRUE, loaded)
      BY Zenon, <1>a, <1>b, <2>2, RowTypes DEF ParentOK
    <2> QED BY Zenon, <2>1, <1>c, <2>2
  <1>9. CASE Classify
    BY Zenon, <1>c, <1>9 DEF Classify
  <1>10. CASE FinishFailed
    BY Zenon, <1>c, <1>10 DEF FinishFailed
  <1>11. CASE Reload
    BY Zenon, <1>c, <1>11 DEF Reload
  <1>12. CASE Release
    <2>1. PICK a \in 1..MaxAttempts : parent' = parent \/ parent' = Row(released, FALSE, a)
      <3>1. charged # 0 => charged \in 1..MaxAttempts
        BY LimitsAssumption DEF TypeOK
      <3>2. parent' = parent \/ parent' = Row(released, FALSE, IF charged = 0 THEN parent.attempt ELSE charged)
        BY Zenon, <1>12 DEF Release
      <3> QED BY Zenon, <1>a, <3>1, <3>2
    <2>2. CASE parent' = Row(released, FALSE, a)
      BY Zenon, <1>a, <2>2, RowTypes DEF ParentOK
    <2> QED BY Zenon, <2>1, <1>c, <2>2
  <1>13. CASE CreateFails
    BY Zenon, <1>c, <1>13 DEF CreateFails
  <1>14. CASE RecoverExpired
    <2>1. \/ parent.attempt < MaxAttempts /\ parent' = Row("QUEUED", FALSE, parent.attempt + 1)
          \/ parent' = Row("FAILED", FALSE, parent.attempt)
      BY Zenon, <1>14 DEF RecoverExpired
    <2>2. CASE parent.attempt < MaxAttempts /\ parent' = Row("QUEUED", FALSE, parent.attempt + 1)
      <3>1. parent.attempt + 1 \in 1..MaxAttempts
        BY <1>a, <2>2, LimitsAssumption
      <3> QED BY Zenon, <1>a, <1>b, <2>2, <3>1, RowTypes DEF ParentOK
    <2>3. CASE parent' = Row("FAILED", FALSE, parent.attempt)
      BY Zenon, <1>a, <1>b, <2>3, RowTypes DEF ParentOK
    <2> QED BY Zenon, <2>1, <2>2, <2>3
  <1>15. ASSUME NEW c \in Ids, ChildRuns(c) \/ ChildCancelled(c) \/ ChildClosed(c) PROVE ParentOK'
    BY Zenon, <1>c, <1>15 DEF ChildRuns, ChildCancelled, ChildClosed, ChildTo
  <1>16. ASSUME NEW c \in Ids, ChildEndsSilently(c) PROVE ParentOK'
    BY Zenon, <1>c, <1>16 DEF ChildEndsSilently
  <1>17. ASSUME NEW w \in Wakers, WakeGet(w) PROVE ParentOK'
    BY Zenon, <1>c, <1>17 DEF WakeGet
  <1>18. ASSUME NEW w \in Wakers, WakeChildren(w) PROVE ParentOK'
    BY Zenon, <1>c, <1>18 DEF WakeChildren
  <1>19. ASSUME NEW w \in Wakers, WakeWrite(w) PROVE ParentOK'
    <2>1. \/ parent' = parent
          \/ parent' = Row("QUEUED", parent.lease, parent.attempt)
          \/ seen[w] < MaxAttempts /\ parent' = Row("QUEUED", parent.lease, seen[w] + 1)
          \/ parent' = Row("FAILED", parent.lease, parent.attempt)
      BY Zenon, <1>19 DEF WakeWrite, BudgetLeft
    <2>3. CASE parent' = Row("QUEUED", parent.lease, parent.attempt)
      BY Zenon, <1>a, <1>b, <2>3, RowTypes DEF ParentOK
    <2>4. CASE seen[w] < MaxAttempts /\ parent' = Row("QUEUED", parent.lease, seen[w] + 1)
      <3>1. seen[w] + 1 \in 1..MaxAttempts
        BY <2>4, LimitsAssumption DEF TypeOK
      <3> QED BY Zenon, <1>a, <1>b, <2>4, <3>1, RowTypes DEF ParentOK
    <2>5. CASE parent' = Row("FAILED", parent.lease, parent.attempt)
      BY Zenon, <1>a, <1>b, <2>5, RowTypes DEF ParentOK
    <2> QED BY Zenon, <2>1, <1>c, <2>3, <2>4, <2>5
  <1>20. ASSUME NEW w \in Wakers, WakeFails(w) PROVE ParentOK'
    BY Zenon, <1>c, <1>20 DEF WakeFails
  <1>21. CASE Crash
    BY Zenon, <1>c, <1>21 DEF Crash
  <1>22. CASE Restart
    BY Zenon, <1>c, <1>22 DEF Restart
  <1>23. CASE UNCHANGED vars
    BY Zenon, <1>c, <1>23 DEF vars
  <1> QED
    BY Zenon, <1>1, <1>2, <1>3, <1>4, <1>5, <1>6, <1>7, <1>8, <1>9, <1>10, <1>11, <1>12,
       <1>13, <1>14, <1>15, <1>16, <1>17, <1>18, <1>19, <1>20, <1>21, <1>22, <1>23
       DEF Next, Daemon, Run, Wake

\* So do the children's rows.
LEMMA ChildStep ==
    ASSUME ChildOK, [Next]_vars
    PROVE  ChildOK'
  <1>1. CASE Lease
    BY Zenon, <1>1 DEF Lease, childVars, ChildOK
  <1>2. CASE GuardFails
    BY Zenon, <1>2 DEF GuardFails, childVars, ChildOK
  <1>3. CASE Finish
    BY Zenon, <1>3 DEF Finish, childVars, ChildOK
  <1>4. ASSUME NEW n \in 1..(FanOutLimit + 1), NEW m \in Modes, Delegate(n, m)
        PROVE  ChildOK'
    BY Zenon, <1>4 DEF Delegate, childVars, ChildOK
  <1>5. CASE Create
    <2>1. PICK c \in Ids : /\ child' = [child EXCEPT ![c] = "QUEUED"]
                           /\ dep' = [dep EXCEPT ![c] = IF mode = "SEQUENTIAL" /\ created # {} THEN c - 1 ELSE 0]
      BY Zenon, <1>5 DEF Create
    <2>2. (IF mode = "SEQUENTIAL" /\ created # {} THEN c - 1 ELSE 0) \in 0..FanOutLimit
      BY LimitsAssumption DEF Ids
    <2> QED BY Zenon, <2>1, <2>2 DEF ChildOK, ChildStatus
  <1>6. CASE Flip
    BY Zenon, <1>6 DEF Flip, childVars, ChildOK
  <1>7. CASE Pause
    BY Zenon, <1>7 DEF Pause, childVars, ChildOK
  <1>8. CASE HandleFailure
    BY Zenon, <1>8 DEF HandleFailure, childVars, ChildOK
  <1>9. CASE Classify
    BY Zenon, <1>9 DEF Classify, childVars, ChildOK
  <1>10. CASE FinishFailed
    BY Zenon, <1>10 DEF FinishFailed, childVars, ChildOK
  <1>11. CASE Reload
    BY Zenon, <1>11 DEF Reload, childVars, ChildOK
  <1>12. CASE Release
    BY Zenon, <1>12 DEF Release, childVars, ChildOK
  <1>13. CASE CreateFails
    BY Zenon, <1>13 DEF CreateFails, ChildOK, ChildStatus
  <1>14. CASE RecoverExpired
    BY Zenon, <1>14 DEF RecoverExpired, childVars, ChildOK
  <1>15. ASSUME NEW c \in Ids, ChildRuns(c) \/ ChildCancelled(c) \/ ChildClosed(c) PROVE ChildOK'
    <2>1. PICK s \in ChildStatus : child' = [child EXCEPT ![c] = s] /\ dep' = dep
      BY Zenon, <1>15 DEF ChildRuns, ChildCancelled, ChildClosed, ChildTo, ChildStatus
    <2> QED BY Zenon, <2>1 DEF ChildOK
  <1>16. ASSUME NEW c \in Ids, ChildEndsSilently(c) PROVE ChildOK'
    BY Zenon, <1>16 DEF ChildEndsSilently, ChildOK, ChildStatus
  <1>17. ASSUME NEW w \in Wakers, WakeGet(w) PROVE ChildOK'
    BY Zenon, <1>17 DEF WakeGet, childVars, ChildOK
  <1>18. ASSUME NEW w \in Wakers, WakeChildren(w) PROVE ChildOK'
    BY Zenon, <1>18 DEF WakeChildren, childVars, ChildOK
  <1>19. ASSUME NEW w \in Wakers, WakeWrite(w) PROVE ChildOK'
    BY Zenon, <1>19 DEF WakeWrite, childVars, ChildOK
  <1>20. ASSUME NEW w \in Wakers, WakeFails(w) PROVE ChildOK'
    BY Zenon, <1>20 DEF WakeFails, childVars, ChildOK
  <1>21. CASE Crash
    BY Zenon, <1>21 DEF Crash, childVars, ChildOK
  <1>22. CASE Restart
    BY Zenon, <1>22 DEF Restart, childVars, ChildOK
  <1>23. CASE UNCHANGED vars
    BY Zenon, <1>23 DEF vars, ChildOK
  <1> QED
    BY Zenon, <1>1, <1>2, <1>3, <1>4, <1>5, <1>6, <1>7, <1>8, <1>9, <1>10, <1>11, <1>12,
       <1>13, <1>14, <1>15, <1>16, <1>17, <1>18, <1>19, <1>20, <1>21, <1>22, <1>23
       DEF Next, Daemon, Run, Wake

\* So does the parent's run.
LEMMA RunStep ==
    ASSUME ParentOK, RunOK, [Next]_vars
    PROVE  RunOK'
  <1>a. 1 \in Ids /\ 1 \in 1..MaxAttempts /\ 0 \in 0..MaxAttempts
    BY LimitsAssumption DEF Ids
  <1>b. BatchOver => want' \in Ids /\ mode' \in {"PARALLEL", "SEQUENTIAL"} /\ created' \subseteq Ids
    BY Zenon, <1>a DEF BatchOver
  <1>o. ASSUME RunOver PROVE RunOK'
    BY Zenon, <1>a, <1>b, <1>o DEF RunOver, RunOK, Status
  <1>1. CASE Lease
    BY Zenon, <1>1 DEF Lease, ParentOK, batchVars, releaseVars, RunOK
  <1>2. CASE GuardFails
    BY Zenon, <1>2 DEF GuardFails, batchVars, releaseVars, RunOK
  <1>3. CASE Finish
    BY Zenon, <1>3 DEF Finish, batchVars, releaseVars, RunOK
  <1>4. ASSUME NEW n \in 1..(FanOutLimit + 1), NEW m \in Modes, Delegate(n, m)
        PROVE  RunOK'
    <2>1. want' \in Ids
      <3>1. want' = want \/ (want' = n /\ Cardinality(Existing) + n <= FanOutLimit)
        BY Zenon, <1>4 DEF Delegate
      <3>2. Cardinality(Existing) \in Nat /\ n \in 1..(FanOutLimit + 1) /\ want \in Ids
        BY Zenon, ExistingFinite DEF RunOK
      <3>3. \A k \in Nat : k + n <= FanOutLimit => n \in Ids
        BY LimitsAssumption DEF Ids
      <3> QED BY Zenon, <3>1, <3>2, <3>3
    <2>2. mode' \in {"PARALLEL", "SEQUENTIAL"}
      BY Zenon, <1>4, LimitsAssumption DEF Delegate, RunOK
    <2> QED BY Zenon, <1>4, <2>1, <2>2 DEF Delegate, releaseVars, RunOK
  <1>5. CASE Create
    <2>1. \/ ppc' = "flip" /\ BatchOver
          \/ /\ ppc' = "create" /\ UNCHANGED <<want, mode>>
             /\ \E c \in Ids : created' = created \union {c}
      BY Zenon, <1>5 DEF Create
    <2>2. want' \in Ids /\ mode' \in {"PARALLEL", "SEQUENTIAL"} /\ created' \subseteq Ids
      BY Zenon, <1>b, <2>1 DEF RunOK
    <2> QED BY Zenon, <1>5, <2>1, <2>2 DEF Create, releaseVars, RunOK
  <1>6. CASE Flip
    BY Zenon, <1>6 DEF Flip, batchVars, releaseVars, RunOK
  <1>7. CASE Pause
    BY Zenon, <1>7 DEF Pause, batchVars, releaseVars, RunOK
  <1>8. CASE HandleFailure
    BY Zenon, <1>8 DEF HandleFailure, batchVars, releaseVars, RunOK
  <1>9. CASE Classify
    BY Zenon, <1>9 DEF Classify, batchVars, RunOK, Status
  <1>10. CASE FinishFailed
    <2>1. charged' = 0 \/ (parent.attempt < MaxAttempts /\ charged' = parent.attempt + 1)
      BY Zenon, <1>10 DEF FinishFailed
    <2>2. parent.attempt \in 1..MaxAttempts
      BY Zenon DEF ParentOK
    <2>3. charged' \in 0..MaxAttempts
      BY <2>1, <2>2, LimitsAssumption
    <2> QED BY Zenon, <1>10, <2>3 DEF FinishFailed, batchVars, RunOK, Status
  <1>11. CASE Reload
    <2>1. CASE ppc' = "release" /\ UNCHANGED <<loaded, batchVars, execPaused, charged>>
               /\ released' \in {"PENDING", parent.status}
      BY Zenon, <2>1 DEF ParentOK, batchVars, RunOK, Status
    <2> QED BY Zenon, <1>o, <1>11, <2>1 DEF Reload
  <1>12. CASE Release
    BY Zenon, <1>o, <1>12 DEF Release
  <1>13. CASE CreateFails
    <2>1. BatchOver /\ ppc' = "error" /\ UNCHANGED <<loaded, execPaused, released, charged>>
      BY Zenon, <1>13 DEF CreateFails, releaseVars
    <2>2. want' \in Ids /\ mode' \in {"PARALLEL", "SEQUENTIAL"} /\ created' \subseteq Ids
      BY Zenon, <1>b, <2>1
    <2> QED BY Zenon, <2>1, <2>2 DEF RunOK
  <1>14. CASE RecoverExpired
    BY Zenon, <1>14 DEF RecoverExpired, runVars, batchVars, releaseVars, RunOK
  <1>15. ASSUME NEW c \in Ids, ChildRuns(c) \/ ChildCancelled(c) \/ ChildClosed(c) PROVE RunOK'
    BY Zenon, <1>15 DEF ChildRuns, ChildCancelled, ChildClosed, ChildTo, runVars, batchVars, releaseVars, RunOK
  <1>16. ASSUME NEW c \in Ids, ChildEndsSilently(c) PROVE RunOK'
    BY Zenon, <1>16 DEF ChildEndsSilently, runVars, batchVars, releaseVars, RunOK
  <1>17. ASSUME NEW w \in Wakers, WakeGet(w) PROVE RunOK'
    BY Zenon, <1>17 DEF WakeGet, runVars, batchVars, releaseVars, RunOK
  <1>18. ASSUME NEW w \in Wakers, WakeChildren(w) PROVE RunOK'
    BY Zenon, <1>18 DEF WakeChildren, runVars, batchVars, releaseVars, RunOK
  <1>19. ASSUME NEW w \in Wakers, WakeWrite(w) PROVE RunOK'
    BY Zenon, <1>19 DEF WakeWrite, runVars, batchVars, releaseVars, RunOK
  <1>20. ASSUME NEW w \in Wakers, WakeFails(w) PROVE RunOK'
    BY Zenon, <1>20 DEF WakeFails, runVars, batchVars, releaseVars, RunOK
  <1>21. CASE Crash
    BY Zenon, <1>o, <1>21 DEF Crash
  <1>22. CASE Restart
    BY Zenon, <1>22 DEF Restart, runVars, batchVars, releaseVars, RunOK
  <1>23. CASE UNCHANGED vars
    BY Zenon, <1>23 DEF vars, RunOK
  <1> QED
    BY Zenon, <1>1, <1>2, <1>3, <1>4, <1>5, <1>6, <1>7, <1>8, <1>9, <1>10, <1>11, <1>12,
       <1>13, <1>14, <1>15, <1>16, <1>17, <1>18, <1>19, <1>20, <1>21, <1>22, <1>23
       DEF Next, Daemon, Run, Wake

\* So do the wakers.
LEMMA WakeStep ==
    ASSUME ParentOK, WakeOK, [Next]_vars
    PROVE  WakeOK'
  <1>1. CASE Lease
    BY Zenon, <1>1 DEF Lease, wakeVars, WakeOK
  <1>2. CASE GuardFails
    BY Zenon, <1>2 DEF GuardFails, wakeVars, WakeOK
  <1>3. CASE Finish
    BY Zenon, <1>3 DEF Finish, wakeVars, WakeOK
  <1>4. ASSUME NEW n \in 1..(FanOutLimit + 1), NEW m \in Modes, Delegate(n, m)
        PROVE  WakeOK'
    BY Zenon, <1>4 DEF Delegate, wakeVars, WakeOK
  <1>5. CASE Create
    BY Zenon, <1>5 DEF Create, wakeVars, WakeOK
  <1>6. CASE Flip
    BY Zenon, <1>6 DEF Flip, wakeVars, WakeOK
  <1>7. CASE Pause
    BY Zenon, <1>7 DEF Pause, StartHeal, WakeOK
  <1>8. CASE HandleFailure
    BY Zenon, <1>8 DEF HandleFailure, wakeVars, WakeOK
  <1>9. CASE Classify
    BY Zenon, <1>9 DEF Classify, wakeVars, WakeOK
  <1>10. CASE FinishFailed
    BY Zenon, <1>10 DEF FinishFailed, wakeVars, WakeOK
  <1>11. CASE Reload
    BY Zenon, <1>11 DEF Reload, wakeVars, WakeOK
  <1>12. CASE Release
    BY Zenon, <1>12 DEF Release, wakeVars, WakeOK
  <1>13. CASE CreateFails
    BY Zenon, <1>13 DEF CreateFails, wakeVars, WakeOK
  <1>14. CASE RecoverExpired
    BY Zenon, <1>14 DEF RecoverExpired, wakeVars, WakeOK
  <1>15. ASSUME NEW c \in Ids, ChildRuns(c) \/ ChildCancelled(c) \/ ChildClosed(c) PROVE WakeOK'
    BY Zenon, <1>15 DEF ChildRuns, ChildCancelled, ChildClosed, ChildTo, WakeOK
  <1>16. ASSUME NEW c \in Ids, ChildEndsSilently(c) PROVE WakeOK'
    BY Zenon, <1>16 DEF ChildEndsSilently, wakeVars, WakeOK
  <1>17. ASSUME NEW w \in Wakers, WakeGet(w) PROVE WakeOK'
    <2>1. CASE WakeTo(w, "children") /\ seen' = [seen EXCEPT ![w] = parent.attempt] /\ UNCHANGED anyFailed
      BY Zenon, <2>1 DEF WakeTo, ParentOK, WakeOK
    <2>2. CASE WakeEnds(w)
      BY <2>2, LimitsAssumption DEF WakeEnds, WakeTo, WakeOK
    <2> QED BY Zenon, <1>17, <2>1, <2>2 DEF WakeGet
  <1>18. ASSUME NEW w \in Wakers, WakeChildren(w) PROVE WakeOK'
    <2>1. ASSUME WakeTo(w, "write"), UNCHANGED seen,
                 anyFailed' = [anyFailed EXCEPT ![w] = \E c \in Existing : child[c] = "FAILED"]
          PROVE  WakeOK'
      <3>1. (\E c \in Existing : child[c] = "FAILED") \in BOOLEAN
        OBVIOUS
      <3>2. wpc' \in [Wakers -> {"idle", "get", "children", "write"}] /\ seen' = seen
        BY Zenon, <2>1 DEF WakeTo, WakeOK
      <3>3. anyFailed' \in [Wakers -> BOOLEAN]
        BY Zenon, <2>1, <3>1 DEF WakeOK
      <3> QED BY Zenon, <3>2, <3>3 DEF WakeOK
    <2>2. CASE WakeEnds(w)
      BY <2>2, LimitsAssumption DEF WakeEnds, WakeTo, WakeOK
    <2> QED BY Zenon, <1>18, <2>1, <2>2 DEF WakeChildren
  <1>19. ASSUME NEW w \in Wakers, WakeWrite(w) PROVE WakeOK'
    BY <1>19, LimitsAssumption DEF WakeWrite, WakeTo, WakeEnds, WakeOK
  <1>20. ASSUME NEW w \in Wakers, WakeFails(w) PROVE WakeOK'
    BY <1>20, LimitsAssumption DEF WakeFails, WakeTo, WakeEnds, WakeOK
  <1>21. CASE Crash
    BY <1>21, LimitsAssumption DEF Crash, WakeOK
  <1>22. CASE Restart
    BY Zenon, <1>22, LimitsAssumption DEF Restart, WakeTo, BootSweep, WakeOK, Wakers
  <1>23. CASE UNCHANGED vars
    BY Zenon, <1>23 DEF vars, WakeOK
  <1> QED
    BY Zenon, <1>1, <1>2, <1>3, <1>4, <1>5, <1>6, <1>7, <1>8, <1>9, <1>10, <1>11, <1>12,
       <1>13, <1>14, <1>15, <1>16, <1>17, <1>18, <1>19, <1>20, <1>21, <1>22, <1>23
       DEF Next, Daemon, Run, Wake

\* So do history and budgets.
LEMMA BudgetStep ==
    ASSUME BudgetOK, [Next]_vars
    PROVE  BudgetOK'
  <1>f. Fault => faults' \in 0..MaxFaults
    BY LimitsAssumption DEF Fault, BudgetOK
  <1>1. CASE Lease
    BY Zenon, <1>1 DEF Lease, history, BudgetOK
  <1>2. CASE GuardFails
    BY Zenon, <1>f, <1>2 DEF GuardFails, BudgetOK, Reasons
  <1>3. CASE Finish
    BY Zenon, <1>f, <1>3 DEF Finish, history, BudgetOK
  <1>4. ASSUME NEW n \in 1..(FanOutLimit + 1), NEW m \in Modes, Delegate(n, m)
        PROVE  BudgetOK'
    BY Zenon, <1>4 DEF Delegate, history, BudgetOK
  <1>5. CASE Create
    BY Zenon, <1>5 DEF Create, history, BudgetOK
  <1>6. CASE Flip
    <2>1. missed' = missed \/ missed' = missed \union {"cut"}
      BY Zenon, <1>6 DEF Flip
    <2>2. faults' \in 0..MaxFaults /\ UNCHANGED <<up, wakes>>
      BY Zenon, <1>f, <1>6 DEF Flip, BudgetOK
    <2>3. pauses' = pauses \/ pauses' = pauses + 1
      BY Zenon, <1>6 DEF Flip
    <2>4. pauses' \in Nat
      BY <2>3 DEF BudgetOK
    <2> QED BY Zenon, <2>1, <2>2, <2>4 DEF BudgetOK, Reasons
  <1>7. CASE Pause
    BY Zenon, <1>f, <1>7 DEF Pause, BudgetOK, Reasons
  <1>8. CASE HandleFailure
    BY Zenon, <1>f, <1>8 DEF HandleFailure, history, BudgetOK
  <1>9. CASE Classify
    BY Zenon, <1>f, <1>9 DEF Classify, BudgetOK, Reasons
  <1>10. CASE FinishFailed
    BY Zenon, <1>f, <1>10 DEF FinishFailed, history, BudgetOK
  <1>11. CASE Reload
    BY Zenon, <1>f, <1>11 DEF Reload, history, BudgetOK
  <1>12. CASE Release
    <2>1. missed' = missed \/ missed' = missed \union {"clobbered"}
      BY Zenon, <1>12 DEF Release
    <2>2. faults' \in 0..MaxFaults /\ UNCHANGED <<up, pauses, wakes>>
      BY Zenon, <1>f, <1>12 DEF Release, BudgetOK
    <2> QED BY Zenon, <2>1, <2>2 DEF BudgetOK, Reasons
  <1>13. CASE CreateFails
    BY Zenon, <1>f, <1>13 DEF CreateFails, BudgetOK, Reasons
  <1>14. CASE RecoverExpired
    BY Zenon, <1>14 DEF RecoverExpired, history, BudgetOK
  <1>15. ASSUME NEW c \in Ids, ChildRuns(c) \/ ChildCancelled(c) \/ ChildClosed(c) PROVE BudgetOK'
    BY Zenon, <1>15 DEF ChildRuns, ChildCancelled, ChildClosed, ChildTo, history,
       BudgetOK
  <1>16. ASSUME NEW c \in Ids, ChildEndsSilently(c) PROVE BudgetOK'
    BY Zenon, <1>f, <1>16 DEF ChildEndsSilently, BudgetOK, Reasons
  <1>17. ASSUME NEW w \in Wakers, WakeGet(w) PROVE BudgetOK'
    BY Zenon, <1>17 DEF WakeGet, history, BudgetOK
  <1>18. ASSUME NEW w \in Wakers, WakeChildren(w) PROVE BudgetOK'
    BY Zenon, <1>18 DEF WakeChildren, history, BudgetOK
  <1>19. ASSUME NEW w \in Wakers, WakeWrite(w) PROVE BudgetOK'
    BY <1>19 DEF WakeWrite, BudgetOK
  <1>20. ASSUME NEW w \in Wakers, WakeFails(w) PROVE BudgetOK'
    BY Zenon, <1>f, <1>20 DEF WakeFails, BudgetOK, Reasons
  <1>21. CASE Crash
    <2>1. missed' = missed \/ missed' = missed \union {"cut"}
      BY Zenon, <1>21 DEF Crash
    <2>2. faults' \in 0..MaxFaults /\ up' = FALSE /\ UNCHANGED <<pauses, wakes>>
      BY Zenon, <1>f, <1>21 DEF Crash
    <2> QED BY Zenon, <2>1, <2>2 DEF BudgetOK, Reasons
  <1>22. CASE Restart
    BY Zenon, <1>22 DEF Restart, history, BudgetOK
  <1>23. CASE UNCHANGED vars
    BY Zenon, <1>23 DEF vars, BudgetOK
  <1> QED
    BY Zenon, <1>1, <1>2, <1>3, <1>4, <1>5, <1>6, <1>7, <1>8, <1>9, <1>10, <1>11, <1>12,
       <1>13, <1>14, <1>15, <1>16, <1>17, <1>18, <1>19, <1>20, <1>21, <1>22, <1>23
       DEF Next, Daemon, Run, Wake

\* The run goes through its places in order.
LEMMA ShapeStep ==
    ASSUME ParentOK, ChildOK, RunOK, RunShape, [Next]_vars
    PROVE  RunShape'
  <1>1. CASE Lease
    BY Zenon, <1>1 DEF Lease, Row, childVars, batchVars, RunShape, Existing
  <1>2. CASE GuardFails
    BY Zenon, <1>2 DEF GuardFails, childVars, batchVars, RunShape, Existing
  <1>3. CASE Finish
    BY Zenon, <1>3 DEF Finish, Row, childVars, batchVars, RunShape, Existing
  <1>4. ASSUME NEW n \in 1..(FanOutLimit + 1), NEW m \in Modes, Delegate(n, m)
        PROVE  RunShape'
    BY Zenon, <1>4 DEF Delegate, childVars, RunShape, Existing
  <1>5. CASE Create
    <2>1. PICK c \in Ids : /\ child' = [child EXCEPT ![c] = "QUEUED"]
                           /\ \/ ppc' = "flip" /\ BatchOver
                              \/ ppc' = "create" /\ created' = created \union {c}
      BY Zenon, <1>5 DEF Create
    <2>2. ppc = "create" /\ UNCHANGED parent
      BY Zenon, <1>5 DEF Create
    <2>3. Existing' = Existing \union {c}
      BY Zenon, <2>1 DEF ChildOK, Existing
    <2> QED BY Zenon, <2>1, <2>2, <2>3 DEF RunShape, BatchOver
  <1>6. CASE Flip
    BY Zenon, <1>6 DEF Flip, childVars, batchVars, RunShape, Existing
  <1>7. CASE Pause
    BY Zenon, <1>7 DEF Pause, childVars, batchVars, RunShape, Existing
  <1>8. CASE HandleFailure
    BY Zenon, <1>8 DEF HandleFailure, childVars, batchVars, RunShape, Existing
  <1>9. CASE Classify
    BY Zenon, <1>9 DEF Classify, childVars, batchVars, RunShape, Existing
  <1>10. CASE FinishFailed
    BY Zenon, <1>10 DEF FinishFailed, childVars, batchVars, RunShape, Existing
  <1>11. CASE Reload
    <2>1. /\ ppc = "reload" /\ UNCHANGED child /\ ppc' \in {"idle", "release"}
          /\ created' = created \/ created' = {}
          /\ ppc' = "release" => released' # "RUNNING"
      BY Zenon, <1>11 DEF Reload, RunOver, BatchOver, childVars, batchVars
    <2> QED BY Zenon, <2>1 DEF RunShape, Existing
  <1>12. CASE Release
    BY Zenon, <1>12 DEF Release, RunOver, BatchOver, RunShape, Existing
  <1>13. CASE CreateFails
    BY Zenon, <1>13 DEF CreateFails, BatchOver, RunShape, Existing
  <1>14. CASE RecoverExpired
    BY Zenon, <1>14 DEF RecoverExpired, childVars, runVars, batchVars, releaseVars, RunShape, Existing
  <1>15. ASSUME NEW c \in Ids, ChildRuns(c) \/ ChildCancelled(c) \/ ChildClosed(c) PROVE RunShape'
    <2>1. \E s \in Terminal : ChildTo(c, s)
      BY Zenon, <1>15 DEF ChildRuns, ChildCancelled, ChildClosed, Terminal
    <2>2. PICK s \in Terminal : ChildTo(c, s)
      BY Zenon, <2>1
    <2>3. UNCHANGED <<parent, ppc, created, released>> /\ child' = [child EXCEPT ![c] = s]
      BY Zenon, <2>2 DEF ChildTo, runVars, batchVars, releaseVars
    <2>4. Existing \subseteq Existing'
      BY Zenon, <2>3 DEF Existing, ChildOK, Terminal
    <2> QED BY Zenon, <2>3, <2>4 DEF RunShape
  <1>16. ASSUME NEW c \in Ids, ChildEndsSilently(c) PROVE RunShape'
    BY Zenon, <1>16 DEF ChildEndsSilently, runVars, batchVars, releaseVars, ChildOK, RunShape, Existing
  <1>17. ASSUME NEW w \in Wakers, WakeGet(w) PROVE RunShape'
    BY Zenon, <1>17 DEF WakeGet, childVars, runVars, batchVars, releaseVars, RunShape, Existing
  <1>18. ASSUME NEW w \in Wakers, WakeChildren(w) PROVE RunShape'
    BY Zenon, <1>18 DEF WakeChildren, childVars, runVars, batchVars, releaseVars, RunShape, Existing
  <1>19. ASSUME NEW w \in Wakers, WakeWrite(w) PROVE RunShape'
    BY <1>19 DEF WakeWrite, Movable, Row, childVars, runVars, batchVars, releaseVars, RunShape, Existing
  <1>20. ASSUME NEW w \in Wakers, WakeFails(w) PROVE RunShape'
    BY Zenon, <1>20 DEF WakeFails, childVars, runVars, batchVars, releaseVars, RunShape, Existing
  <1>21. CASE Crash
    BY Zenon, <1>21 DEF Crash, RunOver, BatchOver, RunShape, Existing
  <1>22. CASE Restart
    BY Zenon, <1>22 DEF Restart, childVars, runVars, batchVars, releaseVars, RunShape, Existing
  <1>23. CASE UNCHANGED vars
    BY Zenon, <1>23 DEF vars, RunShape, Existing
  <1> QED
    BY Zenon, <1>1, <1>2, <1>3, <1>4, <1>5, <1>6, <1>7, <1>8, <1>9, <1>10, <1>11, <1>12,
       <1>13, <1>14, <1>15, <1>16, <1>17, <1>18, <1>19, <1>20, <1>21, <1>22, <1>23
       DEF Next, Daemon, Run, Wake

\* Every wake-up is paid for by a pause.
LEMMA CountStep ==
    ASSUME ParentOK, RunOK, BudgetOK, RunShape, Counted, [Next]_vars
    PROVE  Counted'
  <1>1. CASE Lease
    BY Zenon, <1>1 DEF Lease, Row, history, Counted, Waiting
  <1>2. CASE GuardFails
    BY Zenon, <1>2 DEF GuardFails, Counted, Waiting
  <1>3. CASE Finish
    <2>1. parent' = parent \/ parent'.status # "WAITING_FOR_CHILDREN"
      <3>1. parent' = parent \/ parent' = Row("COMPLETED", parent.lease, parent.attempt)
        BY Zenon, <1>3 DEF Finish
      <3>2. CASE parent' = Row("COMPLETED", parent.lease, parent.attempt)
        BY Zenon, <3>2 DEF Row
      <3> QED BY Zenon, <3>1, <3>2
    <2> QED BY Zenon, <1>3, <2>1 DEF Finish, history, Counted, Waiting
  <1>4. ASSUME NEW n \in 1..(FanOutLimit + 1), NEW m \in Modes, Delegate(n, m)
        PROVE  Counted'
    BY Zenon, <1>4 DEF Delegate, history, Counted, Waiting
  <1>5. CASE Create
    BY Zenon, <1>5 DEF Create, history, Counted, Waiting
  <1>6. CASE Flip
    <2>1. parent.status = "RUNNING" /\ wakes' = wakes /\ missed \subseteq missed'
      BY Zenon, <1>6 DEF Flip, RunShape
    <2>2. \/ pauses' = pauses + 1
          \/ pauses' = pauses /\ parent' = parent
      BY Zenon, <1>6 DEF Flip
    <2> QED BY <2>1, <2>2 DEF BudgetOK, Counted, Waiting
  <1>7. CASE Pause
    <2>1. missed \subseteq missed' /\ UNCHANGED <<parent, wakes, pauses>>
      BY Zenon, <1>7 DEF Pause
    <2> QED BY Zenon, <2>1 DEF Counted, Waiting
  <1>8. CASE HandleFailure
    <2>1. parent' = parent \/ parent'.status # "WAITING_FOR_CHILDREN"
      <3>1. \/ parent' = parent
            \/ parent' = Row(IF loaded < MaxAttempts THEN "RUNNING" ELSE "FAILED", TRUE, loaded)
        BY Zenon, <1>8 DEF HandleFailure
      <3>2. CASE parent' = Row(IF loaded < MaxAttempts THEN "RUNNING" ELSE "FAILED", TRUE, loaded)
        BY Zenon, <3>2 DEF Row
      <3> QED BY Zenon, <3>1, <3>2
    <2> QED BY Zenon, <1>8, <2>1 DEF HandleFailure, history, Counted, Waiting
  <1>9. CASE Classify
    <2>1. missed \subseteq missed' /\ UNCHANGED <<parent, wakes, pauses>>
      BY Zenon, <1>9 DEF Classify
    <2> QED BY Zenon, <2>1 DEF Counted, Waiting
  <1>10. CASE FinishFailed
    BY Zenon, <1>10 DEF FinishFailed, history, Counted, Waiting
  <1>11. CASE Reload
    BY Zenon, <1>11 DEF Reload, history, Counted, Waiting
  <1>12. CASE Release
    <2>1. wakes' = wakes /\ pauses' = pauses /\ missed \subseteq missed'
      BY Zenon, <1>12 DEF Release
    <2>2. CASE parent' = parent
      BY Zenon, <2>1, <2>2 DEF Counted, Waiting
    <2>3. CASE /\ parent' = Row(released, FALSE, IF charged = 0 THEN parent.attempt ELSE charged)
               /\ missed' = IF released = "WAITING_FOR_CHILDREN" /\ parent.status # released
                            THEN missed \union {"clobbered"} ELSE missed
      <3>1. parent'.status = released
        BY Zenon, <2>3 DEF Row
      <3> QED BY Zenon, <2>1, <2>3, <3>1 DEF Counted, Waiting
    <2> QED BY Zenon, <1>12, <2>2, <2>3 DEF Release
  <1>13. CASE CreateFails
    <2>1. missed \subseteq missed' /\ UNCHANGED <<parent, wakes, pauses>>
      BY Zenon, <1>13 DEF CreateFails
    <2> QED BY Zenon, <2>1 DEF Counted, Waiting
  <1>14. CASE RecoverExpired
    <2>1. parent'.status # "WAITING_FOR_CHILDREN"
      BY Zenon, <1>14 DEF RecoverExpired, Row
    <2> QED BY Zenon, <1>14, <2>1 DEF RecoverExpired, history, Counted, Waiting
  <1>15. ASSUME NEW c \in Ids, ChildRuns(c) \/ ChildCancelled(c) \/ ChildClosed(c) PROVE Counted'
    BY Zenon, <1>15 DEF ChildRuns, ChildCancelled, ChildClosed, ChildTo, history, Counted,
       Waiting
  <1>16. ASSUME NEW c \in Ids, ChildEndsSilently(c) PROVE Counted'
    BY Zenon, <1>16 DEF ChildEndsSilently, Counted, Waiting
  <1>17. ASSUME NEW w \in Wakers, WakeGet(w) PROVE Counted'
    BY Zenon, <1>17 DEF WakeGet, history, Counted, Waiting
  <1>18. ASSUME NEW w \in Wakers, WakeChildren(w) PROVE Counted'
    BY Zenon, <1>18 DEF WakeChildren, history, Counted, Waiting
  <1>19. ASSUME NEW w \in Wakers, WakeWrite(w) PROVE Counted'
    BY <1>19 DEF WakeWrite, Movable, Row, BudgetOK, Counted, Waiting
  <1>20. ASSUME NEW w \in Wakers, WakeFails(w) PROVE Counted'
    BY Zenon, <1>20 DEF WakeFails, Counted, Waiting
  <1>21. CASE Crash
    <2>1. parent' = parent /\ wakes' = wakes /\ pauses' = pauses /\ missed \subseteq missed'
      BY Zenon, <1>21 DEF Crash
    <2> QED BY Zenon, <2>1 DEF Counted, Waiting
  <1>22. CASE Restart
    BY Zenon, <1>22 DEF Restart, history, Counted, Waiting
  <1>23. CASE UNCHANGED vars
    BY Zenon, <1>23 DEF vars, Counted, Waiting
  <1> QED
    BY Zenon, <1>1, <1>2, <1>3, <1>4, <1>5, <1>6, <1>7, <1>8, <1>9, <1>10, <1>11, <1>12,
       <1>13, <1>14, <1>15, <1>16, <1>17, <1>18, <1>19, <1>20, <1>21, <1>22, <1>23
       DEF Next, Daemon, Run, Wake

\* What was missed stays missed.
LEMMA MissedStep ==
    ASSUME BudgetOK, [Next]_vars
    PROVE  missed \subseteq missed'
  <1>1. CASE Lease
    BY Zenon, <1>1 DEF Lease, history
  <1>2. CASE GuardFails
    BY Zenon, <1>2 DEF GuardFails
  <1>3. CASE Finish
    BY Zenon, <1>3 DEF Finish, history
  <1>4. ASSUME NEW n \in 1..(FanOutLimit + 1), NEW m \in Modes, Delegate(n, m)
        PROVE  missed \subseteq missed'
    BY Zenon, <1>4 DEF Delegate, history
  <1>5. CASE Create
    BY Zenon, <1>5 DEF Create, history
  <1>6. CASE Flip
    BY Zenon, <1>6 DEF Flip
  <1>7. CASE Pause
    BY Zenon, <1>7 DEF Pause
  <1>8. CASE HandleFailure
    BY Zenon, <1>8 DEF HandleFailure, history
  <1>9. CASE Classify
    BY Zenon, <1>9 DEF Classify
  <1>10. CASE FinishFailed
    BY Zenon, <1>10 DEF FinishFailed, history
  <1>11. CASE Reload
    BY Zenon, <1>11 DEF Reload, history
  <1>12. CASE Release
    BY Zenon, <1>12 DEF Release
  <1>13. CASE CreateFails
    BY Zenon, <1>13 DEF CreateFails
  <1>14. CASE RecoverExpired
    BY Zenon, <1>14 DEF RecoverExpired, history
  <1>15. ASSUME NEW c \in Ids, ChildRuns(c) \/ ChildCancelled(c) \/ ChildClosed(c) PROVE missed \subseteq missed'
    BY Zenon, <1>15 DEF ChildRuns, ChildCancelled, ChildClosed, ChildTo, history
  <1>16. ASSUME NEW c \in Ids, ChildEndsSilently(c) PROVE missed \subseteq missed'
    BY Zenon, <1>16 DEF ChildEndsSilently
  <1>17. ASSUME NEW w \in Wakers, WakeGet(w) PROVE missed \subseteq missed'
    BY Zenon, <1>17 DEF WakeGet, history
  <1>18. ASSUME NEW w \in Wakers, WakeChildren(w) PROVE missed \subseteq missed'
    BY Zenon, <1>18 DEF WakeChildren, history
  <1>19. ASSUME NEW w \in Wakers, WakeWrite(w) PROVE missed \subseteq missed'
    BY Zenon, <1>19 DEF WakeWrite
  <1>20. ASSUME NEW w \in Wakers, WakeFails(w) PROVE missed \subseteq missed'
    BY Zenon, <1>20 DEF WakeFails
  <1>21. CASE Crash
    BY Zenon, <1>21 DEF Crash
  <1>22. CASE Restart
    BY Zenon, <1>22 DEF Restart, history
  <1>23. CASE UNCHANGED vars
    BY Zenon, <1>23 DEF vars
  <1> QED
    BY Zenon, <1>1, <1>2, <1>3, <1>4, <1>5, <1>6, <1>7, <1>8, <1>9, <1>10, <1>11, <1>12,
       <1>13, <1>14, <1>15, <1>16, <1>17, <1>18, <1>19, <1>20, <1>21, <1>22, <1>23
       DEF Next, Daemon, Run, Wake

\* The first state satisfies the invariant.
LEMMA InitIInv == Init => IInv
  <1> SUFFICES ASSUME Init PROVE IInv
    OBVIOUS
  <1>1. ParentOK /\ parent.status = "QUEUED"
    BY LimitsAssumption DEF Init, Row, ParentOK, Status
  <1>2. ChildOK /\ RunOK /\ BudgetOK
    <2>1. ChildOK
      BY LimitsAssumption DEF Init, ChildOK, ChildStatus
    <2>2. RunOK
      <3>1. execPaused \in BOOLEAN
        BY Zenon DEF Init
      <3>2. /\ loaded \in 1..MaxAttempts /\ want \in Ids /\ created \subseteq Ids
            /\ charged \in 0..MaxAttempts
        BY LimitsAssumption DEF Init, Ids
      <3>3. ppc = "idle" /\ released \in Status /\ mode = "PARALLEL"
        BY Zenon DEF Init, Status
      <3> QED BY Zenon, <3>1, <3>2, <3>3 DEF RunOK
    <2>3. BudgetOK
      BY LimitsAssumption DEF Init, BudgetOK
    <2> QED BY Zenon, <2>1, <2>2, <2>3
  <1>3. WakeOK /\ \A w \in Wakers : wpc[w] = "idle"
    BY LimitsAssumption DEF Init, WakeOK
  <1>4. TypeOK
    BY Zenon, <1>1, <1>2, <1>3 DEF TypeOK, ParentOK, ChildOK, RunOK, WakeOK, BudgetOK
  <1>5. Existing = {}
    BY Zenon DEF Init, Existing
  <1>6. ppc = "idle" /\ created = {} /\ wakes = 0 /\ pauses = 0
    BY Zenon DEF Init
  <1>7. RunShape /\ Counted
    BY <1>1, <1>6 DEF RunShape, Counted, Waiting
  <1>8. AllEnded
    BY Zenon, <1>5 DEF AllEnded
  <1>9. Family /\ Ended
    BY Zenon, <1>1, <1>3, <1>6, <1>8 DEF Family, Ended, OneFamily, Settled, Waiting
  <1> QED
    BY Zenon, <1>4, <1>7, <1>9 DEF IInv

\* The inductive invariant holds in every reachable state.
LEMMA Invariant == Spec => []IInv
  <1>1. IInv => ParentOK /\ ChildOK /\ RunOK /\ WakeOK /\ BudgetOK
    BY Zenon DEF IInv, TypeOK, ParentOK, ChildOK, RunOK, WakeOK, BudgetOK
  <1>2. ASSUME IInv, [Next]_vars PROVE TypeOK'
    <2>1. ParentOK' /\ ChildOK' /\ RunOK' /\ WakeOK' /\ BudgetOK'
      BY Zenon, <1>1, <1>2, ParentStep, ChildStep, RunStep, WakeStep, BudgetStep DEF IInv
    <2> QED BY Zenon, <2>1 DEF TypeOK, ParentOK, ChildOK, RunOK, WakeOK, BudgetOK
  <1>3. ASSUME IInv, [Next]_vars PROVE RunShape' /\ Counted'
    BY Zenon, <1>1, <1>3, ShapeStep, CountStep DEF IInv
  <1>4. ASSUME IInv, [Next]_vars PROVE missed \subseteq missed'
    BY Zenon, <1>1, <1>4, MissedStep
  <1>5. ASSUME IInv, [Next]_vars PROVE Family'
    BY Zenon, <1>1, <1>4, <1>5, FamilyStep DEF IInv, Family, Guarded
  <1>6. ASSUME IInv, [Next]_vars PROVE Ended'
    <2>1. ASSUME Guarded', missed' \intersect {"cut", "misread"} = {} PROVE Settled'
      <3>1. Guarded /\ missed \intersect {"cut", "misread"} = {}
        BY Zenon, <1>4, <1>6, <2>1 DEF Guarded
      <3>2. {"unguarded", "cut", "misread"} \intersect missed' = {}
        BY Zenon, <2>1 DEF Guarded
      <3> QED BY Zenon, <1>1, <1>6, <3>1, <3>2, EndedStep DEF IInv, Family, Ended, Guarded
    <2> QED BY Zenon, <2>1 DEF Ended
  <1>7. IInv /\ [Next]_vars => IInv'
    BY Zenon, <1>2, <1>3, <1>5, <1>6 DEF IInv
  <1> QED
    BY <1>7, InitIInv, PTL DEF Spec

\* Rows, wakers and history keep their types; in particular no child failure
\* takes the parent past its attempts.
THEOREM TypeCorrect == Spec => []TypeOK
  <1>1. IInv => TypeOK
    BY Zenon DEF IInv
  <1> QED
    BY <1>1, Invariant, PTL

\* unblockParentIfChildrenDone wakes a parent once per pause, however many
\* wakers run and wherever the daemon is killed.
THEOREM WakesOncePerPause == Spec => []WakesOnce
  <1>1. IInv => WakesOnce
    BY Zenon DEF IInv, Counted, WakesOnce
  <1> QED
    BY <1>1, Invariant, PTL

\* A route step whose runs were neither cut nor misread by the dispatcher
\* completes only after all its children.
THEOREM CompletesLast == Spec => []CompletesUnlessCut
  <1>1. IInv => CompletesUnlessCut
    BY Zenon DEF IInv, Ended, Settled, AllEnded, CompletesUnlessCut, CompletesAfterChildren
  <1> QED
    BY <1>1, Invariant, PTL

\* The resume guard keeps a route step from creating children twice.
THEOREM NeverRespawns == Spec => NoRespawn
  <1>1. IInv /\ [Next]_vars => (Guarded => \A c \in Ids :
            child[c] = "none" /\ child'[c] # "none" => Existing = created)
    <2> SUFFICES ASSUME IInv, [Next]_vars, Guarded, NEW c \in Ids,
                        child[c] = "none", child'[c] # "none"
                 PROVE  Existing = created
      OBVIOUS
    <2>1. ppc = "create"
      BY Zenon DEF IInv, TypeOK, Next, Daemon, Run, Wake, Lease, GuardFails, Finish, Delegate,
         Create, Flip, Pause, HandleFailure, Classify, FinishFailed, Reload, Release, CreateFails,
         RecoverExpired, ChildRuns, ChildCancelled, ChildClosed, ChildTo, Leasable,
         ChildEndsSilently, WakeGet, WakeChildren, WakeWrite, WakeFails, Crash, Restart,
         vars, childVars, Existing
    <2> QED
      BY Zenon, <2>1 DEF IInv, Family, OneFamily
  <1> QED
    BY <1>1, Invariant, PTL DEF Spec, NoRespawn

=============================================================================
