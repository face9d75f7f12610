--------------------------- MODULE ChatQueueProofs ---------------------------
(***************************************************************************)
(* WorkConserving, GaugesSettle, and that ChatQueue implements             *)
(* PriorityService, for any calls, priorities and routes and any finite    *)
(* set of workers.                                                         *)
(***************************************************************************)
EXTENDS ChatQueue, FiniteSetTheorems, TLAPS

\* What a caller's and a worker's place says about its call.
Places ==
    /\ \A c \in Calls : cpc[c] = "new" <=> seq[c] = -1
    /\ \A c \in Calls : cpc[c] # "returned" => outcome[c] = "none"
    /\ \A c \in Calls : cpc[c] = "signal" => c \in gone
    /\ \A w \in Workers : wpc[w] \in {"ready", "asleep"} <=> cur[w] = None

\* The inductive form of WorkConserving.
Awake ==
    /\ IsFiniteSet(calls)
    /\ WorkConserving

IInv == TypeOK /\ Places /\ Awake

-----------------------------------------------------------------------------
\* No call was made and every worker is up: the initial states satisfy IInv.
LEMMA InitInv == Init => IInv
<1> SUFFICES ASSUME Init PROVE IInv
  OBVIOUS
<1> USE NamesAssumption, NumbersAssumption DEF Init
<1>1. TypeOK
  BY DEF TypeOK
<1>2. Places
  BY Zenon DEF Places
<1>3. Awake
  <2>1. At("asleep") = {}
    BY Zenon DEF At
  <2> QED BY Zenon, <2>1, FS_EmptySet DEF Awake, WorkConserving
<1> QED BY Zenon, <1>1, <1>2, <1>3 DEF IInv

\* Dropping dead calls is counted in whole numbers.
LEMMA CountType == ASSUME IsFiniteSet(calls), NEW S, S \subseteq calls PROVE Cardinality(S) \in Nat
BY Zenon, FS_Subset, FS_CardinalityType

\* Every step preserves the types.
LEMMA TypeStep == TypeOK /\ Places /\ Awake /\ [Next]_vars => TypeOK'
<1> SUFFICES ASSUME TypeOK, Places, Awake, [Next]_vars PROVE TypeOK'
  OBVIOUS
<1>1. ASSUME NEW c \in Calls, Push(c) PROVE TypeOK'
  BY <1>1 DEF Push, SignalPush, Signal, TypeOK
<1>2. ASSUME NEW c \in Calls, Count(c) PROVE TypeOK'
  BY <1>2 DEF Count, workerVars, TypeOK
<1>3. ASSUME NEW c \in Calls, ReceiveAnswer(c) PROVE TypeOK'
  BY Zenon, <1>3 DEF ReceiveAnswer, workerVars, TypeOK
<1>4. ASSUME NEW c \in Calls, Abandon(c) PROVE TypeOK'
  BY Zenon, <1>4 DEF Abandon, TakenOff, workerVars, TypeOK
<1>5. ASSUME NEW c \in Calls, AbandonReturn(c) PROVE TypeOK'
  BY <1>5 DEF AbandonReturn, Signal, TypeOK
<1>6. ASSUME NEW c \in Calls, ContextEnds(c) PROVE TypeOK'
  BY Zenon, <1>6 DEF ContextEnds, workerVars, TypeOK
<1>7. ASSUME NEW w \in Workers, Sleep(w) PROVE TypeOK'
  <2>1. queueDepth' \in Int
    BY <1>7, CountType DEF Sleep
  <2> QED BY Zenon, <1>7, <2>1 DEF Sleep, callerVars, TypeOK
<1>8. ASSUME NEW w \in Workers, NEW c \in Calls, Pop(w, c) PROVE TypeOK'
  <2> DEFINE dropped == {d \in calls \ {c} : Less(d, c)}
  <2>1. Cardinality(dropped) \in Nat
    BY Zenon, CountType DEF Awake
  <2>2. queueDepth' \in Int
    BY <1>8, <2>1 DEF Pop
  <2> HIDE DEF dropped
  <2> QED BY Zenon, <1>8, <2>2 DEF Pop, callerVars, TypeOK
<1>9. ASSUME NEW w \in Workers, StartRun(w) PROVE TypeOK'
  BY <1>9 DEF StartRun, callerVars, TypeOK
<1>10. ASSUME NEW w \in Workers, AcquireSlot(w) PROVE TypeOK'
  <2>1. cur[w] \in Calls /\ RouteOf[cur[w]] \in Routes
    BY Zenon, <1>10, NamesAssumption DEF AcquireSlot, Places, TypeOK
  <2>2. sem' \in [Routes -> Nat]
    BY <1>10, <2>1 DEF AcquireSlot, TypeOK
  <2> QED BY Zenon, <1>10, <2>2 DEF AcquireSlot, callerVars, TypeOK
<1>11. ASSUME NEW w \in Workers, SlotDenied(w) PROVE TypeOK'
  <2>1. cur[w] \in Calls
    BY Zenon, <1>11 DEF SlotDenied, Places, TypeOK
  <2> QED BY <1>11, <2>1 DEF SlotDenied, Answer, callerVars, TypeOK
<1>12. ASSUME NEW w \in Workers, UpstreamReturns(w) PROVE TypeOK'
  <2>1. cur[w] \in Calls /\ RouteOf[cur[w]] \in Routes
    BY Zenon, <1>12, NamesAssumption DEF UpstreamReturns, Places, TypeOK
  <2>2. sem' \in [Routes -> Nat]
    BY <1>12, <2>1 DEF UpstreamReturns, TypeOK
  <2> QED BY <1>12, <2>1, <2>2 DEF UpstreamReturns, Answer, callerVars, TypeOK
<1>13. ASSUME NEW w \in Workers, UpstreamHangs(w) PROVE TypeOK'
  BY Zenon, <1>13 DEF UpstreamHangs, callerVars, TypeOK
<1>14. CASE UNCHANGED vars
  BY Zenon, <1>14 DEF vars, callerVars, workerVars, TypeOK
<1> QED BY ZenonT(60), <1>1, <1>2, <1>3, <1>4, <1>5, <1>6, <1>7, <1>8, <1>9, <1>10, <1>11, <1>12,
           <1>13, <1>14 DEF Next, Caller, Worker

\* Every step keeps callers, workers and calls in agreement.
LEMMA PlacesStep == TypeOK /\ Places /\ [Next]_vars => Places'
<1> SUFFICES ASSUME TypeOK, Places, [Next]_vars PROVE Places'
  OBVIOUS
<1>1. ASSUME NEW c \in Calls, Push(c) PROVE Places'
  BY <1>1 DEF Push, SignalPush, Signal, At, TypeOK, Places
<1>2. ASSUME NEW c \in Calls, Count(c) PROVE Places'
  BY <1>2 DEF Count, workerVars, Places
<1>3. ASSUME NEW c \in Calls, ReceiveAnswer(c) PROVE Places'
  BY <1>3 DEF ReceiveAnswer, workerVars, TypeOK, Places
<1>4. ASSUME NEW c \in Calls, Abandon(c) PROVE Places'
  BY <1>4 DEF Abandon, workerVars, Places
<1>5. ASSUME NEW c \in Calls, AbandonReturn(c) PROVE Places'
  BY <1>5 DEF AbandonReturn, Signal, At, TypeOK, Places
<1>6. ASSUME NEW c \in Calls, ContextEnds(c) PROVE Places'
  BY Zenon, <1>6 DEF ContextEnds, workerVars, Places
<1>7. ASSUME NEW w \in Workers, Sleep(w) PROVE Places'
  BY <1>7 DEF Sleep, callerVars, Places
<1>8. ASSUME NEW w \in Workers, NEW c \in Calls, Pop(w, c) PROVE Places'
  BY <1>8, NamesAssumption DEF Pop, callerVars, TypeOK, Places
<1>9. ASSUME NEW w \in Workers, StartRun(w) PROVE Places'
  BY Zenon, <1>9 DEF StartRun, callerVars, TypeOK, Places
<1>10. ASSUME NEW w \in Workers, AcquireSlot(w) PROVE Places'
  BY Zenon, <1>10 DEF AcquireSlot, callerVars, TypeOK, Places
<1>11. ASSUME NEW w \in Workers, SlotDenied(w) PROVE Places'
  BY ZenonT(60), <1>11 DEF SlotDenied, Answer, callerVars, TypeOK, Places
<1>12. ASSUME NEW w \in Workers, UpstreamReturns(w) PROVE Places'
  BY ZenonT(60), <1>12 DEF UpstreamReturns, Answer, callerVars, TypeOK, Places
<1>13. ASSUME NEW w \in Workers, UpstreamHangs(w) PROVE Places'
  BY ZenonT(60), <1>13 DEF UpstreamHangs, callerVars, TypeOK, Places
<1>14. CASE UNCHANGED vars
  BY Zenon, <1>14 DEF vars, callerVars, workerVars, Places
<1> QED BY ZenonT(60), <1>1, <1>2, <1>3, <1>4, <1>5, <1>6, <1>7, <1>8, <1>9, <1>10, <1>11, <1>12,
           <1>13, <1>14 DEF Next, Caller, Worker

\* Ready workers are counted in whole numbers.
LEMMA ReadyFinite == IsFiniteSet(At("ready")) /\ Cardinality(At("ready")) \in Nat
<1>1. At("ready") \subseteq Workers
  BY Zenon DEF At
<1> QED BY Zenon, <1>1, NumbersAssumption, FS_Subset, FS_CardinalityType

\* With as many ready workers as before or more and no new call, Awake stays.
LEMMA FewerCalls ==
    ASSUME Awake, calls' \subseteq calls, At("ready") \subseteq At("ready")',
           At("asleep")' \subseteq At("asleep")
    PROVE  Awake'
<1>1. IsFiniteSet(calls') /\ Cardinality(calls') <= Cardinality(calls)
  BY Zenon, FS_Subset DEF Awake
<1>2. Cardinality(calls) \in Nat /\ Cardinality(calls') \in Nat
  BY Zenon, <1>1, FS_CardinalityType DEF Awake
<1>3. At("ready")' \subseteq Workers
  BY Zenon DEF At
<1>4. IsFiniteSet(At("ready")') /\ Cardinality(At("ready")) <= Cardinality(At("ready")')
  BY Zenon, <1>3, NumbersAssumption, FS_Subset
<1>5. Cardinality(At("ready")') \in Nat /\ Cardinality(At("ready")) \in Nat
  BY Zenon, <1>4, FS_CardinalityType, ReadyFinite
<1> QED BY <1>1, <1>2, <1>4, <1>5 DEF Awake, WorkConserving

\* Push wakes a worker for its call; nobody else leaves a call without one.
LEMMA AwakeStep == TypeOK /\ Awake /\ [Next]_vars => Awake'
<1> SUFFICES ASSUME TypeOK, Awake, [Next]_vars PROVE Awake'
  OBVIOUS
<1>1. ASSUME NEW c \in Calls, Push(c) PROVE Awake'
  <2>1. IsFiniteSet(calls') /\ Cardinality(calls') <= Cardinality(calls) + 1
    <3>1. calls' = calls \cup {c} /\ IsFiniteSet(calls)
      BY Zenon, <1>1 DEF Push, Awake
    <3>2. /\ IsFiniteSet(calls')
          /\ Cardinality(calls') \in {Cardinality(calls), Cardinality(calls) + 1}
      BY Zenon, <3>1, FS_AddElement
    <3>3. Cardinality(calls) \in Nat
      BY Zenon, <3>1, FS_CardinalityType
    <3> QED BY <3>2, <3>3
  <2>2. CASE At("asleep") = {} /\ UNCHANGED wpc
    BY Zenon, <2>1, <2>2 DEF Awake, WorkConserving, At
  <2>3. ASSUME NEW w \in At("asleep"), wpc' = [wpc EXCEPT ![w] = "ready"] PROVE Awake'
    <3>1. At("ready")' = At("ready") \cup {w} /\ w \notin At("ready")
      BY Zenon, <2>3 DEF At, TypeOK
    <3>2. Cardinality(At("ready")') = Cardinality(At("ready")) + 1
      BY Zenon, <3>1, ReadyFinite, FS_AddElement
    <3>3. Cardinality(calls) <= Cardinality(At("ready"))
      BY Zenon DEF Awake, WorkConserving
    <3>4. Cardinality(calls) \in Nat /\ Cardinality(calls') \in Nat
      BY Zenon, <2>1, FS_CardinalityType DEF Awake
    <3> QED BY <2>1, <3>2, <3>3, <3>4, ReadyFinite DEF Awake, WorkConserving
  <2> QED BY Zenon, <1>1, <2>2, <2>3 DEF Push, SignalPush, Signal
<1>2. ASSUME NEW c \in Calls, Count(c) PROVE Awake'
  <2>1. At("ready") \subseteq At("ready")' /\ At("asleep")' \subseteq At("asleep")
    BY Zenon, <1>2 DEF Count, workerVars, At
  <2> QED BY Zenon, <1>2, <2>1, FewerCalls DEF Count
<1>3. ASSUME NEW c \in Calls, ReceiveAnswer(c) PROVE Awake'
  <2>1. At("ready") \subseteq At("ready")' /\ At("asleep")' \subseteq At("asleep")
    BY Zenon, <1>3 DEF ReceiveAnswer, workerVars, At
  <2> QED BY Zenon, <1>3, <2>1, FewerCalls DEF ReceiveAnswer
<1>4. ASSUME NEW c \in Calls, Abandon(c) PROVE Awake'
  <2>1. At("ready") \subseteq At("ready")' /\ At("asleep")' \subseteq At("asleep")
    BY Zenon, <1>4 DEF Abandon, workerVars, At
  <2> QED BY Zenon, <1>4, <2>1, FewerCalls DEF Abandon, TakenOff
<1>5. ASSUME NEW c \in Calls, AbandonReturn(c) PROVE Awake'
  <2>1. At("ready") \subseteq At("ready")' /\ At("asleep")' \subseteq At("asleep")
    BY Zenon, <1>5 DEF AbandonReturn, Signal, At, TypeOK
  <2> QED BY Zenon, <1>5, <2>1, FewerCalls DEF AbandonReturn
<1>6. ASSUME NEW c \in Calls, ContextEnds(c) PROVE Awake'
  <2>1. At("ready") \subseteq At("ready")' /\ At("asleep")' \subseteq At("asleep")
    BY Zenon, <1>6 DEF ContextEnds, workerVars, At
  <2> QED BY Zenon, <1>6, <2>1, FewerCalls DEF ContextEnds
<1>7. ASSUME NEW w \in Workers, Sleep(w) PROVE Awake'
  <2>1. IsFiniteSet(calls') /\ Cardinality(calls') = 0
    BY Zenon, <1>7, FS_EmptySet DEF Sleep
  <2>2. At("ready")' \subseteq Workers
    BY Zenon DEF At
  <2>3. Cardinality(At("ready")') \in Nat
    BY Zenon, <2>2, FS_Subset, FS_CardinalityType, NumbersAssumption
  <2> QED BY <2>1, <2>3 DEF Awake, WorkConserving
<1>8. ASSUME NEW w \in Workers, NEW c \in Calls, Pop(w, c) PROVE Awake'
  <2>1. c \in calls /\ calls' \subseteq calls \ {c}
    BY Zenon, <1>8 DEF Pop, Live
  <2>2. /\ IsFiniteSet(calls')
        /\ Cardinality(calls') <= Cardinality(calls) - 1
    <3>1. IsFiniteSet(calls \ {c}) /\ Cardinality(calls \ {c}) = Cardinality(calls) - 1
      BY Zenon, <2>1, FS_RemoveElement DEF Awake
    <3>2. Cardinality(calls \ {c}) \in Nat
      BY Zenon, <3>1, FS_CardinalityType
    <3> QED BY <2>1, <3>1, <3>2, FS_Subset
  <2>3. At("ready")' = At("ready") \ {w} /\ w \in At("ready") /\ At("asleep")' = At("asleep")
    BY Zenon, <1>8 DEF Pop, At, TypeOK
  <2>4. Cardinality(At("ready")') = Cardinality(At("ready")) - 1
    BY ZenonT(60), <2>3, ReadyFinite, FS_RemoveElement
  <2>5. Cardinality(calls) \in Nat /\ Cardinality(calls') \in Nat
    BY Zenon, <2>2, FS_CardinalityType DEF Awake
  <2> QED BY <2>2, <2>3, <2>4, <2>5, ReadyFinite DEF Awake, WorkConserving
<1>9. ASSUME NEW w \in Workers, StartRun(w) PROVE Awake'
  <2>1. At("ready") \subseteq At("ready")' /\ At("asleep")' \subseteq At("asleep")
    BY Zenon, <1>9 DEF StartRun, At, TypeOK
  <2> QED BY Zenon, <1>9, <2>1, FewerCalls DEF StartRun
<1>10. ASSUME NEW w \in Workers, AcquireSlot(w) PROVE Awake'
  <2>1. At("ready") \subseteq At("ready")' /\ At("asleep")' \subseteq At("asleep")
    BY Zenon, <1>10 DEF AcquireSlot, At, TypeOK
  <2> QED BY Zenon, <1>10, <2>1, FewerCalls DEF AcquireSlot
<1>11. ASSUME NEW w \in Workers, SlotDenied(w) PROVE Awake'
  <2>1. At("ready") \subseteq At("ready")' /\ At("asleep")' \subseteq At("asleep")
    BY Zenon, <1>11 DEF SlotDenied, Answer, At, TypeOK
  <2> QED BY Zenon, <1>11, <2>1, FewerCalls DEF SlotDenied
<1>12. ASSUME NEW w \in Workers, UpstreamReturns(w) PROVE Awake'
  <2>1. At("ready") \subseteq At("ready")' /\ At("asleep")' \subseteq At("asleep")
    BY Zenon, <1>12 DEF UpstreamReturns, Answer, At, TypeOK
  <2> QED BY Zenon, <1>12, <2>1, FewerCalls DEF UpstreamReturns
<1>13. ASSUME NEW w \in Workers, UpstreamHangs(w) PROVE Awake'
  <2>1. At("ready") \subseteq At("ready")' /\ At("asleep")' \subseteq At("asleep")
    BY Zenon, <1>13 DEF UpstreamHangs, At, TypeOK
  <2> QED BY Zenon, <1>13, <2>1, FewerCalls DEF UpstreamHangs
<1>14. CASE UNCHANGED vars
  <2>1. At("ready") \subseteq At("ready")' /\ At("asleep")' \subseteq At("asleep")
    BY Zenon, <1>14 DEF vars, workerVars, At
  <2> QED BY Zenon, <1>14, <2>1, FewerCalls DEF vars
<1> QED BY ZenonT(60), <1>1, <1>2, <1>3, <1>4, <1>5, <1>6, <1>7, <1>8, <1>9, <1>10, <1>11, <1>12,
           <1>13, <1>14 DEF Next, Caller, Worker

-----------------------------------------------------------------------------
\* IInv is an invariant of the queue.
THEOREM Invariance == Spec => []IInv
<1>1. IInv /\ [Next]_vars => IInv'
  BY Zenon, TypeStep, PlacesStep, AwakeStep DEF IInv
<1> QED BY InitInv, <1>1, PTL DEF Spec

\* Type correctness.
THEOREM TypeCorrect == Spec => []TypeOK
BY Invariance, PTL DEF IInv

\* No wakeup of the condition variable is lost (priority_queue.go, do, pop).
THEOREM WorkConservingHolds == Spec => []WorkConserving
<1>1. IInv => WorkConserving
  BY Zenon DEF IInv, Awake
<1> QED BY <1>1, Invariance, PTL

-----------------------------------------------------------------------------
\* Every step of the queue is a step of the service or leaves it alone.
LEMMA StepImplements == TypeOK /\ Places /\ [Next]_vars => [Service!Next]_(Service!vars)
<1> SUFFICES ASSUME TypeOK, Places, [Next]_vars PROVE [Service!Next]_(Service!vars)
  OBVIOUS
<1>1. ASSUME NEW c \in Calls, Push(c) PROVE [Service!Next]_(Service!vars)
  <2>1. Service!Submit(c)
    BY Zenon, <1>1 DEF Push, Service!Submit, Places
  <2> QED BY Zenon, <2>1 DEF Service!Next
<1>2. ASSUME NEW c \in Calls, Count(c) PROVE [Service!Next]_(Service!vars)
  BY Zenon, <1>2 DEF Count, workerVars, Service!vars
<1>3. ASSUME NEW c \in Calls, ReceiveAnswer(c) PROVE [Service!Next]_(Service!vars)
  <2>1. Service!Return(c, "result")
    BY Zenon, <1>3 DEF ReceiveAnswer, workerVars, Service!Return, Places
  <2> QED BY Zenon, <2>1 DEF Service!Next
<1>4. ASSUME NEW c \in Calls, Abandon(c) PROVE [Service!Next]_(Service!vars)
  <2>1. (calls \ gone)' = calls \ gone
    BY Zenon, <1>4 DEF Abandon, TakenOff
  <2> QED BY Zenon, <1>4, <2>1 DEF Abandon, workerVars, Service!vars
<1>5. ASSUME NEW c \in Calls, AbandonReturn(c) PROVE [Service!Next]_(Service!vars)
  <2>1. Service!Return(c, "error")
    BY Zenon, <1>5 DEF AbandonReturn, Service!Return, Places
  <2> QED BY Zenon, <2>1 DEF Service!Next
<1>6. ASSUME NEW c \in Calls, ContextEnds(c) PROVE [Service!Next]_(Service!vars)
  <2>1. Service!HangUp(c)
    BY Zenon, <1>6 DEF ContextEnds, workerVars, Service!HangUp
  <2> QED BY Zenon, <2>1 DEF Service!Next
<1>7. ASSUME NEW w \in Workers, Sleep(w) PROVE [Service!Next]_(Service!vars)
  <2>1. (calls \ gone)' = calls \ gone
    BY Zenon, <1>7 DEF Sleep, Live
  <2> QED BY Zenon, <1>7, <2>1 DEF Sleep, callerVars, Service!vars
<1>8. ASSUME NEW w \in Workers, NEW c \in Calls, Pop(w, c) PROVE [Service!Next]_(Service!vars)
  <2> DEFINE dropped == {d \in calls \ {c} : Less(d, c)}
  <2>1. \A d \in Live \ {c} : ~Less(d, c)
    BY <1>8, NumbersAssumption DEF Pop, Live, Less, TypeOK
  <2>2. (calls \ gone)' = (calls \ gone) \ {c}
    BY Zenon, <1>8, <2>1 DEF Pop, Live, callerVars
  <2>3. Service!Serve(w, c)
    BY Zenon, <1>8, <2>2 DEF Pop, Live, Less, callerVars, Service!Serve, Service!Before,
       Places
  <2> QED BY Zenon, <2>3 DEF Service!Next
<1>9. ASSUME NEW w \in Workers, StartRun(w) PROVE [Service!Next]_(Service!vars)
  BY Zenon, <1>9 DEF StartRun, callerVars, Service!vars
<1>10. ASSUME NEW w \in Workers, AcquireSlot(w) PROVE [Service!Next]_(Service!vars)
  BY Zenon, <1>10 DEF AcquireSlot, callerVars, Service!vars
<1>11. ASSUME NEW w \in Workers, SlotDenied(w) PROVE [Service!Next]_(Service!vars)
  <2>1. Service!Complete(w)
    BY Zenon, <1>11 DEF SlotDenied, Answer, callerVars, Service!Complete, Places
  <2> QED BY Zenon, <2>1 DEF Service!Next
<1>12. ASSUME NEW w \in Workers, UpstreamReturns(w) PROVE [Service!Next]_(Service!vars)
  <2>1. Service!Complete(w)
    BY Zenon, <1>12 DEF UpstreamReturns, Answer, callerVars, Service!Complete, Places
  <2> QED BY Zenon, <2>1 DEF Service!Next
<1>13. ASSUME NEW w \in Workers, UpstreamHangs(w) PROVE [Service!Next]_(Service!vars)
  BY Zenon, <1>13 DEF UpstreamHangs, callerVars, Service!vars
<1>14. CASE UNCHANGED vars
  BY Zenon, <1>14 DEF vars, callerVars, workerVars, Service!vars
<1> QED BY ZenonT(60), <1>1, <1>2, <1>3, <1>4, <1>5, <1>6, <1>7, <1>8, <1>9, <1>10, <1>11, <1>12,
           <1>13, <1>14 DEF Next, Caller, Worker

\* The queue serves its callers as PriorityService promises: in order, at most
\* once, by at most as many servers as there are workers (priority_queue.go).
THEOREM Implements == Spec => ImplementsService
<1>1. Init => Service!Init
  BY Zenon DEF Init, Service!Init
<1>2. IInv /\ [Next]_vars => [Service!Next]_(Service!vars)
  BY Zenon, StepImplements DEF IInv
<1> QED BY <1>1, <1>2, Invariance, PTL DEF Spec, ImplementsService, Service!Spec

-----------------------------------------------------------------------------
(* The gauges.                                                              *)

Counting == {c \in Calls : cpc[c] = "count"}
Running == {w \in Workers : wpc[w] \in {"slot", "upstream", "hung"}}
OnRoute(r) == {w \in At("upstream") \cup At("hung") : RouteOf[cur[w]] = r}

\* queueDepth is ahead of the heap by the calls popped or removed but not yet
\* counted out, and behind it by the calls pushed but not yet counted in.
DepthLedger ==
    /\ IsFiniteSet(Counting) /\ IsFiniteSet(removed)
    /\ \A c \in calls : cpc[c] # "new"
    /\ \A c \in removed : cpc[c] = "signal"
    /\ queueDepth = Cardinality(calls) + Cardinality(At("popped")) + Cardinality(removed)
                    - Cardinality(Counting)

FlightLedger == inFlight = Cardinality(Running)

SlotLedger == \A r \in Routes : sem[r] = Cardinality(OnRoute(r))

\* Sets of workers are counted in whole numbers.
LEMMA WorkersFinite ==
    ASSUME NEW S, S \subseteq Workers PROVE IsFiniteSet(S) /\ Cardinality(S) \in Nat
BY Zenon, NumbersAssumption, FS_Subset, FS_CardinalityType

\* queueDepth: a call is counted in by its caller and out by whoever took it
\* off the heap, in whatever order the two get to it.
LEMMA DepthStep == TypeOK /\ Awake /\ DepthLedger /\ [Next]_vars => DepthLedger'
<1> SUFFICES ASSUME TypeOK, Awake, DepthLedger, [Next]_vars PROVE DepthLedger'
  OBVIOUS
<1> DEFINE P == At("popped")
<1>0. /\ IsFiniteSet(calls) /\ IsFiniteSet(removed) /\ IsFiniteSet(Counting) /\ IsFiniteSet(P)
      /\ Cardinality(calls) \in Nat /\ Cardinality(removed) \in Nat
      /\ Cardinality(Counting) \in Nat /\ Cardinality(P) \in Nat
  BY Zenon, WorkersFinite, FS_CardinalityType DEF Awake, DepthLedger, At
<1>a. queueDepth = Cardinality(calls) + Cardinality(P) + Cardinality(removed) - Cardinality(Counting)
  BY Zenon DEF DepthLedger
<1>s. ASSUME Signal PROVE At("popped")' = P
  BY Zenon, <1>s DEF Signal, At, TypeOK
<1>1. ASSUME NEW c \in Calls, Push(c) PROVE DepthLedger'
  <2>1. c \notin calls /\ calls' = calls \cup {c} /\ c \notin removed /\ removed' = removed
    BY Zenon, <1>1 DEF Push, DepthLedger
  <2>2. c \notin Counting /\ Counting' = Counting \cup {c}
    BY Zenon, <1>1 DEF Push, Counting, TypeOK
  <2>3. P' = P /\ queueDepth' = queueDepth
    BY Zenon, <1>1, <1>s DEF Push, SignalPush
  <2>4. /\ Cardinality(calls') = Cardinality(calls) + 1
        /\ Cardinality(Counting') = Cardinality(Counting) + 1 /\ IsFiniteSet(Counting')
    BY Zenon, <2>1, <2>2, <1>0, FS_AddElement
  <2>5. /\ \A d \in calls' : cpc'[d] # "new"
        /\ \A d \in removed' : cpc'[d] = "signal"
    BY <1>1, <2>1 DEF Push, DepthLedger, TypeOK
  <2>6. queueDepth' = Cardinality(calls') + Cardinality(P') + Cardinality(removed') - Cardinality(Counting')
    BY <2>1, <2>3, <2>4, <1>0, <1>a
  <2> QED BY Zenon, <2>1, <2>4, <2>5, <2>6, <1>0 DEF DepthLedger
<1>2. ASSUME NEW c \in Calls, Count(c) PROVE DepthLedger'
  <2>1. calls' = calls /\ removed' = removed /\ P' = P /\ queueDepth' = queueDepth + 1
    BY Zenon, <1>2 DEF Count, workerVars, At
  <2>2. c \in Counting /\ Counting' = Counting \ {c}
    BY Zenon, <1>2 DEF Count, Counting, TypeOK
  <2>3. Cardinality(Counting') = Cardinality(Counting) - 1 /\ IsFiniteSet(Counting')
    BY Zenon, <2>2, <1>0, FS_RemoveElement
  <2>4. /\ \A d \in calls' : cpc'[d] # "new"
        /\ \A d \in removed' : cpc'[d] = "signal"
    BY <1>2, <2>1 DEF Count, DepthLedger
  <2>5. queueDepth' = Cardinality(calls') + Cardinality(P') + Cardinality(removed') - Cardinality(Counting')
    BY <2>1, <2>3, <1>0, <1>a
  <2> QED BY Zenon, <2>1, <2>3, <2>4, <2>5, <1>0 DEF DepthLedger
<1>3. ASSUME NEW c \in Calls, ReceiveAnswer(c) PROVE DepthLedger'
  <2>1. calls' = calls /\ removed' = removed /\ P' = P /\ queueDepth' = queueDepth
    BY Zenon, <1>3 DEF ReceiveAnswer, workerVars, At
  <2>2. Counting' = Counting
    BY <1>3 DEF ReceiveAnswer, Counting
  <2>3. /\ \A d \in calls' : cpc'[d] # "new"
        /\ \A d \in removed' : cpc'[d] = "signal"
    BY <1>3, <2>1 DEF ReceiveAnswer, DepthLedger
  <2> QED BY Zenon, <2>1, <2>2, <2>3, <1>0, <1>a DEF DepthLedger
<1>4. ASSUME NEW c \in Calls, Abandon(c) PROVE DepthLedger'
  <2>1. P' = P /\ queueDepth' = queueDepth /\ Counting' = Counting /\ c \notin removed
    BY <1>4 DEF Abandon, workerVars, At, Counting, DepthLedger
  <2>2. /\ calls' = calls \ {c}
        /\ removed' = IF c \in calls THEN removed \cup {c} ELSE removed
    BY Zenon, <1>4 DEF Abandon, TakenOff
  <2>3. /\ \A d \in calls' : cpc'[d] # "new"
        /\ \A d \in removed' : cpc'[d] = "signal"
    BY ZenonT(60), <1>4, <2>2 DEF Abandon, DepthLedger, TypeOK
  <2>4. CASE c \in calls
    <3>1. /\ Cardinality(calls') = Cardinality(calls) - 1
          /\ Cardinality(removed') = Cardinality(removed) + 1 /\ IsFiniteSet(removed')
      BY Zenon, <2>1, <2>2, <2>4, <1>0, FS_AddElement, FS_RemoveElement
    <3>2. queueDepth' = Cardinality(calls') + Cardinality(P') + Cardinality(removed') - Cardinality(Counting')
      BY <2>1, <3>1, <1>0, <1>a
    <3> QED BY Zenon, <2>1, <2>3, <3>1, <3>2, <1>0 DEF DepthLedger
  <2>5. CASE c \notin calls
    <3>1. calls' = calls /\ removed' = removed
      BY Zenon, <2>2, <2>5
    <3> QED BY Zenon, <2>1, <2>3, <3>1, <1>0, <1>a DEF DepthLedger
  <2> QED BY Zenon, <2>4, <2>5
<1>5. ASSUME NEW c \in Calls, AbandonReturn(c) PROVE DepthLedger'
  <2>1. P' = P /\ calls' = calls /\ Counting' = Counting /\ removed' = removed \ {c}
    BY <1>5, <1>s DEF AbandonReturn, Counting
  <2>2. /\ \A d \in calls' : cpc'[d] # "new"
        /\ \A d \in removed' : cpc'[d] = "signal"
    BY <1>5, <2>1 DEF AbandonReturn, DepthLedger
  <2>3. CASE c \in removed
    <3>1. queueDepth' = queueDepth - 1
      BY Zenon, <1>5, <2>3 DEF AbandonReturn
    <3>2. Cardinality(removed') = Cardinality(removed) - 1 /\ IsFiniteSet(removed')
      BY Zenon, <2>1, <2>3, <1>0, FS_RemoveElement
    <3>3. queueDepth' = Cardinality(calls') + Cardinality(P') + Cardinality(removed') - Cardinality(Counting')
      BY <2>1, <3>1, <3>2, <1>0, <1>a
    <3> QED BY Zenon, <2>1, <2>2, <3>2, <3>3, <1>0 DEF DepthLedger
  <2>4. CASE c \notin removed
    <3>1. removed' = removed /\ queueDepth' = queueDepth
      BY Zenon, <1>5, <2>1, <2>4 DEF AbandonReturn
    <3> QED BY Zenon, <2>1, <2>2, <3>1, <1>0, <1>a DEF DepthLedger
  <2> QED BY Zenon, <2>3, <2>4
<1>6. ASSUME NEW w \in Workers, NEW c \in Calls, Pop(w, c) PROVE DepthLedger'
  <2> DEFINE dropped == {d \in calls \ {c} : Less(d, c)}
  <2>1. /\ c \in calls /\ calls' = (calls \ {c}) \ dropped
        /\ queueDepth' = queueDepth - Cardinality(dropped)
        /\ UNCHANGED <<cpc, removed, Counting>>
    BY Zenon, <1>6 DEF Pop, Live, callerVars, Counting
  <2>2. w \notin P /\ P' = P \cup {w}
    BY Zenon, <1>6 DEF Pop, At, TypeOK
  <2>3. Cardinality(P') = Cardinality(P) + 1
    BY Zenon, <2>2, <1>0, FS_AddElement
  <2>4. /\ IsFiniteSet(calls \ {c}) /\ Cardinality(calls \ {c}) = Cardinality(calls) - 1
    BY Zenon, <2>1, <1>0, FS_RemoveElement
  <2>5. dropped \subseteq calls \ {c}
    OBVIOUS
  <2> HIDE DEF dropped
  <2>6. /\ IsFiniteSet(dropped) /\ Cardinality(dropped) \in Nat
        /\ Cardinality(calls') = Cardinality(calls \ {c}) - Cardinality(dropped)
    <3>1. IsFiniteSet(dropped) /\ Cardinality(dropped) \in Nat
      BY Zenon, <2>4, <2>5, FS_Subset, FS_CardinalityType
    <3>2. (calls \ {c}) \cap dropped = dropped
      BY Zenon, <2>5
    <3>3. Cardinality((calls \ {c}) \ dropped)
            = Cardinality(calls \ {c}) - Cardinality((calls \ {c}) \cap dropped)
      BY Zenon, <2>4, FS_Difference
    <3> QED BY Zenon, <2>1, <3>1, <3>2, <3>3
  <2>7. queueDepth' = Cardinality(calls') + Cardinality(P') + Cardinality(removed') - Cardinality(Counting')
    BY <2>1, <2>3, <2>4, <2>6, <1>0, <1>a
  <2> QED BY Zenon, <2>1, <2>7, <1>0 DEF DepthLedger
<1>7. ASSUME NEW w \in Workers, Sleep(w) PROVE DepthLedger'
  <2>1. /\ calls' = {} /\ queueDepth' = queueDepth - Cardinality(calls)
        /\ UNCHANGED <<cpc, removed, Counting>>
    BY Zenon, <1>7 DEF Sleep, callerVars, Counting
  <2>2. P' = P
    BY <1>7 DEF Sleep, At
  <2>3. Cardinality(calls') = 0
    BY Zenon, <2>1, FS_EmptySet
  <2>4. queueDepth' = Cardinality(calls') + Cardinality(P') + Cardinality(removed') - Cardinality(Counting')
    BY <2>1, <2>2, <2>3, <1>0, <1>a
  <2> QED BY Zenon, <2>1, <2>4, <1>0 DEF DepthLedger
<1>8. ASSUME NEW w \in Workers, StartRun(w) PROVE DepthLedger'
  <2>1. queueDepth' = queueDepth - 1 /\ UNCHANGED <<calls, cpc, removed, Counting>>
    BY Zenon, <1>8 DEF StartRun, callerVars, Counting
  <2>2. w \in P /\ P' = P \ {w}
    BY Zenon, <1>8 DEF StartRun, At, TypeOK
  <2>3. Cardinality(P') = Cardinality(P) - 1
    BY <2>2, <1>0, FS_RemoveElement
  <2>4. queueDepth' = Cardinality(calls') + Cardinality(P') + Cardinality(removed') - Cardinality(Counting')
    BY <2>1, <2>3, <1>0, <1>a
  <2> QED BY Zenon, <2>1, <2>4, <1>0 DEF DepthLedger
<1>9. CASE UNCHANGED <<calls, cpc, removed, queueDepth>> /\ P' = P
  <2>1. Counting' = Counting
    BY Zenon, <1>9 DEF Counting
  <2> QED BY Zenon, <1>9, <2>1, <1>0, <1>a DEF DepthLedger
<1>10. ASSUME NEW w \in Workers,
              AcquireSlot(w) \/ SlotDenied(w) \/ UpstreamReturns(w) \/ UpstreamHangs(w)
       PROVE  UNCHANGED <<calls, cpc, removed, queueDepth>> /\ P' = P
  BY ZenonT(60), <1>10 DEF AcquireSlot, SlotDenied, UpstreamReturns, UpstreamHangs, Answer,
     callerVars, At, TypeOK
<1>11. ASSUME NEW c \in Calls, ContextEnds(c)
       PROVE  UNCHANGED <<calls, cpc, removed, queueDepth>> /\ P' = P
  BY Zenon, <1>11 DEF ContextEnds, workerVars, At
<1>12. CASE UNCHANGED vars
  BY Zenon, <1>12, <1>9 DEF vars, callerVars, workerVars, At
<1> QED BY ZenonT(60), <1>1, <1>2, <1>3, <1>4, <1>5, <1>6, <1>7, <1>8, <1>9, <1>10, <1>11, <1>12
           DEF Next, Caller, Worker

\* inFlight: StartRun counts a call in, the answer counts it out.
LEMMA FlightStep == TypeOK /\ FlightLedger /\ [Next]_vars => FlightLedger'
<1> SUFFICES ASSUME TypeOK, FlightLedger, [Next]_vars PROVE FlightLedger'
  OBVIOUS
<1>0. IsFiniteSet(Running) /\ Cardinality(Running) \in Nat
  BY Zenon, WorkersFinite DEF Running
<1>1. ASSUME NEW w \in Workers, StartRun(w) PROVE FlightLedger'
  <2>1. w \notin Running /\ Running' = Running \cup {w} /\ inFlight' = inFlight + 1
    BY Zenon, <1>1 DEF StartRun, Running, TypeOK
  <2> QED BY Zenon, <2>1, <1>0, FS_AddElement DEF FlightLedger
<1>2. ASSUME NEW w \in Workers, SlotDenied(w) \/ UpstreamReturns(w) PROVE FlightLedger'
  <2>1. w \in Running /\ Running' = Running \ {w} /\ inFlight' = inFlight - 1
    BY Zenon, <1>2 DEF SlotDenied, UpstreamReturns, Answer, Running, TypeOK
  <2> QED BY Zenon, <2>1, <1>0, FS_RemoveElement DEF FlightLedger
<1>3. CASE inFlight' = inFlight /\ Running' = Running
  BY Zenon, <1>3 DEF FlightLedger
<1>4. ASSUME NEW w \in Workers, AcquireSlot(w) \/ UpstreamHangs(w) \/ Sleep(w)
      PROVE  inFlight' = inFlight /\ Running' = Running
  BY Zenon, <1>4 DEF AcquireSlot, UpstreamHangs, Sleep, Running, TypeOK
<1>5. ASSUME NEW w \in Workers, NEW c \in Calls, Pop(w, c)
      PROVE  inFlight' = inFlight /\ Running' = Running
  BY <1>5 DEF Pop, Running
<1>6. ASSUME NEW c \in Calls, Push(c) \/ AbandonReturn(c)
      PROVE  inFlight' = inFlight /\ Running' = Running
  BY Zenon, <1>6 DEF Push, SignalPush, AbandonReturn, Signal, At, Running, TypeOK
<1>7. ASSUME NEW c \in Calls, Count(c) \/ ReceiveAnswer(c) \/ Abandon(c) \/ ContextEnds(c)
      PROVE  inFlight' = inFlight /\ Running' = Running
  BY Zenon, <1>7 DEF Count, ReceiveAnswer, Abandon, ContextEnds, workerVars, Running
<1>8. CASE UNCHANGED vars
  BY Zenon, <1>8, <1>3 DEF vars, workerVars, Running
<1> QED BY ZenonT(60), <1>1, <1>2, <1>3, <1>4, <1>5, <1>6, <1>7, <1>8 DEF Next, Caller, Worker

\* The semaphores: a token is in a route's channel for every call upstream on it.
LEMMA SlotStep == TypeOK /\ SlotLedger /\ [Next]_vars => SlotLedger'
<1> SUFFICES ASSUME TypeOK, SlotLedger, [Next]_vars, NEW r \in Routes
             PROVE  sem'[r] = Cardinality(OnRoute(r)')
  BY Zenon DEF SlotLedger
<1>0. /\ IsFiniteSet(OnRoute(r)) /\ Cardinality(OnRoute(r)) \in Nat
      /\ sem[r] = Cardinality(OnRoute(r))
  BY Zenon, WorkersFinite DEF OnRoute, At, SlotLedger
<1>1. ASSUME NEW w \in Workers, AcquireSlot(w) PROVE sem'[r] = Cardinality(OnRoute(r)')
  <2>1. CASE RouteOf[cur[w]] = r
    <3>1. w \notin OnRoute(r) /\ OnRoute(r)' = OnRoute(r) \cup {w}
      BY Zenon, <1>1, <2>1 DEF AcquireSlot, OnRoute, At, TypeOK
    <3>2. sem'[r] = sem[r] + 1
      BY Zenon, <1>1, <2>1 DEF AcquireSlot, TypeOK
    <3>3. Cardinality(OnRoute(r) \cup {w}) = Cardinality(OnRoute(r)) + 1
      BY Zenon, <3>1, <1>0, FS_AddElement
    <3> QED BY Zenon, <3>1, <3>2, <3>3, <1>0
  <2>2. CASE RouteOf[cur[w]] # r
    <3>1. OnRoute(r)' = OnRoute(r)
      BY <1>1, <2>2 DEF AcquireSlot, OnRoute, At
    <3>2. sem'[r] = sem[r]
      BY <1>1, <2>2 DEF AcquireSlot
    <3> QED BY Zenon, <3>1, <3>2, <1>0
  <2> QED BY Zenon, <2>1, <2>2
<1>2. ASSUME NEW w \in Workers, UpstreamReturns(w) PROVE sem'[r] = Cardinality(OnRoute(r)')
  <2>0. /\ wpc[w] = "upstream" /\ wpc' = [wpc EXCEPT ![w] = "ready"]
        /\ cur' = [cur EXCEPT ![w] = None]
    BY Zenon, <1>2 DEF UpstreamReturns, Answer
  <2>1. CASE RouteOf[cur[w]] = r
    <3>1. w \in OnRoute(r) /\ OnRoute(r)' = OnRoute(r) \ {w}
      BY Zenon, <2>0, <2>1 DEF OnRoute, At, TypeOK
    <3>2. sem'[r] = sem[r] - 1
      BY Zenon, <1>2, <2>1 DEF UpstreamReturns, TypeOK
    <3>3. Cardinality(OnRoute(r) \ {w}) = Cardinality(OnRoute(r)) - 1
      BY Zenon, <3>1, <1>0, FS_RemoveElement
    <3> QED BY Zenon, <3>1, <3>2, <3>3, <1>0
  <2>2. CASE RouteOf[cur[w]] # r
    <3>1. OnRoute(r)' = OnRoute(r)
      BY Zenon, <2>0, <2>2 DEF OnRoute, At, TypeOK
    <3>2. sem'[r] = sem[r]
      BY <1>2, <2>2 DEF UpstreamReturns
    <3> QED BY Zenon, <3>1, <3>2, <1>0
  <2> QED BY Zenon, <2>1, <2>2
<1>3. CASE sem' = sem /\ OnRoute(r)' = OnRoute(r)
  BY Zenon, <1>3, <1>0
<1>4. ASSUME NEW w \in Workers, SlotDenied(w) \/ UpstreamHangs(w) \/ Sleep(w) \/ StartRun(w)
      PROVE  sem' = sem /\ OnRoute(r)' = OnRoute(r)
  BY <1>4 DEF SlotDenied, Answer, UpstreamHangs, Sleep, StartRun, OnRoute, At, TypeOK
<1>5. ASSUME NEW w \in Workers, NEW c \in Calls, Pop(w, c)
      PROVE  sem' = sem /\ OnRoute(r)' = OnRoute(r)
  BY <1>5 DEF Pop, OnRoute, At
<1>6. ASSUME NEW c \in Calls, Push(c) \/ AbandonReturn(c)
      PROVE  sem' = sem /\ OnRoute(r)' = OnRoute(r)
  BY <1>6 DEF Push, SignalPush, AbandonReturn, Signal, OnRoute, At, TypeOK
<1>7. ASSUME NEW c \in Calls, Count(c) \/ ReceiveAnswer(c) \/ Abandon(c) \/ ContextEnds(c)
      PROVE  sem' = sem /\ OnRoute(r)' = OnRoute(r)
  BY Zenon, <1>7 DEF Count, ReceiveAnswer, Abandon, ContextEnds, workerVars, OnRoute, At
<1>8. CASE UNCHANGED vars
  BY Zenon, <1>8, <1>3 DEF vars, workerVars, OnRoute, At
<1> QED BY ZenonT(60), <1>1, <1>2, <1>3, <1>4, <1>5, <1>6, <1>7, <1>8 DEF Next, Caller, Worker

\* Nothing is queued, running or upstream at the start.
LEMMA InitLedger == Init => DepthLedger /\ FlightLedger /\ SlotLedger
<1> SUFFICES ASSUME Init PROVE DepthLedger /\ FlightLedger /\ SlotLedger
  OBVIOUS
<1>1. Counting = {} /\ Running = {} /\ At("popped") = {} /\ \A r \in Routes : OnRoute(r) = {}
  BY Zenon DEF Init, Counting, Running, OnRoute, At
<1> QED BY <1>1, FS_EmptySet DEF Init, DepthLedger, FlightLedger, SlotLedger

\* The gauges of the queue and the tokens of the routes are right whenever no
\* caller and no worker is between a change and its report: no order of push,
\* pop, drop, removal and hang counts a call twice or forgets it.
THEOREM GaugesRight == Spec => []GaugesSettle
<1> DEFINE Ledger == DepthLedger /\ FlightLedger /\ SlotLedger
<1>1. Init => Ledger
  BY Zenon, InitLedger
<1>2. IInv /\ Ledger /\ [Next]_vars => Ledger'
  BY Zenon, DepthStep, FlightStep, SlotStep DEF IInv
<1>3. IInv /\ Ledger => GaugesSettle
  <2> SUFFICES ASSUME IInv, Ledger, At("popped") = {},
                      \A c \in Calls : cpc[c] \notin {"count", "signal"}
               PROVE  /\ queueDepth = Cardinality(calls)
                      /\ inFlight = Cardinality({w \in Workers : cur[w] # None})
                      /\ \A r \in Routes : sem[r] = Cardinality(OnRoute(r))
    BY Zenon DEF GaugesSettle, OnRoute
  <2>1. Counting = {} /\ removed = {}
    BY Zenon DEF Counting, DepthLedger, IInv, TypeOK
  <2>2. Running = {w \in Workers : cur[w] # None}
    BY DEF Running, IInv, Places, TypeOK, At
  <2>3. Cardinality(calls) \in Nat
    BY Zenon, FS_CardinalityType DEF IInv, Awake
  <2>4. queueDepth = Cardinality(calls)
    BY <2>1, <2>3, FS_EmptySet DEF DepthLedger
  <2> QED BY Zenon, <2>2, <2>4 DEF FlightLedger, SlotLedger
<1> QED BY <1>1, <1>2, <1>3, Invariance, PTL DEF Spec
=============================================================================
