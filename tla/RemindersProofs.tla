--------------------------- MODULE RemindersProofs ---------------------------
(***************************************************************************)
(* NeverEarly, NextOccurrence, and that Reminders implements               *)
(* ReminderService, for any runners, reminders and bounds.  The invariant: *)
(* a row that a runner has in hand is not pending and has one holder.      *)
(***************************************************************************)
EXTENDS Reminders, TLAPS

Has(n, r) == r \in batch[n] \/ cur[n] = r

Hands ==
    /\ \A n \in Runners : cur[n] = None <=> rpc[n] \in {"idle", "next"}
    /\ \A n \in Runners : rpc[n] = "idle" => batch[n] = {}
    /\ \A n \in Runners : cur[n] \notin batch[n]
    /\ \A n, m \in Runners, r \in Rems : Has(n, r) /\ Has(m, r) => n = m
    /\ \A n \in Runners, r \in Rems : Has(n, r) =>
         /\ status[r] \in {"firing", "fired", "cancelled", "deleted"}
         /\ fireAt[r] <= now

\* What was sent so far, and that what is armed or in hand was not.
Letters ==
    /\ \A r \in Rems : \A a \in sent[r] : a <= arming[r]
    /\ \A r \in Rems : status[r] \in {"none", "pending"} => arming[r] \notin sent[r]
    /\ \A n \in Runners, r \in Rems : Holds(n, r) => arming[r] \notin sent[r]
    /\ \A n \in Runners : rpc[n] = "finalize" => arming[cur[n]] \in sent[cur[n]]

\* Messages went out for occurrences that had come, none before the row was
\* there; and no update is under way before the first one.
Slots ==
    /\ \A r \in Rems : lastSlot[r] <= now
    /\ \A r \in Rems : status[r] = "none" => lastSlot[r] < 0
    /\ updates = 0 => \A r \in Rems : upc[r] = "none"
    /\ NextOccurrence

IInv == TypeOK /\ Hands /\ Letters /\ Slots

-----------------------------------------------------------------------------
\* No row and no runner at work: the initial states satisfy IInv.
LEMMA InitInv == Init => IInv
<1> SUFFICES ASSUME Init PROVE IInv
  OBVIOUS
<1> USE NamesAssumption, NumbersAssumption DEF Init
<1>1. TypeOK
  BY DEF TypeOK, Times
<1>2. Hands /\ Letters
  BY Zenon DEF Hands, Letters, Has, Holds
<1>3. Slots
  BY DEF Slots, NextOccurrence
<1> QED BY Zenon, <1>1, <1>2, <1>3 DEF IInv

\* Every step preserves the types.
LEMMA TypeStep == TypeOK /\ Hands /\ [Next]_vars => TypeOK'
<1> SUFFICES ASSUME TypeOK, Hands, [Next]_vars PROVE TypeOK'
  OBVIOUS
<1>1. ASSUME NEW n \in Runners, NEW S \in SUBSET Rems, LeaseDue(n, S) PROVE TypeOK'
  BY Zenon, <1>1 DEF LeaseDue, updateVars, logVars, TypeOK
<1>2. ASSUME NEW n \in Runners, NEW r \in Rems, NextOfBatch(n, r) PROVE TypeOK'
  BY Zenon, <1>2 DEF NextOfBatch, rowVars, updateVars, logVars, TypeOK
<1>3. ASSUME NEW n \in Runners, EndOfBatch(n) PROVE TypeOK'
  BY Zenon, <1>3 DEF EndOfBatch, rowVars, updateVars, logVars, TypeOK
<1>4. ASSUME NEW n \in Runners, SendSucceeds(n) PROVE TypeOK'
  BY <1>4 DEF SendSucceeds, Logged, rowVars, updateVars, TypeOK, Hands
<1>5. ASSUME NEW n \in Runners, SendFails(n) PROVE TypeOK'
  BY <1>5, NumbersAssumption DEF SendFails, Done, Fault, rowVars, updateVars, logVars,
     TypeOK, Times, Hands
<1>6. ASSUME NEW n \in Runners, SendUnacknowledged(n) PROVE TypeOK'
  <2>1. cur[n] \in Rems
    BY Zenon, <1>6 DEF SendUnacknowledged, TypeOK, Hands
  <2>2. sent' \in [Rems -> SUBSET Nat] /\ lastSlot' \in [Rems -> Int] /\ hurt' \subseteq Rems
    BY <1>6, <2>1 DEF SendUnacknowledged, Logged, TypeOK
  <2>3. rpc' \in [Runners -> {"idle", "next", "send", "finalize"}]
        /\ cur' \in [Runners -> Rems \cup {None}]
    BY Zenon, <1>6 DEF SendUnacknowledged, Done, TypeOK
  <2>4. faults' \in 0..MaxFaults
    BY <1>6, NumbersAssumption DEF SendUnacknowledged, Fault, TypeOK
  <2>5. UNCHANGED <<now, status, fireAt, batch, upc, carried, arming, updates>>
    BY Zenon, <1>6 DEF SendUnacknowledged, Done, rowVars, updateVars
  <2> QED BY Zenon, <2>2, <2>3, <2>4, <2>5 DEF TypeOK, Times
<1>7. ASSUME NEW n \in Runners, Reschedule(n) PROVE TypeOK'
  BY <1>7 DEF Reschedule, Done, NextFireAt, updateVars, logVars, TypeOK, Times, Hands
<1>8. ASSUME NEW n \in Runners, MarkFired(n) PROVE TypeOK'
  BY Zenon, <1>8 DEF MarkFired, Done, Finalizable, updateVars, logVars, TypeOK, Times, Hands
<1>9. ASSUME NEW n \in Runners, FinalizeRefused(n) PROVE TypeOK'
  BY Zenon, <1>9 DEF FinalizeRefused, Done, rowVars, updateVars, logVars, TypeOK
<1>10. ASSUME NEW n \in Runners, FinalizeFails(n) PROVE TypeOK'
  BY <1>10, NumbersAssumption DEF FinalizeFails, Done, Fault, rowVars, updateVars, logVars,
     TypeOK, Times, Hands
<1>11. ASSUME NEW n \in Runners, Crash(n) PROVE TypeOK'
  BY <1>11, NumbersAssumption DEF Crash, Fault, rowVars, updateVars, logVars, TypeOK
<1>12. ASSUME NEW r \in Rems, Cancel(r) PROVE TypeOK'
  BY Zenon, <1>12 DEF Cancel, runnerVars, updateVars, logVars, TypeOK
<1>13. ASSUME NEW r \in Rems, Delete(r) PROVE TypeOK'
  BY Zenon, <1>13 DEF Delete, runnerVars, updateVars, logVars, TypeOK
<1>14. ASSUME NEW r \in Rems, UpdateFields(r) PROVE TypeOK'
  BY <1>14 DEF UpdateFields, UpdateOver, runnerVars, logVars, TypeOK
<1>15. ASSUME NEW r \in Rems, UpdateRefused(r) PROVE TypeOK'
  BY <1>15 DEF UpdateRefused, UpdateOver, rowVars, runnerVars, logVars, TypeOK
<1>16. ASSUME NEW r \in Rems, NEW t \in Times, Insert(r, t) PROVE TypeOK'
  BY <1>16 DEF Insert, runnerVars, updateVars, logVars, TypeOK, Times
<1>17. ASSUME NEW r \in Rems, NEW t \in Times, UpdateRead(r, t) PROVE TypeOK'
  BY <1>17, NumbersAssumption DEF UpdateRead, rowVars, runnerVars, logVars, TypeOK, Times
<1>18. CASE Advance
  BY <1>18, NumbersAssumption DEF Advance, rowVars, runnerVars, updateVars, logVars, TypeOK,
     Times
<1>19. CASE UNCHANGED vars
  BY Zenon, <1>19 DEF vars, rowVars, runnerVars, updateVars, logVars, TypeOK
<1> QED BY ZenonT(60), <1>1, <1>2, <1>3, <1>4, <1>5, <1>6, <1>7, <1>8, <1>9, <1>10, <1>11, <1>12,
           <1>13, <1>14, <1>15, <1>16, <1>17, <1>18, <1>19 DEF Next, Runner, Send, Finalize

\* Every step leaves each leased row with one holder.
LEMMA HandsStep == TypeOK /\ Hands /\ [Next]_vars => Hands'
<1> SUFFICES ASSUME TypeOK, Hands, [Next]_vars PROVE Hands'
  OBVIOUS
<1>1. ASSUME NEW n \in Runners, NEW S \in SUBSET Rems, LeaseDue(n, S) PROVE Hands'
  <2>1. \A r \in S : r \in Rems /\ status[r] = "pending" /\ fireAt[r] <= now
    BY Zenon, <1>1 DEF LeaseDue, Batches, Leasable
  <2>2. \A r \in S, m \in Runners : ~Has(m, r)
    BY Zenon, <2>1 DEF Hands
  <2>3. \A m \in Runners : batch'[m] = IF m = n THEN S ELSE batch[m]
    BY Zenon, <1>1 DEF LeaseDue, TypeOK
  <2>4. \A r \in Rems : status'[r] = IF r \in S THEN "firing" ELSE status[r]
    BY Zenon, <1>1 DEF LeaseDue
  <2>5. \A m \in Runners : rpc'[m] = IF m = n THEN "next" ELSE rpc[m]
    BY Zenon, <1>1 DEF LeaseDue, TypeOK
  <2>6. rpc[n] = "idle" /\ cur' = cur /\ fireAt' = fireAt /\ now' = now
    BY Zenon, <1>1 DEF LeaseDue
  <2> QED BY <2>1, <2>2, <2>3, <2>4, <2>5, <2>6 DEF Hands, Has
<1>2. ASSUME NEW n \in Runners, NEW r \in Rems, NextOfBatch(n, r) PROVE Hands'
  BY <1>2 DEF NextOfBatch, rowVars, TypeOK, Hands, Has
<1>3. ASSUME NEW n \in Runners, EndOfBatch(n) PROVE Hands'
  BY <1>3 DEF EndOfBatch, rowVars, Hands, Has
<1>4. ASSUME NEW n \in Runners, SendSucceeds(n) PROVE Hands'
  BY <1>4 DEF SendSucceeds, rowVars, Hands, Has
<1>5. ASSUME NEW n \in Runners, SendFails(n) PROVE Hands'
  BY <1>5, NamesAssumption DEF SendFails, Done, rowVars, TypeOK, Hands, Has
<1>6. ASSUME NEW n \in Runners, SendUnacknowledged(n) PROVE Hands'
  BY <1>6, NamesAssumption DEF SendUnacknowledged, Done, rowVars, TypeOK, Hands, Has
<1>7. ASSUME NEW n \in Runners, Reschedule(n) PROVE Hands'
  BY <1>7, NamesAssumption DEF Reschedule, Done, TypeOK, Hands, Has
<1>8. ASSUME NEW n \in Runners, MarkFired(n) PROVE Hands'
  BY <1>8, NamesAssumption DEF MarkFired, Done, TypeOK, Hands, Has
<1>9. ASSUME NEW n \in Runners, FinalizeRefused(n) PROVE Hands'
  BY <1>9, NamesAssumption DEF FinalizeRefused, Done, rowVars, TypeOK, Hands, Has
<1>10. ASSUME NEW n \in Runners, FinalizeFails(n) PROVE Hands'
  BY <1>10, NamesAssumption DEF FinalizeFails, Done, rowVars, TypeOK, Hands, Has
<1>11. ASSUME NEW n \in Runners, Crash(n) PROVE Hands'
  BY <1>11, NamesAssumption DEF Crash, rowVars, TypeOK, Hands, Has
<1>12. ASSUME NEW r \in Rems, Cancel(r) PROVE Hands'
  BY <1>12 DEF Cancel, runnerVars, Hands, Has
<1>13. ASSUME NEW r \in Rems, Delete(r) PROVE Hands'
  BY <1>13 DEF Delete, runnerVars, Hands, Has
<1>14. ASSUME NEW r \in Rems, UpdateFields(r) PROVE Hands'
  BY <1>14 DEF UpdateFields, Updatable, runnerVars, Hands, Has
<1>15. ASSUME NEW r \in Rems, UpdateRefused(r) PROVE Hands'
  BY <1>15 DEF UpdateRefused, rowVars, runnerVars, Hands, Has
<1>16. ASSUME NEW r \in Rems, NEW t \in Times, Insert(r, t) PROVE Hands'
  BY <1>16 DEF Insert, runnerVars, Hands, Has
<1>17. ASSUME NEW r \in Rems, NEW t \in Times, UpdateRead(r, t) PROVE Hands'
  BY <1>17 DEF UpdateRead, rowVars, runnerVars, Hands, Has
<1>18. CASE Advance
  BY <1>18 DEF Advance, rowVars, runnerVars, TypeOK, Times, Hands, Has
<1>19. CASE UNCHANGED vars
  BY ZenonT(60), <1>19 DEF vars, rowVars, runnerVars, Hands, Has
<1> QED BY ZenonT(60), <1>1, <1>2, <1>3, <1>4, <1>5, <1>6, <1>7, <1>8, <1>9, <1>10, <1>11, <1>12,
           <1>13, <1>14, <1>15, <1>16, <1>17, <1>18, <1>19 DEF Next, Runner, Send, Finalize

\* No step sends an arming again or forgets that it was sent.
LEMMA LettersStep == TypeOK /\ Hands /\ Letters /\ [Next]_vars => Letters'
<1> SUFFICES ASSUME TypeOK, Hands, Letters, [Next]_vars PROVE Letters'
  OBVIOUS
<1>s. ASSUME NEW n \in Runners, rpc[n] = "send", Logged(cur[n]),
             UNCHANGED <<status, arming, batch>>,
             \/ rpc' = [rpc EXCEPT ![n] = "finalize"] /\ UNCHANGED cur
             \/ Done(n)
      PROVE  Letters'
  <2>1. cur[n] \in Rems /\ Has(n, cur[n]) /\ cur[n] \notin batch[n]
    <3>1. cur[n] # None /\ cur[n] \notin batch[n]
      BY Zenon, <1>s DEF Hands
    <3> QED BY Zenon, <3>1 DEF TypeOK, Has
  <2>2. status[cur[n]] \notin {"none", "pending"} /\ \A m \in Runners : Has(m, cur[n]) => m = n
    BY ZenonT(60), <2>1 DEF Hands
  <2>3. arming[cur[n]] <= arming[cur[n]]
    BY <2>1 DEF TypeOK
  <2>4. \A r \in Rems : sent'[r] = IF r = cur[n] THEN sent[r] \cup {arming[r]} ELSE sent[r]
    BY Zenon, <1>s, <2>1 DEF Logged, TypeOK
  <2>5. \A m \in Runners, r \in Rems : Holds(m, r)' => Holds(m, r) /\ r # cur[n]
    <3> SUFFICES ASSUME NEW m \in Runners, NEW r \in Rems, Holds(m, r)'
                 PROVE  Holds(m, r) /\ r # cur[n]
      OBVIOUS
    <3>1. batch' = batch /\ rpc'[n] # "send"
      BY Zenon, <1>s DEF Done, TypeOK
    <3>2. CASE m = n
      BY Zenon, <3>1, <3>2, <2>1 DEF Holds
    <3>3. CASE m # n
      <4>1. rpc'[m] = rpc[m] /\ cur'[m] = cur[m]
        BY Zenon, <1>s, <3>3 DEF Done, TypeOK
      <4>2. Holds(m, r)
        BY Zenon, <3>1, <4>1 DEF Holds
      <4> QED BY Zenon, <4>2, <3>3, <2>2 DEF Holds, Has
    <3> QED BY Zenon, <3>2, <3>3
  <2>6. \A m \in Runners : rpc'[m] = "finalize" =>
           cur'[m] = cur[m] /\ (m = n \/ rpc[m] = "finalize")
    BY Zenon, <1>s DEF Done, TypeOK
  <2>7. \A m \in Runners : rpc[m] = "finalize" => cur[m] \in Rems
    BY Zenon DEF TypeOK, Hands
  <2>8. \A r \in Rems : \A a \in sent'[r] : a <= arming'[r]
    <3> SUFFICES ASSUME NEW r \in Rems, NEW a \in sent'[r] PROVE a <= arming[r]
      BY Zenon, <1>s
    <3>1. a \in sent[r] \/ (r = cur[n] /\ a = arming[r])
      BY Zenon, <2>4
    <3> QED BY Zenon, <3>1, <2>3 DEF Letters
  <2>9. \A r \in Rems : status'[r] \in {"none", "pending"} => arming'[r] \notin sent'[r]
    BY Zenon, <1>s, <2>2, <2>4 DEF Letters
  <2>10. \A m \in Runners, r \in Rems : Holds(m, r)' => arming'[r] \notin sent'[r]
    BY ZenonT(60), <1>s, <2>4, <2>5 DEF Letters
  <2>11. \A m \in Runners : rpc'[m] = "finalize" => arming'[cur'[m]] \in sent'[cur'[m]]
    <3> SUFFICES ASSUME NEW m \in Runners, rpc'[m] = "finalize"
                 PROVE  arming[cur[m]] \in sent'[cur[m]]
      BY Zenon, <1>s, <2>6
    <3>1. CASE m = n
      BY Zenon, <3>1, <2>1, <2>4
    <3>2. CASE m # n
      BY ZenonT(60), <3>2, <2>4, <2>6, <2>7 DEF Letters
    <3> QED BY Zenon, <3>1, <3>2
  <2> QED BY Zenon, <2>8, <2>9, <2>10, <2>11 DEF Letters
<1>1. ASSUME NEW n \in Runners, NEW S \in SUBSET Rems, LeaseDue(n, S) PROVE Letters'
  BY <1>1 DEF LeaseDue, Batches, Leasable, logVars, Letters, Holds
<1>2. ASSUME NEW n \in Runners, NEW r \in Rems, NextOfBatch(n, r) PROVE Letters'
  BY ZenonT(60), <1>2 DEF NextOfBatch, rowVars, logVars, TypeOK, Letters, Holds
<1>3. ASSUME NEW n \in Runners, EndOfBatch(n) PROVE Letters'
  BY <1>3 DEF EndOfBatch, rowVars, logVars, Letters, Holds
<1>4. ASSUME NEW n \in Runners, SendSucceeds(n) PROVE Letters'
  BY Zenon, <1>4, <1>s DEF SendSucceeds, rowVars
<1>5. ASSUME NEW n \in Runners, SendFails(n) PROVE Letters'
  BY <1>5, NamesAssumption DEF SendFails, Done, rowVars, logVars, Letters, Holds
<1>6. ASSUME NEW n \in Runners, SendUnacknowledged(n) PROVE Letters'
  <2>1. UNCHANGED <<status, arming, batch>>
    BY Zenon, <1>6 DEF SendUnacknowledged, Done, rowVars
  <2> QED BY Zenon, <1>6, <1>s, <2>1 DEF SendUnacknowledged
<1>7. ASSUME NEW n \in Runners, Reschedule(n) PROVE Letters'
  BY <1>7 DEF Reschedule, Done, logVars, TypeOK, Hands, Has, Letters, Holds
<1>8. ASSUME NEW n \in Runners, MarkFired(n) PROVE Letters'
  BY ZenonT(60), <1>8 DEF MarkFired, Done, logVars, TypeOK, Letters, Holds
<1>9. ASSUME NEW n \in Runners, FinalizeRefused(n) PROVE Letters'
  BY Zenon, <1>9 DEF FinalizeRefused, Done, rowVars, logVars, TypeOK, Letters, Holds
<1>10. ASSUME NEW n \in Runners, FinalizeFails(n) PROVE Letters'
  BY ZenonT(60), <1>10 DEF FinalizeFails, Done, rowVars, logVars, TypeOK, Letters, Holds
<1>11. ASSUME NEW n \in Runners, Crash(n) PROVE Letters'
  BY <1>11 DEF Crash, rowVars, logVars, TypeOK, Letters, Holds
<1>12. ASSUME NEW r \in Rems, Cancel(r) PROVE Letters'
  BY <1>12 DEF Cancel, runnerVars, logVars, Letters, Holds
<1>13. ASSUME NEW r \in Rems, Delete(r) PROVE Letters'
  BY <1>13 DEF Delete, runnerVars, logVars, Letters, Holds
<1>14. ASSUME NEW r \in Rems, UpdateFields(r) PROVE Letters'
  BY <1>14 DEF UpdateFields, Updatable, runnerVars, logVars, TypeOK, Letters, Holds
<1>15. ASSUME NEW r \in Rems, UpdateRefused(r) PROVE Letters'
  BY Zenon, <1>15 DEF UpdateRefused, rowVars, runnerVars, logVars, Letters, Holds
<1>16. ASSUME NEW r \in Rems, NEW t \in Times, Insert(r, t) PROVE Letters'
  BY <1>16 DEF Insert, runnerVars, logVars, TypeOK, Letters, Holds
<1>17. ASSUME NEW r \in Rems, NEW t \in Times, UpdateRead(r, t) PROVE Letters'
  BY Zenon, <1>17 DEF UpdateRead, rowVars, runnerVars, logVars, Letters, Holds
<1>18. CASE Advance
  BY Zenon, <1>18 DEF Advance, rowVars, runnerVars, logVars, Letters, Holds
<1>19. CASE UNCHANGED vars
  BY Zenon, <1>19 DEF vars, rowVars, runnerVars, logVars, Letters, Holds
<1> QED BY ZenonT(60), <1>1, <1>2, <1>3, <1>4, <1>5, <1>6, <1>7, <1>8, <1>9, <1>10, <1>11, <1>12,
           <1>13, <1>14, <1>15, <1>16, <1>17, <1>18, <1>19 DEF Next, Runner, Send, Finalize

\* No step of a runner arms a reminder for an occurrence that went out already.
LEMMA SlotsStep == TypeOK /\ Hands /\ Slots /\ [Next]_vars => Slots'
<1> SUFFICES ASSUME TypeOK, Hands, Slots, [Next]_vars PROVE Slots'
  OBVIOUS
<1>1. CASE UNCHANGED <<now, status, fireAt, upc, updates, lastSlot>>
  BY Zenon, <1>1 DEF Slots, NextOccurrence
<1>2. ASSUME NEW n \in Runners, NEW S \in SUBSET Rems, LeaseDue(n, S) PROVE Slots'
  BY Zenon, <1>2 DEF LeaseDue, updateVars, logVars, Slots, NextOccurrence
<1>3. ASSUME NEW n \in Runners, rpc[n] = "send", Logged(cur[n]),
             UNCHANGED <<now, rowVars, updateVars>> PROVE Slots'
  <2>1. cur[n] \in Rems /\ status[cur[n]] \notin {"none", "pending"} /\ fireAt[cur[n]] <= now
    BY <1>3 DEF Hands, Has, TypeOK
  <2> QED BY <1>3, <2>1 DEF Logged, rowVars, updateVars, Slots, NextOccurrence
<1>4. ASSUME NEW n \in Runners, Reschedule(n) PROVE Slots'
  BY <1>4 DEF Reschedule, NextFireAt, updateVars, logVars, TypeOK, Times, Slots,
     NextOccurrence
<1>5. ASSUME NEW n \in Runners, MarkFired(n) PROVE Slots'
  BY <1>5 DEF MarkFired, updateVars, logVars, Slots, NextOccurrence
<1>6. ASSUME NEW r \in Rems, Cancel(r) PROVE Slots'
  BY <1>6 DEF Cancel, updateVars, logVars, Slots, NextOccurrence
<1>7. ASSUME NEW r \in Rems, Delete(r) PROVE Slots'
  BY <1>7 DEF Delete, updateVars, logVars, Slots, NextOccurrence
<1>8. ASSUME NEW r \in Rems, UpdateFields(r) PROVE Slots'
  BY Zenon, <1>8 DEF UpdateFields, UpdateOver, logVars, Slots, NextOccurrence
<1>9. ASSUME NEW r \in Rems, UpdateRefused(r) PROVE Slots'
  BY Zenon, <1>9 DEF UpdateRefused, UpdateOver, rowVars, logVars, Slots, NextOccurrence
<1>10. ASSUME NEW r \in Rems, NEW t \in Times, Insert(r, t) PROVE Slots'
  BY <1>10 DEF Insert, updateVars, logVars, TypeOK, Times, Slots, NextOccurrence
<1>11. ASSUME NEW r \in Rems, NEW t \in Times, UpdateRead(r, t) PROVE Slots'
  BY <1>11 DEF UpdateRead, rowVars, logVars, TypeOK, Slots, NextOccurrence
<1>12. CASE Advance
  BY <1>12 DEF Advance, rowVars, updateVars, logVars, TypeOK, Times, Slots, NextOccurrence
<1> QED BY ZenonT(60), <1>1, <1>2, <1>3, <1>4, <1>5, <1>6, <1>7, <1>8, <1>9, <1>10, <1>11, <1>12
           DEF Next, Runner, Send, Finalize, NextOfBatch, EndOfBatch, SendSucceeds,
           SendFails, SendUnacknowledged, FinalizeRefused, FinalizeFails, Crash, vars,
           rowVars, updateVars, logVars

-----------------------------------------------------------------------------
\* IInv is an invariant of the reminders.
THEOREM Invariance == Spec => []IInv
<1>1. IInv /\ [Next]_vars => IInv'
  BY Zenon, TypeStep, HandsStep, LettersStep, SlotsStep DEF IInv
<1> QED BY InitInv, <1>1, PTL DEF Spec

\* Type correctness.
THEOREM TypeCorrect == Spec => []TypeOK
BY Invariance, PTL DEF IInv

\* No reminder goes out before the time its row names (reminder_repository.go,
\* LeaseDue and UpdateFields).
THEOREM NeverEarlyHolds == Spec => []NeverEarly
<1>1. IInv => NeverEarly
  BY Zenon DEF IInv, Hands, Has, Holds, NeverEarly
<1> QED BY <1>1, Invariance, PTL

\* The runners never bring an occurrence back: a recurring reminder is re-armed
\* for a later one than any it went out for (runner.go finalize, cron.go NextFireAt).
THEOREM NextOccurrenceHolds == Spec => []NextOccurrence
<1>1. IInv => NextOccurrence
  BY Zenon DEF IInv, Slots
<1> QED BY <1>1, Invariance, PTL

-----------------------------------------------------------------------------
\* The reminders in some runner's hand.
InHand == {r \in Rems : \E n \in Runners : Holds(n, r)}

\* The abstract state of every row.
States == [r \in Rems |-> StateOf(r)]

\* Every step keeps the promise or leaves its state alone.
LEMMA StepImplements == TypeOK /\ Hands /\ Letters /\ [Next]_vars => [Promise!Next]_(Promise!vars)
<1> SUFFICES ASSUME TypeOK, Hands, Letters, [Next]_vars PROVE [Promise!Next]_(Promise!vars)
  OBVIOUS
<1>d. ASSUME NEW n \in Runners, rpc[n] = "finalize", Done(n) PROVE UNCHANGED InHand
  <2>1. \A m \in Runners, r \in Rems : Holds(m, r)' <=> Holds(m, r)
    BY Zenon, <1>d DEF Done, Holds, TypeOK
  <2> QED BY Zenon, <2>1 DEF InHand
<1>1. ASSUME NEW n \in Runners, NEW S \in SUBSET Rems, LeaseDue(n, S) PROVE [Promise!Next]_(Promise!vars)
  <2>0. \A r \in S : r \in Rems /\ status[r] = "pending"
    BY Zenon, <1>1 DEF LeaseDue, Batches, Leasable
  <2>1. \A r \in S : r \in Rems /\ States[r] = "armed" /\ r \notin InHand
    BY Zenon, <2>0 DEF States, StateOf, InHand, Holds, Hands, Has
  <2>2. States' = [r \in Rems |-> IF r \in S THEN "firing" ELSE States[r]]
    BY Zenon, <1>1 DEF LeaseDue, States, StateOf
  <2>3. InHand' = InHand \cup S
    BY Zenon, <1>1 DEF LeaseDue, InHand, Holds, TypeOK, Hands
  <2>4. UNCHANGED <<arming, sent>>
    BY Zenon, <1>1 DEF LeaseDue, logVars
  <2>5. Promise!Take(S)
    BY Zenon, <2>1, <2>2, <2>3, <2>4 DEF Promise!Take, States, InHand
  <2> QED BY Zenon, <2>5 DEF Promise!Next
<1>2. ASSUME NEW n \in Runners, NEW r \in Rems, NextOfBatch(n, r) PROVE [Promise!Next]_(Promise!vars)
  <2>1. UNCHANGED States
    BY Zenon, <1>2 DEF NextOfBatch, rowVars, States, StateOf
  <2>2. UNCHANGED InHand
    BY Zenon, <1>2 DEF NextOfBatch, InHand, Holds, TypeOK
  <2> QED BY Zenon, <1>2, <2>1, <2>2 DEF NextOfBatch, rowVars, logVars, Promise!vars,
             States, InHand
<1>3. ASSUME NEW n \in Runners, EndOfBatch(n) PROVE [Promise!Next]_(Promise!vars)
  <2>1. UNCHANGED States
    BY Zenon, <1>3 DEF EndOfBatch, rowVars, States, StateOf
  <2>2. UNCHANGED InHand
    BY <1>3 DEF EndOfBatch, InHand, Holds
  <2> QED BY Zenon, <1>3, <2>1, <2>2 DEF EndOfBatch, rowVars, logVars, Promise!vars, States,
             InHand
<1>4. ASSUME NEW n \in Runners, SendSucceeds(n) PROVE [Promise!Next]_(Promise!vars)
  <2>1. UNCHANGED States
    BY Zenon, <1>4 DEF SendSucceeds, rowVars, States, StateOf
  <2>2. InHand' = InHand \ {cur[n]}
    BY <1>4 DEF SendSucceeds, InHand, Holds, TypeOK, Hands, Has
  <2>3. Promise!Deliver(cur[n])
    BY <1>4, <2>1, <2>2 DEF SendSucceeds, Logged, rowVars, Promise!Deliver, States, Holds,
       TypeOK, Times, Hands, Has, Letters
  <2> QED BY Zenon, <1>4, <2>3 DEF SendSucceeds, Promise!Next, TypeOK, Hands
<1>5. ASSUME NEW n \in Runners, SendFails(n) PROVE [Promise!Next]_(Promise!vars)
  <2>1. UNCHANGED States
    BY Zenon, <1>5 DEF SendFails, rowVars, States, StateOf
  <2>2. InHand' = InHand \ {cur[n]}
    BY <1>5 DEF SendFails, Done, InHand, Holds, TypeOK, Hands, Has
  <2>3. Promise!Drop({cur[n]})
    BY Zenon, <1>5, <2>1, <2>2 DEF SendFails, rowVars, logVars, Promise!Drop, States, InHand
  <2> QED BY Zenon, <1>5, <2>3 DEF SendFails, Promise!Next, TypeOK, Hands
<1>6. ASSUME NEW n \in Runners, SendUnacknowledged(n) PROVE [Promise!Next]_(Promise!vars)
  <2>1. UNCHANGED States
    BY Zenon, <1>6 DEF SendUnacknowledged, rowVars, States, StateOf
  <2>2. InHand' = InHand \ {cur[n]}
    BY <1>6 DEF SendUnacknowledged, Done, InHand, Holds, TypeOK, Hands, Has
  <2>3. Promise!Deliver(cur[n])
    BY <1>6, <2>1, <2>2 DEF SendUnacknowledged, Logged, Done, rowVars, Promise!Deliver,
       States, Holds, TypeOK, Hands, Has, Letters
  <2> QED BY ZenonT(60), <1>6, <2>3 DEF SendUnacknowledged, Promise!Next, TypeOK, Hands
<1>7. ASSUME NEW n \in Runners, Reschedule(n) PROVE [Promise!Next]_(Promise!vars)
  <2>0. cur[n] \in Rems /\ \A m \in Runners : ~Holds(m, cur[n])
    BY <1>7 DEF Reschedule, Holds, TypeOK, Times, Hands, Has
  <2>1. States' = [States EXCEPT ![cur[n]] = "armed"]
    BY Zenon, <1>7, <2>0 DEF Reschedule, States, StateOf, TypeOK
  <2>2. UNCHANGED InHand
    BY Zenon, <1>7, <1>d DEF Reschedule
  <2>3. Promise!Arm(cur[n])
    BY Zenon, <1>7, <2>0, <2>1, <2>2 DEF Reschedule, Finalizable, logVars, Promise!Arm,
       States, InHand, StateOf, Letters
  <2> QED BY Zenon, <2>0, <2>3 DEF Promise!Next
<1>8. ASSUME NEW n \in Runners, MarkFired(n) PROVE [Promise!Next]_(Promise!vars)
  <2>0. cur[n] \in Rems
    BY Zenon, <1>8 DEF MarkFired, TypeOK, Hands
  <2>1. States' = [States EXCEPT ![cur[n]] = "over"]
    BY Zenon, <1>8, <2>0 DEF MarkFired, States, StateOf, TypeOK
  <2>2. UNCHANGED InHand
    BY Zenon, <1>8, <1>d DEF MarkFired
  <2>3. Promise!End(cur[n])
    BY Zenon, <1>8, <2>0, <2>1, <2>2 DEF MarkFired, Finalizable, logVars, Promise!End,
       States, InHand, StateOf
  <2> QED BY Zenon, <2>0, <2>3 DEF Promise!Next
<1>9. ASSUME NEW n \in Runners, FinalizeRefused(n) PROVE [Promise!Next]_(Promise!vars)
  <2>1. UNCHANGED States
    BY Zenon, <1>9 DEF FinalizeRefused, rowVars, States, StateOf
  <2>2. UNCHANGED InHand
    BY Zenon, <1>9, <1>d DEF FinalizeRefused
  <2> QED BY Zenon, <1>9, <2>1, <2>2 DEF FinalizeRefused, rowVars, logVars, Promise!vars,
             States, InHand
<1>10. ASSUME NEW n \in Runners, FinalizeFails(n) PROVE [Promise!Next]_(Promise!vars)
  <2>1. UNCHANGED States
    BY Zenon, <1>10 DEF FinalizeFails, rowVars, States, StateOf
  <2>2. UNCHANGED InHand
    BY Zenon, <1>10, <1>d DEF FinalizeFails
  <2> QED BY Zenon, <1>10, <2>1, <2>2 DEF FinalizeFails, rowVars, logVars, Promise!vars,
             States, InHand
<1>11. ASSUME NEW n \in Runners, Crash(n) PROVE [Promise!Next]_(Promise!vars)
  <2>1. UNCHANGED States
    BY Zenon, <1>11 DEF Crash, rowVars, States, StateOf
  <2>2. InHand' = InHand \ (Rems \cap (batch[n] \cup {cur[n]}))
    BY <1>11 DEF Crash, InHand, Holds, TypeOK, Hands, Has
  <2>3. Promise!Drop(Rems \cap (batch[n] \cup {cur[n]}))
    BY Zenon, <1>11, <2>1, <2>2 DEF Crash, rowVars, logVars, Promise!Drop, States, InHand
  <2> QED BY Zenon, <2>3 DEF Promise!Next
<1>12. ASSUME NEW r \in Rems, Cancel(r) PROVE [Promise!Next]_(Promise!vars)
  <2>1. States' = [States EXCEPT ![r] = "over"]
    BY Zenon, <1>12 DEF Cancel, States, StateOf, TypeOK
  <2>2. UNCHANGED InHand
    BY Zenon, <1>12 DEF Cancel, runnerVars, InHand, Holds
  <2>3. Promise!End(r)
    BY Zenon, <1>12, <2>1, <2>2 DEF Cancel, logVars, Promise!End, States, InHand, StateOf
  <2> QED BY Zenon, <2>3 DEF Promise!Next
<1>13. ASSUME NEW r \in Rems, Delete(r) PROVE [Promise!Next]_(Promise!vars)
  <2>1. UNCHANGED InHand
    BY Zenon, <1>13 DEF Delete, runnerVars, InHand, Holds
  <2>2. CASE status[r] \in {"pending", "firing"}
    <3>1. States' = [States EXCEPT ![r] = "over"]
      BY Zenon, <1>13, <2>2 DEF Delete, States, StateOf, TypeOK
    <3>2. Promise!End(r)
      BY Zenon, <1>13, <2>1, <2>2, <3>1 DEF Delete, logVars, Promise!End, States, InHand,
         StateOf
    <3> QED BY Zenon, <3>2 DEF Promise!Next
  <2>3. CASE status[r] \notin {"pending", "firing"}
    <3>1. UNCHANGED States
      BY <1>13, <2>3 DEF Delete, States, StateOf
    <3> QED BY Zenon, <1>13, <2>1, <3>1 DEF Delete, logVars, Promise!vars, States, InHand
  <2> QED BY Zenon, <2>2, <2>3
<1>14. ASSUME NEW r \in Rems, UpdateFields(r) PROVE [Promise!Next]_(Promise!vars)
  <2>1. States' = [States EXCEPT ![r] = "armed"]
    BY Zenon, <1>14 DEF UpdateFields, Updatable, States, StateOf
  <2>2. UNCHANGED InHand
    BY Zenon, <1>14 DEF UpdateFields, runnerVars, InHand, Holds
  <2>3. Promise!Arm(r)
    BY Zenon, <1>14, <2>1, <2>2 DEF UpdateFields, Updatable, logVars, Promise!Arm, States,
       InHand, StateOf, Holds, Hands, Has
  <2> QED BY Zenon, <2>3 DEF Promise!Next
<1>15. ASSUME NEW r \in Rems, UpdateRefused(r) PROVE [Promise!Next]_(Promise!vars)
  <2>1. UNCHANGED States
    BY Zenon, <1>15 DEF UpdateRefused, rowVars, States, StateOf
  <2>2. UNCHANGED InHand
    BY Zenon, <1>15 DEF UpdateRefused, runnerVars, InHand, Holds
  <2> QED BY Zenon, <1>15, <2>1, <2>2 DEF UpdateRefused, rowVars, logVars, Promise!vars,
             States, InHand
<1>16. ASSUME NEW r \in Rems, NEW t \in Times, Insert(r, t) PROVE [Promise!Next]_(Promise!vars)
  <2>1. States' = [States EXCEPT ![r] = "armed"]
    BY Zenon, <1>16 DEF Insert, States, StateOf, TypeOK
  <2>2. UNCHANGED InHand
    BY Zenon, <1>16 DEF Insert, runnerVars, InHand, Holds
  <2>3. Promise!Arm(r)
    BY ZenonT(60), <1>16, <2>1, <2>2 DEF Insert, runnerVars, logVars, Promise!Arm, States,
       InHand, StateOf, Holds, Hands, Has, Letters
  <2> QED BY Zenon, <2>3 DEF Promise!Next
<1>17. ASSUME NEW r \in Rems, NEW t \in Times, UpdateRead(r, t) PROVE [Promise!Next]_(Promise!vars)
  <2>1. UNCHANGED States
    BY Zenon, <1>17 DEF UpdateRead, rowVars, States, StateOf
  <2>2. UNCHANGED InHand
    BY Zenon, <1>17 DEF UpdateRead, runnerVars, InHand, Holds
  <2> QED BY Zenon, <1>17, <2>1, <2>2 DEF UpdateRead, rowVars, logVars, Promise!vars,
             States, InHand
<1>18. CASE Advance
  <2>1. UNCHANGED States
    BY Zenon, <1>18 DEF Advance, rowVars, States, StateOf
  <2>2. UNCHANGED InHand
    BY Zenon, <1>18 DEF Advance, runnerVars, InHand, Holds
  <2> QED BY Zenon, <1>18, <2>1, <2>2 DEF Advance, rowVars, logVars, Promise!vars, States,
             InHand
<1>19. CASE UNCHANGED vars
  <2>1. UNCHANGED States
    BY Zenon, <1>19 DEF vars, rowVars, States, StateOf
  <2>2. UNCHANGED InHand
    BY Zenon, <1>19 DEF vars, runnerVars, InHand, Holds
  <2> QED BY Zenon, <1>19, <2>1, <2>2 DEF vars, rowVars, logVars, Promise!vars, States,
             InHand
<1> QED BY ZenonT(60), <1>1, <1>2, <1>3, <1>4, <1>5, <1>6, <1>7, <1>8, <1>9, <1>10, <1>11, <1>12,
           <1>13, <1>14, <1>15, <1>16, <1>17, <1>18, <1>19 DEF Next, Runner, Send, Finalize

\* Each arming is delivered at most once and never after the reminder is over,
\* with any number of runners (runner.go, reminder_repository.go).
THEOREM Implements == Spec => ImplementsPromise
<1>1. Init => Promise!Init
  <2> SUFFICES ASSUME Init PROVE Promise!Init
    OBVIOUS
  <2>1. \A r \in Rems : StateOf(r) = "none" /\ \A n \in Runners : ~Holds(n, r)
    BY Zenon, NamesAssumption DEF Init, StateOf, Holds
  <2> QED BY Zenon, <2>1 DEF Init, Promise!Init
<1>2. IInv /\ [Next]_vars => [Promise!Next]_(Promise!vars)
  BY Zenon, StepImplements DEF IInv
<1> QED BY <1>1, <1>2, Invariance, PTL DEF Spec, ImplementsPromise, Promise!Spec
=============================================================================
