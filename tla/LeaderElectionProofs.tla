------------------------ MODULE LeaderElectionProofs ------------------------
(***************************************************************************)
(* Proofs about LeaderElection, for any set of electors and any bounds.    *)
(*                                                                         *)
(* EpochUnique is not inductive: a token is in flight between the Acquire  *)
(* statement and Store, and a takeover's token is fresh only because no    *)
(* token exceeds the epoch of the row.  The inductive invariant therefore  *)
(* speaks of the tokens an elector owns, stored or in flight, and relates  *)
(* them to the row and to the rows workers have read.                      *)
(***************************************************************************)
EXTENDS LeaderElection, TLAPS

\* Stored, or answered by the statement in flight and not stored yet.
Tokens(e) == {epoch[e], reply[e]} \ {0}

\* No token is newer than the row, and the row's own epoch is its holder's.
TokensBelowRow ==
    \A e \in Electors : \A n \in Tokens(e) :
        n <= lock.epoch /\ (n = lock.epoch => lock.holder = e)

TokensDisjoint ==
    \A e, f \in Electors : e # f => Tokens(e) \cap Tokens(f) = {}

\* A row a worker has read is a past value of the lock row.
RowsReadArePast ==
    \A e \in Electors : workerPc[e] \in {"read", "allowed"} =>
        LET row == workerRow[e] IN
        /\ row.epoch <= lock.epoch
        /\ row.epoch = lock.epoch => row.holder = lock.holder
        /\ row.epoch = 0 => row.holder = NoHolder
        /\ \A f \in Electors \ {row.holder} : row.epoch \notin Tokens(f)

EmptyRow == lock.epoch = 0 <=> lock.holder = NoHolder

IInv == TypeOK /\ TokensBelowRow /\ TokensDisjoint /\ RowsReadArePast /\ EmptyRow

-----------------------------------------------------------------------------

\* The election starts in IInv.
LEMMA InitIInv == Init => IInv
  <1> SUFFICES ASSUME Init PROVE IInv
    OBVIOUS
  <1>1. TypeOK
    BY ElectorsAssumption, BoundsAssumption DEF Init, TypeOK, Row, NoRow
  <1>2. \A e \in Electors : Tokens(e) = {}
    BY Zenon DEF Init, Tokens
  <1>3. TokensBelowRow /\ TokensDisjoint
    BY Zenon, <1>2 DEF TokensBelowRow, TokensDisjoint
  <1>4. RowsReadArePast /\ EmptyRow
    BY Zenon DEF Init, RowsReadArePast, EmptyRow, NoRow
  <1> QED BY Zenon, <1>1, <1>3, <1>4 DEF IInv

\* A step that hands out no token and leaves the holder and the epoch of the
\* row alone keeps the invariant, if what workers know was already known or
\* has just been read from the row.
LEMMA QuietStep ==
    ASSUME IInv, TypeOK',
           lock'.holder = lock.holder, lock'.epoch = lock.epoch,
           \A e \in Electors : Tokens(e)' \subseteq Tokens(e),
           \A e \in Electors :
              workerPc'[e] \in {"read", "allowed"} =>
                 \/ workerPc[e] \in {"read", "allowed"} /\ workerRow'[e] = workerRow[e]
                 \/ workerRow'[e] = lock
    PROVE  IInv'
  <1>1. TokensBelowRow'
    BY Zenon DEF IInv, TokensBelowRow
  <1>2. TokensDisjoint'
    BY Zenon DEF IInv, TokensDisjoint
  <1>3. RowsReadArePast'
    <2> SUFFICES ASSUME NEW e \in Electors, workerPc'[e] \in {"read", "allowed"}
                 PROVE  /\ workerRow'[e].epoch <= lock'.epoch
                        /\ workerRow'[e].epoch = lock'.epoch => workerRow'[e].holder = lock'.holder
                        /\ workerRow'[e].epoch = 0 => workerRow'[e].holder = NoHolder
                        /\ \A f \in Electors \ {workerRow'[e].holder} :
                              workerRow'[e].epoch \notin Tokens(f)'
      BY Zenon DEF RowsReadArePast
    <2>1. CASE workerPc[e] \in {"read", "allowed"} /\ workerRow'[e] = workerRow[e]
      BY Zenon, <2>1 DEF IInv, RowsReadArePast
    <2>2. CASE workerRow'[e] = lock
      <3>1. lock.epoch \in Nat
        BY Zenon DEF IInv, TypeOK, Row
      <3>2. ASSUME NEW f \in Electors \ {lock.holder} PROVE lock.epoch \notin Tokens(f)
        BY Zenon DEF IInv, TokensBelowRow
      <3>3. lock.epoch = 0 => lock.holder = NoHolder
        BY Zenon DEF IInv, EmptyRow
      <3> QED BY <2>2, <3>1, <3>2, <3>3
    <2> QED BY Zenon, <2>1, <2>2
  <1>4. EmptyRow'
    BY Zenon DEF IInv, EmptyRow
  <1> QED BY Zenon, <1>1, <1>2, <1>3, <1>4 DEF IInv

-----------------------------------------------------------------------------

\* Every step preserves the types.
LEMMA TypeStep == TypeOK /\ [Next]_vars => TypeOK'
  <1> SUFFICES ASSUME TypeOK, [Next]_vars PROVE TypeOK'
    OBVIOUS
  <1>a. NoRow \in Row /\ WithExpiry(TRUE) \in Row /\ WithExpiry(FALSE) \in Row
    BY Zenon DEF Row, NoRow, WithExpiry, TypeOK
  <1>b. \A e : RenewedRow(e) \in Row /\ ReleasedRow(e) \in Row
    BY Zenon, <1>a DEF RenewedRow, ReleasedRow, TypeOK
  <1>c. DBError => dbErrors' \in 0..MaxDBErrors
    BY BoundsAssumption DEF DBError, TypeOK
  <1>1. ASSUME NEW e \in Electors, Tick(e) PROVE TypeOK'
    BY Zenon, <1>1 DEF Tick, TypeOK, workerVars
  <1>2. ASSUME NEW e \in Electors, RenewLock(e) PROVE TypeOK'
    BY <1>2, <1>b, <1>c DEF RenewLock, TypeOK, workerVars
  <1>3. ASSUME NEW e \in Electors, AcquireLock(e) PROVE TypeOK'
    <2>1. EpochOnAcquire(e) \in Nat
      BY DEF EpochOnAcquire, Row, TypeOK
    <2>2. AcquiredRow(e) \in Row
      BY Zenon, <2>1 DEF AcquiredRow, Row
    <2> QED BY <1>3, <1>c, <2>1, <2>2 DEF AcquireLock, TypeOK, workerVars
  <1>4. ASSUME NEW e \in Electors, Store(e) PROVE TypeOK'
    BY Zenon, <1>4 DEF Store, TypeOK, workerVars
  <1>5. ASSUME NEW e \in Electors, RunExit(e) PROVE TypeOK'
    BY <1>5, <1>b, <1>c DEF RunExit, TypeOK, workerVars
  <1>6. ASSUME NEW e \in Electors, DrainRelease(e) PROVE TypeOK'
    BY <1>6, <1>b, <1>c DEF DrainRelease, TypeOK, runVars, workerVars
  <1>7. ASSUME NEW e \in Electors, DrainClearBit(e) PROVE TypeOK'
    BY Zenon, <1>7 DEF DrainClearBit, TypeOK, workerVars
  <1>8. ASSUME NEW e \in Electors, Crash(e) PROVE TypeOK'
    BY Zenon, <1>8, <1>a DEF Crash, TypeOK
  <1>9. ASSUME NEW e \in Workers, WorkerStep(e) PROVE TypeOK'
    <2>1. CASE WorkerGate(e)
      BY Zenon, <2>1 DEF WorkerGate, TypeOK, runVars
    <2>2. CASE VerifyRead(e)
      BY <2>2, <1>a, <1>c DEF VerifyRead, TypeOK, runVars
    <2>3. CASE VerifyDecide(e)
      BY <2>3, <1>a, <1>9 DEF VerifyDecide, TypeOK, runVars
    <2>4. CASE DangerousWrite(e)
      BY Zenon, <2>4, <1>a DEF DangerousWrite, TypeOK, runVars
    <2> QED BY Zenon, <1>9, <2>1, <2>2, <2>3, <2>4 DEF WorkerStep
  <1>10. CASE ExpireStalled
    <2>1. lock' \in Row
      BY Zenon, <1>10, <1>a DEF ExpireStalled
    <2>2. stalls' \in 0..MaxStalls
      BY <1>10, BoundsAssumption DEF ExpireStalled, TypeOK
    <2> QED BY Zenon, <1>10, <2>1, <2>2 DEF ExpireStalled, TypeOK, runVars, workerVars
  <1>11. CASE ExpireAbandoned
    BY Zenon, <1>11, <1>a DEF ExpireAbandoned, TypeOK, runVars, workerVars
  <1>12. CASE UNCHANGED vars
    BY Zenon, <1>12 DEF vars, TypeOK, runVars, workerVars
  <1> QED
    BY Zenon, <1>1, <1>2, <1>3, <1>4, <1>5, <1>6, <1>7, <1>8, <1>9, <1>10, <1>11, <1>12 DEF Next,
       RunStep

\* The one step that hands out a token.  It is the row's new epoch, which no
\* other elector owns: either it exceeds the old epoch, or the row was ours.
LEMMA AcquireStep ==
    ASSUME IInv, TypeOK', NEW e \in Electors, AcquireLock(e)
    PROVE  IInv'
  <1> USE DEF workerVars
  <1> DEFINE n == EpochOnAcquire(e)
  <1>0. lock.epoch \in Nat /\ n \in Nat
    BY DEF IInv, TypeOK, Row, EpochOnAcquire
  <1>1. CASE lock' = lock /\ reply' = reply
    <2>1. \A f \in Electors : Tokens(f)' \subseteq Tokens(f)
      BY Zenon, <1>1 DEF AcquireLock, Tokens, IInv, TypeOK
    <2> QED BY Zenon, <1>1, <2>1, QuietStep DEF AcquireLock
  <1>2. CASE lock' = AcquiredRow(e)
    <2>1. lock'.holder = e /\ lock'.epoch = n
      BY Zenon, <1>2 DEF AcquiredRow
    <2>2. \A f \in Electors \ {e} : Tokens(f)' = Tokens(f)
      BY DEF AcquireLock, Tokens, IInv, TypeOK
    <2>3. Tokens(e)' \subseteq Tokens(e) \cup {n}
      BY DEF AcquireLock, Tokens, IInv, TypeOK
    <2>4. n > lock.epoch \/ (n = lock.epoch /\ lock.holder = e)
      BY <1>0 DEF EpochOnAcquire
    <2>5. \A f \in Electors : \A t \in Tokens(f) : t \in Nat /\ t <= lock.epoch /\ (t = lock.epoch => lock.holder = f)
      BY DEF IInv, TokensBelowRow, Tokens, TypeOK
    <2>6. \A f \in Electors \ {e} : n \notin Tokens(f)
      BY <1>0, <2>4, <2>5
    <2>7. TokensBelowRow'
      BY <1>0, <2>1, <2>2, <2>3, <2>4, <2>5 DEF TokensBelowRow
    <2>8. TokensDisjoint'
      BY <2>2, <2>3, <2>6 DEF TokensDisjoint, IInv
    <2>9. RowsReadArePast'
      <3> SUFFICES ASSUME NEW w \in Electors, workerPc[w] \in {"read", "allowed"}
                   PROVE  /\ workerRow[w].epoch <= n
                          /\ workerRow[w].epoch = n => workerRow[w].holder = e
                          /\ workerRow[w].epoch = 0 => workerRow[w].holder = NoHolder
                          /\ \A f \in Electors \ {workerRow[w].holder} :
                                workerRow[w].epoch \notin Tokens(f)'
        BY Zenon, <2>1 DEF RowsReadArePast, AcquireLock
      <3>1. /\ workerRow[w].epoch <= lock.epoch
            /\ workerRow[w].epoch = lock.epoch => workerRow[w].holder = lock.holder
            /\ \A f \in Electors \ {workerRow[w].holder} : workerRow[w].epoch \notin Tokens(f)
            /\ workerRow[w].epoch \in Nat
            /\ workerRow[w].epoch = 0 => workerRow[w].holder = NoHolder
        BY Zenon DEF IInv, RowsReadArePast, TypeOK, Row
      <3>2. workerRow[w].epoch <= n /\ (workerRow[w].epoch = n => workerRow[w].holder = e)
        BY <1>0, <2>4, <3>1
      <3> QED BY Zenon, <2>2, <2>3, <3>1, <3>2
    <2>10. EmptyRow'
      BY <1>0, <2>1, <2>4, ElectorsAssumption DEF EmptyRow, IInv
    <2> QED BY Zenon, <2>7, <2>8, <2>9, <2>10 DEF IInv
  <1> QED BY Zenon, <1>1, <1>2 DEF AcquireLock, IInv, TypeOK

-----------------------------------------------------------------------------

\* Every step preserves IInv.
LEMMA NextStep == IInv /\ [Next]_vars => IInv'
  <1> SUFFICES ASSUME IInv, [Next]_vars PROVE IInv'
    OBVIOUS
  <1>t. TypeOK /\ TypeOK'
    BY Zenon, TypeStep DEF IInv
  <1>1. ASSUME NEW e \in Electors, Tick(e) PROVE IInv'
    BY Zenon, <1>1, <1>t, QuietStep DEF Tick, Tokens, workerVars
  <1>2. ASSUME NEW e \in Electors, RenewLock(e) PROVE IInv'
    <2>1. lock'.holder = lock.holder /\ lock'.epoch = lock.epoch
      BY <1>2 DEF RenewLock, RenewedRow, WithExpiry
    <2>2. \A f \in Electors : reply'[f] \in {reply[f], epoch[f], 0}
      BY <1>2, <1>t DEF RenewLock, TypeOK
    <2>3. \A f \in Electors : Tokens(f)' \subseteq Tokens(f)
      BY Zenon, <1>2, <2>2 DEF RenewLock, Tokens
    <2> QED BY Zenon, <1>2, <1>t, <2>1, <2>3, QuietStep DEF RenewLock, workerVars
  <1>3. ASSUME NEW e \in Electors, AcquireLock(e) PROVE IInv'
    BY Zenon, <1>3, <1>t, AcquireStep
  <1>4. ASSUME NEW e \in Electors, Store(e) PROVE IInv'
    <2>1. \A f \in Electors : epoch'[f] \in {epoch[f], reply[f]} /\ reply'[f] \in {reply[f], 0}
      BY ZenonT(60), <1>4, <1>t DEF Store, TypeOK
    <2>2. \A f \in Electors : Tokens(f)' \subseteq Tokens(f)
      BY Zenon, <2>1 DEF Tokens
    <2> QED BY Zenon, <1>4, <1>t, <2>2, QuietStep DEF Store, workerVars
  <1>5. ASSUME NEW e \in Electors, RunExit(e) PROVE IInv'
    <2>1. lock'.holder = lock.holder /\ lock'.epoch = lock.epoch
      BY <1>5 DEF RunExit, ReleasedRow, WithExpiry
    <2> QED BY Zenon, <1>5, <1>t, <2>1, QuietStep DEF RunExit, Tokens, workerVars
  <1>6. ASSUME NEW e \in Electors, DrainRelease(e) PROVE IInv'
    <2>1. lock'.holder = lock.holder /\ lock'.epoch = lock.epoch
      BY <1>6 DEF DrainRelease, ReleasedRow, WithExpiry
    <2> QED BY Zenon, <1>6, <1>t, <2>1, QuietStep DEF DrainRelease, Tokens, runVars,
               workerVars
  <1>7. ASSUME NEW e \in Electors, DrainClearBit(e) PROVE IInv'
    BY Zenon, <1>7, <1>t, QuietStep DEF DrainClearBit, Tokens, workerVars
  <1>8. ASSUME NEW e \in Electors, Crash(e) PROVE IInv'
    <2>1. \A f \in Electors : Tokens(f)' \subseteq Tokens(f)
      BY <1>8, <1>t DEF Crash, Tokens
    <2>2. \A f \in Electors : workerPc'[f] \in {"read", "allowed"} =>
             workerPc[f] = workerPc'[f] /\ workerRow'[f] = workerRow[f]
      BY <1>8, <1>t DEF Crash, TypeOK
    <2>3. lock' = lock
      BY Zenon, <1>8 DEF Crash
    <2> QED BY Zenon, <1>t, <2>1, <2>2, <2>3, QuietStep
  <1>9. ASSUME NEW e \in Workers, WorkerStep(e) PROVE IInv'
    <2>1. lock' = lock /\ \A f \in Electors : Tokens(f)' = Tokens(f)
      BY Zenon, <1>9 DEF WorkerStep, WorkerGate, VerifyRead, VerifyDecide, DangerousWrite,
         Tokens, runVars
    <2>2. e \in Electors
      BY Zenon, <1>9, ElectorsAssumption
    <2>3. \A f \in Electors : workerPc'[f] \in {"read", "allowed"} =>
             \/ workerPc[f] \in {"read", "allowed"} /\ workerRow'[f] = workerRow[f]
             \/ workerRow'[f] = lock
      <3>1. CASE WorkerGate(e)
        BY ZenonT(60), <3>1, <1>t, <2>2 DEF WorkerGate, TypeOK, runVars
      <3>2. CASE VerifyRead(e)
        BY <3>2, <1>t, <2>2 DEF VerifyRead, TypeOK
      <3>3. CASE VerifyDecide(e)
        BY <3>3, <1>t, <2>2 DEF VerifyDecide, TypeOK
      <3>4. CASE DangerousWrite(e)
        BY ZenonT(60), <3>4, <1>t, <2>2 DEF DangerousWrite, TypeOK, runVars
      <3> QED BY Zenon, <1>9, <3>1, <3>2, <3>3, <3>4 DEF WorkerStep
    <2> QED BY Zenon, <1>t, <2>1, <2>3, QuietStep
  <1>10. CASE ExpireStalled \/ ExpireAbandoned
    <2>1. lock'.holder = lock.holder /\ lock'.epoch = lock.epoch
      BY <1>10 DEF ExpireStalled, ExpireAbandoned, WithExpiry
    <2> QED BY Zenon, <1>10, <1>t, <2>1, QuietStep DEF ExpireStalled, ExpireAbandoned,
               Tokens, runVars, workerVars
  <1>11. CASE UNCHANGED vars
    BY Zenon, <1>11, <1>t, QuietStep DEF vars, Tokens, runVars, workerVars
  <1> QED
    BY Zenon, <1>1, <1>2, <1>3, <1>4, <1>5, <1>6, <1>7, <1>8, <1>9, <1>10, <1>11 DEF Next,
       RunStep

\* IInv holds throughout.
LEMMA Invariance == Spec => []IInv
  BY InitIInv, NextStep, PTL DEF Spec

\* The row, the electors and the workers keep their types: the epoch a lock row
\* or a cached token holds is a natural number, whatever statement failed.
THEOREM TypeCorrect == Spec => []TypeOK
  <1>1. IInv => TypeOK
    BY Zenon DEF IInv
  <1> QED BY <1>1, Invariance, PTL

\* Acquire never hands the same fence token to two electors.
THEOREM TokensUnique == Spec => []EpochUnique
  <1>1. IInv => EpochUnique
    BY Zenon DEF IInv, TokensDisjoint, Tokens, EpochUnique
  <1> QED BY <1>1, Invariance, PTL

\* VerifyEpoch evaluated on the current row passes only for the elector with
\* the newest token.
THEOREM FenceCorrect == Spec => []FenceSound
  <1>1. ASSUME IInv, NEW e \in Electors, Passes(lock, e), epoch[e] # 0,
               NEW f \in Electors \ {e}
        PROVE  epoch[f] < epoch[e]
    <2>1. lock.epoch \in Nat /\ epoch[e] \in Nat /\ epoch[f] \in Nat
      BY Zenon, <1>1 DEF IInv, TypeOK, Row
    <2>2. lock.epoch <= epoch[e] /\ epoch[e] <= lock.epoch
      BY Zenon, <1>1 DEF IInv, TokensBelowRow, Tokens, Passes
    <2>3. epoch[f] # 0 => epoch[f] <= lock.epoch /\ epoch[f] # lock.epoch
      BY Zenon, <1>1, ElectorsAssumption DEF IInv, TokensBelowRow, Tokens, Passes
    <2> QED BY <1>1, <2>1, <2>2, <2>3
  <1>2. IInv => FenceSound
    BY Zenon, <1>1 DEF FenceSound
  <1> QED BY <1>2, Invariance, PTL

\* A VerifyEpoch that has read the row and is about to pass, or has passed, did
\* so on a token no other elector owns.
THEOREM VerdictCorrect == Spec => []VerdictSound
  <1>1. ASSUME IInv, NEW e \in Electors, workerPc[e] \in {"read", "allowed"},
               Passes(workerRow[e], e), NEW f \in Electors \ {e}
        PROVE  epoch[f] # workerRow[e].epoch
    BY Zenon, <1>1, ElectorsAssumption DEF IInv, RowsReadArePast, Tokens, Passes
  <1>2. IInv => VerdictSound
    BY Zenon, <1>1 DEF VerdictSound
  <1> QED BY <1>2, Invariance, PTL

=============================================================================
