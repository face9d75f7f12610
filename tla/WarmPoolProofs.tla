--------------------------- MODULE WarmPoolProofs ---------------------------
(***************************************************************************)
(* The safety properties of WarmPool for any number of jobs, any assignment*)
(* of keys and any limits.  IInv strengthens them with who may hold a      *)
(* container, what the files of a container say about the job that holds   *)
(* it, and what Stop has guaranteed at each of its stages.                 *)
(***************************************************************************)
EXTENDS WarmPool, FiniteSetTheorems, TLAPS

\* Jobs whose container has no entry yet.
Unborn == {j \in Jobs : jpc[j] \in {"new", "start", "starting", "register"}}

\* The inductive core of Exclusive, with the relations between the maps.
Holders ==
    /\ slots \subseteq Starting \cup entries
    /\ bulk \subseteq tearing
    /\ entries \cap tearing = {}
    /\ \A c \in Unborn : c \notin entries \cup tearing \cup inUse
    /\ \A j \in Jobs : j \notin Busy => held[j] = None
    /\ \A j \in Busy : held[j] \in Jobs \ Unborn
    /\ \A i, j \in Busy : held[i] = held[j] => i = j
    /\ \A j \in Busy : held[j] \in entries => held[j] \in inUse
    /\ \A j \in Busy : held[j] \in tearing => held[j] \in bulk

\* The slots of a role never outnumber MaxPerRole.
Counted ==
    /\ IsFiniteSet(slots)
    /\ \A k \in Keys : Cardinality(RoleSlots(k)) <= MaxPerRole

\* What Stop has brought about when its context did not run out.
Stages ==
    /\ stopped <=> spc # "none"
    /\ late => overdue
    /\ spc \in {"bulk", "returned"} /\ ~overdue => slots = {} /\ ~reaper
    /\ spc = "returned" /\ ~overdue => tearing = {}

\* Every running container is known to somebody who will deal with it.
Known ==
    podmanErrors = 0 /\ ~overdue =>
        \A c \in Jobs : box[c] = "running" => c \in entries \cup tearing \/ jpc[c] = "register"

\* No task waits in the container and none is worked on.
Quiet(c) == inbox[c] = None /\ apc[c] = "poll"

\* What job j may find in the container c it holds.
Mine(j, c) ==
    /\ jpc[j] \in {"inject", "write", "persist"} => Quiet(c)
    /\ jpc[j] = "write" => result[c] = None /\ c \notin done
    /\ jpc[j] = "wait" =>
         /\ inbox[c] \in {None, j} /\ result[c] \in {None, j}
         /\ inbox[c] # None => apc[c] = "poll"
         /\ apc[c] = "main" => atask[c] = j
         /\ c \in done => Quiet(c)

\* The inductive core of OwnResult: a container that may be lent is quiet.
Files ==
    restarts = 0 \/ ~overdue =>
        /\ \A j \in Jobs : got[j] \in {None, j}
        /\ \A c \in Unborn : Quiet(c)
        /\ ~stopped => \A c \in (slots \cap entries) \ inUse : Quiet(c)
        /\ \A j \in Busy : Mine(j, held[j])

IInv == TypeOK /\ Holders /\ Counted /\ Stages /\ Known /\ Files

-----------------------------------------------------------------------------
\* Nothing has started, no file exists: the initial states satisfy IInv.
LEMMA InitInv == Init => IInv
<1> SUFFICES ASSUME Init PROVE IInv
  OBVIOUS
<1> USE NamesAssumption, LimitsAssumption DEF Init
<1>1. TypeOK
  <2>1. podmanErrors \in 0..MaxPodmanErrors /\ restarts \in 0..MaxRestarts
    OBVIOUS
  <2> QED BY <2>1, Zenon DEF TypeOK
<1>2. Holders /\ Stages /\ Known /\ Files
  BY Zenon DEF Holders, Stages, Known, Files, Starting, Busy, Unborn, Quiet, Mine
<1>3. Counted
  <2>1. \A k \in Keys : RoleSlots(k) = {}
    BY Zenon DEF RoleSlots
  <2> QED BY <2>1, FS_EmptySet DEF Counted
<1> QED BY Zenon, <1>1, <1>2, <1>3 DEF IInv

\* No step leaves another job's task or answer where a job may meet it.
LEMMA FilesStep == TypeOK /\ Holders /\ Stages /\ Files /\ [Next]_vars => Files'
<1> SUFFICES ASSUME TypeOK, Holders, Stages, Files, [Next]_vars PROVE Files'
  OBVIOUS
<1>1. ASSUME NEW j \in Jobs, NEW c \in Jobs, AcquireHit(j, c) PROVE Files'
  BY <1>1 DEF AcquireHit, Go, IdleEntries, RoleSlots, stopVars, fileVars, agentVars, Busy,
     Unborn, TypeOK, Files, Quiet, Mine
<1>2. ASSUME NEW j \in Jobs, AcquireMiss(j) PROVE Files'
  BY <1>2 DEF AcquireMiss, Go, stopVars, poolVars, fileVars, agentVars, Busy, Unborn, Files,
     Quiet, Mine
<1>3. ASSUME NEW j \in Jobs, Reserve(j) PROVE Files'
  BY <1>3 DEF Reserve, Go, stopVars, fileVars, agentVars, Busy, Unborn, TypeOK, Files,
     Quiet, Mine
<1>4. ASSUME NEW j \in Jobs, StartContainer(j) PROVE Files'
  BY <1>4 DEF StartContainer, Go, stopVars, poolVars, fileVars, agentVars, Busy, Unborn,
     Files, Quiet, Mine
<1>5. ASSUME NEW j \in Jobs, StartContainerFails(j) PROVE Files'
  BY <1>5 DEF StartContainerFails, Go, PlaceholderRemoved, stopVars, fileVars, agentVars,
     Busy, Unborn, Files, Quiet, Mine
<1>6. ASSUME NEW j \in Jobs, Register(j) PROVE Files'
  BY <1>6 DEF Register, Go, stopVars, fileVars, agentVars, Busy, Unborn, TypeOK, Files,
     Quiet, Mine
<1>7. ASSUME NEW j \in Jobs, InjectClear(j) PROVE Files'
  BY <1>7 DEF InjectClear, Go, Cleared, stopVars, poolVars, agentVars, Holders, Busy,
     Unborn, TypeOK, Files, Quiet, Mine
<1>8. ASSUME NEW j \in Jobs, InjectWrite(j) PROVE Files'
  BY <1>8 DEF InjectWrite, Go, stopVars, poolVars, agentVars, Holders, Busy, Unborn, TypeOK,
     Files, Quiet, Mine
<1>9. ASSUME NEW j \in Jobs, WaitDone(j) PROVE Files'
  BY <1>9 DEF WaitDone, Go, stopVars, poolVars, fileVars, agentVars, Busy, Unborn, Files,
     Quiet, Mine
<1>10. ASSUME NEW j \in Jobs, JobFails(j) PROVE Files'
  BY <1>10 DEF JobFails, Go, Release, ReleasedUnhealthy, stopVars, fileVars, agentVars,
     Busy, Unborn, TypeOK, Files, Quiet, Mine
<1>11. ASSUME NEW j \in Jobs, JobSucceeds(j) PROVE Files'
  BY <1>11 DEF JobSucceeds, Go, Release, ReleasedHealthy, stopVars, fileVars, agentVars,
     Busy, Unborn, TypeOK, Files, Quiet, Mine
<1>12. ASSUME NEW c \in Jobs, AgentTake(c) PROVE Files'
  BY <1>12 DEF AgentTake, stopVars, poolVars, jobVars, Busy, Unborn, TypeOK, Files, Quiet,
     Mine
<1>13. ASSUME NEW c \in Jobs, AgentDone(c) PROVE Files'
  BY <1>13 DEF AgentDone, stopVars, poolVars, jobVars, Busy, Unborn, TypeOK, Files, Quiet,
     Mine
<1>14. ASSUME NEW c \in Jobs, NEW r \in Jobs \cup {None}, AgentResult(c, r) PROVE Files'
  BY <1>14 DEF AgentResult, stopVars, poolVars, jobVars, Busy, Unborn, Files, Quiet, Mine
<1>15. ASSUME NEW c \in Jobs, AgentExit(c) PROVE Files'
  BY <1>15 DEF AgentExit, Ended, stopVars, poolVars, jobVars, fileVars, Busy, Unborn,
     TypeOK, Files, Quiet, Mine
<1>16. ASSUME NEW c \in Jobs, Teardown(c) PROVE Files'
  BY <1>16 DEF Teardown, Ended, Cleared, stopVars, jobVars, agentVars, Holders, Busy,
     Unborn, TypeOK, Files, Quiet, Mine
<1>17. ASSUME NEW S \in SUBSET Jobs, EvictIdle(S) PROVE Files'
  BY Zenon, <1>17 DEF EvictIdle, stopVars, jobVars, fileVars, agentVars, Busy, Unborn,
     Files, Quiet, Mine
<1>18. CASE ReaperExit
  BY Zenon, <1>18 DEF ReaperExit, jobVars, fileVars, agentVars, Busy, Unborn, Files, Quiet,
     Mine
<1>19. CASE StopBegin
  BY Zenon, <1>19 DEF StopBegin, jobVars, fileVars, agentVars, Busy, Unborn, Files, Quiet,
     Mine
<1>20. CASE StopSnapshot
  BY Zenon, <1>20 DEF StopSnapshot, jobVars, fileVars, agentVars, Busy, Unborn, Files,
     Quiet, Mine
<1>21. CASE StopReturn
  BY Zenon, <1>21 DEF StopReturn, jobVars, fileVars, agentVars, Busy, Unborn, Stages, Files,
     Quiet, Mine
<1>22. CASE StopGivesUp
  BY Zenon, <1>22 DEF StopGivesUp, jobVars, fileVars, agentVars, Busy, Unborn, Stages,
     Files, Quiet, Mine
<1>23. CASE StopExpires
  BY ZenonT(60), <1>23 DEF StopExpires, jobVars, fileVars, agentVars, Busy, Unborn, Stages,
     Files, Quiet, Mine
<1>24. CASE Restart
  BY <1>24 DEF Restart, poolVars, jobVars, fileVars, agentVars, Busy, Unborn, TypeOK,
     Stages, Files, Quiet, Mine
<1>25. CASE UNCHANGED vars
  BY Zenon, <1>25 DEF vars, stopVars, poolVars, jobVars, fileVars, agentVars, Busy, Unborn,
     Files, Quiet, Mine
<1> QED BY ZenonT(60), <1>1, <1>2, <1>3, <1>4, <1>5, <1>6, <1>7, <1>8, <1>9, <1>10, <1>11, <1>12,
           <1>13, <1>14, <1>15, <1>16, <1>17, <1>18, <1>19, <1>20, <1>21, <1>22, <1>23,
           <1>24, <1>25 DEF Next, Job, Agent, Stop

\* No step loses sight of a running container.
LEMMA KnownStep == TypeOK /\ Holders /\ Stages /\ Known /\ [Next]_vars => Known'
<1> SUFFICES ASSUME TypeOK, Holders, Stages, Known, [Next]_vars PROVE Known'
  OBVIOUS
<1>1. ASSUME NEW j \in Jobs, NEW c \in Jobs, AcquireHit(j, c) PROVE Known'
  BY <1>1 DEF AcquireHit, Go, stopVars, Known
<1>2. ASSUME NEW j \in Jobs, AcquireMiss(j) PROVE Known'
  BY <1>2 DEF AcquireMiss, Go, stopVars, poolVars, Known
<1>3. ASSUME NEW j \in Jobs, Reserve(j) PROVE Known'
  BY Zenon, <1>3 DEF Reserve, Go, stopVars, TypeOK, Known
<1>4. ASSUME NEW j \in Jobs, StartContainer(j) PROVE Known'
  BY Zenon, <1>4 DEF StartContainer, Go, stopVars, poolVars, TypeOK, Known
<1>5. ASSUME NEW j \in Jobs, StartContainerFails(j) PROVE Known'
  BY <1>5 DEF StartContainerFails, Go, PodmanError, stopVars, TypeOK, Known
<1>6. ASSUME NEW j \in Jobs, Register(j) PROVE Known'
  BY <1>6 DEF Register, Go, stopVars, Known
<1>7. ASSUME NEW j \in Jobs, InjectClear(j) PROVE Known'
  BY <1>7 DEF InjectClear, Go, stopVars, poolVars, Known
<1>8. ASSUME NEW j \in Jobs, InjectWrite(j) PROVE Known'
  BY <1>8 DEF InjectWrite, Go, stopVars, poolVars, Known
<1>9. ASSUME NEW j \in Jobs, WaitDone(j) PROVE Known'
  BY <1>9 DEF WaitDone, Go, stopVars, poolVars, Known
<1>10. ASSUME NEW j \in Jobs, JobFails(j) PROVE Known'
  BY <1>10 DEF JobFails, Go, Release, ReleasedUnhealthy, Surrendered, stopVars, Known
<1>11. ASSUME NEW j \in Jobs, JobSucceeds(j) PROVE Known'
  BY <1>11 DEF JobSucceeds, Go, Release, ReleasedHealthy, Surrendered, stopVars, Known
<1>12. ASSUME NEW c \in Jobs, AgentTake(c) PROVE Known'
  BY Zenon, <1>12 DEF AgentTake, stopVars, poolVars, jobVars, Known
<1>13. ASSUME NEW c \in Jobs, AgentDone(c) PROVE Known'
  BY Zenon, <1>13 DEF AgentDone, stopVars, poolVars, jobVars, Known
<1>14. ASSUME NEW c \in Jobs, NEW r \in Jobs \cup {None}, AgentResult(c, r) PROVE Known'
  BY Zenon, <1>14 DEF AgentResult, stopVars, poolVars, jobVars, Known
<1>15. ASSUME NEW c \in Jobs, AgentExit(c) PROVE Known'
  BY <1>15 DEF AgentExit, Ended, stopVars, poolVars, jobVars, Known
<1>16. ASSUME NEW c \in Jobs, Teardown(c) PROVE Known'
  BY <1>16 DEF Teardown, Ended, PodmanError, stopVars, jobVars, TypeOK, Stages, Known
<1>17. ASSUME NEW S \in SUBSET Jobs, EvictIdle(S) PROVE Known'
  BY Zenon, <1>17 DEF EvictIdle, stopVars, jobVars, Known
<1>18. CASE ReaperExit
  BY Zenon, <1>18 DEF ReaperExit, poolVars, jobVars, Known
<1>19. CASE StopBegin
  BY Zenon, <1>19 DEF StopBegin, poolVars, jobVars, Known
<1>20. CASE StopSnapshot
  BY Zenon, <1>20 DEF StopSnapshot, StopTakes, WaitGroupDone, jobVars, Known
<1>21. CASE StopReturn
  BY Zenon, <1>21 DEF StopReturn, poolVars, jobVars, Known
<1>22. CASE StopGivesUp
  BY Zenon, <1>22 DEF StopGivesUp, Stages, Known
<1>23. CASE StopExpires
  BY Zenon, <1>23 DEF StopExpires, Known
<1>24. CASE Restart
  BY Zenon, <1>24 DEF Restart, poolVars, jobVars, Known
<1>25. CASE UNCHANGED vars
  BY Zenon, <1>25 DEF vars, stopVars, poolVars, jobVars, Known
<1> QED BY ZenonT(60), <1>1, <1>2, <1>3, <1>4, <1>5, <1>6, <1>7, <1>8, <1>9, <1>10, <1>11, <1>12,
           <1>13, <1>14, <1>15, <1>16, <1>17, <1>18, <1>19, <1>20, <1>21, <1>22, <1>23,
           <1>24, <1>25 DEF Next, Job, Agent, Stop

\* Every step preserves the types.
LEMMA TypeStep == TypeOK /\ Holders /\ [Next]_vars => TypeOK'
<1> SUFFICES ASSUME TypeOK, Holders, [Next]_vars PROVE TypeOK'
  OBVIOUS
<1>1. ASSUME NEW j \in Jobs, NEW c \in Jobs, AcquireHit(j, c) PROVE TypeOK'
  BY Zenon, <1>1 DEF AcquireHit, Go, stopVars, fileVars, agentVars, TypeOK
<1>2. ASSUME NEW j \in Jobs, AcquireMiss(j) PROVE TypeOK'
  BY Zenon, <1>2 DEF AcquireMiss, Go, stopVars, poolVars, fileVars, agentVars, TypeOK
<1>3. ASSUME NEW j \in Jobs, Reserve(j) PROVE TypeOK'
  BY ZenonT(60), <1>3 DEF Reserve, Go, stopVars, fileVars, agentVars, TypeOK
<1>4. ASSUME NEW j \in Jobs, StartContainer(j) PROVE TypeOK'
  BY Zenon, <1>4 DEF StartContainer, Go, stopVars, poolVars, fileVars, agentVars, TypeOK
<1>5. ASSUME NEW j \in Jobs, StartContainerFails(j) PROVE TypeOK'
  BY <1>5, LimitsAssumption DEF StartContainerFails, Go, PlaceholderRemoved, PodmanError,
     stopVars, fileVars, agentVars, TypeOK
<1>6. ASSUME NEW j \in Jobs, Register(j) PROVE TypeOK'
  BY Zenon, <1>6 DEF Register, Go, stopVars, fileVars, agentVars, TypeOK
<1>7. ASSUME NEW j \in Jobs, InjectClear(j) PROVE TypeOK'
  BY Zenon, <1>7 DEF InjectClear, Go, Cleared, stopVars, poolVars, agentVars, TypeOK
<1>8. ASSUME NEW j \in Jobs, InjectWrite(j) PROVE TypeOK'
  BY Zenon, <1>8 DEF InjectWrite, Go, stopVars, poolVars, agentVars, TypeOK
<1>9. ASSUME NEW j \in Jobs, WaitDone(j) PROVE TypeOK'
  BY Zenon, <1>9 DEF WaitDone, Go, stopVars, poolVars, fileVars, agentVars, TypeOK
<1>10. ASSUME NEW j \in Jobs, JobFails(j) PROVE TypeOK'
  <2>1. stopped' \in BOOLEAN /\ reaper' \in BOOLEAN /\ late' \in BOOLEAN /\ overdue' \in BOOLEAN
    BY Zenon, <1>10 DEF JobFails, stopVars, TypeOK
  <2>2. spc' \in {"none", "drain", "bulk", "returned"}
    BY Zenon, <1>10 DEF JobFails, stopVars, TypeOK
  <2>3. slots' \subseteq Jobs /\ entries' \subseteq Jobs /\ inUse' \subseteq Jobs /\ done' \subseteq Jobs
    BY ZenonT(60), <1>10 DEF JobFails, Release, ReleasedUnhealthy, Surrendered, fileVars, TypeOK
  <2>4. tearing' \subseteq Jobs /\ bulk' \subseteq Jobs
    BY <1>10 DEF JobFails, Release, ReleasedUnhealthy, Surrendered, Holders, Busy, TypeOK
  <2>5. box' \in [Jobs -> {"none", "running", "gone"}]
    BY Zenon, <1>10 DEF JobFails, TypeOK
  <2>6. podmanErrors' \in 0..MaxPodmanErrors /\ restarts' \in 0..MaxRestarts
    BY Zenon, <1>10 DEF JobFails, stopVars, TypeOK
  <2>7. jpc' \in [Jobs -> {"new", "start", "starting", "register", "inject", "write",
                       "wait", "persist", "done"}]
    BY Zenon, <1>10 DEF JobFails, Go, Release, TypeOK
  <2>8. held' \in [Jobs -> Jobs \cup {None}] /\ got' \in [Jobs -> Jobs \cup {None}]
    BY Zenon, <1>10 DEF JobFails, Release, TypeOK
  <2>9. inbox' \in [Jobs -> Jobs \cup {None}] /\ result' \in [Jobs -> Jobs \cup {None}]
    BY Zenon, <1>10 DEF JobFails, fileVars, TypeOK
  <2>10. apc' \in [Jobs -> {"poll", "main", "wrote"}] /\ atask' \in [Jobs -> Jobs \cup {None}]
    BY Zenon, <1>10 DEF JobFails, agentVars, TypeOK
  <2> QED BY Zenon, <2>1, <2>2, <2>3, <2>4, <2>5, <2>6, <2>7, <2>8, <2>9, <2>10 DEF TypeOK
<1>11. ASSUME NEW j \in Jobs, JobSucceeds(j) PROVE TypeOK'
  BY Zenon, <1>11 DEF JobSucceeds, Go, Release, ReleasedHealthy, Surrendered, stopVars,
     fileVars, agentVars, TypeOK
<1>12. ASSUME NEW c \in Jobs, AgentTake(c) PROVE TypeOK'
  BY Zenon, <1>12 DEF AgentTake, stopVars, poolVars, jobVars, TypeOK
<1>13. ASSUME NEW c \in Jobs, AgentDone(c) PROVE TypeOK'
  BY Zenon, <1>13 DEF AgentDone, stopVars, poolVars, jobVars, TypeOK
<1>14. ASSUME NEW c \in Jobs, NEW r \in Jobs \cup {None}, AgentResult(c, r) PROVE TypeOK'
  BY Zenon, <1>14 DEF AgentResult, stopVars, poolVars, jobVars, TypeOK
<1>15. ASSUME NEW c \in Jobs, AgentExit(c) PROVE TypeOK'
  BY ZenonT(60), <1>15 DEF AgentExit, Ended, stopVars, poolVars, jobVars, fileVars, TypeOK
<1>16. ASSUME NEW c \in Jobs, Teardown(c) PROVE TypeOK'
  BY <1>16, LimitsAssumption DEF Teardown, Ended, Cleared, PodmanError, stopVars, jobVars,
     agentVars, TypeOK
<1>17. ASSUME NEW S \in SUBSET Jobs, EvictIdle(S) PROVE TypeOK'
  BY Zenon, <1>17 DEF EvictIdle, stopVars, jobVars, fileVars, agentVars, TypeOK
<1>18. CASE ReaperExit
  BY Zenon, <1>18 DEF ReaperExit, poolVars, jobVars, fileVars, agentVars, TypeOK
<1>19. CASE StopBegin
  BY Zenon, <1>19 DEF StopBegin, poolVars, jobVars, fileVars, agentVars, TypeOK
<1>20. CASE StopSnapshot
  BY Zenon, <1>20 DEF StopSnapshot, StopTakes, jobVars, fileVars, agentVars, TypeOK
<1>21. CASE StopReturn
  BY Zenon, <1>21 DEF StopReturn, poolVars, jobVars, fileVars, agentVars, TypeOK
<1>22. CASE StopGivesUp
  BY Zenon, <1>22 DEF StopGivesUp, poolVars, jobVars, fileVars, agentVars, TypeOK
<1>23. CASE StopExpires
  BY Zenon, <1>23 DEF StopExpires, poolVars, jobVars, fileVars, agentVars, TypeOK
<1>24. CASE Restart
  <2>1. stopped' \in BOOLEAN /\ reaper' \in BOOLEAN /\ late' \in BOOLEAN /\ overdue' \in BOOLEAN
    BY Zenon, <1>24 DEF Restart, TypeOK
  <2>2. spc' \in {"none", "drain", "bulk", "returned"}
    BY Zenon, <1>24 DEF Restart
  <2>3. slots' \subseteq Jobs /\ entries' \subseteq Jobs /\ inUse' \subseteq Jobs /\ done' \subseteq Jobs
    BY Zenon, <1>24 DEF Restart, poolVars, fileVars, TypeOK
  <2>4. tearing' \subseteq Jobs /\ bulk' \subseteq Jobs
    BY Zenon, <1>24 DEF Restart, poolVars, TypeOK
  <2>5. box' \in [Jobs -> {"none", "running", "gone"}]
    BY Zenon, <1>24 DEF Restart, TypeOK
  <2>6. podmanErrors' \in 0..MaxPodmanErrors /\ restarts' \in 0..MaxRestarts
    BY <1>24, LimitsAssumption DEF Restart, TypeOK
  <2>7. jpc' \in [Jobs -> {"new", "start", "starting", "register", "inject", "write",
                       "wait", "persist", "done"}]
    BY Zenon, <1>24 DEF Restart, jobVars, TypeOK
  <2>8. held' \in [Jobs -> Jobs \cup {None}] /\ got' \in [Jobs -> Jobs \cup {None}]
    BY Zenon, <1>24 DEF Restart, jobVars, TypeOK
  <2>9. inbox' \in [Jobs -> Jobs \cup {None}] /\ result' \in [Jobs -> Jobs \cup {None}]
    BY Zenon, <1>24 DEF Restart, fileVars, TypeOK
  <2>10. apc' \in [Jobs -> {"poll", "main", "wrote"}] /\ atask' \in [Jobs -> Jobs \cup {None}]
    BY Zenon, <1>24 DEF Restart, agentVars, TypeOK
  <2> QED BY ZenonT(60), <2>1, <2>2, <2>3, <2>4, <2>5, <2>6, <2>7, <2>8, <2>9, <2>10 DEF TypeOK
<1>25. CASE UNCHANGED vars
  BY Zenon, <1>25 DEF vars, stopVars, poolVars, jobVars, fileVars, agentVars, TypeOK
<1> QED BY ZenonT(60), <1>1, <1>2, <1>3, <1>4, <1>5, <1>6, <1>7, <1>8, <1>9, <1>10, <1>11, <1>12,
           <1>13, <1>14, <1>15, <1>16, <1>17, <1>18, <1>19, <1>20, <1>21, <1>22, <1>23,
           <1>24, <1>25 DEF Next, Job, Agent, Stop

\* Every step keeps containers with one holder each and the maps consistent.
LEMMA HoldersStep == TypeOK /\ Holders /\ Stages /\ [Next]_vars => Holders'
<1> SUFFICES ASSUME TypeOK, Holders, Stages, [Next]_vars PROVE Holders'
  OBVIOUS
<1>1. ASSUME NEW j \in Jobs, NEW c \in Jobs, AcquireHit(j, c) PROVE Holders'
  BY <1>1 DEF AcquireHit, Go, IdleEntries, Holders, Starting, Busy, Unborn, TypeOK
<1>2. ASSUME NEW j \in Jobs, AcquireMiss(j) PROVE Holders'
  BY <1>2 DEF AcquireMiss, Go, poolVars, Holders, Starting, Busy, Unborn
<1>3. ASSUME NEW j \in Jobs, Reserve(j) PROVE Holders'
  BY <1>3 DEF Reserve, Go, Holders, Starting, Busy, Unborn, TypeOK, Stages
<1>4. ASSUME NEW j \in Jobs, StartContainer(j) PROVE Holders'
  <2>1. UNCHANGED <<slots, entries, inUse, tearing, bulk, held>>
    BY Zenon, <1>4 DEF StartContainer, poolVars
  <2>2. Busy' = Busy /\ Unborn' = Unborn /\ Starting' = Starting
    BY Zenon, <1>4 DEF StartContainer, Go, Starting, Busy, Unborn, TypeOK
  <2> QED BY Zenon, <2>1, <2>2 DEF Holders
<1>5. ASSUME NEW j \in Jobs, StartContainerFails(j) PROVE Holders'
  <2>1. slots' = slots \ {j} /\ UNCHANGED <<entries, inUse, tearing, bulk, held>>
    BY Zenon, <1>5 DEF StartContainerFails, PlaceholderRemoved
  <2>2. Busy' = Busy /\ Unborn' \subseteq Unborn /\ Starting \ {j} \subseteq Starting'
    BY Zenon, <1>5 DEF StartContainerFails, Go, Starting, Busy, Unborn, TypeOK
  <2> QED BY Zenon, <2>1, <2>2 DEF Holders
<1>6. ASSUME NEW j \in Jobs, Register(j) PROVE Holders'
  BY <1>6 DEF Register, Go, Holders, Starting, Busy, Unborn, TypeOK
<1>7. ASSUME NEW j \in Jobs, InjectClear(j) PROVE Holders'
  BY <1>7 DEF InjectClear, Go, poolVars, Holders, Starting, Busy, Unborn
<1>8. ASSUME NEW j \in Jobs, InjectWrite(j) PROVE Holders'
  BY <1>8 DEF InjectWrite, Go, poolVars, Holders, Starting, Busy, Unborn
<1>9. ASSUME NEW j \in Jobs, WaitDone(j) PROVE Holders'
  BY <1>9 DEF WaitDone, Go, poolVars, Holders, Starting, Busy, Unborn
<1>10. ASSUME NEW j \in Jobs, JobFails(j) PROVE Holders'
  BY <1>10 DEF JobFails, Go, Release, ReleasedUnhealthy, Surrendered, Holders, Starting,
     Busy, Unborn, TypeOK
<1>11. ASSUME NEW j \in Jobs, JobSucceeds(j) PROVE Holders'
  BY <1>11 DEF JobSucceeds, Go, Release, ReleasedHealthy, Surrendered, Holders, Starting,
     Busy, Unborn, TypeOK
<1>12. ASSUME NEW c \in Jobs, AgentTake(c) PROVE Holders'
  BY Zenon, <1>12 DEF AgentTake, poolVars, jobVars, Holders, Starting, Busy, Unborn
<1>13. ASSUME NEW c \in Jobs, AgentDone(c) PROVE Holders'
  BY Zenon, <1>13 DEF AgentDone, poolVars, jobVars, Holders, Starting, Busy, Unborn
<1>14. ASSUME NEW c \in Jobs, NEW r \in Jobs \cup {None}, AgentResult(c, r) PROVE Holders'
  BY Zenon, <1>14 DEF AgentResult, poolVars, jobVars, Holders, Starting, Busy, Unborn
<1>15. ASSUME NEW c \in Jobs, AgentExit(c) PROVE Holders'
  BY Zenon, <1>15 DEF AgentExit, poolVars, jobVars, Holders, Starting, Busy, Unborn
<1>16. ASSUME NEW c \in Jobs, Teardown(c) PROVE Holders'
  BY Zenon, <1>16 DEF Teardown, jobVars, Holders, Starting, Busy, Unborn
<1>17. ASSUME NEW S \in SUBSET Jobs, EvictIdle(S) PROVE Holders'
  BY Zenon, <1>17 DEF EvictIdle, Evictable, jobVars, Holders, Starting, Busy, Unborn
<1>18. CASE ReaperExit
  BY Zenon, <1>18 DEF ReaperExit, poolVars, jobVars, Holders, Starting, Busy, Unborn
<1>19. CASE StopBegin
  BY Zenon, <1>19 DEF StopBegin, poolVars, jobVars, Holders, Starting, Busy, Unborn
<1>20. CASE StopSnapshot
  BY Zenon, <1>20 DEF StopSnapshot, StopTakes, jobVars, Holders, Busy, Unborn
<1>21. CASE StopReturn
  BY Zenon, <1>21 DEF StopReturn, poolVars, jobVars, Holders, Starting, Busy, Unborn
<1>22. CASE StopGivesUp
  BY Zenon, <1>22 DEF StopGivesUp, poolVars, jobVars, Holders, Starting, Busy, Unborn
<1>23. CASE StopExpires
  BY Zenon, <1>23 DEF StopExpires, poolVars, jobVars, Holders, Starting, Busy, Unborn
<1>24. CASE Restart
  BY Zenon, <1>24 DEF Restart, poolVars, jobVars, Holders, Starting, Busy, Unborn
<1>25. CASE UNCHANGED vars
  BY Zenon, <1>25 DEF vars, poolVars, jobVars, Holders, Starting, Busy, Unborn
<1> QED BY ZenonT(60), <1>1, <1>2, <1>3, <1>4, <1>5, <1>6, <1>7, <1>8, <1>9, <1>10, <1>11, <1>12,
           <1>13, <1>14, <1>15, <1>16, <1>17, <1>18, <1>19, <1>20, <1>21, <1>22, <1>23,
           <1>24, <1>25 DEF Next, Job, Agent, Stop

\* Taking slots away keeps every role within its limit.
LEMMA FewerSlots == ASSUME Counted, slots' \subseteq slots PROVE Counted'
<1>1. IsFiniteSet(slots')
  BY Zenon, FS_Subset DEF Counted
<1>2. ASSUME NEW k \in Keys PROVE Cardinality(RoleSlots(k)') <= MaxPerRole
  <2>1. IsFiniteSet(RoleSlots(k)) /\ RoleSlots(k)' \subseteq RoleSlots(k)
    BY Zenon, FS_Subset DEF RoleSlots, Counted
  <2>2. IsFiniteSet(RoleSlots(k)') /\ Cardinality(RoleSlots(k)') <= Cardinality(RoleSlots(k))
    BY Zenon, <2>1, FS_Subset
  <2>3. Cardinality(RoleSlots(k)) \in Nat /\ Cardinality(RoleSlots(k)') \in Nat
    BY Zenon, <2>1, <2>2, FS_CardinalityType
  <2>4. Cardinality(RoleSlots(k)) <= MaxPerRole
    BY Zenon DEF Counted
  <2> QED BY <2>2, <2>3, <2>4, LimitsAssumption
<1> QED BY Zenon, <1>1, <1>2 DEF Counted

\* Only Reserve adds a slot, and only where there is room.
LEMMA CountedStep == Counted /\ [Next]_vars => Counted'
<1> SUFFICES ASSUME Counted, [Next]_vars PROVE Counted'
  OBVIOUS
<1>1. ASSUME NEW j \in Jobs, NEW c \in Jobs, AcquireHit(j, c) PROVE Counted'
  BY Zenon, <1>1, FewerSlots DEF AcquireHit
<1>2. ASSUME NEW j \in Jobs, AcquireMiss(j) PROVE Counted'
  BY Zenon, <1>2, FewerSlots DEF AcquireMiss, poolVars
<1>3. ASSUME NEW j \in Jobs, Reserve(j) PROVE Counted'
  <2>1. CASE slots' = slots
    BY Zenon, <2>1, FewerSlots
  <2>2. CASE Room(KeyOf[j]) /\ slots' = slots \cup {j}
    <3>1. IsFiniteSet(slots')
      BY Zenon, <2>2, FS_AddElement DEF Counted
    <3>2. ASSUME NEW k \in Keys PROVE Cardinality(RoleSlots(k)') <= MaxPerRole
      <4>0. IsFiniteSet(RoleSlots(k)) /\ RoleSlots(k) \subseteq slots
        BY Zenon, FS_Subset DEF RoleSlots, Counted
      <4>1. CASE KeyOf[j] = k
        <5>1. RoleSlots(k)' = RoleSlots(k) \cup {j}
          BY Zenon, <2>2, <4>1 DEF RoleSlots
        <5>2. Cardinality(RoleSlots(k)) \in Nat /\ Cardinality(RoleSlots(k)) < MaxPerRole
          BY Zenon, <4>0, <4>1, <2>2, FS_CardinalityType DEF Room
        <5>3. Cardinality(RoleSlots(k)') \in {Cardinality(RoleSlots(k)), Cardinality(RoleSlots(k)) + 1}
          BY Zenon, <4>0, <5>1, FS_AddElement
        <5> QED BY <5>2, <5>3, LimitsAssumption
      <4>2. CASE KeyOf[j] # k
        <5>1. RoleSlots(k)' = RoleSlots(k)
          BY Zenon, <2>2, <4>2 DEF RoleSlots
        <5> QED BY Zenon, <5>1 DEF Counted
      <4> QED BY Zenon, <4>1, <4>2
    <3> QED BY Zenon, <3>1, <3>2 DEF Counted
  <2> QED BY Zenon, <1>3, <2>1, <2>2 DEF Reserve
<1>4. ASSUME NEW j \in Jobs, StartContainer(j) PROVE Counted'
  BY Zenon, <1>4, FewerSlots DEF StartContainer, poolVars
<1>5. ASSUME NEW j \in Jobs, StartContainerFails(j) PROVE Counted'
  BY Zenon, <1>5, FewerSlots DEF StartContainerFails, PlaceholderRemoved
<1>6. ASSUME NEW j \in Jobs, Register(j) PROVE Counted'
  BY Zenon, <1>6, FewerSlots DEF Register
<1>7. ASSUME NEW j \in Jobs, InjectClear(j) PROVE Counted'
  BY Zenon, <1>7, FewerSlots DEF InjectClear, poolVars
<1>8. ASSUME NEW j \in Jobs, InjectWrite(j) PROVE Counted'
  BY Zenon, <1>8, FewerSlots DEF InjectWrite, poolVars
<1>9. ASSUME NEW j \in Jobs, WaitDone(j) PROVE Counted'
  BY Zenon, <1>9, FewerSlots DEF WaitDone, poolVars
<1>10. ASSUME NEW j \in Jobs, JobFails(j) PROVE Counted'
  BY Zenon, <1>10, FewerSlots DEF JobFails, Release, ReleasedUnhealthy, Surrendered
<1>11. ASSUME NEW j \in Jobs, JobSucceeds(j) PROVE Counted'
  BY Zenon, <1>11, FewerSlots DEF JobSucceeds, Release, ReleasedHealthy, Surrendered
<1>12. ASSUME NEW c \in Jobs, AgentTake(c) PROVE Counted'
  BY Zenon, <1>12, FewerSlots DEF AgentTake, poolVars
<1>13. ASSUME NEW c \in Jobs, AgentDone(c) PROVE Counted'
  BY Zenon, <1>13, FewerSlots DEF AgentDone, poolVars
<1>14. ASSUME NEW c \in Jobs, NEW r \in Jobs \cup {None}, AgentResult(c, r) PROVE Counted'
  BY Zenon, <1>14, FewerSlots DEF AgentResult, poolVars
<1>15. ASSUME NEW c \in Jobs, AgentExit(c) PROVE Counted'
  BY Zenon, <1>15, FewerSlots DEF AgentExit, poolVars
<1>16. ASSUME NEW c \in Jobs, Teardown(c) PROVE Counted'
  BY Zenon, <1>16, FewerSlots DEF Teardown
<1>17. ASSUME NEW S \in SUBSET Jobs, EvictIdle(S) PROVE Counted'
  BY Zenon, <1>17, FewerSlots DEF EvictIdle
<1>18. CASE ReaperExit
  BY Zenon, <1>18, FewerSlots DEF ReaperExit, poolVars
<1>19. CASE StopBegin
  BY Zenon, <1>19, FewerSlots DEF StopBegin, poolVars
<1>20. CASE StopSnapshot
  BY Zenon, <1>20, FewerSlots DEF StopSnapshot
<1>21. CASE StopReturn
  BY Zenon, <1>21, FewerSlots DEF StopReturn, poolVars
<1>22. CASE StopGivesUp
  BY Zenon, <1>22, FewerSlots DEF StopGivesUp, poolVars
<1>23. CASE StopExpires
  BY Zenon, <1>23, FewerSlots DEF StopExpires, poolVars
<1>24. CASE Restart
  BY Zenon, <1>24, FewerSlots DEF Restart, poolVars
<1>25. CASE UNCHANGED vars
  BY Zenon, <1>25, FewerSlots DEF vars, poolVars
<1> QED BY ZenonT(60), <1>1, <1>2, <1>3, <1>4, <1>5, <1>6, <1>7, <1>8, <1>9, <1>10, <1>11, <1>12,
           <1>13, <1>14, <1>15, <1>16, <1>17, <1>18, <1>19, <1>20, <1>21, <1>22, <1>23,
           <1>24, <1>25 DEF Next, Job, Agent, Stop

\* Every step keeps what the stages of Stop promise.
LEMMA StagesStep == TypeOK /\ Holders /\ Stages /\ [Next]_vars => Stages'
<1> SUFFICES ASSUME TypeOK, Holders, Stages, [Next]_vars PROVE Stages'
  OBVIOUS
<1>1. ASSUME NEW j \in Jobs, NEW c \in Jobs, AcquireHit(j, c) PROVE Stages'
  BY Zenon, <1>1 DEF AcquireHit, stopVars, Stages
<1>2. ASSUME NEW j \in Jobs, AcquireMiss(j) PROVE Stages'
  BY Zenon, <1>2 DEF AcquireMiss, stopVars, poolVars, Stages
<1>3. ASSUME NEW j \in Jobs, Reserve(j) PROVE Stages'
  BY Zenon, <1>3 DEF Reserve, stopVars, Stages
<1>4. ASSUME NEW j \in Jobs, StartContainer(j) PROVE Stages'
  BY Zenon, <1>4 DEF StartContainer, stopVars, poolVars, Stages
<1>5. ASSUME NEW j \in Jobs, StartContainerFails(j) PROVE Stages'
  BY Zenon, <1>5 DEF StartContainerFails, PlaceholderRemoved, stopVars, Stages
<1>6. ASSUME NEW j \in Jobs, Register(j) PROVE Stages'
  BY Zenon, <1>6 DEF Register, stopVars, Stages
<1>7. ASSUME NEW j \in Jobs, InjectClear(j) PROVE Stages'
  BY Zenon, <1>7 DEF InjectClear, stopVars, poolVars, Stages
<1>8. ASSUME NEW j \in Jobs, InjectWrite(j) PROVE Stages'
  BY Zenon, <1>8 DEF InjectWrite, stopVars, poolVars, Stages
<1>9. ASSUME NEW j \in Jobs, WaitDone(j) PROVE Stages'
  BY Zenon, <1>9 DEF WaitDone, stopVars, poolVars, Stages
<1>10. ASSUME NEW j \in Jobs, JobFails(j) PROVE Stages'
  BY Zenon, <1>10 DEF JobFails, Release, Surrendered, stopVars, Stages
<1>11. ASSUME NEW j \in Jobs, JobSucceeds(j) PROVE Stages'
  BY Zenon, <1>11 DEF JobSucceeds, Release, Surrendered, stopVars, Stages
<1>12. ASSUME NEW c \in Jobs, AgentTake(c) PROVE Stages'
  BY Zenon, <1>12 DEF AgentTake, stopVars, poolVars, Stages
<1>13. ASSUME NEW c \in Jobs, AgentDone(c) PROVE Stages'
  BY Zenon, <1>13 DEF AgentDone, stopVars, poolVars, Stages
<1>14. ASSUME NEW c \in Jobs, NEW r \in Jobs \cup {None}, AgentResult(c, r) PROVE Stages'
  BY Zenon, <1>14 DEF AgentResult, stopVars, poolVars, Stages
<1>15. ASSUME NEW c \in Jobs, AgentExit(c) PROVE Stages'
  BY Zenon, <1>15 DEF AgentExit, stopVars, poolVars, Stages
<1>16. ASSUME NEW c \in Jobs, Teardown(c) PROVE Stages'
  BY Zenon, <1>16 DEF Teardown, stopVars, Stages
<1>17. ASSUME NEW S \in SUBSET Jobs, EvictIdle(S) PROVE Stages'
  BY Zenon, <1>17 DEF EvictIdle, stopVars, Stages
<1>18. CASE ReaperExit
  BY Zenon, <1>18 DEF ReaperExit, poolVars, Stages
<1>19. CASE StopBegin
  BY Zenon, <1>19 DEF StopBegin, Stages
<1>20. CASE StopSnapshot
  BY Zenon, <1>20 DEF StopSnapshot, WaitGroupDone, Stages
<1>21. CASE StopReturn
  BY Zenon, <1>21 DEF StopReturn, WaitGroupDone, poolVars, Stages
<1>22. CASE StopGivesUp
  BY Zenon, <1>22 DEF StopGivesUp, Stages
<1>23. CASE StopExpires
  BY Zenon, <1>23 DEF StopExpires, Stages
<1>24. CASE Restart
  BY Zenon, <1>24 DEF Restart, Stages
<1>25. CASE UNCHANGED vars
  BY Zenon, <1>25 DEF vars, stopVars, poolVars, Stages
<1> QED BY ZenonT(60), <1>1, <1>2, <1>3, <1>4, <1>5, <1>6, <1>7, <1>8, <1>9, <1>10, <1>11, <1>12,
           <1>13, <1>14, <1>15, <1>16, <1>17, <1>18, <1>19, <1>20, <1>21, <1>22, <1>23,
           <1>24, <1>25 DEF Next, Job, Agent, Stop

-----------------------------------------------------------------------------
\* IInv is an invariant of the pool.
THEOREM Invariance == Spec => []IInv
<1>1. IInv /\ [Next]_vars => IInv'
  BY Zenon, TypeStep, HoldersStep, CountedStep, StagesStep, KnownStep, FilesStep DEF IInv
<1> QED BY InitInv, <1>1, PTL DEF Spec

\* Type correctness.
THEOREM TypeCorrect == Spec => []TypeOK
BY Invariance, PTL DEF IInv

\* StartWarm's check and reservation under one lock bound every role, and no
\* slot outlives its start and its container (pool.go, StartWarm, Release).
THEOREM RoleBoundedHolds == Spec => []RoleBounded
<1>1. IInv => RoleBounded
  BY Zenon DEF IInv, Holders, Counted, RoleBounded
<1> QED BY <1>1, Invariance, PTL

\* A warm container is lent to one step at a time (pool.go, Acquire, Release,
\* evictIdle).
THEOREM ExclusiveHolds == Spec => []Exclusive
<1>1. IInv => Exclusive
  BY Zenon DEF IInv, Holders, Exclusive
<1> QED BY <1>1, Invariance, PTL

\* No step reads the answer to another step's task, because a container goes
\* back to the pool only from a step that saw .done (container.go, pool.go).
THEOREM OwnResultHolds == Spec => []OwnResult
<1>1. IInv => OwnResult
  BY Zenon DEF IInv, Files, OwnResult
<1> QED BY <1>1, Invariance, PTL

\* After a Stop that returned in time only the containers of starts that Stop
\* overtook are running (pool.go, Stop).
THEOREM StopCleanHolds == Spec => []StopClean
<1>1. IInv => StopClean
  BY Zenon DEF IInv, Stages, Known, StopClean, Starting
<1> QED BY <1>1, Invariance, PTL
=============================================================================
