------------------------ MODULE TerminalServiceProofs ------------------------
(***************************************************************************)
(* The terminals of an agent, for any number of callers and terminals and  *)
(* any limit: no process is forgotten, the limit holds for the processes   *)
(* themselves, and a close() that succeeds leaves nothing.                 *)
(***************************************************************************)
EXTENDS TerminalService, TLAPS, FiniteSetTheorems

-----------------------------------------------------------------------------
(* The invariant *)

Creating == {x \in Terminals : \E c \in Callers : pc[c] = "spawn" /\ target[c] = x}

\* The terminals a process may run for.
Places == records \cup Spawning \cup Creating

Calling == {"forget", "kill", "release"}

\* A create() holds the lock until its process has a record or a reservation,
\* and a caller that terminates a process has a job for it.
CallInv ==
    /\ \A c \in Callers : pc[c] \in {"spawn", "forget"} => createLock = c
    /\ \A c \in Callers : pc[c] \in {"spawn"} \cup Calling => target[c] \in Terminals
    /\ \A c \in Callers : pc[c] = "spawn" => late[target[c]] = "none" /\ target[c] \notin records
    /\ \A c \in Callers : job[c] # "none" <=> pc[c] \in Calling
    /\ Spawning \cap records = {}

\* A job that ended well left no process, and its terminal is not used again
\* before the caller of _terminate has seen that.
JobInv ==
    /\ \A x \in Terminals : job[LateJob(x)] # "none" <=> late[x] = "claimed"
    /\ \A x \in Terminals : job[CloseJob(x)] # "none" => closer.phase = "gather"
    /\ \A j \in Jobs : job[j] = "ok" => proc[Of(j)] = "dead"

\* Once a close task has had the lock nobody creates; when it has closed the
\* terminals there were, what is left is claimed by tasks that it awaits.
CloseInv ==
    /\ closer.phase # "none" => closed
    /\ closer.phase \in {"gather", "owned", "done"} => Creating = {}
    /\ closer.phase = "gather" =>
         createLock = "close" /\ \A x \in records : job[CloseJob(x)] # "none"
    /\ closer.phase \in {"owned", "done"} /\ ~closer.failed =>
         \A x \in records \cup Spawning : LateJob(x) \in closer.awaits
    /\ closer.phase = "done" => closer.awaits = {}

PlaceInv ==
    /\ IsFiniteSet(records) /\ IsFiniteSet(Spawning)
    /\ IsFiniteSet(Places) /\ Cardinality(Places) <= Limit

Inv == TypeOK /\ CallInv /\ JobInv /\ EveryProcessOwned /\ CloseInv /\ PlaceInv

\* The jobs of callers, late spawns and the close task are different ones.
LEMMA JobNames ==
    /\ \A x \in Terminals : LateJob(x) \in Jobs \ Callers /\ Of(LateJob(x)) = x
    /\ \A x \in Terminals : CloseJob(x) \in Jobs \ Callers /\ Of(CloseJob(x)) = x
    /\ \A x, y : LateJob(x) # CloseJob(y)
    /\ \A x, y : LateJob(x) = LateJob(y) \/ CloseJob(x) = CloseJob(y) => x = y
    /\ \A c \in Callers : c \in Jobs /\ Of(c) = target[c]
    /\ \A j \in Jobs : j \in Callers \/ \E x \in Terminals : j = LateJob(x) \/ j = CloseJob(x)
BY CallersAssumption DEF Jobs, LateJob, CloseJob, Of

\* The terminal of a job is a terminal while the job runs.
LEMMA JobOf ==
    ASSUME CallInv, NEW j \in Jobs, job[j] # "none"
    PROVE  Of(j) \in Terminals
BY JobNames DEF CallInv

\* The invariant holds in a new service.
LEMMA InvInit == Init => Inv
<1> SUFFICES ASSUME Init PROVE Inv
  OBVIOUS
<1>1. Spawning = {} /\ Creating = {} /\ Places = {}
  BY DEF Init, Spawning, Creating, Places
<1>2. TypeOK
  BY <1>1, FS_EmptySet DEF Init, TypeOK, CloseTask, JobSteps
<1>3. CallInv /\ JobInv /\ EveryProcessOwned /\ CloseInv
  BY <1>1, JobNames DEF Init, CallInv, JobInv, EveryProcessOwned, Live, CloseInv, Calling
<1>4. PlaceInv
  BY <1>1, FS_EmptySet, LimitAssumption DEF Init, PlaceInv
<1> QED BY <1>2, <1>3, <1>4 DEF Inv

-----------------------------------------------------------------------------
(* Types *)

\* TypeOK without the count of the reservations.
Types ==
    /\ proc \in [Terminals -> {"none", "starting", "failed", "alive", "dead"}]
    /\ records \subseteq Terminals
    /\ createLock \in Callers \cup {Free, "close"}
    /\ pc \in [Callers -> {"out", "spawn", "forget", "kill", "release", "close", "closed"}]
    /\ target \in [Callers -> Terminals \cup {Free}]
    /\ late \in [Terminals -> {"none", "spawn", "claimed"}]
    /\ job \in [Jobs -> JobSteps]
    /\ closed \in BOOLEAN /\ closer \in CloseTask

\* The end of an owned task leaves the record of the close task one.
LEMMA OwnedEndsType ==
    ASSUME closer \in CloseTask, NEW j, NEW failed \in BOOLEAN, OwnedEnds(j, failed)
    PROVE  closer' \in CloseTask
BY DEF CloseTask, OwnedEnds

\* Every step keeps the types.
LEMMA TypesKept ==
    ASSUME Inv, Next
    PROVE  Types'
<1> USE DEF Types, Inv, TypeOK
<1>1. ASSUME NEW c \in Callers, Create(c) PROVE Types'
  BY <1>1 DEF Create
<1>2. ASSUME NEW c \in Callers, Created(c) PROVE Types'
  BY <1>2, JobNames DEF Created, Leave, CallInv, JobSteps
<1>3. ASSUME NEW c \in Callers, Interrupted(c) PROVE Types'
  BY <1>3 DEF Interrupted, Leave
<1>4. ASSUME NEW c \in Callers, KillOrRelease(c) PROVE Types'
  BY <1>4, JobNames DEF KillOrRelease, JobSteps
<1>5. ASSUME NEW c \in Callers, Terminated(c) PROVE Types'
  <2>1. closer' \in CloseTask
    BY <1>5, OwnedEndsType DEF Terminated
  <2> QED BY <1>5, <2>1, JobNames DEF Terminated, Leave, JobSteps
<1>6. ASSUME NEW c \in Callers, Close(c) PROVE Types'
  <2>1. closer' \in CloseTask
    <3>1. [phase |-> "lock", awaits |-> {}, failed |-> FALSE] \in CloseTask
      BY DEF CloseTask
    <3> QED BY <1>6, <3>1 DEF Close
  <2>2. pc' \in [Callers -> {"out", "spawn", "forget", "kill", "release", "close", "closed"}]
    BY <1>6 DEF Close
  <2> QED BY <1>6, <2>1, <2>2 DEF Close
<1>7. ASSUME NEW c \in Callers, CloseReturns(c) PROVE Types'
  BY <1>7 DEF CloseReturns, Leave
<1>8. ASSUME NEW x \in Terminals, SpawnEnds(x) \/ Exits(x) PROVE Types'
  BY <1>8 DEF SpawnEnds, Exits
<1>9. ASSUME NEW x \in Terminals, Claim(x) PROVE Types'
  <2>1. closer' \in CloseTask
    BY <1>9, OwnedEndsType DEF Claim
  <2>2. CASE proc[x] = "failed"
    BY <1>9, <2>1, <2>2 DEF Claim
  <2>3. CASE proc[x] # "failed"
    BY <1>9, <2>1, <2>3, JobNames DEF Claim, JobSteps
  <2> QED BY <2>2, <2>3
<1>10. ASSUME NEW x \in Terminals, LateEnds(x) PROVE Types'
  <2>1. closer' \in CloseTask
    BY <1>10, OwnedEndsType DEF LateEnds
  <2> QED BY <1>10, <2>1, JobNames DEF LateEnds, JobSteps
<1>11. ASSUME NEW j \in Jobs, Terminate(j) PROVE Types'
  BY <1>11 DEF Terminate, TerminateTakes, TerminateEnds, JobSteps
<1>12. CASE CloseLocks
  BY <1>12 DEF CloseLocks, CloseTask, JobSteps
<1>13. CASE CloseGathers
  <2>1. OwnedTasks \subseteq Jobs
    BY JobNames DEF OwnedTasks
  <2> QED BY <1>13, <2>1 DEF CloseGathers, CloseTask, JobSteps
<1>14. CASE CloseEnds
  BY <1>14 DEF CloseEnds, CloseTask
<1> QED BY <1>1, <1>2, <1>3, <1>4, <1>5, <1>6, <1>7, <1>8, <1>9, <1>10, <1>11, <1>12, <1>13, <1>14
        DEF Next, LateStep, CloseStep
-----------------------------------------------------------------------------
(* Calls *)

\* The lock keeps calls apart: what a caller creates or terminates is its own.
LEMMA CallKept ==
    ASSUME Inv, Next
    PROVE  CallInv'
<1> USE DEF Inv, TypeOK, CallInv, Spawning, Calling
<1>1. ASSUME NEW c \in Callers, Create(c) PROVE CallInv'
  BY <1>1, FreeAssumption DEF Create, Unused
<1>2. ASSUME NEW c \in Callers, Created(c) PROVE CallInv'
  BY <1>2, JobNames, FreeAssumption, CallersAssumption DEF Created, Leave, JobSteps
<1>3. ASSUME NEW c \in Callers, Interrupted(c) PROVE CallInv'
  BY <1>3, FreeAssumption DEF Interrupted, Leave
<1>4. ASSUME NEW c \in Callers, KillOrRelease(c) PROVE CallInv'
  BY <1>4, JobNames DEF KillOrRelease, JobSteps
<1>5. ASSUME NEW c \in Callers, Terminated(c) PROVE CallInv'
  BY <1>5, JobNames, FreeAssumption DEF Terminated, Leave, JobSteps
<1>6. ASSUME NEW c \in Callers, Close(c) PROVE CallInv'
  BY <1>6 DEF Close
<1>7. ASSUME NEW c \in Callers, CloseReturns(c) PROVE CallInv'
  BY <1>7 DEF CloseReturns, Leave
<1>8. ASSUME NEW x \in Terminals, SpawnEnds(x) \/ Exits(x) PROVE CallInv'
  BY <1>8 DEF SpawnEnds, Exits
<1>9. ASSUME NEW x \in Terminals, Claim(x) PROVE CallInv'
  <2>1. \A c \in Callers : pc[c] \notin {"spawn", "forget"}
    BY <1>9, FreeAssumption DEF Claim
  <2>2. CASE proc[x] = "failed"
    BY <1>9, <2>1, <2>2 DEF Claim
  <2>3. CASE proc[x] # "failed"
    <3>1. \A c \in Callers : job'[c] = job[c]
      BY <1>9, <2>3, JobNames DEF Claim
    <3> QED BY <1>9, <2>1, <2>3, <3>1 DEF Claim
  <2> QED BY <2>2, <2>3
<1>10. ASSUME NEW x \in Terminals, LateEnds(x) PROVE CallInv'
  <2>1. \A c \in Callers : job'[c] = job[c]
    BY <1>10, JobNames DEF LateEnds
  <2> QED BY <1>10, <2>1 DEF LateEnds
<1>11. ASSUME NEW j \in Jobs, Terminate(j) PROVE CallInv'
  <2>1. \A c \in Callers : job'[c] = "none" <=> job[c] = "none"
    BY <1>11, JobNames DEF Terminate, TerminateTakes, TerminateEnds
  <2> QED BY <1>11, <2>1 DEF Terminate, TerminateTakes, TerminateEnds
<1>12. CASE CloseLocks
  <2>1. \A c \in Callers : job'[c] = job[c]
    BY <1>12, JobNames DEF CloseLocks
  <2> QED BY <1>12, <2>1, FreeAssumption DEF CloseLocks
<1>13. CASE CloseGathers
  <2>1. \A c \in Callers : job'[c] = job[c]
    BY <1>13, JobNames DEF CloseGathers
  <2>2. createLock = "close"
    BY <1>13 DEF CloseGathers, CloseInv
  <2> QED BY <1>13, <2>1, <2>2, CallersAssumption DEF CloseGathers
<1>14. CASE CloseEnds
  BY <1>14 DEF CloseEnds
<1> QED BY <1>1, <1>2, <1>3, <1>4, <1>5, <1>6, <1>7, <1>8, <1>9, <1>10, <1>11, <1>12, <1>13, <1>14
        DEF Next, LateStep, CloseStep
-----------------------------------------------------------------------------
(* Jobs *)

\* Every step keeps the jobs and their outcomes true.
LEMMA JobKept ==
    ASSUME Inv, Next
    PROVE  JobInv'
<1> USE JobNames DEF Inv, TypeOK, JobInv, JobSteps
<1>1. ASSUME NEW c \in Callers, Create(c) PROVE JobInv'
  <2>1. PICK x \in Terminals : Unused(x) /\ proc' = [proc EXCEPT ![x] = "starting"] /\ target' = [target EXCEPT ![c] = x]
    BY <1>1 DEF Create
  <2>2. job[c] = "none"
    BY <1>1 DEF Create, CallInv, Calling
  <2>3. ASSUME NEW j \in Jobs, job[j] = "ok" PROVE Of(j) # x /\ Of(j)' = Of(j)
    <3>1. CASE j \in Callers
      BY <2>1, <2>2, <2>3, <3>1 DEF Unused, Of
    <3>2. CASE \E y \in Terminals : j = LateJob(y)
      BY <2>1, <2>3, <3>2 DEF Unused, Of
    <3>3. CASE \E y \in Terminals : j = CloseJob(y)
      BY <1>1, <2>3, <3>3, FreeAssumption DEF Create, CloseInv
    <3> QED BY <3>1, <3>2, <3>3
  <2> QED BY <1>1, <2>1, <2>3 DEF Create
<1>2. ASSUME NEW c \in Callers, Created(c) PROVE JobInv'
  <2>1. job[c] = "none"
    BY <1>2 DEF Created, CallInv, Calling
  <2>2. job'[c] # "ok" /\ \A j \in Jobs \ {c} : job'[j] = job[j]
    BY <1>2, <2>1 DEF Created
  <2>3. \A j \in Jobs \ {c} : Of(j)' = Of(j)
    BY <1>2 DEF Created, Leave, Of
  <2> QED BY <1>2, <2>1, <2>2, <2>3 DEF Created
<1>3. ASSUME NEW c \in Callers, Interrupted(c) PROVE JobInv'
  <2>1. job[c] = "none" /\ \A j \in Jobs \ {c} : Of(j)' = Of(j)
    BY <1>3 DEF Interrupted, Leave, CallInv, Calling, Of
  <2> QED BY <1>3, <2>1 DEF Interrupted, CallInv
<1>4. ASSUME NEW c \in Callers, KillOrRelease(c) PROVE JobInv'
  <2>1. job'[c] # "ok" /\ \A j \in Jobs \ {c} : job'[j] = job[j] /\ Of(j)' = Of(j)
    BY <1>4 DEF KillOrRelease, Of
  <2> QED BY <1>4, <2>1 DEF KillOrRelease
<1>5. ASSUME NEW c \in Callers, Terminated(c) PROVE JobInv'
  <2>1. job'[c] = "none" /\ \A j \in Jobs \ {c} : job'[j] = job[j] /\ Of(j)' = Of(j)
    BY <1>5 DEF Terminated, Leave, Of
  <2>2. closer'.phase = closer.phase
    BY <1>5 DEF Terminated, OwnedEnds, CloseTask
  <2> QED BY <1>5, <2>1, <2>2 DEF Terminated
<1>6. ASSUME NEW c \in Callers, Close(c) PROVE JobInv'
  BY <1>6 DEF Close, Of
<1>7. ASSUME NEW c \in Callers, CloseReturns(c) PROVE JobInv'
  <2>1. job[c] = "none" /\ \A j \in Jobs \ {c} : Of(j)' = Of(j)
    BY <1>7 DEF CloseReturns, Leave, CallInv, Calling, Of
  <2> QED BY <1>7, <2>1 DEF CloseReturns
<1>8. ASSUME NEW x \in Terminals, SpawnEnds(x) \/ Exits(x) PROVE JobInv'
  <2>1. \A y \in Terminals : proc[y] = "dead" => proc'[y] = "dead"
    BY <1>8 DEF SpawnEnds, Exits
  <2>2. \A j \in Jobs : Of(j)' = Of(j)
    BY <1>8 DEF SpawnEnds, Exits, Of
  <2> QED BY <1>8, <2>1, <2>2, JobOf DEF SpawnEnds, Exits
<1>9. ASSUME NEW x \in Terminals, Claim(x) PROVE JobInv'
  <2>1. \A j \in Jobs : Of(j)' = Of(j)
    BY <1>9 DEF Claim, Of
  <2>2. CASE proc[x] = "failed"
    <3>1. closer'.phase = closer.phase
      BY <1>9, <2>2 DEF Claim, OwnedEnds, CloseTask
    <3> QED BY <1>9, <2>1, <2>2, <3>1 DEF Claim
  <2>3. CASE proc[x] # "failed"
    BY <1>9, <2>1, <2>3 DEF Claim
  <2> QED BY <2>2, <2>3
<1>10. ASSUME NEW x \in Terminals, LateEnds(x) PROVE JobInv'
  <2>1. \A j \in Jobs : Of(j)' = Of(j)
    BY <1>10 DEF LateEnds, Of
  <2>2. closer'.phase = closer.phase
    BY <1>10 DEF LateEnds, OwnedEnds, CloseTask
  <2> QED BY <1>10, <2>1, <2>2 DEF LateEnds
<1>11. ASSUME NEW j \in Jobs, Terminate(j) PROVE JobInv'
  <2>1. \A i \in Jobs : Of(i)' = Of(i) /\ (job'[i] = "none" <=> job[i] = "none")
    BY <1>11 DEF Terminate, TerminateTakes, TerminateEnds, Of
  <2>2. \A i \in Jobs : job'[i] = "ok" => proc'[Of(i)] = "dead"
    BY <1>11, JobOf DEF Terminate, TerminateTakes, TerminateEnds
  <2> QED BY <1>11, <2>1, <2>2 DEF Terminate, TerminateTakes, TerminateEnds
<1>12. CASE CloseLocks
  <2>1. \A j \in Jobs : Of(j)' = Of(j)
    BY <1>12 DEF CloseLocks, Of
  <2>2. closer'.phase = "gather"
    BY <1>12 DEF CloseLocks, CloseTask
  <2> QED BY <1>12, <2>1, <2>2 DEF CloseLocks
<1>13. CASE CloseGathers
  <2>1. \A j \in Jobs : Of(j)' = Of(j)
    BY <1>13 DEF CloseGathers, Of
  <2> QED BY <1>13, <2>1 DEF CloseGathers
<1>14. CASE CloseEnds
  <2>1. \A j \in Jobs : Of(j)' = Of(j)
    BY <1>14 DEF CloseEnds, Of
  <2> QED BY <1>14, <2>1 DEF CloseEnds
<1> QED BY <1>1, <1>2, <1>3, <1>4, <1>5, <1>6, <1>7, <1>8, <1>9, <1>10, <1>11, <1>12, <1>13, <1>14
        DEF Next, LateStep, CloseStep
-----------------------------------------------------------------------------
(* Processes *)

\* A step leaves every process that runs with a record or a task of its own: a
\* record goes when the process has exited.
LEMMA OwnedKept ==
    ASSUME Inv, Next
    PROVE  EveryProcessOwned'
<1> USE DEF Inv, TypeOK, EveryProcessOwned, Live
<1>1. ASSUME NEW c \in Callers, Create(c) PROVE EveryProcessOwned'
  BY <1>1 DEF Create
<1>2. ASSUME NEW c \in Callers, Created(c) PROVE EveryProcessOwned'
  BY <1>2 DEF Created, Leave
<1>3. ASSUME NEW c \in Callers, Interrupted(c) PROVE EveryProcessOwned'
  BY <1>3 DEF Interrupted, Leave
<1>4. ASSUME NEW c \in Callers, KillOrRelease(c) PROVE EveryProcessOwned'
  BY <1>4 DEF KillOrRelease
<1>5. ASSUME NEW c \in Callers, Terminated(c) PROVE EveryProcessOwned'
  <2>1. job[c] = "ok" => proc[target[c]] = "dead"
    BY JobNames DEF JobInv
  <2> QED BY <1>5, <2>1 DEF Terminated, Leave
<1>6. ASSUME NEW c \in Callers, Close(c) PROVE EveryProcessOwned'
  BY <1>6 DEF Close
<1>7. ASSUME NEW c \in Callers, CloseReturns(c) PROVE EveryProcessOwned'
  BY <1>7 DEF CloseReturns, Leave
<1>8. ASSUME NEW x \in Terminals, SpawnEnds(x) \/ Exits(x) PROVE EveryProcessOwned'
  BY <1>8 DEF SpawnEnds, Exits
<1>9. ASSUME NEW x \in Terminals, Claim(x) PROVE EveryProcessOwned'
  <2>1. CASE proc[x] = "failed"
    BY <1>9, <2>1 DEF Claim
  <2>2. CASE proc[x] # "failed"
    BY <1>9, <2>2 DEF Claim
  <2> QED BY <2>1, <2>2
<1>10. ASSUME NEW x \in Terminals, LateEnds(x) PROVE EveryProcessOwned'
  <2>1. late[x] = "claimed" /\ (job[LateJob(x)] = "ok" => proc[x] = "dead")
    BY <1>10, JobNames DEF LateEnds, JobInv
  <2> QED BY <1>10, <2>1 DEF LateEnds
<1>11. ASSUME NEW j \in Jobs, Terminate(j) PROVE EveryProcessOwned'
  BY <1>11 DEF Terminate, TerminateTakes, TerminateEnds
<1>12. CASE CloseLocks
  BY <1>12 DEF CloseLocks
<1>13. CASE CloseGathers
  <2>1. \A x \in Terminals : job[CloseJob(x)] = "ok" => proc[x] = "dead"
    BY JobNames DEF JobInv
  <2> QED BY <1>13, <2>1 DEF CloseGathers
<1>14. CASE CloseEnds
  BY <1>14 DEF CloseEnds
<1> QED BY <1>1, <1>2, <1>3, <1>4, <1>5, <1>6, <1>7, <1>8, <1>9, <1>10, <1>11, <1>12, <1>13, <1>14
        DEF Next, LateStep, CloseStep
-----------------------------------------------------------------------------
(* close() *)

\* What a close task has cleaned up, and what it still waits for, is all there is.
LEMMA CloseKept ==
    ASSUME Inv, Next
    PROVE  CloseInv'
<1> USE DEF Inv, TypeOK, CloseInv, Creating, Spawning
<1>1. ASSUME NEW c \in Callers, Create(c) PROVE CloseInv'
  BY <1>1 DEF Create, CloseTask
<1>2. ASSUME NEW c \in Callers, Created(c) PROVE CloseInv'
  <2>1. closer.phase \notin {"gather", "owned", "done"}
    BY <1>2 DEF Created, CallInv
  <2> QED BY <1>2, <2>1 DEF Created
<1>3. ASSUME NEW c \in Callers, Interrupted(c) PROVE CloseInv'
  <2>1. closer.phase \notin {"gather", "owned", "done"}
    BY <1>3 DEF Interrupted, CallInv
  <2> QED BY <1>3, <2>1 DEF Interrupted
<1>4. ASSUME NEW c \in Callers, KillOrRelease(c) PROVE CloseInv'
  <2>1. \A x \in Terminals : job'[CloseJob(x)] = job[CloseJob(x)]
    BY <1>4, JobNames DEF KillOrRelease
  <2>2. Creating' \subseteq Creating
    BY <1>4 DEF KillOrRelease
  <2> QED BY <1>4, <2>1, <2>2 DEF KillOrRelease
<1>5. ASSUME NEW c \in Callers, Terminated(c) PROVE CloseInv'
  <2>1. \A x \in Terminals : job'[CloseJob(x)] = job[CloseJob(x)]
    BY <1>5, JobNames DEF Terminated
  <2>2. Creating' \subseteq Creating
    BY <1>5 DEF Terminated, Leave
  <2>3. /\ closer'.phase = closer.phase /\ closer'.awaits \subseteq closer.awaits
        /\ closer.failed => closer'.failed
        /\ \A x \in Terminals : LateJob(x) \in closer.awaits => LateJob(x) \in closer'.awaits
    BY <1>5, JobNames DEF Terminated, OwnedEnds, CloseTask
  <2>4. records' \subseteq records /\ (createLock = "close" => createLock' = "close")
    BY <1>5, CallersAssumption DEF Terminated, CallInv
  <2> QED BY <1>5, <2>1, <2>2, <2>3, <2>4 DEF Terminated
<1>6. ASSUME NEW c \in Callers, Close(c) PROVE CloseInv'
  <2>1. Creating' \subseteq Creating
    BY <1>6 DEF Close
  <2>2. CASE closer' = closer
    BY <1>6, <2>1, <2>2 DEF Close
  <2>3. CASE closer' = [phase |-> "lock", awaits |-> {}, failed |-> FALSE]
    BY <1>6, <2>3 DEF Close
  <2> QED BY <1>6, <2>2, <2>3 DEF Close
<1>7. ASSUME NEW c \in Callers, CloseReturns(c) PROVE CloseInv'
  <2>1. Creating' \subseteq Creating
    BY <1>7 DEF CloseReturns, Leave
  <2> QED BY <1>7, <2>1 DEF CloseReturns
<1>8. ASSUME NEW x \in Terminals, SpawnEnds(x) \/ Exits(x) PROVE CloseInv'
  BY <1>8 DEF SpawnEnds, Exits
<1>9. ASSUME NEW x \in Terminals, Claim(x) PROVE CloseInv'
  <2>1. closer.phase # "gather" /\ Creating' = Creating
    BY <1>9, FreeAssumption DEF Claim
  <2>2. CASE proc[x] = "failed"
    <3>1. OwnedEnds(LateJob(x), FALSE)
      BY <1>9, <2>2 DEF Claim
    <3>2. /\ closer'.phase = closer.phase /\ closer'.awaits \subseteq closer.awaits
          /\ closer.failed => closer'.failed
      BY <3>1 DEF OwnedEnds, CloseTask
    <3>3. \A y \in Terminals \ {x} : LateJob(y) \in closer.awaits => LateJob(y) \in closer'.awaits
      BY <3>1, JobNames DEF OwnedEnds, CloseTask
    <3>4. records' \cup Spawning' \subseteq (records \cup Spawning) \ {x}
      BY <1>9, <2>2 DEF Claim, CallInv
    <3> QED BY <1>9, <2>1, <2>2, <3>2, <3>3, <3>4 DEF Claim
  <2>3. CASE proc[x] # "failed"
    <3>1. records' \cup Spawning' \subseteq records \cup Spawning
      BY <1>9, <2>3 DEF Claim
    <3> QED BY <1>9, <2>1, <2>3, <3>1 DEF Claim
  <2> QED BY <2>2, <2>3
<1>10. ASSUME NEW x \in Terminals, LateEnds(x) PROVE CloseInv'
  <2>1. \A y \in Terminals : job'[CloseJob(y)] = job[CloseJob(y)]
    BY <1>10, JobNames DEF LateEnds
  <2>2. Creating' = Creating /\ Spawning' \subseteq Spawning /\ x \notin Spawning /\ records' \subseteq records
    BY <1>10, JobNames DEF LateEnds, JobInv
  <2>3. /\ closer'.phase = closer.phase /\ closer'.awaits \subseteq closer.awaits
        /\ closer.failed => closer'.failed
        /\ \A y \in Terminals \ {x} : LateJob(y) \in closer.awaits => LateJob(y) \in closer'.awaits
    BY <1>10, JobNames DEF LateEnds, OwnedEnds, CloseTask
  <2>4. x \in records' /\ LateJob(x) \in closer.awaits => closer'.failed
    BY <1>10 DEF LateEnds, OwnedEnds, CloseTask
  <2> QED BY <1>10, <2>1, <2>2, <2>3, <2>4 DEF LateEnds
<1>11. ASSUME NEW j \in Jobs, Terminate(j) PROVE CloseInv'
  <2>1. \A i \in Jobs : job'[i] = "none" <=> job[i] = "none"
    BY <1>11 DEF Terminate, TerminateTakes, TerminateEnds
  <2> QED BY <1>11, <2>1, JobNames DEF Terminate, TerminateTakes, TerminateEnds
<1>12. CASE CloseLocks
  <2>1. Creating' = {}
    BY <1>12, FreeAssumption DEF CloseLocks, CallInv
  <2>2. closer'.phase = "gather" /\ closed' = closed /\ closed
    BY <1>12 DEF CloseLocks, CloseTask
  <2>3. \A x \in records : job'[CloseJob(x)] = "wait"
    BY <1>12, JobNames DEF CloseLocks
  <2> QED BY <1>12, <2>1, <2>2, <2>3 DEF CloseLocks
<1>13. CASE CloseGathers
  <2>1. Creating' = Creating /\ Creating = {} /\ closed' /\ closer'.phase = "owned"
    BY <1>13 DEF CloseGathers
  <2>2. ~closer'.failed => records' = {}
    BY <1>13, JobNames DEF CloseGathers, JobSteps
  <2>3. \A x \in Spawning' : LateJob(x) \in closer'.awaits
    BY <1>13 DEF CloseGathers, OwnedTasks
  <2> QED BY <1>13, <2>1, <2>2, <2>3
<1>14. CASE CloseEnds
  <2>1. Creating' = Creating
    BY <1>14 DEF CloseEnds
  <2> QED BY <1>14, <2>1 DEF CloseEnds, CloseTask
<1> QED BY <1>1, <1>2, <1>3, <1>4, <1>5, <1>6, <1>7, <1>8, <1>9, <1>10, <1>11, <1>12, <1>13, <1>14
        DEF Next, LateStep, CloseStep
-----------------------------------------------------------------------------
(* The limit *)

\* reserved counts the terminals whose late process nobody has claimed.
SpawningStep ==
    \/ Spawning' = Spawning /\ reserved' = reserved
    \/ \E x \in Terminals \ Spawning : Spawning' = Spawning \cup {x} /\ reserved' = reserved + 1
    \/ \E x \in Spawning : Spawning' = Spawning \ {x} /\ reserved' = reserved - 1

\* Only an interrupted create() and the claim of its process move reserved.
LEMMA ReservedFollows ==
    ASSUME Inv, Next
    PROVE  SpawningStep
<1> USE DEF Inv, TypeOK, SpawningStep, Spawning
<1>1. ASSUME NEW c \in Callers, Create(c) PROVE SpawningStep
  BY <1>1 DEF Create
<1>2. ASSUME NEW c \in Callers, Created(c) PROVE SpawningStep
  BY <1>2 DEF Created
<1>3. ASSUME NEW c \in Callers, Interrupted(c) PROVE SpawningStep
  <2>1. target[c] \in Terminals \ Spawning /\ Spawning' = Spawning \cup {target[c]}
    BY <1>3 DEF Interrupted, CallInv
  <2> QED BY <1>3, <2>1 DEF Interrupted
<1>4. ASSUME NEW c \in Callers, KillOrRelease(c) PROVE SpawningStep
  BY <1>4 DEF KillOrRelease
<1>5. ASSUME NEW c \in Callers, Terminated(c) PROVE SpawningStep
  BY <1>5 DEF Terminated
<1>6. ASSUME NEW c \in Callers, Close(c) PROVE SpawningStep
  BY <1>6 DEF Close
<1>7. ASSUME NEW c \in Callers, CloseReturns(c) PROVE SpawningStep
  BY <1>7 DEF CloseReturns
<1>8. ASSUME NEW x \in Terminals, SpawnEnds(x) \/ Exits(x) PROVE SpawningStep
  BY <1>8 DEF SpawnEnds, Exits
<1>9. ASSUME NEW x \in Terminals, Claim(x) PROVE SpawningStep
  <2>1. x \in Spawning /\ Spawning' = Spawning \ {x}
    BY <1>9 DEF Claim
  <2> QED BY <1>9, <2>1 DEF Claim
<1>10. ASSUME NEW x \in Terminals, LateEnds(x) PROVE SpawningStep
  <2>1. late[x] = "claimed"
    BY <1>10, JobNames DEF LateEnds, JobInv
  <2> QED BY <1>10, <2>1 DEF LateEnds
<1>11. ASSUME NEW j \in Jobs, Terminate(j) PROVE SpawningStep
  BY <1>11 DEF Terminate, TerminateTakes, TerminateEnds
<1>12. CASE CloseLocks
  BY <1>12 DEF CloseLocks
<1>13. CASE CloseGathers
  BY <1>13 DEF CloseGathers
<1>14. CASE CloseEnds
  BY <1>14 DEF CloseEnds
<1> QED BY <1>1, <1>2, <1>3, <1>4, <1>5, <1>6, <1>7, <1>8, <1>9, <1>10, <1>11, <1>12, <1>13, <1>14
        DEF Next, LateStep, CloseStep

\* Only create() takes a place: every other step moves a terminal from one way
\* of holding its place to another, or gives it back.
LEMMA PlacesMove ==
    ASSUME Inv, Next
    PROVE  Places' \subseteq Places \/ \E c \in Callers : Create(c)
<1> DEFINE Goal == Places' \subseteq Places \/ \E c \in Callers : Create(c)
<1> USE DEF Inv, TypeOK, Places, Spawning, Creating
<1>1. ASSUME NEW c \in Callers, Create(c) PROVE Goal
  BY <1>1
<1>2. ASSUME NEW c \in Callers, Created(c) PROVE Goal
  <2>1. records' = records \cup {target[c]} /\ Spawning' = Spawning /\ target[c] \in Creating
    BY <1>2 DEF Created, CallInv
  <2>2. Creating' \subseteq Creating
    BY <1>2 DEF Created, Leave
  <2> QED BY <2>1, <2>2
<1>3. ASSUME NEW c \in Callers, Interrupted(c) PROVE Goal
  BY <1>3 DEF Interrupted, Leave
<1>4. ASSUME NEW c \in Callers, KillOrRelease(c) PROVE Goal
  BY <1>4 DEF KillOrRelease
<1>5. ASSUME NEW c \in Callers, Terminated(c) PROVE Goal
  BY <1>5 DEF Terminated, Leave
<1>6. ASSUME NEW c \in Callers, Close(c) PROVE Goal
  BY <1>6 DEF Close
<1>7. ASSUME NEW c \in Callers, CloseReturns(c) PROVE Goal
  BY <1>7 DEF CloseReturns, Leave
<1>8. ASSUME NEW x \in Terminals, SpawnEnds(x) \/ Exits(x) PROVE Goal
  BY <1>8 DEF SpawnEnds, Exits
<1>9. ASSUME NEW x \in Terminals, Claim(x) PROVE Goal
  <2>1. CASE proc[x] = "failed"
    BY <1>9, <2>1 DEF Claim
  <2>2. CASE proc[x] # "failed"
    BY <1>9, <2>2 DEF Claim
  <2> QED BY <2>1, <2>2
<1>10. ASSUME NEW x \in Terminals, LateEnds(x) PROVE Goal
  BY <1>10 DEF LateEnds
<1>11. ASSUME NEW j \in Jobs, Terminate(j) PROVE Goal
  BY <1>11 DEF Terminate, TerminateTakes, TerminateEnds
<1>12. CASE CloseLocks
  BY <1>12 DEF CloseLocks
<1>13. CASE CloseGathers
  BY <1>13 DEF CloseGathers
<1>14. CASE CloseEnds
  BY <1>14 DEF CloseEnds
<1> QED BY <1>1, <1>2, <1>3, <1>4, <1>5, <1>6, <1>7, <1>8, <1>9, <1>10, <1>11, <1>12, <1>13, <1>14
        DEF Next, LateStep, CloseStep

\* create() has the lock, so no other create() holds a place: the terminals it
\* counts against the limit are all there are.
LEMMA PlaceTaken ==
    ASSUME Inv, NEW c \in Callers, Create(c)
    PROVE  IsFiniteSet(Places') /\ Cardinality(Places') <= Limit
<1> USE DEF Inv, TypeOK, PlaceInv
<1>1. PICK x \in Terminals : target' = [target EXCEPT ![c] = x]
  BY DEF Create
<1>2. Creating = {} /\ Creating' = {x}
  <2>1. \A b \in Callers : pc[b] # "spawn"
    BY FreeAssumption DEF Create, CallInv
  <2> QED BY <1>1, <2>1 DEF Create, Creating
<1>3. Places' = (records \cup Spawning) \cup {x}
  BY <1>2 DEF Create, Places, Spawning
<1>4. IsFiniteSet(records \cup Spawning)
      /\ Cardinality(records \cup Spawning) = Cardinality(records) + Cardinality(Spawning)
  <2>1. records \cap Spawning = {}
    BY DEF CallInv
  <2>2. Cardinality(records) \in Nat /\ Cardinality(Spawning) \in Nat
    BY FS_CardinalityType
  <2>3. /\ IsFiniteSet(records \cup Spawning)
        /\ Cardinality(records \cup Spawning)
             = Cardinality(records) + Cardinality(Spawning) - Cardinality(records \cap Spawning)
    BY FS_Union
  <2>4. Cardinality(records \cap Spawning) = 0
    BY <2>1, FS_EmptySet
  <2> QED BY <2>2, <2>3, <2>4
<1>5. Cardinality(records \cup Spawning) < Limit
  <2>1. Cardinality(records) \in Nat /\ Cardinality(Spawning) \in Nat
    BY FS_CardinalityType
  <2> QED BY <1>4, <2>1, LimitAssumption DEF Create, Full
<1>6. Cardinality(records \cup Spawning) \in Nat
  BY <1>4, FS_CardinalityType
<1>7. /\ IsFiniteSet(Places')
      /\ Cardinality(Places') = Cardinality(records \cup Spawning)
         \/ Cardinality(Places') = Cardinality(records \cup Spawning) + 1
  BY <1>3, <1>4, FS_AddElement
<1> QED BY <1>5, <1>6, <1>7, LimitAssumption

\* The places are counted exactly, and there are never more than the limit.
LEMMA PlaceKept ==
    ASSUME Inv, Next
    PROVE  reserved' = Cardinality(Spawning') /\ PlaceInv'
<1> USE DEF Inv, TypeOK, PlaceInv
<1>1. reserved' = Cardinality(Spawning') /\ IsFiniteSet(Spawning')
  <2>1. SpawningStep
    BY ReservedFollows
  <2>2. Cardinality(Spawning) \in Nat
    BY FS_CardinalityType
  <2>3. CASE Spawning' = Spawning /\ reserved' = reserved
    BY <2>3
  <2>4. ASSUME NEW x \in Terminals \ Spawning, Spawning' = Spawning \cup {x}, reserved' = reserved + 1
        PROVE  reserved' = Cardinality(Spawning') /\ IsFiniteSet(Spawning')
    BY <2>2, <2>4, FS_AddElement
  <2>5. ASSUME NEW x \in Spawning, Spawning' = Spawning \ {x}, reserved' = reserved - 1
        PROVE  reserved' = Cardinality(Spawning') /\ IsFiniteSet(Spawning')
    BY <2>2, <2>5, FS_RemoveElement
  <2> QED BY <2>1, <2>3, <2>4, <2>5 DEF SpawningStep
<1>2. IsFiniteSet(Places') /\ Cardinality(Places') <= Limit
  <2>1. CASE Places' \subseteq Places
    <3>1. IsFiniteSet(Places') /\ Cardinality(Places') <= Cardinality(Places)
      BY <2>1, FS_Subset
    <3>2. Cardinality(Places) \in Nat /\ Cardinality(Places') \in Nat
      BY <3>1, FS_CardinalityType
    <3> QED BY <3>1, <3>2, LimitAssumption
  <2> QED BY <2>1, PlacesMove, PlaceTaken
<1>3. IsFiniteSet(records')
  <2>1. records' \subseteq Places'
    BY DEF Places
  <2> QED BY <1>2, <2>1, FS_Subset
<1> QED BY <1>1, <1>2, <1>3

-----------------------------------------------------------------------------
(* What is shown *)

\* The invariant is kept by every step.
LEMMA InvStep == Inv /\ [Next]_vars => Inv'
<1> SUFFICES ASSUME Inv, [Next]_vars PROVE Inv'
  OBVIOUS
<1>1. CASE Next
  <2>1. TypeOK'
    BY <1>1, TypesKept, PlaceKept DEF Types, TypeOK
  <2> QED BY <1>1, <2>1, CallKept, JobKept, OwnedKept, CloseKept, PlaceKept DEF Inv
<1>2. CASE UNCHANGED vars
  BY <1>2 DEF vars, Inv, TypeOK, CallInv, JobInv, EveryProcessOwned, Live, CloseInv, PlaceInv,
              Places, Creating, Spawning, Of
<1> QED BY <1>1, <1>2

\* The invariant holds always.
LEMMA Invariance == Spec => []Inv
BY InvInit, InvStep, PTL DEF Spec

\* Every variable has its type, and reserved is the number of the late processes
\* that nobody has claimed yet.
THEOREM TerminalTypes == Spec => []TypeOK
<1>1. Inv => TypeOK
  BY DEF Inv
<1> QED BY <1>1, Invariance, PTL

\* No process is forgotten, whenever create() is cancelled and whatever
\* terminates it: it has a record or a task that claims it.
THEOREM NoProcessForgotten == Spec => []EveryProcessOwned
<1>1. Inv => EveryProcessOwned
  BY DEF Inv
<1> QED BY <1>1, Invariance, PTL

\* MAX_TERMINALS bounds the processes, not only the records that create() counts.
THEOREM LimitHolds == Spec => []ProcessLimit
<1>1. ASSUME Inv PROVE ProcessLimit
  <2> DEFINE Running == {x \in Terminals : Live(x)}
  <2>1. Running \subseteq Places
    BY <1>1 DEF Inv, EveryProcessOwned, Places, Spawning, Creating
  <2>2. IsFiniteSet(Running) /\ Cardinality(Running) <= Cardinality(Places)
    BY <1>1, <2>1, FS_Subset DEF Inv, PlaceInv
  <2>3. Cardinality(Running) \in Nat /\ Cardinality(Places) \in Nat
    BY <1>1, <2>2, FS_CardinalityType DEF Inv, PlaceInv
  <2> QED BY <1>1, <2>2, <2>3, LimitAssumption DEF Inv, PlaceInv, ProcessLimit
<1> QED BY <1>1, Invariance, PTL

\* A close() that succeeds leaves no process, record or reservation behind,
\* whatever was being created or terminated when it was called.
THEOREM CloseLeavesNothing == Spec => []CloseComplete
<1>1. ASSUME Inv, closer.phase = "done", ~closer.failed
      PROVE  records = {} /\ reserved = 0 /\ \A x \in Terminals : ~Live(x)
  <2>1. records = {} /\ Spawning = {} /\ Creating = {}
    BY <1>1 DEF Inv, CloseInv
  <2>2. reserved = 0
    BY <1>1, <2>1, FS_EmptySet DEF Inv, TypeOK
  <2>3. \A x \in Terminals : ~Live(x)
    BY <1>1, <2>1 DEF Inv, EveryProcessOwned, Spawning, Creating
  <2> QED BY <2>1, <2>2, <2>3
<1>2. Inv => CloseComplete
  BY <1>1 DEF CloseComplete
<1> QED BY <1>2, Invariance, PTL
=============================================================================
