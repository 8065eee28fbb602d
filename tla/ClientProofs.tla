---------------------------- MODULE ClientProofs ----------------------------
(***************************************************************************)
(* Each kind of client keeps the contract of ProcessOwner, for any number  *)
(* of callers, processes and frames, whatever fails, is interrupted or is  *)
(* late.  The contract is shown of one step at a time: an invariant of the *)
(* client says what it holds and who is at work, and under it every step   *)
(* of the client is one of the contract's.  The frames and the counter of  *)
(* the OpenCode client, and the clean-ups of lost transports, follow from  *)
(* the same invariants.                                                    *)
(*                                                                         *)
(* As in MCClients, a name without a prefix is the OpenCode client's.      *)
(***************************************************************************)
EXTENDS MCClients, TLAPS, SequenceTheorems

-----------------------------------------------------------------------------
(* The contract *)

\* What every kind of client shows of itself, before a step and after it.
Safe ==
    /\ Running \subseteq Holds /\ Holds \subseteq Procs \cup {"terminals"}
    /\ \A p \in Running : Running = {p}

\* The steps that the contract allows.
Keeps == Running' \in {Running, {}} /\ Closing' = Closing
Launches == Running = {} /\ (\E p \in Procs : Running' = {p}) /\ Closing' = Closing
Begun == Closing # "in" /\ Closing' = "in" /\ Running' = Running
Emptied == Closing = "in" /\ Closing' = "ok" /\ Holds' = {}
Left == Closing = "in" /\ Closing' = "bad" /\ Running' \in {Running, {}}
Moves == Keeps \/ Launches \/ Begun \/ Emptied \/ Left

\* A move after which the client still holds what runs is a step of the
\* contract.
LEMMA MovesAllowed == ASSUME Safe', Moves PROVE Contract!Next
<1>1. Running' \subseteq Holds' /\ Holds' \subseteq Procs \cup {"terminals"}
  BY DEF Safe
<1> USE <1>1 DEF Contract!Next, Contract!Held
<1>2. CASE Keeps
  BY <1>2 DEF Keeps, Contract!Ends
<1>3. CASE Launches
  BY <1>3 DEF Launches, Contract!Starts
<1>4. CASE Begun
  BY <1>4 DEF Begun, Contract!Disconnect
<1>5. CASE Emptied
  BY <1>5 DEF Emptied, Contract!Disconnected
<1>6. CASE Left
  BY <1>6 DEF Left, Contract!Remains
<1> QED BY <1>2, <1>3, <1>4, <1>5, <1>6 DEF Moves

-----------------------------------------------------------------------------
(* The Cursor CLI client: its invariant *)

Holding == {"spawn", "reap"}

\* Whoever starts or reaps a process holds _lifecycle_lock: a query, the task
\* of disconnect(), or the claim of a late process.  A process that is not the
\* client's is a spawn that some query waits for, or that was left to its claim.
CursorLocksInv ==
    /\ claim = "in" => lifecycleLock = "claim"
    /\ disconnecting = "in" => lifecycleLock = "disconnect"
    /\ \A c \in Callers : pc[c] \in Holding => lifecycleLock = c
CursorSpawnInv ==
    /\ claim # "none" => spawn # None
    /\ disconnecting = "in" => spawn = None
    /\ \A c \in Callers : pc[c] = "spawn" => spawn # None /\ claim = "none"
    /\ spawn # None /\ claim = "none" => \E c \in Callers : pc[c] = "spawn"
CursorProcessInv ==
    /\ Cursor!Running \subseteq {process, spawn}
    /\ spawn # None => process = None \/ (claim = "in" /\ process = spawn)
    /\ claim = "in" => process = spawn
CursorInv == Cursor!TypeOK /\ CursorLocksInv /\ CursorSpawnInv /\ CursorProcessInv

\* It holds in a client that was just made.
LEMMA CursorStarts == Cursor!Init => CursorInv
BY NoneAssumption DEF Cursor!Init, CursorInv, Cursor!TypeOK, CursorLocksInv, CursorSpawnInv, CursorProcessInv,
   Cursor!Running, Holding

\* A caller that starts or ends a call, or waits, moves no process and no lock
\* that the invariant speaks of.
LEMMA CursorCallKeeps ==
    ASSUME CursorInv, NEW c \in Callers,
           \/ Cursor!Query(c) \/ Cursor!Connect(c) \/ Cursor!Disconnect(c) \/ Cursor!GivesUp(c)
           \/ Cursor!QueryTakes(c) \/ Cursor!PromptWritten(c)
           \/ Cursor!Finishes(c) \/ Cursor!Connects(c) \/ Cursor!DisconnectReturns(c)
    PROVE  CursorInv'
<1> USE DEF CursorInv, Cursor!TypeOK, Cursor!Go, Cursor!Ends, Cursor!procVars
<1>1. Cursor!TypeOK'
  <2>1. CASE Cursor!Query(c) \/ Cursor!Connect(c) \/ Cursor!PromptWritten(c) \/ Cursor!Finishes(c) \/ Cursor!DisconnectReturns(c)
    <3>1. \E step \in {"out", "query", "connect", "run", "finish"} : pc' = [pc EXCEPT ![c] = step]
      BY <2>1 DEF Cursor!Query, Cursor!Connect, Cursor!PromptWritten, Cursor!Finishes, Cursor!DisconnectReturns
    <3>2. UNCHANGED <<proc, process, spawn, claim, connected, queryLock, lifecycleLock, disconnecting>>
      BY <2>1 DEF Cursor!Query, Cursor!Connect, Cursor!PromptWritten, Cursor!Finishes, Cursor!DisconnectReturns
    <3> QED BY <3>1, <3>2
  <2>2. CASE Cursor!Disconnect(c)
    BY <2>2 DEF Cursor!Disconnect
  <2>3. CASE Cursor!GivesUp(c)
    BY <2>3 DEF Cursor!GivesUp
  <2>4. CASE Cursor!QueryTakes(c)
    BY <2>4 DEF Cursor!QueryTakes
  <2>5. CASE Cursor!Connects(c)
    <3>1. connected' \in BOOLEAN
      BY <2>5, Zenon DEF Cursor!Connects
    <3> QED BY <2>5, <3>1 DEF Cursor!Connects
  <2> QED BY <2>1, <2>2, <2>3, <2>4, <2>5
<1>2. /\ UNCHANGED <<proc, process, spawn, claim, lifecycleLock>>
      /\ disconnecting' = "in" <=> disconnecting = "in"
  BY DEF Cursor!Query, Cursor!Connect, Cursor!Disconnect, Cursor!GivesUp, Cursor!QueryTakes,
     Cursor!PromptWritten, Cursor!Finishes, Cursor!Connects, Cursor!DisconnectReturns
<1>3. \A d \in Callers : /\ pc'[d] = "spawn" <=> pc[d] = "spawn"
                         /\ pc'[d] = "reap" <=> pc[d] = "reap"
  BY DEF Cursor!Query, Cursor!Connect, Cursor!Disconnect, Cursor!GivesUp, Cursor!QueryTakes,
     Cursor!PromptWritten, Cursor!Finishes, Cursor!Connects, Cursor!DisconnectReturns
<1>4. CursorLocksInv' /\ CursorSpawnInv' /\ CursorProcessInv'
  BY <1>2, <1>3 DEF CursorLocksInv, CursorSpawnInv, CursorProcessInv, Cursor!Running, Holding
<1> QED BY <1>1, <1>4

\* So does a query that starts a process, waits for it or leaves it.
LEMMA CursorStartKeeps ==
    ASSUME CursorInv, NEW c \in Callers, Cursor!Starts(c) \/ Cursor!Spawned(c) \/ Cursor!StartLeft(c)
    PROVE  CursorInv'
<1> USE NoneAssumption, NamesAssumption
        DEF CursorInv, Cursor!TypeOK, Cursor!Go, Cursor!Ends, CursorLocksInv, CursorSpawnInv, CursorProcessInv,
            Cursor!Running, Holding
<1>1. CASE Cursor!Starts(c)
  <2>1. CASE Cursor!Ends(c) /\ UNCHANGED <<proc, spawn, lifecycleLock>>
    BY <1>1, <2>1 DEF Cursor!Starts
  <2>2. ASSUME NEW p \in Procs, ~Cursor!Refused, Cursor!Unused(p), proc' = [proc EXCEPT ![p] = "starting"], spawn' = p,
               lifecycleLock = None, lifecycleLock' = c, Cursor!Go(c, "spawn"), UNCHANGED queryLock
        PROVE  CursorInv'
    <3>1. spawn = None /\ claim = "none" /\ process = None
      BY <2>2 DEF Cursor!Refused, Cursor!Pending
    <3>2. Cursor!TypeOK' /\ CursorLocksInv' /\ CursorSpawnInv'
      BY <1>1, <2>2, <3>1 DEF Cursor!Starts
    <3>3. CursorProcessInv'
      BY <1>1, <2>2, <3>1 DEF Cursor!Starts
    <3> QED BY <3>2, <3>3
  <2> QED BY <1>1, <2>1, <2>2 DEF Cursor!Starts
<1>2. CASE Cursor!Spawned(c)
  BY <1>2 DEF Cursor!Spawned
<1>3. CASE Cursor!StartLeft(c)
  BY <1>3 DEF Cursor!StartLeft
<1> QED BY <1>1, <1>2, <1>3

\* So does a query that ends its process.
LEMMA CursorFinishKeeps ==
    ASSUME CursorInv, NEW c \in Callers, Cursor!FinishTakes(c) \/ Cursor!FinishEnds(c)
    PROVE  CursorInv'
<1> USE NoneAssumption, NamesAssumption
        DEF CursorInv, Cursor!TypeOK, Cursor!Go, Cursor!Ends, CursorLocksInv, CursorSpawnInv, CursorProcessInv,
            Cursor!Running, Holding, Cursor!procVars
<1>1. CASE Cursor!FinishTakes(c)
  BY <1>1 DEF Cursor!FinishTakes
<1>2. CASE Cursor!FinishEnds(c)
  BY <1>2 DEF Cursor!FinishEnds, Cursor!Gone, Cursor!Survives
<1> QED BY <1>1, <1>2

\* So does the claim of a process that starts late.
LEMMA CursorClaimKeeps ==
    ASSUME CursorInv, Cursor!ClaimSees \/ Cursor!ClaimTakes \/ Cursor!ClaimEnds
    PROVE  CursorInv'
<1> USE NoneAssumption, NamesAssumption DEF CursorInv, Cursor!TypeOK, CursorLocksInv, CursorSpawnInv,
        CursorProcessInv, Cursor!Running, Holding
<1>1. CASE Cursor!ClaimSees
  BY <1>1 DEF Cursor!ClaimSees
<1>2. CASE Cursor!ClaimTakes
  BY <1>2 DEF Cursor!ClaimTakes
<1>3. CASE Cursor!ClaimEnds
  BY <1>3 DEF Cursor!ClaimEnds, Cursor!Gone, Cursor!Survives
<1> QED BY <1>1, <1>2, <1>3

\* So does disconnect(): without a claim, nobody waits for a spawn while the
\* lock is free.
LEMMA CursorDisconnectKeeps ==
    ASSUME CursorInv, Cursor!DisconnectTakes \/ Cursor!DisconnectEnds
    PROVE  CursorInv'
<1> USE NoneAssumption, NamesAssumption
        DEF CursorInv, Cursor!TypeOK, CursorLocksInv, CursorSpawnInv, CursorProcessInv, Cursor!Running, Holding,
            Cursor!procVars
<1>1. CASE Cursor!DisconnectTakes
  BY <1>1 DEF Cursor!DisconnectTakes, Cursor!ClaimAwaited
<1>2. CASE Cursor!DisconnectEnds
  BY <1>2 DEF Cursor!DisconnectEnds, Cursor!Gone, Cursor!Survives
<1> QED BY <1>1, <1>2

\* So does the agent.
LEMMA CursorAgentKeeps ==
    ASSUME CursorInv, NEW p \in Procs, Cursor!SpawnStep(p) \/ Cursor!ProcExits(p)
    PROVE  CursorInv'
BY DEF CursorInv, Cursor!TypeOK, CursorLocksInv, CursorSpawnInv, CursorProcessInv, Cursor!Running, Holding,
   Cursor!SpawnStep, Cursor!ProcStarts, Cursor!ProcFails, Cursor!ProcExits

\* Every step keeps the invariant.
LEMMA CursorKeeps == CursorInv /\ [Cursor!Next]_(Cursor!vars) => CursorInv'
<1>1. ASSUME CursorInv, Cursor!Next PROVE CursorInv'
  BY <1>1, CursorCallKeeps, CursorStartKeeps, CursorFinishKeeps, CursorClaimKeeps, CursorDisconnectKeeps,
     CursorAgentKeeps
     DEF Cursor!Next, Cursor!CallStep, Cursor!QueryStep
<1>2. ASSUME CursorInv, UNCHANGED Cursor!vars PROVE CursorInv'
  BY <1>2 DEF CursorInv, Cursor!TypeOK, CursorLocksInv, CursorSpawnInv, CursorProcessInv, Cursor!Running,
     Cursor!vars, Cursor!procVars
<1> QED BY <1>1, <1>2

-----------------------------------------------------------------------------
(* The Cursor CLI client keeps the contract *)

\* At most one process runs, and the client can clean it up.
LEMMA CursorSafe == ASSUME kind = "cursor", CursorInv PROVE Safe
<1>1. Holds = {process, spawn} \ {None} /\ Running \subseteq {process, spawn}
  BY DEF Holds, CursorInv, CursorProcessInv, Cursor!Running, Running
<1>2. process \in Procs \cup {None} /\ spawn \in Procs \cup {None} /\ (spawn # None => process \in {None, spawn})
  BY DEF CursorInv, Cursor!TypeOK, CursorProcessInv
<1>3. Running \subseteq Procs
  BY DEF Running
<1> QED BY <1>1, <1>2, <1>3, NoneAssumption DEF Safe

\* A client that reaps its process keeps it or has none left.
LEMMA CursorReaped ==
    ASSUME kind = "cursor", CursorInv, Cursor!Gone \/ Cursor!Survives
    PROVE  Running' \in {Running, {}}
<1>1. Running' \in {Running, Running \ {process}}
  BY DEF Cursor!Gone, Cursor!Survives, CursorInv, Cursor!TypeOK, Running
<1> QED BY <1>1, CursorSafe DEF Safe

\* The start of a process is the only step after which one more runs: none ran
\* before, as the lock was free and nothing was pending.
LEMMA CursorLaunches ==
    ASSUME CursorInv, NEW c \in Callers, Cursor!Starts(c)
    PROVE  Keeps \/ Launches
<1>1. Closing' = Closing
  BY DEF Cursor!Starts, Closing
<1>2. CASE UNCHANGED proc
  BY <1>1, <1>2 DEF Running, Keeps
<1>3. ASSUME NEW p \in Procs, ~Cursor!Refused, proc' = [proc EXCEPT ![p] = "starting"]
      PROVE  Launches
  <2>1. Running = {}
    BY <1>3, NoneAssumption DEF Cursor!Refused, Cursor!Pending, CursorInv, CursorProcessInv, Cursor!Running, Running
  <2>2. Running' = {p}
    BY <1>3, <2>1 DEF Running, CursorInv, Cursor!TypeOK
  <2> QED BY <1>1, <2>1, <2>2 DEF Launches
<1> QED BY <1>2, <1>3 DEF Cursor!Starts

\* disconnect() that succeeds has nothing left: without the spawn of a query,
\* its process was all there was.  One that fails, itself or with the claim it
\* waits for, keeps the process.
LEMMA CursorCloses ==
    ASSUME kind = "cursor", kind' = kind, CursorInv, Cursor!DisconnectEnds \/ Cursor!ClaimEnds
    PROVE  Moves
<1>1. Running' \in {Running, {}}
  BY CursorReaped DEF Cursor!DisconnectEnds, Cursor!ClaimEnds
<1>2. CASE Cursor!DisconnectEnds /\ Cursor!Gone /\ disconnecting' = "ok"
  <2>1. process' = None /\ spawn' = None /\ disconnecting = "in"
    BY <1>2 DEF Cursor!DisconnectEnds, Cursor!Gone, CursorInv, CursorSpawnInv
  <2> QED BY <1>2, <2>1 DEF Moves, Emptied, Holds, Closing
<1>3. CASE Cursor!DisconnectEnds /\ disconnecting' = "bad"
  BY <1>1, <1>3 DEF Cursor!DisconnectEnds, Moves, Left, Closing
<1>4. CASE Cursor!ClaimEnds
  BY <1>1, <1>4 DEF Cursor!ClaimEnds, Moves, Keeps, Left, Closing
<1> QED BY <1>2, <1>3, <1>4 DEF Cursor!DisconnectEnds

\* Every step of the client is one that the contract allows.
LEMMA CursorMoves == ASSUME kind = "cursor", kind' = kind, CursorInv, Cursor!Next PROVE Moves
<1>1. ASSUME NEW c \in Callers,
             \/ Cursor!Query(c) \/ Cursor!Connect(c) \/ Cursor!GivesUp(c) \/ Cursor!QueryTakes(c)
             \/ Cursor!PromptWritten(c) \/ Cursor!Finishes(c) \/ Cursor!Connects(c) \/ Cursor!DisconnectReturns(c)
             \/ Cursor!FinishTakes(c) \/ Cursor!StartLeft(c) \/ Cursor!Spawned(c)
      PROVE  Keeps
  BY <1>1 DEF Cursor!Query, Cursor!Connect, Cursor!GivesUp, Cursor!QueryTakes, Cursor!PromptWritten,
     Cursor!Finishes,
     Cursor!Connects, Cursor!DisconnectReturns, Cursor!FinishTakes, Cursor!StartLeft, Cursor!Spawned,
     Cursor!procVars,
     Running, Closing, Keeps
<1>2. ASSUME NEW c \in Callers, Cursor!FinishEnds(c) PROVE Keeps
  BY <1>2, CursorReaped DEF Cursor!FinishEnds, Closing, Keeps
<1>3. ASSUME NEW c \in Callers, Cursor!Disconnect(c) PROVE Keeps \/ Begun
  BY <1>3 DEF Cursor!Disconnect, Cursor!procVars, Running, Closing, Keeps, Begun
<1>4. ASSUME Cursor!ClaimSees \/ Cursor!ClaimTakes \/ Cursor!DisconnectTakes PROVE Keeps
  BY <1>4 DEF Cursor!ClaimSees, Cursor!ClaimTakes, Cursor!DisconnectTakes, Cursor!procVars, Running, Closing, Keeps
<1>5. ASSUME NEW p \in Procs, Cursor!SpawnStep(p) \/ Cursor!ProcExits(p) PROVE Keeps
  <2>1. Running' \in {Running, Running \ {p}} /\ Closing' = Closing
    BY <1>5 DEF Cursor!SpawnStep, Cursor!ProcStarts, Cursor!ProcFails, Cursor!ProcExits, Running, Closing,
       CursorInv,
       Cursor!TypeOK
  <2> QED BY <2>1, CursorSafe DEF Safe, Keeps
<1> QED BY <1>1, <1>2, <1>3, <1>4, <1>5, CursorLaunches, CursorCloses
        DEF Cursor!Next, Cursor!CallStep, Cursor!QueryStep, Moves

-----------------------------------------------------------------------------
(* The native client: its invariant *)

InConnect == {"prior", "prepare", "close", "cut", "spawn", "init", "fail"}
\* Steps of _disconnect_locked, in order.
Inside == {"cancel", "readers", "reap", "host", "close", "cut"}
Past == {"host", "close", "cut", "done"}

NativeLocksInv ==
    /\ \A c \in Callers : pc[c] \in InConnect <=> connectLock = c
    /\ connectLock = "disconnect" <=> disconnecting = "in"
    /\ connectLock = "cleanup" <=> cleanup.step = "in"
    /\ connectLock # "claim"
    /\ \A j \in Native!Jobs : job[j].step \in Inside <=> disconnectLock = j
NativeJobsInv ==
    /\ \A c \in Callers : job[c].step # "none" <=> pc[c] \in {"prior", "fail"}
    /\ job["disconnect"].step # "none" <=> disconnecting = "in"
    /\ job["cleanup"].step # "none" <=> cleanup.step = "in"
    /\ job["claim"].step # "none" <=> claim = "in"
    /\ \A j \in Native!Jobs : job[j].step = "none" => ~job[j].failed
    /\ \A j \in Native!Jobs : job[j].step = "cut" => job[j].failed
NativeSpawnInv ==
    /\ \A c \in Callers : pc[c] = "spawn" => spawn # None /\ claim = "none"
    /\ spawn # None /\ claim = "none" => \E c \in Callers : pc[c] = "spawn"
    /\ spawn # None => process = None \/ (claim = "in" /\ process = spawn)
    /\ \A c \in Callers : pc[c] \in {"prepare", "close", "cut"} => process = None /\ spawn = None
    /\ Native!Running \subseteq IF claim = "in" THEN {process} ELSE {process, spawn}
NativeDoneInv ==
    /\ \A j \in Native!Jobs \ {"claim"} :
        /\ job[j].step \in Past => job[j].failed \/ (process = None /\ spawn = None)
        /\ job[j].step \in Past \cup {"reap"} => ~connected
    /\ job["disconnect"].step = "done" => job["disconnect"].failed \/ ~terminals
NativeLaterInv ==
    /\ cleanup.step # "none" => cleanup.expected # None
    /\ cleanup.step = "in" => process \in {None, cleanup.expected} /\ (spawn # None => claim = "in")
    /\ cleanup.step = "in" /\ spawn # None => spawn = cleanup.expected
NativeInv == Native!TypeOK /\ NativeLocksInv /\ NativeJobsInv /\ NativeSpawnInv /\ NativeDoneInv /\ NativeLaterInv

NativeSteps == {"none", "lock", "cancel", "readers", "reap", "host", "close", "cut", "done"}
NativeJob == [step : NativeSteps, failed : BOOLEAN]
NativePcs == {"out", "lock", "prior", "prepare", "close", "cut", "spawn", "init", "fail", "disconnect"}
NativeProcType ==
    /\ proc \in [Procs -> {"none", "starting", "alive", "failed", "dead"}]
    /\ process \in Procs \cup {None} /\ readers \subseteq Procs
    /\ spawn \in Procs \cup {None} /\ claim \in {"none", "wait", "in"}
    /\ claim # "none" => spawn # None
NativeLockType ==
    /\ connectLock \in Native!Jobs \cup {None}
    /\ disconnectLock \in Native!Jobs \cup {None}
    /\ hostLock \in Native!Jobs \cup {None, "host"}
NativeCallType ==
    /\ pc \in [Callers -> NativePcs]
    /\ interrupted \in [Callers -> BOOLEAN]
NativeJobType == job \in [Native!Jobs -> NativeJob]
NativeTaskType ==
    /\ disconnecting \in {"none", "lock", "in", "ok", "bad"}
    /\ cleanup \in [step : {"none", "lock", "in"}, expected : Procs \cup {None}]
    /\ hostCleanup \in {"none", "lock", "close"}
NativeFlagType == connected \in BOOLEAN /\ terminals \in BOOLEAN /\ leaked \in BOOLEAN /\ needCleanup \in BOOLEAN

\* The types, one group of variables at a time.
LEMMA NativeTypeParts ==
    Native!TypeOK <=> /\ NativeProcType /\ NativeLockType /\ NativeCallType
                      /\ NativeJobType /\ NativeTaskType /\ NativeFlagType
BY DEF Native!TypeOK, NativeProcType, NativeLockType, NativeCallType, NativeJobType, NativeTaskType, NativeFlagType,
       NativeJob, NativeSteps, NativePcs

\* A connect() that fails begins to disconnect, and no other caller notices.
LEMMA NativeFails ==
    ASSUME NativeCallType, NativeJobType, NEW c \in Callers, Native!Fails(c)
    PROVE  /\ pc'[c] = "fail" /\ \A d \in Callers \ {c} : pc'[d] = pc[d]
           /\ job'[c].step = "lock" /\ ~job'[c].failed /\ \A j \in Native!Jobs \ {c} : job'[j] = job[j]
BY DEF Native!Fails, Native!Go, Native!Begins, NativeCallType, NativeJobType, Native!Jobs

\* The jobs keep their type.
LEMMA NativeJobKept == ASSUME NativeInv, Native!Next PROVE NativeJobType'
<1>0. NativeJobType /\ \A c \in Callers : c \in Native!Jobs
  BY NativeTypeParts DEF NativeInv, Native!Jobs
<1>1. ASSUME NEW j \in Native!Jobs,
             \/ Native!Begins(j) \/ Native!Forget(j) \/ (\E step \in NativeSteps : Native!Step(j, step))
             \/ \E step \in NativeSteps : job' = [job EXCEPT ![j] = [step |-> step, failed |-> TRUE]]
             \/ job' = [job EXCEPT ![j].failed = TRUE]
      PROVE  NativeJobType'
  <2> USE <1>0 DEF NativeJobType, NativeJob, NativeSteps
  <2>1. CASE Native!Begins(j) \/ Native!Forget(j)
    <3>1. [step |-> "lock", failed |-> FALSE] \in NativeJob /\ [step |-> "none", failed |-> FALSE] \in NativeJob
      OBVIOUS
    <3>2. \E r \in NativeJob : job' = [job EXCEPT ![j] = r]
      BY <2>1, <3>1, Zenon DEF Native!Begins, Native!Forget, Native!Idle
    <3> QED BY <3>2
  <2>2. CASE \E step \in NativeSteps : Native!Step(j, step)
    BY <2>2 DEF Native!Step
  <2>3. CASE \E step \in NativeSteps : job' = [job EXCEPT ![j] = [step |-> step, failed |-> TRUE]]
    BY <2>3
  <2>4. CASE job' = [job EXCEPT ![j].failed = TRUE]
    BY <2>4
  <2> QED BY <1>1, <2>1, <2>2, <2>3, <2>4
<1>2. ASSUME job' = job PROVE NativeJobType'
  BY <1>0, <1>2 DEF NativeJobType
<1>3. ASSUME NEW c \in Callers,
             Native!Connect(c) \/ Native!Disconnect(c) \/ Native!Interrupt(c) \/ Native!CallStep(c)
      PROVE  NativeJobType'
  <2>1. ASSUME Native!Interrupt(c) PROVE NativeJobType'
    BY <1>0, <1>1, <1>2, <2>1 DEF Native!Interrupt, Native!GivesUp, Native!Fails, NativeSteps
  <2>2. ASSUME Native!CallStep(c) PROVE NativeJobType'
    BY <1>0, <1>1, <1>2, <2>2 DEF Native!CallStep, Native!ConnectTakes, Native!PriorEnds, Native!PrepareCloses,
       Native!Prepared, Native!PrepareClosed, Native!Spawned,
       Native!SpawnFails, Native!Initialized, Native!InitFails, Native!FailEnds, Native!DisconnectReturns,
       Native!Fails
  <2> QED BY <1>2, <1>3, <2>1, <2>2 DEF Native!Connect, Native!Disconnect
<1>4. ASSUME NEW j \in Native!Jobs, Native!JobStep(j) PROVE NativeJobType'
  BY <1>1, <1>2, <1>4 DEF Native!JobStep, Native!Enters, Native!Cancelled, Native!ReadersEnd, Native!Reaps,
     Native!HostTakes, Native!HostEnds, NativeSteps
<1>5. ASSUME \/ Native!DisconnectTakes \/ Native!DisconnectEnds \/ Native!Claim \/ Native!ClaimEnds \/ Native!CleanupTakes
             \/ Native!CleanupEnds
      PROVE  NativeJobType'
  BY <1>1, <1>2, <1>5 DEF Native!DisconnectTakes, Native!DisconnectEnds, Native!Claim, Native!ClaimEnds,
     Native!CleanupTakes, Native!CleanupEnds, Native!Jobs
<1>6. ASSUME \/ Native!ReaderEnds \/ Native!Invalidate \/ Native!HostCleanupTakes \/ Native!HostCleanupEnds \/ Native!CreateTerminal
             \/ \E p \in Procs : Native!SpawnStep(p) \/ Native!ProcExits(p)
      PROVE  NativeJobType'
  BY <1>2, <1>6 DEF Native!ReaderEnds, Native!Invalidate, Native!HostCleanupTakes, Native!HostCleanupEnds,
     Native!CreateTerminal, Native!SpawnStep, Native!ProcStarts,
     Native!ProcFails, Native!ProcExits
<1> QED BY <1>3, <1>4, <1>5, <1>6 DEF Native!Next

\* What becomes of a connect() that is interrupted.
LEMMA NativeInterrupted ==
    ASSUME NativeInv, NEW c \in Callers, Native!Interrupt(c)
    PROVE  /\ UNCHANGED <<proc, spawn, process, connected, cleanup, terminals>>
           /\ \A d \in Callers \ {c} : pc'[d] = pc[d]
           /\ \A j \in Native!Jobs \ {c} : job'[j] = job[j]
           /\ disconnecting' = disconnecting \/ (disconnecting \notin {"lock", "in"} /\ disconnecting' = "lock")
           /\ \/ /\ pc'[c] = "disconnect" /\ pc[c] \in {"lock", "prior"} /\ job'[c].step = "none" /\ ~job'[c].failed
                 /\ claim' = claim
              \/ /\ pc'[c] = pc[c] /\ pc[c] \in {"prior", "fail"} /\ job'[c] = job[c] /\ claim' = claim
              \/ /\ pc'[c] = pc[c] /\ pc[c] = "prior" /\ job'[c].failed /\ claim' = claim
                 /\ \/ job[c].step = "reap" /\ job'[c].step = "reap"
                    \/ job[c].step = "close" /\ job'[c].step = "cut"
              \/ /\ pc'[c] = "fail" /\ job'[c].step = "lock" /\ ~job'[c].failed
                 /\ \/ pc[c] = "spawn" /\ claim' = "wait"
                    \/ pc[c] \in {"prepare", "init"} /\ claim' = claim
              \/ /\ pc[c] = "close" /\ pc'[c] = "cut" /\ job'[c] = job[c] /\ claim' = claim
<1>0. NativeCallType /\ NativeJobType /\ NativeTaskType
  BY NativeTypeParts DEF NativeInv
<1>1. UNCHANGED <<proc, spawn, process, connected, cleanup, terminals>>
  BY DEF Native!Interrupt, Native!hostVars
<1>2. CASE Native!GivesUp(c) /\ pc[c] \in {"lock", "prior"}
  BY <1>0, <1>1, <1>2 DEF Native!GivesUp, Native!Disconnecting, Native!Go, Native!Forget, Native!Idle,
     NativeCallType, NativeJobType, Native!Jobs
<1>3. CASE pc[c] = "prior" /\ job[c].step \in {"readers", "reap", "close", "done"} /\ UNCHANGED <<claim, pc, disconnecting>>
           /\ CASE job[c].step = "reap" -> job' = [job EXCEPT ![c].failed = TRUE]
                [] job[c].step = "close" -> job' = [job EXCEPT ![c] = [step |-> "cut", failed |-> TRUE]]
                [] OTHER -> UNCHANGED job
  <2>1. CASE job[c].step = "reap"
    <3>1. job' = [job EXCEPT ![c].failed = TRUE]
      BY <1>3, <2>1
    <3> QED BY <1>0, <1>1, <1>3, <2>1, <3>1 DEF NativeJobType, NativeJob, Native!Jobs
  <2>2. CASE job[c].step = "close"
    <3>1. job' = [job EXCEPT ![c] = [step |-> "cut", failed |-> TRUE]]
      BY <1>3, <2>2
    <3> QED BY <1>0, <1>1, <1>3, <2>2, <3>1 DEF NativeJobType, NativeJob, Native!Jobs
  <2>3. CASE job[c].step \notin {"reap", "close"}
    <3>1. job' = job
      BY <1>3, <2>3
    <3> QED BY <1>1, <1>3, <3>1
  <2> QED BY <2>1, <2>2, <2>3
<1>4. CASE /\ pc[c] \in {"prepare", "spawn", "init"} /\ Native!Fails(c) /\ UNCHANGED disconnecting
           /\ claim' = IF pc[c] = "spawn" THEN "wait" ELSE claim
  BY <1>0, <1>1, <1>4, NativeFails
<1>5. CASE pc[c] = "close" /\ Native!Go(c, "cut") /\ UNCHANGED <<claim, job, disconnecting>>
  BY <1>0, <1>1, <1>5 DEF Native!Go, NativeCallType
<1>6. CASE pc[c] = "fail" /\ UNCHANGED <<claim, pc, job, disconnecting>>
  BY <1>1, <1>6
<1> QED BY <1>2, <1>3, <1>4, <1>5, <1>6 DEF Native!Interrupt

\* A connect() that fails leaves who disconnects there for it.
LEMMA NativeFailing ==
    ASSUME NativeInv, NEW c \in Callers, Native!Fails(c), UNCHANGED disconnecting,
           cleanup'.step = "in" <=> cleanup.step = "in", claim' = "in" <=> claim = "in"
    PROVE  NativeJobsInv'
<1>0. NativeCallType /\ NativeJobType
  BY NativeTypeParts DEF NativeInv
<1>1. c \in Native!Jobs /\ {"disconnect", "cleanup", "claim"} \subseteq Native!Jobs \ {c}
  BY NamesAssumption DEF Native!Jobs
<1>2. /\ pc'[c] = "fail" /\ \A d \in Callers \ {c} : pc'[d] = pc[d]
      /\ job'[c].step = "lock" /\ ~job'[c].failed /\ \A j \in Native!Jobs \ {c} : job'[j] = job[j]
  BY <1>0, NativeFails
<1>3. \A d \in Callers : job'[d].step # "none" <=> pc'[d] \in {"prior", "fail"}
  BY <1>2 DEF NativeInv, NativeJobsInv, Native!Jobs
<1>4. \A j \in Native!Jobs : (job'[j].step = "none" => ~job'[j].failed) /\ (job'[j].step = "cut" => job'[j].failed)
  BY <1>2 DEF NativeInv, NativeJobsInv
<1> QED BY <1>1, <1>2, <1>3, <1>4 DEF NativeInv, NativeJobsInv

\* So does one that is interrupted.
LEMMA NativeInterruptKeeps ==
    ASSUME NativeInv, NEW c \in Callers, Native!Interrupt(c)
    PROVE  NativeJobsInv' /\ NativeDoneInv'
<1>0. NativeCallType /\ NativeJobType /\ NativeLocksInv /\ NativeJobsInv /\ NativeSpawnInv /\ NativeDoneInv
  BY NativeTypeParts DEF NativeInv
<1>1. c \in Native!Jobs /\ {"disconnect", "cleanup", "claim"} \subseteq Native!Jobs \ {c}
  BY NamesAssumption DEF Native!Jobs
<1>2. /\ UNCHANGED <<proc, spawn, process, connected, cleanup, terminals>>
      /\ \A d \in Callers \ {c} : pc'[d] = pc[d]
      /\ \A j \in Native!Jobs \ {c} : job'[j] = job[j]
      /\ disconnecting' = "in" <=> disconnecting = "in"
      /\ claim' = "in" <=> claim = "in"
  BY <1>0, NativeInterrupted DEF NativeSpawnInv
<1>3. job'[c].step # "none" <=> pc'[c] \in {"prior", "fail"}
  BY <1>0, NativeInterrupted DEF NativeJobsInv
<1>4. (job'[c].step = "none" => ~job'[c].failed) /\ (job'[c].step = "cut" => job'[c].failed)
  BY <1>0, <1>1, NativeInterrupted DEF NativeJobsInv
<1>5. NativeJobsInv'
  <2>1. \A d \in Callers : job'[d].step # "none" <=> pc'[d] \in {"prior", "fail"}
    BY <1>0, <1>2, <1>3 DEF NativeJobsInv, Native!Jobs
  <2>2. \A j \in Native!Jobs : (job'[j].step = "none" => ~job'[j].failed) /\ (job'[j].step = "cut" => job'[j].failed)
    BY <1>0, <1>2, <1>4 DEF NativeJobsInv
  <2> QED BY <1>0, <1>1, <1>2, <2>1, <2>2 DEF NativeJobsInv
<1>6. /\ job'[c].step \in Past => job'[c].failed \/ (process = None /\ spawn = None)
      /\ job'[c].step \in Past \cup {"reap"} => ~connected
  <2>1. c \in Native!Jobs \ {"claim"}
    BY <1>1
  <2>2. \/ job'[c].step \in {"none", "lock"}
        \/ job'[c] = job[c]
        \/ job'[c].failed /\ job[c].step \in Past \cup {"reap"}
    BY NativeInterrupted DEF Past
  <2> QED BY <1>0, <2>1, <2>2 DEF NativeDoneInv, Past
<1> QED BY <1>0, <1>1, <1>2, <1>5, <1>6 DEF NativeDoneInv

\* The processes keep their types.
LEMMA NativeProcKept == ASSUME NativeInv, Native!Next PROVE NativeProcType'
<1>0. /\ NativeProcType /\ NativeLockType /\ NativeCallType /\ NativeJobType /\ NativeTaskType
      /\ NativeFlagType /\ NativeSpawnInv
  BY NativeTypeParts DEF NativeInv
<1> USE <1>0, NoneAssumption, NamesAssumption DEF NativeProcType, NativeSpawnInv, Native!procVars,
        Native!lockVars, Native!callVars, Native!taskVars, Native!hostVars, Native!Jobs, Native!Idle,
        Native!Go, Native!Step, Native!Begins, Native!Ended, Native!Forget, Native!ScheduleHost,
        Native!ScheduleCleanup, Native!Fails, Native!Disconnecting
<1>1. ASSUME NEW c \in Callers, Native!Interrupt(c) PROVE NativeProcType'
  BY <1>1 DEF Native!Interrupt, Native!GivesUp, Native!Marked
<1>2. ASSUME NEW c \in Callers, Native!Prepared(c) PROVE NativeProcType'
  BY <1>2 DEF Native!Prepared, Native!MustClose
<1>3. ASSUME NEW c \in Callers, Native!Spawned(c) PROVE NativeProcType'
  BY <1>3 DEF Native!Spawned
<1>4. ASSUME NEW c \in Callers, Native!SpawnFails(c) PROVE NativeProcType'
  BY <1>4 DEF Native!SpawnFails
<1>5. ASSUME NEW j \in Native!Jobs, Native!ReadersEnd(j) PROVE NativeProcType'
  BY <1>5 DEF Native!ReadersEnd, Native!ReadersAfter, Native!ReadersStop
<1>6. ASSUME NEW j \in Native!Jobs, Native!Reaps(j) PROVE NativeProcType'
  BY <1>6 DEF Native!Reaps, Native!SpawnPending, Native!Kept
<1>7. ASSUME NEW p \in Procs, Native!ProcStarts(p) PROVE NativeProcType'
  BY <1>7 DEF Native!ProcStarts
<1>8. ASSUME NEW p \in Procs, Native!ProcFails(p) PROVE NativeProcType'
  BY <1>8 DEF Native!ProcFails
<1>9. ASSUME NEW p \in Procs, Native!ProcExits(p) PROVE NativeProcType'
  BY <1>9 DEF Native!ProcExits
<1>10. ASSUME Native!Claim PROVE NativeProcType'
  BY <1>10 DEF Native!Claim, Native!SpawnClaimed
<1>11. ASSUME Native!ClaimEnds PROVE NativeProcType'
  BY <1>11 DEF Native!ClaimEnds
<1>12. ASSUME Native!ReaderEnds PROVE NativeProcType'
  BY <1>12 DEF Native!ReaderEnds, Native!LossSchedules
<1>13. ASSUME UNCHANGED <<claim, proc, process, readers, spawn>> PROVE NativeProcType'
  BY <1>13
<1>14. ASSUME \/ Native!DisconnectTakes \/ Native!DisconnectEnds \/ Native!Invalidate
             \/ Native!CleanupTakes \/ Native!CleanupEnds \/ Native!HostCleanupTakes
             \/ Native!HostCleanupEnds \/ Native!CreateTerminal
      PROVE  NativeProcType'
  BY <1>13, <1>14 DEF Native!DisconnectTakes, Native!DisconnectEnds, Native!Invalidate,
     Native!CleanupTakes, Native!CleanupEnds, Native!HostCleanupTakes, Native!HostCleanupEnds,
     Native!CreateTerminal, Native!callVars, Native!hostVars, Native!lockVars, Native!procVars,
     Native!taskVars
<1>15. ASSUME NEW c \in Callers,
             \/ Native!Connect(c) \/ Native!Disconnect(c) \/ Native!ConnectTakes(c)
             \/ Native!PriorEnds(c) \/ Native!PrepareCloses(c) \/ Native!PrepareClosed(c)
             \/ Native!Initialized(c) \/ Native!InitFails(c) \/ Native!FailEnds(c)
             \/ Native!DisconnectReturns(c)
      PROVE  NativeProcType'
  BY <1>13, <1>15 DEF Native!Connect, Native!Disconnect, Native!ConnectTakes, Native!PriorEnds,
     Native!PrepareCloses, Native!PrepareClosed, Native!Initialized, Native!InitFails, Native!FailEnds,
     Native!DisconnectReturns, Native!hostVars, Native!lockVars, Native!procVars, Native!taskVars
<1>16. ASSUME NEW j \in Native!Jobs,
             \/ Native!Enters(j) \/ Native!Cancelled(j) \/ Native!HostTakes(j)
             \/ Native!HostEnds(j)
      PROVE  NativeProcType'
  BY <1>13, <1>16 DEF Native!Enters, Native!Cancelled, Native!HostTakes, Native!HostEnds,
     Native!callVars, Native!hostVars, Native!lockVars, Native!procVars, Native!taskVars
<1> QED BY <1>1, <1>2, <1>3, <1>4, <1>5, <1>6, <1>7, <1>8, <1>9, <1>10, <1>11, <1>12, <1>14, <1>15, <1>16 DEF
     Native!Next, Native!CallStep, Native!JobStep, Native!SpawnStep

\* The locks keep their types.
LEMMA NativeLocksTyped == ASSUME NativeInv, Native!Next PROVE NativeLockType'
<1>0. /\ NativeProcType /\ NativeLockType /\ NativeCallType /\ NativeJobType /\ NativeTaskType
      /\ NativeFlagType /\ NativeSpawnInv
  BY NativeTypeParts DEF NativeInv
<1> USE <1>0, NoneAssumption, NamesAssumption DEF NativeLockType, Native!procVars, Native!callVars,
        Native!taskVars, Native!hostVars, Native!Jobs, Native!Idle, Native!Go, Native!Step,
        Native!Begins, Native!Ended, Native!Forget, Native!Fails, Native!Disconnecting, Native!Leave
<1>1. ASSUME NEW c \in Callers, Native!Interrupt(c) PROVE NativeLockType'
  BY <1>1 DEF Native!Interrupt, Native!GivesUp, Native!Marked
<1>2. ASSUME NEW c \in Callers, Native!ConnectTakes(c) PROVE NativeLockType'
  BY <1>2 DEF Native!ConnectTakes, Native!Refused, Native!IsConnected
<1>3. ASSUME NEW c \in Callers, Native!PriorEnds(c) PROVE NativeLockType'
  BY <1>3 DEF Native!PriorEnds
<1>4. ASSUME NEW c \in Callers, Native!PrepareCloses(c) PROVE NativeLockType'
  BY <1>4 DEF Native!PrepareCloses
<1>5. ASSUME NEW c \in Callers, Native!PrepareClosed(c) PROVE NativeLockType'
  BY <1>5 DEF Native!PrepareClosed, Native!ServicesClose, Native!ServicesRemain, Native!ServicesCut
<1>6. ASSUME NEW c \in Callers, Native!Initialized(c) PROVE NativeLockType'
  BY <1>6 DEF Native!Initialized, Native!IsConnected
<1>7. ASSUME NEW c \in Callers, Native!FailEnds(c) PROVE NativeLockType'
  BY <1>7 DEF Native!FailEnds
<1>8. ASSUME NEW j \in Native!Jobs, Native!Enters(j) PROVE NativeLockType'
  BY <1>8 DEF Native!Enters
<1>9. ASSUME NEW j \in Native!Jobs, Native!HostTakes(j) PROVE NativeLockType'
  BY <1>9 DEF Native!HostTakes
<1>10. ASSUME NEW j \in Native!Jobs, Native!HostEnds(j) PROVE NativeLockType'
  BY <1>10 DEF Native!HostEnds, Native!ServicesClose, Native!ServicesRemain, Native!ServicesCut
<1>11. ASSUME Native!DisconnectTakes PROVE NativeLockType'
  BY <1>11 DEF Native!DisconnectTakes
<1>12. ASSUME Native!DisconnectEnds PROVE NativeLockType'
  BY <1>12 DEF Native!DisconnectEnds
<1>13. ASSUME Native!CleanupTakes PROVE NativeLockType'
  BY <1>13 DEF Native!CleanupTakes, Native!Current, Native!NoCleanup
<1>14. ASSUME Native!CleanupEnds PROVE NativeLockType'
  BY <1>14 DEF Native!CleanupEnds, Native!NoCleanup
<1>15. ASSUME Native!HostCleanupTakes PROVE NativeLockType'
  BY <1>15 DEF Native!HostCleanupTakes
<1>16. ASSUME Native!HostCleanupEnds PROVE NativeLockType'
  BY <1>16 DEF Native!HostCleanupEnds, Native!ServicesClose, Native!ServicesRemain
<1>17. ASSUME UNCHANGED <<connectLock, disconnectLock, hostLock>> PROVE NativeLockType'
  BY <1>17
<1>18. ASSUME \/ Native!Claim \/ Native!ClaimEnds \/ Native!ReaderEnds \/ Native!Invalidate
             \/ Native!CreateTerminal
      PROVE  NativeLockType'
  BY <1>17, <1>18 DEF Native!Claim, Native!ClaimEnds, Native!ReaderEnds, Native!Invalidate,
     Native!CreateTerminal, Native!callVars, Native!hostVars, Native!lockVars, Native!procVars,
     Native!taskVars
<1>19. ASSUME NEW c \in Callers,
             \/ Native!Connect(c) \/ Native!Disconnect(c) \/ Native!Prepared(c)
             \/ Native!Spawned(c) \/ Native!SpawnFails(c) \/ Native!InitFails(c)
             \/ Native!DisconnectReturns(c)
      PROVE  NativeLockType'
  BY <1>17, <1>19 DEF Native!Connect, Native!Disconnect, Native!Prepared, Native!Spawned,
     Native!SpawnFails, Native!InitFails, Native!DisconnectReturns, Native!hostVars, Native!lockVars,
     Native!procVars, Native!taskVars
<1>20. ASSUME NEW j \in Native!Jobs,
             Native!Cancelled(j) \/ Native!ReadersEnd(j) \/ Native!Reaps(j)
      PROVE  NativeLockType'
  BY <1>17, <1>20 DEF Native!Cancelled, Native!ReadersEnd, Native!Reaps, Native!callVars,
     Native!hostVars, Native!lockVars, Native!procVars, Native!taskVars
<1>21. ASSUME NEW p \in Procs,
             Native!ProcStarts(p) \/ Native!ProcFails(p) \/ Native!ProcExits(p)
      PROVE  NativeLockType'
  BY <1>17, <1>21 DEF Native!ProcStarts, Native!ProcFails, Native!ProcExits, Native!callVars,
     Native!hostVars, Native!lockVars, Native!taskVars
<1> QED BY <1>1, <1>2, <1>3, <1>4, <1>5, <1>6, <1>7, <1>8, <1>9, <1>10, <1>11, <1>12, <1>13, <1>14, <1>15,
     <1>16, <1>18, <1>19, <1>20, <1>21 DEF Native!Next, Native!CallStep, Native!JobStep,
     Native!SpawnStep

\* The calls keep theirs.
LEMMA NativeCallsTyped == ASSUME NativeInv, Native!Next PROVE NativeCallType'
<1>0. /\ NativeProcType /\ NativeLockType /\ NativeCallType /\ NativeJobType /\ NativeTaskType
      /\ NativeFlagType /\ NativeSpawnInv
  BY NativeTypeParts DEF NativeInv
<1> USE <1>0, NoneAssumption, NamesAssumption DEF NativeCallType, NativePcs, Native!procVars,
        Native!lockVars, Native!taskVars, Native!hostVars, Native!Jobs, Native!Idle, Native!Go,
        Native!Begins, Native!Ended, Native!Forget, Native!ScheduleHost, Native!ScheduleCleanup,
        Native!Fails, Native!Disconnecting, Native!Leave
<1>1. ASSUME NEW c \in Callers, Native!Connect(c) PROVE NativeCallType'
  BY <1>1 DEF Native!Connect
<1>2. ASSUME NEW c \in Callers, Native!Disconnect(c) PROVE NativeCallType'
  BY <1>2 DEF Native!Disconnect
<1>3. ASSUME NEW c \in Callers, Native!Interrupt(c) PROVE NativeCallType'
  BY <1>3 DEF Native!Interrupt, Native!GivesUp, Native!Marked
<1>4. ASSUME NEW c \in Callers, Native!ConnectTakes(c) PROVE NativeCallType'
  BY <1>4 DEF Native!ConnectTakes, Native!Refused, Native!IsConnected
<1>5. ASSUME NEW c \in Callers, Native!PriorEnds(c) PROVE NativeCallType'
  BY <1>5 DEF Native!PriorEnds
<1>6. ASSUME NEW c \in Callers, Native!PrepareCloses(c) PROVE NativeCallType'
  BY <1>6 DEF Native!PrepareCloses
<1>7. ASSUME NEW c \in Callers, Native!Prepared(c) PROVE NativeCallType'
  BY <1>7 DEF Native!Prepared, Native!MustClose
<1>8. ASSUME NEW c \in Callers, Native!PrepareClosed(c) PROVE NativeCallType'
  BY <1>8 DEF Native!PrepareClosed, Native!ServicesClose, Native!ServicesRemain, Native!ServicesCut
<1>9. ASSUME NEW c \in Callers, Native!Spawned(c) PROVE NativeCallType'
  BY <1>9 DEF Native!Spawned
<1>10. ASSUME NEW c \in Callers, Native!SpawnFails(c) PROVE NativeCallType'
  BY <1>10 DEF Native!SpawnFails
<1>11. ASSUME NEW c \in Callers, Native!Initialized(c) PROVE NativeCallType'
  BY <1>11 DEF Native!Initialized, Native!IsConnected
<1>12. ASSUME NEW c \in Callers, Native!InitFails(c) PROVE NativeCallType'
  BY <1>12 DEF Native!InitFails
<1>13. ASSUME NEW c \in Callers, Native!FailEnds(c) PROVE NativeCallType'
  BY <1>13 DEF Native!FailEnds
<1>14. ASSUME NEW c \in Callers, Native!DisconnectReturns(c) PROVE NativeCallType'
  BY <1>14 DEF Native!DisconnectReturns
<1>15. ASSUME UNCHANGED <<interrupted, pc>> PROVE NativeCallType'
  BY <1>15
<1>16. ASSUME \/ Native!DisconnectTakes \/ Native!DisconnectEnds \/ Native!Claim \/ Native!ClaimEnds
             \/ Native!ReaderEnds \/ Native!Invalidate \/ Native!CleanupTakes \/ Native!CleanupEnds
             \/ Native!HostCleanupTakes \/ Native!HostCleanupEnds \/ Native!CreateTerminal
      PROVE  NativeCallType'
  BY <1>15, <1>16 DEF Native!DisconnectTakes, Native!DisconnectEnds, Native!Claim, Native!ClaimEnds,
     Native!ReaderEnds, Native!Invalidate, Native!CleanupTakes, Native!CleanupEnds,
     Native!HostCleanupTakes, Native!HostCleanupEnds, Native!CreateTerminal, Native!callVars,
     Native!hostVars, Native!lockVars, Native!procVars, Native!taskVars
<1>17. ASSUME NEW j \in Native!Jobs,
             \/ Native!Enters(j) \/ Native!Cancelled(j) \/ Native!ReadersEnd(j) \/ Native!Reaps(j)
             \/ Native!HostTakes(j) \/ Native!HostEnds(j)
      PROVE  NativeCallType'
  BY <1>15, <1>17 DEF Native!Enters, Native!Cancelled, Native!ReadersEnd, Native!Reaps,
     Native!HostTakes, Native!HostEnds, Native!callVars, Native!hostVars, Native!lockVars,
     Native!procVars, Native!taskVars
<1>18. ASSUME NEW p \in Procs,
             Native!ProcStarts(p) \/ Native!ProcFails(p) \/ Native!ProcExits(p)
      PROVE  NativeCallType'
  BY <1>15, <1>18 DEF Native!ProcStarts, Native!ProcFails, Native!ProcExits, Native!callVars,
     Native!hostVars, Native!lockVars, Native!taskVars
<1> QED BY <1>1, <1>2, <1>3, <1>4, <1>5, <1>6, <1>7, <1>8, <1>9, <1>10, <1>11, <1>12, <1>13, <1>14, <1>16,
     <1>17, <1>18 DEF Native!Next, Native!CallStep, Native!JobStep, Native!SpawnStep

\* The tasks keep theirs.
LEMMA NativeTasksTyped == ASSUME NativeInv, Native!Next PROVE NativeTaskType'
<1>0. /\ NativeProcType /\ NativeLockType /\ NativeCallType /\ NativeJobType /\ NativeTaskType
      /\ NativeFlagType /\ NativeSpawnInv
  BY NativeTypeParts DEF NativeInv
<1> USE <1>0, NoneAssumption, NamesAssumption DEF NativeTaskType, NativeProcType, Native!procVars,
        Native!lockVars, Native!callVars, Native!hostVars, Native!Jobs, Native!Idle, Native!Go,
        Native!Begins, Native!Ended, Native!Forget, Native!ScheduleHost, Native!ScheduleCleanup,
        Native!Fails, Native!Disconnecting, Native!Leave
<1>1. ASSUME NEW c \in Callers, Native!Disconnect(c) PROVE NativeTaskType'
  BY <1>1 DEF Native!Disconnect
<1>2. ASSUME NEW c \in Callers, Native!Interrupt(c) PROVE NativeTaskType'
  BY <1>2 DEF Native!Interrupt, Native!GivesUp, Native!Marked
<1>3. ASSUME NEW c \in Callers, Native!ConnectTakes(c) PROVE NativeTaskType'
  BY <1>3 DEF Native!ConnectTakes, Native!Refused, Native!IsConnected
<1>4. ASSUME NEW c \in Callers, Native!PriorEnds(c) PROVE NativeTaskType'
  BY <1>4 DEF Native!PriorEnds
<1>5. ASSUME NEW c \in Callers, Native!Initialized(c) PROVE NativeTaskType'
  BY <1>5 DEF Native!Initialized, Native!IsConnected
<1>6. ASSUME NEW c \in Callers, Native!InitFails(c) PROVE NativeTaskType'
  BY <1>6 DEF Native!InitFails
<1>7. ASSUME NEW c \in Callers, Native!FailEnds(c) PROVE NativeTaskType'
  BY <1>7 DEF Native!FailEnds
<1>8. ASSUME Native!DisconnectTakes PROVE NativeTaskType'
  BY <1>8 DEF Native!DisconnectTakes
<1>9. ASSUME Native!DisconnectEnds PROVE NativeTaskType'
  BY <1>9 DEF Native!DisconnectEnds
<1>10. ASSUME Native!ReaderEnds PROVE NativeTaskType'
  BY <1>10 DEF Native!ReaderEnds, Native!LossSchedules
<1>11. ASSUME Native!Invalidate PROVE NativeTaskType'
  BY <1>11 DEF Native!Invalidate
<1>12. ASSUME Native!CleanupTakes PROVE NativeTaskType'
  BY <1>12 DEF Native!CleanupTakes, Native!Current, Native!NoCleanup
<1>13. ASSUME Native!CleanupEnds PROVE NativeTaskType'
  BY <1>13 DEF Native!CleanupEnds, Native!NoCleanup
<1>14. ASSUME Native!HostCleanupTakes PROVE NativeTaskType'
  BY <1>14 DEF Native!HostCleanupTakes
<1>15. ASSUME Native!HostCleanupEnds PROVE NativeTaskType'
  BY <1>15 DEF Native!HostCleanupEnds, Native!ServicesClose, Native!ServicesRemain
<1>16. ASSUME UNCHANGED <<cleanup, disconnecting, hostCleanup>> PROVE NativeTaskType'
  BY <1>16
<1>17. ASSUME Native!Claim \/ Native!ClaimEnds \/ Native!CreateTerminal PROVE NativeTaskType'
  BY <1>16, <1>17 DEF Native!Claim, Native!ClaimEnds, Native!CreateTerminal, Native!callVars,
     Native!hostVars, Native!lockVars, Native!procVars, Native!taskVars
<1>18. ASSUME NEW c \in Callers,
             \/ Native!Connect(c) \/ Native!PrepareCloses(c) \/ Native!Prepared(c)
             \/ Native!PrepareClosed(c) \/ Native!Spawned(c) \/ Native!SpawnFails(c)
             \/ Native!DisconnectReturns(c)
      PROVE  NativeTaskType'
  BY <1>16, <1>18 DEF Native!Connect, Native!PrepareCloses, Native!Prepared, Native!PrepareClosed,
     Native!Spawned, Native!SpawnFails, Native!DisconnectReturns, Native!hostVars, Native!lockVars,
     Native!procVars, Native!taskVars
<1>19. ASSUME NEW j \in Native!Jobs,
             \/ Native!Enters(j) \/ Native!Cancelled(j) \/ Native!ReadersEnd(j) \/ Native!Reaps(j)
             \/ Native!HostTakes(j) \/ Native!HostEnds(j)
      PROVE  NativeTaskType'
  BY <1>16, <1>19 DEF Native!Enters, Native!Cancelled, Native!ReadersEnd, Native!Reaps,
     Native!HostTakes, Native!HostEnds, Native!callVars, Native!hostVars, Native!lockVars,
     Native!procVars, Native!taskVars
<1>20. ASSUME NEW p \in Procs,
             Native!ProcStarts(p) \/ Native!ProcFails(p) \/ Native!ProcExits(p)
      PROVE  NativeTaskType'
  BY <1>16, <1>20 DEF Native!ProcStarts, Native!ProcFails, Native!ProcExits, Native!callVars,
     Native!hostVars, Native!lockVars, Native!taskVars
<1> QED BY <1>1, <1>2, <1>3, <1>4, <1>5, <1>6, <1>7, <1>8, <1>9, <1>10, <1>11, <1>12, <1>13, <1>14, <1>15,
     <1>17, <1>18, <1>19, <1>20 DEF Native!Next, Native!CallStep, Native!JobStep, Native!SpawnStep

\* What the services have left to do keeps its type.
LEMMA NativeFlagsTyped == ASSUME NativeInv, Native!Next PROVE NativeFlagType'
<1>0. /\ NativeProcType /\ NativeLockType /\ NativeCallType /\ NativeJobType /\ NativeTaskType
      /\ NativeFlagType /\ NativeSpawnInv
  BY NativeTypeParts DEF NativeInv
<1> USE <1>0, NoneAssumption, NamesAssumption DEF NativeFlagType, Native!procVars, Native!lockVars,
        Native!callVars, Native!taskVars, Native!hostVars, Native!Jobs, Native!Idle, Native!Go,
        Native!Step, Native!Begins, Native!ScheduleHost, Native!ScheduleCleanup, Native!Fails
<1>1. ASSUME NEW c \in Callers, Native!Prepared(c) PROVE NativeFlagType'
  BY <1>1 DEF Native!Prepared, Native!MustClose
<1>2. ASSUME NEW c \in Callers, Native!PrepareClosed(c) PROVE NativeFlagType'
  BY <1>2 DEF Native!PrepareClosed, Native!ServicesClose, Native!ServicesRemain, Native!ServicesCut
<1>3. ASSUME NEW c \in Callers, Native!Spawned(c) PROVE NativeFlagType'
  BY <1>3 DEF Native!Spawned
<1>4. ASSUME NEW c \in Callers, Native!InitFails(c) PROVE NativeFlagType'
  BY <1>4 DEF Native!InitFails
<1>5. ASSUME NEW j \in Native!Jobs, Native!Cancelled(j) PROVE NativeFlagType'
  BY <1>5 DEF Native!Cancelled
<1>6. ASSUME NEW j \in Native!Jobs, Native!ReadersEnd(j) PROVE NativeFlagType'
  BY <1>6 DEF Native!ReadersEnd, Native!ReadersAfter, Native!ReadersStop
<1>7. ASSUME NEW j \in Native!Jobs, Native!HostEnds(j) PROVE NativeFlagType'
  BY <1>7 DEF Native!HostEnds, Native!ServicesClose, Native!ServicesRemain, Native!ServicesCut
<1>8. ASSUME Native!ReaderEnds PROVE NativeFlagType'
  BY <1>8 DEF Native!ReaderEnds, Native!LossSchedules
<1>9. ASSUME Native!Invalidate PROVE NativeFlagType'
  BY <1>9 DEF Native!Invalidate
<1>10. ASSUME Native!HostCleanupEnds PROVE NativeFlagType'
  BY <1>10 DEF Native!HostCleanupEnds, Native!ServicesClose, Native!ServicesRemain
<1>11. ASSUME Native!CreateTerminal PROVE NativeFlagType'
  BY <1>11 DEF Native!CreateTerminal
<1>12. ASSUME UNCHANGED <<connected, leaked, needCleanup, terminals>> PROVE NativeFlagType'
  BY <1>12
<1>13. ASSUME \/ Native!DisconnectTakes \/ Native!DisconnectEnds \/ Native!Claim \/ Native!ClaimEnds
             \/ Native!CleanupTakes \/ Native!CleanupEnds \/ Native!HostCleanupTakes
      PROVE  NativeFlagType'
  BY <1>12, <1>13 DEF Native!DisconnectTakes, Native!DisconnectEnds, Native!Claim, Native!ClaimEnds,
     Native!CleanupTakes, Native!CleanupEnds, Native!HostCleanupTakes, Native!callVars, Native!hostVars,
     Native!lockVars, Native!procVars, Native!taskVars
<1>14. ASSUME NEW c \in Callers,
             \/ Native!Connect(c) \/ Native!Disconnect(c) \/ Native!Interrupt(c)
             \/ Native!ConnectTakes(c) \/ Native!PriorEnds(c) \/ Native!PrepareCloses(c)
             \/ Native!SpawnFails(c) \/ Native!Initialized(c) \/ Native!FailEnds(c)
             \/ Native!DisconnectReturns(c)
      PROVE  NativeFlagType'
  BY <1>12, <1>14 DEF Native!Connect, Native!Disconnect, Native!Interrupt, Native!ConnectTakes,
     Native!PriorEnds, Native!PrepareCloses, Native!SpawnFails, Native!Initialized, Native!FailEnds,
     Native!DisconnectReturns, Native!hostVars, Native!lockVars, Native!procVars, Native!taskVars
<1>15. ASSUME NEW j \in Native!Jobs,
             Native!Enters(j) \/ Native!Reaps(j) \/ Native!HostTakes(j)
      PROVE  NativeFlagType'
  BY <1>12, <1>15 DEF Native!Enters, Native!Reaps, Native!HostTakes, Native!callVars, Native!hostVars,
     Native!lockVars, Native!procVars, Native!taskVars
<1>16. ASSUME NEW p \in Procs,
             Native!ProcStarts(p) \/ Native!ProcFails(p) \/ Native!ProcExits(p)
      PROVE  NativeFlagType'
  BY <1>12, <1>16 DEF Native!ProcStarts, Native!ProcFails, Native!ProcExits, Native!callVars,
     Native!hostVars, Native!lockVars, Native!taskVars
<1> QED BY <1>1, <1>2, <1>3, <1>4, <1>5, <1>6, <1>7, <1>8, <1>9, <1>10, <1>11, <1>13, <1>14, <1>15, <1>16 DEF
     Native!Next, Native!CallStep, Native!JobStep, Native!SpawnStep

\* Who holds a lock is in the part of the code that the lock guards.
LEMMA NativeLocksKept == ASSUME NativeInv, Native!Next PROVE NativeLocksInv'
<1> USE NoneAssumption, NamesAssumption DEF NativeInv, Native!TypeOK, NativeLocksInv, NativeJobsInv,
        InConnect, Inside, Native!procVars, Native!lockVars, Native!callVars, Native!taskVars,
        Native!hostVars, Native!Jobs, Native!Idle, Native!Go, Native!Step, Native!Begins, Native!Ended,
        Native!Forget, Native!ScheduleHost, Native!ScheduleCleanup, Native!Fails, Native!Disconnecting,
        Native!Leave
<1>1. ASSUME NEW c \in Callers, Native!Connect(c) PROVE NativeLocksInv'
  BY <1>1 DEF Native!Connect
<1>2. ASSUME NEW c \in Callers, Native!Disconnect(c) PROVE NativeLocksInv'
  BY <1>2 DEF Native!Disconnect
<1>3. ASSUME NEW c \in Callers, Native!Interrupt(c) PROVE NativeLocksInv'
  BY <1>3 DEF Native!Interrupt, Native!GivesUp, Native!Marked
<1>4. ASSUME NEW c \in Callers, Native!ConnectTakes(c) PROVE NativeLocksInv'
  BY <1>4 DEF Native!ConnectTakes, Native!Refused, Native!IsConnected
<1>5. ASSUME NEW c \in Callers, Native!PriorEnds(c) PROVE NativeLocksInv'
  BY <1>5 DEF Native!PriorEnds
<1>6. ASSUME NEW c \in Callers, Native!PrepareCloses(c) PROVE NativeLocksInv'
  BY <1>6 DEF Native!PrepareCloses
<1>7. ASSUME NEW c \in Callers, Native!Prepared(c) PROVE NativeLocksInv'
  BY <1>7 DEF Native!Prepared, Native!MustClose
<1>8. ASSUME NEW c \in Callers, Native!PrepareClosed(c) PROVE NativeLocksInv'
  BY <1>8 DEF Native!PrepareClosed, Native!ServicesClose, Native!ServicesRemain, Native!ServicesCut
<1>9. ASSUME NEW c \in Callers, Native!Spawned(c) PROVE NativeLocksInv'
  BY <1>9 DEF Native!Spawned
<1>10. ASSUME NEW c \in Callers, Native!SpawnFails(c) PROVE NativeLocksInv'
  BY <1>10 DEF Native!SpawnFails
<1>11. ASSUME NEW c \in Callers, Native!Initialized(c) PROVE NativeLocksInv'
  BY <1>11 DEF Native!Initialized, Native!IsConnected
<1>12. ASSUME NEW c \in Callers, Native!InitFails(c) PROVE NativeLocksInv'
  BY <1>12 DEF Native!InitFails
<1>13. ASSUME NEW c \in Callers, Native!FailEnds(c) PROVE NativeLocksInv'
  BY <1>13 DEF Native!FailEnds
<1>14. ASSUME NEW c \in Callers, Native!DisconnectReturns(c) PROVE NativeLocksInv'
  BY <1>14 DEF Native!DisconnectReturns
<1>15. ASSUME NEW j \in Native!Jobs, Native!Enters(j) PROVE NativeLocksInv'
  BY <1>15 DEF Native!Enters
<1>16. ASSUME NEW j \in Native!Jobs, Native!Cancelled(j) PROVE NativeLocksInv'
  BY <1>16 DEF Native!Cancelled
<1>17. ASSUME NEW j \in Native!Jobs, Native!ReadersEnd(j) PROVE NativeLocksInv'
  BY <1>17 DEF Native!ReadersEnd, Native!ReadersAfter, Native!ReadersStop
<1>18. ASSUME NEW j \in Native!Jobs, Native!Reaps(j) PROVE NativeLocksInv'
  BY <1>18 DEF Native!Reaps, Native!SpawnPending, Native!Kept
<1>19. ASSUME NEW j \in Native!Jobs, Native!HostTakes(j) PROVE NativeLocksInv'
  BY <1>19 DEF Native!HostTakes
<1>20. ASSUME NEW j \in Native!Jobs, Native!HostEnds(j) PROVE NativeLocksInv'
  BY <1>20 DEF Native!HostEnds, Native!ServicesClose, Native!ServicesRemain, Native!ServicesCut
<1>21. ASSUME Native!DisconnectTakes PROVE NativeLocksInv'
  BY <1>21 DEF Native!DisconnectTakes
<1>22. ASSUME Native!DisconnectEnds PROVE NativeLocksInv'
  BY <1>22 DEF Native!DisconnectEnds
<1>23. ASSUME Native!Claim PROVE NativeLocksInv'
  BY <1>23 DEF Native!Claim, Native!SpawnClaimed
<1>24. ASSUME Native!ClaimEnds PROVE NativeLocksInv'
  BY <1>24 DEF Native!ClaimEnds
<1>25. ASSUME Native!ReaderEnds PROVE NativeLocksInv'
  BY <1>25 DEF Native!ReaderEnds, Native!LossSchedules
<1>26. ASSUME Native!Invalidate PROVE NativeLocksInv'
  BY <1>26 DEF Native!Invalidate
<1>27. ASSUME Native!CleanupTakes PROVE NativeLocksInv'
  BY <1>27 DEF Native!CleanupTakes, Native!Current, Native!NoCleanup
<1>28. ASSUME Native!CleanupEnds PROVE NativeLocksInv'
  BY <1>28 DEF Native!CleanupEnds, Native!NoCleanup
<1>29. ASSUME UNCHANGED <<cleanup, connectLock, disconnectLock, disconnecting, job, pc>> PROVE NativeLocksInv'
  BY <1>29
<1>30. ASSUME Native!HostCleanupTakes \/ Native!HostCleanupEnds \/ Native!CreateTerminal PROVE NativeLocksInv'
  BY <1>29, <1>30 DEF Native!HostCleanupTakes, Native!HostCleanupEnds, Native!CreateTerminal,
     Native!callVars, Native!hostVars, Native!lockVars, Native!procVars, Native!taskVars
<1>31. ASSUME NEW p \in Procs,
             Native!ProcStarts(p) \/ Native!ProcFails(p) \/ Native!ProcExits(p)
      PROVE  NativeLocksInv'
  BY <1>29, <1>31 DEF Native!ProcStarts, Native!ProcFails, Native!ProcExits, Native!callVars,
     Native!hostVars, Native!lockVars, Native!taskVars
<1> QED BY <1>1, <1>2, <1>3, <1>4, <1>5, <1>6, <1>7, <1>8, <1>9, <1>10, <1>11, <1>12, <1>13, <1>14, <1>15,
     <1>16, <1>17, <1>18, <1>19, <1>20, <1>21, <1>22, <1>23, <1>24, <1>25, <1>26, <1>27, <1>28, <1>30,
     <1>31 DEF Native!Next, Native!CallStep, Native!JobStep, Native!SpawnStep

\* Whoever disconnects is there for it.
LEMMA NativeJobsKept == ASSUME NativeInv, Native!Next PROVE NativeJobsInv'
<1> USE NoneAssumption, NamesAssumption DEF NativeInv, Native!TypeOK, NativeJobsInv, NativeLocksInv,
        InConnect, Inside, Native!procVars, Native!lockVars, Native!callVars, Native!taskVars,
        Native!hostVars, Native!Jobs, Native!Idle, Native!Go, Native!Step, Native!Begins, Native!Ended,
        Native!Forget, Native!ScheduleHost, Native!ScheduleCleanup, Native!Fails, Native!Disconnecting,
        Native!Leave
<1>1. ASSUME NEW c \in Callers, Native!Connect(c) PROVE NativeJobsInv'
  BY <1>1 DEF Native!Connect
<1>2. ASSUME NEW c \in Callers, Native!Disconnect(c) PROVE NativeJobsInv'
  BY <1>2 DEF Native!Disconnect
<1>3. ASSUME NEW c \in Callers, Native!Interrupt(c) PROVE NativeJobsInv'
  BY <1>3, NativeInterruptKeeps DEF NativeInv
<1>4. ASSUME NEW c \in Callers, Native!ConnectTakes(c) PROVE NativeJobsInv'
  BY <1>4 DEF Native!ConnectTakes, Native!Refused, Native!IsConnected
<1>5. ASSUME NEW c \in Callers, Native!PriorEnds(c) PROVE NativeJobsInv'
  BY <1>5 DEF Native!PriorEnds
<1>6. ASSUME NEW c \in Callers, Native!PrepareCloses(c) PROVE NativeJobsInv'
  BY <1>6 DEF Native!PrepareCloses
<1>7. ASSUME NEW c \in Callers, Native!Prepared(c) PROVE NativeJobsInv'
  <2>1. CASE Native!Fails(c)
    BY <1>7, <2>1, NativeFailing DEF Native!Prepared, NativeInv, NativeSpawnInv
  <2>2. CASE ~Native!Fails(c)
    BY <1>7, <2>2 DEF Native!Prepared, Native!MustClose
  <2> QED BY <2>1, <2>2
<1>8. ASSUME NEW c \in Callers, Native!PrepareClosed(c) PROVE NativeJobsInv'
  <2>1. CASE Native!Fails(c)
    BY <1>8, <2>1, NativeFailing DEF Native!PrepareClosed, NativeInv, NativeSpawnInv
  <2>2. CASE ~Native!Fails(c)
    BY <1>8, <2>2 DEF Native!PrepareClosed, Native!ServicesClose, Native!ServicesRemain, Native!ServicesCut
  <2> QED BY <2>1, <2>2
<1>9. ASSUME NEW c \in Callers, Native!Spawned(c) PROVE NativeJobsInv'
  BY <1>9 DEF Native!Spawned
<1>10. ASSUME NEW c \in Callers, Native!SpawnFails(c) PROVE NativeJobsInv'
  <2>1. CASE Native!Fails(c)
    BY <1>10, <2>1, NativeFailing DEF Native!SpawnFails, NativeInv, NativeSpawnInv
  <2>2. CASE ~Native!Fails(c)
    BY <1>10, <2>2 DEF Native!SpawnFails
  <2> QED BY <2>1, <2>2
<1>11. ASSUME NEW c \in Callers, Native!Initialized(c) PROVE NativeJobsInv'
  BY <1>11 DEF Native!Initialized, Native!IsConnected
<1>12. ASSUME NEW c \in Callers, Native!InitFails(c) PROVE NativeJobsInv'
  BY <1>12 DEF Native!InitFails
<1>13. ASSUME NEW c \in Callers, Native!FailEnds(c) PROVE NativeJobsInv'
  BY <1>13 DEF Native!FailEnds
<1>14. ASSUME NEW c \in Callers, Native!DisconnectReturns(c) PROVE NativeJobsInv'
  BY <1>14 DEF Native!DisconnectReturns
<1>15. ASSUME NEW j \in Native!Jobs, Native!Enters(j) PROVE NativeJobsInv'
  BY <1>15 DEF Native!Enters
<1>16. ASSUME NEW j \in Native!Jobs, Native!Cancelled(j) PROVE NativeJobsInv'
  BY <1>16 DEF Native!Cancelled
<1>17. ASSUME NEW j \in Native!Jobs, Native!ReadersEnd(j) PROVE NativeJobsInv'
  BY <1>17 DEF Native!ReadersEnd, Native!ReadersAfter, Native!ReadersStop
<1>18. ASSUME NEW j \in Native!Jobs, Native!Reaps(j) PROVE NativeJobsInv'
  BY <1>18 DEF Native!Reaps, Native!SpawnPending, Native!Kept
<1>19. ASSUME NEW j \in Native!Jobs, Native!HostTakes(j) PROVE NativeJobsInv'
  BY <1>19 DEF Native!HostTakes
<1>20. ASSUME NEW j \in Native!Jobs, Native!HostEnds(j) PROVE NativeJobsInv'
  BY <1>20 DEF Native!HostEnds, Native!ServicesClose, Native!ServicesRemain, Native!ServicesCut
<1>21. ASSUME Native!DisconnectTakes PROVE NativeJobsInv'
  BY <1>21 DEF Native!DisconnectTakes
<1>22. ASSUME Native!DisconnectEnds PROVE NativeJobsInv'
  BY <1>22 DEF Native!DisconnectEnds
<1>23. ASSUME Native!Claim PROVE NativeJobsInv'
  BY <1>23 DEF Native!Claim, Native!SpawnClaimed
<1>24. ASSUME Native!ClaimEnds PROVE NativeJobsInv'
  BY <1>24 DEF Native!ClaimEnds
<1>25. ASSUME Native!ReaderEnds PROVE NativeJobsInv'
  BY <1>25 DEF Native!ReaderEnds, Native!LossSchedules
<1>26. ASSUME Native!Invalidate PROVE NativeJobsInv'
  BY <1>26 DEF Native!Invalidate
<1>27. ASSUME Native!CleanupTakes PROVE NativeJobsInv'
  BY <1>27 DEF Native!CleanupTakes, Native!Current, Native!NoCleanup
<1>28. ASSUME Native!CleanupEnds PROVE NativeJobsInv'
  BY <1>28 DEF Native!CleanupEnds, Native!NoCleanup
<1>29. ASSUME UNCHANGED <<claim, cleanup, disconnecting, job, pc>> PROVE NativeJobsInv'
  BY <1>29
<1>30. ASSUME Native!HostCleanupTakes \/ Native!HostCleanupEnds \/ Native!CreateTerminal PROVE NativeJobsInv'
  BY <1>29, <1>30 DEF Native!HostCleanupTakes, Native!HostCleanupEnds, Native!CreateTerminal,
     Native!callVars, Native!hostVars, Native!lockVars, Native!procVars, Native!taskVars
<1>31. ASSUME NEW p \in Procs,
             Native!ProcStarts(p) \/ Native!ProcFails(p) \/ Native!ProcExits(p)
      PROVE  NativeJobsInv'
  BY <1>29, <1>31 DEF Native!ProcStarts, Native!ProcFails, Native!ProcExits, Native!callVars,
     Native!hostVars, Native!lockVars, Native!taskVars
<1> QED BY <1>1, <1>2, <1>3, <1>4, <1>5, <1>6, <1>7, <1>8, <1>9, <1>10, <1>11, <1>12, <1>13, <1>14, <1>15,
     <1>16, <1>17, <1>18, <1>19, <1>20, <1>21, <1>22, <1>23, <1>24, <1>25, <1>26, <1>27, <1>28, <1>30,
     <1>31 DEF Native!Next, Native!CallStep, Native!JobStep, Native!SpawnStep

\* What runs is the process of the client or the one that is being started.
LEMMA NativeSpawnKept == ASSUME NativeInv, Native!Next PROVE NativeSpawnInv'
<1> USE NoneAssumption, NamesAssumption DEF NativeInv, Native!TypeOK, NativeSpawnInv, NativeLocksInv,
        NativeJobsInv, NativeDoneInv, InConnect, Past, Native!Running, Native!procVars, Native!lockVars,
        Native!callVars, Native!taskVars, Native!hostVars, Native!Jobs, Native!Idle, Native!Go,
        Native!Step, Native!Begins, Native!Ended, Native!Forget, Native!ScheduleHost,
        Native!ScheduleCleanup, Native!Fails, Native!Disconnecting, Native!Leave
<1>1. ASSUME NEW c \in Callers, Native!Connect(c) PROVE NativeSpawnInv'
  BY <1>1 DEF Native!Connect
<1>2. ASSUME NEW c \in Callers, Native!Disconnect(c) PROVE NativeSpawnInv'
  BY <1>2 DEF Native!Disconnect
<1>3. ASSUME NEW c \in Callers, Native!Interrupt(c) PROVE NativeSpawnInv'
  BY <1>3 DEF Native!Interrupt, Native!GivesUp, Native!Marked
<1>4. ASSUME NEW c \in Callers, Native!ConnectTakes(c) PROVE NativeSpawnInv'
  BY <1>4 DEF Native!ConnectTakes, Native!Refused, Native!IsConnected
<1>5. ASSUME NEW c \in Callers, Native!PriorEnds(c) PROVE NativeSpawnInv'
  BY <1>5 DEF Native!PriorEnds
<1>6. ASSUME NEW c \in Callers, Native!PrepareCloses(c) PROVE NativeSpawnInv'
  BY <1>6 DEF Native!PrepareCloses
<1>7. ASSUME NEW c \in Callers, Native!Prepared(c) PROVE NativeSpawnInv'
  BY <1>7 DEF Native!Prepared, Native!MustClose
<1>8. ASSUME NEW c \in Callers, Native!PrepareClosed(c) PROVE NativeSpawnInv'
  BY <1>8 DEF Native!PrepareClosed, Native!ServicesClose, Native!ServicesRemain, Native!ServicesCut
<1>9. ASSUME NEW c \in Callers, Native!Spawned(c) PROVE NativeSpawnInv'
  BY <1>9 DEF Native!Spawned
<1>10. ASSUME NEW c \in Callers, Native!SpawnFails(c) PROVE NativeSpawnInv'
  BY <1>10 DEF Native!SpawnFails
<1>11. ASSUME NEW c \in Callers, Native!Initialized(c) PROVE NativeSpawnInv'
  BY <1>11 DEF Native!Initialized, Native!IsConnected
<1>12. ASSUME NEW c \in Callers, Native!InitFails(c) PROVE NativeSpawnInv'
  BY <1>12 DEF Native!InitFails
<1>13. ASSUME NEW c \in Callers, Native!FailEnds(c) PROVE NativeSpawnInv'
  BY <1>13 DEF Native!FailEnds
<1>14. ASSUME NEW c \in Callers, Native!DisconnectReturns(c) PROVE NativeSpawnInv'
  BY <1>14 DEF Native!DisconnectReturns
<1>15. ASSUME NEW j \in Native!Jobs, Native!Reaps(j) PROVE NativeSpawnInv'
  BY <1>15 DEF Native!Reaps, Native!SpawnPending, Native!Kept
<1>16. ASSUME NEW p \in Procs, Native!ProcStarts(p) PROVE NativeSpawnInv'
  BY <1>16 DEF Native!ProcStarts
<1>17. ASSUME NEW p \in Procs, Native!ProcFails(p) PROVE NativeSpawnInv'
  BY <1>17 DEF Native!ProcFails
<1>18. ASSUME NEW p \in Procs, Native!ProcExits(p) PROVE NativeSpawnInv'
  BY <1>18 DEF Native!ProcExits
<1>19. ASSUME Native!Claim PROVE NativeSpawnInv'
  BY <1>19 DEF Native!Claim, Native!SpawnClaimed
<1>20. ASSUME Native!ClaimEnds PROVE NativeSpawnInv'
  BY <1>20 DEF Native!ClaimEnds
<1>21. ASSUME UNCHANGED <<claim, pc, proc, process, spawn>> PROVE NativeSpawnInv'
  BY <1>21
<1>22. ASSUME \/ Native!DisconnectTakes \/ Native!DisconnectEnds \/ Native!ReaderEnds
             \/ Native!Invalidate \/ Native!CleanupTakes \/ Native!CleanupEnds
             \/ Native!HostCleanupTakes \/ Native!HostCleanupEnds \/ Native!CreateTerminal
      PROVE  NativeSpawnInv'
  BY <1>21, <1>22 DEF Native!DisconnectTakes, Native!DisconnectEnds, Native!ReaderEnds,
     Native!Invalidate, Native!CleanupTakes, Native!CleanupEnds, Native!HostCleanupTakes,
     Native!HostCleanupEnds, Native!CreateTerminal, Native!callVars, Native!hostVars, Native!lockVars,
     Native!procVars, Native!taskVars
<1>23. ASSUME NEW j \in Native!Jobs,
             \/ Native!Enters(j) \/ Native!Cancelled(j) \/ Native!ReadersEnd(j)
             \/ Native!HostTakes(j) \/ Native!HostEnds(j)
      PROVE  NativeSpawnInv'
  BY <1>21, <1>23 DEF Native!Enters, Native!Cancelled, Native!ReadersEnd, Native!HostTakes,
     Native!HostEnds, Native!callVars, Native!hostVars, Native!lockVars, Native!procVars,
     Native!taskVars
<1> QED BY <1>1, <1>2, <1>3, <1>4, <1>5, <1>6, <1>7, <1>8, <1>9, <1>10, <1>11, <1>12, <1>13, <1>14, <1>15,
     <1>16, <1>17, <1>18, <1>19, <1>20, <1>22, <1>23 DEF Native!Next, Native!CallStep, Native!JobStep,
     Native!SpawnStep

\* A disconnect() that has not failed leaves nothing behind that it has dealt with.
LEMMA NativeDoneKept == ASSUME NativeInv, Native!Next PROVE NativeDoneInv'
<1> USE NoneAssumption, NamesAssumption DEF NativeInv, Native!TypeOK, NativeDoneInv, NativeLocksInv,
        NativeJobsInv, NativeSpawnInv, InConnect, Inside, Past, Native!procVars, Native!lockVars,
        Native!callVars, Native!taskVars, Native!hostVars, Native!Jobs, Native!Idle, Native!Go,
        Native!Step, Native!Begins, Native!Ended, Native!Forget, Native!ScheduleHost,
        Native!ScheduleCleanup, Native!Fails, Native!Disconnecting, Native!Leave
<1>1. ASSUME NEW c \in Callers, Native!Interrupt(c) PROVE NativeDoneInv'
  BY <1>1, NativeInterruptKeeps DEF NativeInv
<1>2. ASSUME NEW c \in Callers, Native!ConnectTakes(c) PROVE NativeDoneInv'
  BY <1>2 DEF Native!ConnectTakes, Native!Refused, Native!IsConnected
<1>3. ASSUME NEW c \in Callers, Native!PriorEnds(c) PROVE NativeDoneInv'
  BY <1>3 DEF Native!PriorEnds
<1>4. ASSUME NEW c \in Callers, Native!Prepared(c) PROVE NativeDoneInv'
  BY <1>4 DEF Native!Prepared, Native!MustClose
<1>5. ASSUME NEW c \in Callers, Native!PrepareClosed(c) PROVE NativeDoneInv'
  BY <1>5 DEF Native!PrepareClosed, Native!ServicesClose, Native!ServicesRemain, Native!ServicesCut
<1>6. ASSUME NEW c \in Callers, Native!Spawned(c) PROVE NativeDoneInv'
  BY <1>6 DEF Native!Spawned
<1>7. ASSUME NEW c \in Callers, Native!SpawnFails(c) PROVE NativeDoneInv'
  BY <1>7 DEF Native!SpawnFails
<1>8. ASSUME NEW c \in Callers, Native!InitFails(c) PROVE NativeDoneInv'
  BY <1>8 DEF Native!InitFails
<1>9. ASSUME NEW c \in Callers, Native!FailEnds(c) PROVE NativeDoneInv'
  BY <1>9 DEF Native!FailEnds
<1>10. ASSUME NEW j \in Native!Jobs, Native!Enters(j) PROVE NativeDoneInv'
  BY <1>10 DEF Native!Enters
<1>11. ASSUME NEW j \in Native!Jobs, Native!Cancelled(j) PROVE NativeDoneInv'
  BY <1>11 DEF Native!Cancelled
<1>12. ASSUME NEW j \in Native!Jobs, Native!ReadersEnd(j) PROVE NativeDoneInv'
  BY <1>12 DEF Native!ReadersEnd, Native!ReadersAfter, Native!ReadersStop
<1>13. ASSUME NEW j \in Native!Jobs, Native!Reaps(j) PROVE NativeDoneInv'
  BY <1>13 DEF Native!Reaps, Native!SpawnPending, Native!Kept
<1>14. ASSUME NEW j \in Native!Jobs, Native!HostTakes(j) PROVE NativeDoneInv'
  BY <1>14 DEF Native!HostTakes
<1>15. ASSUME NEW j \in Native!Jobs, Native!HostEnds(j) PROVE NativeDoneInv'
  BY <1>15 DEF Native!HostEnds, Native!ServicesClose, Native!ServicesRemain, Native!ServicesCut
<1>16. ASSUME Native!DisconnectTakes PROVE NativeDoneInv'
  BY <1>16 DEF Native!DisconnectTakes
<1>17. ASSUME Native!DisconnectEnds PROVE NativeDoneInv'
  BY <1>17 DEF Native!DisconnectEnds
<1>18. ASSUME Native!Claim PROVE NativeDoneInv'
  BY <1>18 DEF Native!Claim, Native!SpawnClaimed
<1>19. ASSUME Native!ClaimEnds PROVE NativeDoneInv'
  BY <1>19 DEF Native!ClaimEnds
<1>20. ASSUME Native!ReaderEnds PROVE NativeDoneInv'
  BY <1>20 DEF Native!ReaderEnds, Native!LossSchedules
<1>21. ASSUME Native!Invalidate PROVE NativeDoneInv'
  BY <1>21 DEF Native!Invalidate
<1>22. ASSUME Native!CleanupTakes PROVE NativeDoneInv'
  BY <1>22 DEF Native!CleanupTakes, Native!Current, Native!NoCleanup
<1>23. ASSUME Native!CleanupEnds PROVE NativeDoneInv'
  BY <1>23 DEF Native!CleanupEnds, Native!NoCleanup
<1>24. ASSUME Native!HostCleanupEnds PROVE NativeDoneInv'
  BY <1>24 DEF Native!HostCleanupEnds, Native!ServicesClose, Native!ServicesRemain
<1>25. ASSUME Native!CreateTerminal PROVE NativeDoneInv'
  BY <1>25 DEF Native!CreateTerminal
<1>26. ASSUME UNCHANGED <<connected, job, process, spawn, terminals>> PROVE NativeDoneInv'
  BY <1>26
<1>27. ASSUME Native!HostCleanupTakes PROVE NativeDoneInv'
  BY <1>26, <1>27 DEF Native!HostCleanupTakes, Native!callVars, Native!hostVars, Native!procVars
<1>28. ASSUME NEW c \in Callers,
             \/ Native!Connect(c) \/ Native!Disconnect(c) \/ Native!PrepareCloses(c)
             \/ Native!Initialized(c) \/ Native!DisconnectReturns(c)
      PROVE  NativeDoneInv'
  BY <1>26, <1>28 DEF Native!Connect, Native!Disconnect, Native!PrepareCloses, Native!Initialized,
     Native!DisconnectReturns, Native!hostVars, Native!lockVars, Native!procVars, Native!taskVars
<1>29. ASSUME NEW p \in Procs,
             Native!ProcStarts(p) \/ Native!ProcFails(p) \/ Native!ProcExits(p)
      PROVE  NativeDoneInv'
  BY <1>26, <1>29 DEF Native!ProcStarts, Native!ProcFails, Native!ProcExits, Native!callVars,
     Native!hostVars, Native!lockVars, Native!taskVars
<1> QED BY <1>1, <1>2, <1>3, <1>4, <1>5, <1>6, <1>7, <1>8, <1>9, <1>10, <1>11, <1>12, <1>13, <1>14, <1>15,
     <1>16, <1>17, <1>18, <1>19, <1>20, <1>21, <1>22, <1>23, <1>24, <1>25, <1>27, <1>28, <1>29 DEF
     Native!Next, Native!CallStep, Native!JobStep, Native!SpawnStep

\* The clean-up at work meets no later process.
LEMMA NativeLaterKept == ASSUME NativeInv, Native!Next PROVE NativeLaterInv'
<1> USE NoneAssumption, NamesAssumption DEF NativeInv, Native!TypeOK, NativeLaterInv, NativeLocksInv,
        NativeJobsInv, NativeSpawnInv, InConnect, Native!procVars, Native!lockVars, Native!callVars,
        Native!taskVars, Native!hostVars, Native!Jobs, Native!Idle, Native!Go, Native!Step,
        Native!Begins, Native!Ended, Native!Forget, Native!ScheduleHost, Native!ScheduleCleanup,
        Native!Fails, Native!Disconnecting
<1>1. ASSUME NEW c \in Callers, Native!Interrupt(c) PROVE NativeLaterInv'
  BY <1>1 DEF Native!Interrupt, Native!GivesUp, Native!Marked
<1>2. ASSUME NEW c \in Callers, Native!Prepared(c) PROVE NativeLaterInv'
  BY <1>2 DEF Native!Prepared, Native!MustClose
<1>3. ASSUME NEW c \in Callers, Native!Spawned(c) PROVE NativeLaterInv'
  BY <1>3 DEF Native!Spawned
<1>4. ASSUME NEW c \in Callers, Native!SpawnFails(c) PROVE NativeLaterInv'
  BY <1>4 DEF Native!SpawnFails
<1>5. ASSUME NEW c \in Callers, Native!InitFails(c) PROVE NativeLaterInv'
  BY <1>5 DEF Native!InitFails
<1>6. ASSUME NEW j \in Native!Jobs, Native!Reaps(j) PROVE NativeLaterInv'
  BY <1>6 DEF Native!Reaps, Native!SpawnPending, Native!Kept
<1>7. ASSUME Native!Claim PROVE NativeLaterInv'
  BY <1>7 DEF Native!Claim, Native!SpawnClaimed
<1>8. ASSUME Native!ClaimEnds PROVE NativeLaterInv'
  BY <1>8 DEF Native!ClaimEnds
<1>9. ASSUME Native!ReaderEnds PROVE NativeLaterInv'
  BY <1>9 DEF Native!ReaderEnds, Native!LossSchedules
<1>10. ASSUME Native!Invalidate PROVE NativeLaterInv'
  BY <1>10 DEF Native!Invalidate
<1>11. ASSUME Native!CleanupTakes PROVE NativeLaterInv'
  BY <1>11 DEF Native!CleanupTakes, Native!Current, Native!NoCleanup
<1>12. ASSUME Native!CleanupEnds PROVE NativeLaterInv'
  BY <1>12 DEF Native!CleanupEnds, Native!NoCleanup
<1>13. ASSUME UNCHANGED <<claim, cleanup, process, spawn>> PROVE NativeLaterInv'
  BY <1>13
<1>14. ASSUME \/ Native!DisconnectTakes \/ Native!DisconnectEnds \/ Native!HostCleanupTakes
             \/ Native!HostCleanupEnds \/ Native!CreateTerminal
      PROVE  NativeLaterInv'
  BY <1>13, <1>14 DEF Native!DisconnectTakes, Native!DisconnectEnds, Native!HostCleanupTakes,
     Native!HostCleanupEnds, Native!CreateTerminal, Native!callVars, Native!hostVars, Native!lockVars,
     Native!procVars, Native!taskVars
<1>15. ASSUME NEW c \in Callers,
             \/ Native!Connect(c) \/ Native!Disconnect(c) \/ Native!ConnectTakes(c)
             \/ Native!PriorEnds(c) \/ Native!PrepareCloses(c) \/ Native!PrepareClosed(c)
             \/ Native!Initialized(c) \/ Native!FailEnds(c) \/ Native!DisconnectReturns(c)
      PROVE  NativeLaterInv'
  BY <1>13, <1>15 DEF Native!Connect, Native!Disconnect, Native!ConnectTakes, Native!PriorEnds,
     Native!PrepareCloses, Native!PrepareClosed, Native!Initialized, Native!FailEnds,
     Native!DisconnectReturns, Native!hostVars, Native!lockVars, Native!procVars, Native!taskVars
<1>16. ASSUME NEW j \in Native!Jobs,
             \/ Native!Enters(j) \/ Native!Cancelled(j) \/ Native!ReadersEnd(j)
             \/ Native!HostTakes(j) \/ Native!HostEnds(j)
      PROVE  NativeLaterInv'
  BY <1>13, <1>16 DEF Native!Enters, Native!Cancelled, Native!ReadersEnd, Native!HostTakes,
     Native!HostEnds, Native!callVars, Native!hostVars, Native!lockVars, Native!procVars,
     Native!taskVars
<1>17. ASSUME NEW p \in Procs,
             Native!ProcStarts(p) \/ Native!ProcFails(p) \/ Native!ProcExits(p)
      PROVE  NativeLaterInv'
  BY <1>13, <1>17 DEF Native!ProcStarts, Native!ProcFails, Native!ProcExits, Native!callVars,
     Native!hostVars, Native!lockVars, Native!taskVars
<1> QED BY <1>1, <1>2, <1>3, <1>4, <1>5, <1>6, <1>7, <1>8, <1>9, <1>10, <1>11, <1>12, <1>14, <1>15, <1>16,
     <1>17 DEF Native!Next, Native!CallStep, Native!JobStep, Native!SpawnStep

\* It holds of a client that was just made.
LEMMA NativeStarts == Native!Init => NativeInv
<1> SUFFICES ASSUME Native!Init PROVE NativeInv
  OBVIOUS
<1>1. Native!TypeOK
  BY NoneAssumption DEF Native!Init, Native!TypeOK, Native!Idle
<1>2. NativeLocksInv /\ NativeJobsInv /\ NativeDoneInv
  BY NoneAssumption, NamesAssumption
     DEF Native!Init, NativeLocksInv, NativeJobsInv, NativeDoneInv, InConnect, Inside, Past, Native!Jobs,
         Native!Idle
<1>3. NativeSpawnInv /\ NativeLaterInv
  BY NoneAssumption DEF Native!Init, NativeSpawnInv, NativeLaterInv, Native!Running
<1> QED BY <1>1, <1>2, <1>3 DEF NativeInv

\* Every step keeps it.
LEMMA NativeKeeps == NativeInv /\ [Native!Next]_(Native!vars) => NativeInv'
<1>1. ASSUME NativeInv, Native!Next PROVE NativeInv'
  <2>1. Native!TypeOK'
    <3>1. NativeProcType' /\ NativeLockType' /\ NativeCallType' /\ NativeJobType' /\ NativeTaskType' /\ NativeFlagType'
      BY <1>1, NativeProcKept, NativeLocksTyped, NativeCallsTyped, NativeJobKept, NativeTasksTyped, NativeFlagsTyped
    <3> QED BY <3>1, NativeTypeParts, PTL
  <2> QED BY <1>1, <2>1, NativeLocksKept, NativeJobsKept, NativeSpawnKept, NativeDoneKept, NativeLaterKept DEF
          NativeInv
<1>2. ASSUME NativeInv, UNCHANGED Native!vars PROVE NativeInv'
  <2>1. Native!TypeOK'
    BY <1>2 DEF NativeInv, Native!TypeOK, Native!vars, Native!lockVars, Native!callVars, Native!taskVars,
       Native!hostVars
  <2>2. NativeLocksInv' /\ NativeJobsInv' /\ NativeSpawnInv' /\ NativeDoneInv' /\ NativeLaterInv'
    BY <1>2 DEF NativeInv, NativeLocksInv, NativeJobsInv, NativeSpawnInv, NativeDoneInv, NativeLaterInv,
       Native!Running,
       Native!vars, Native!lockVars, Native!callVars, Native!taskVars, Native!hostVars
  <2> QED BY <2>1, <2>2 DEF NativeInv
<1> QED BY <1>1, <1>2

-----------------------------------------------------------------------------
(* The native client keeps the contract *)

\* At most one process runs, and the client can clean it up.
LEMMA NativeSafe == ASSUME kind = "native", NativeInv PROVE Safe
<1>1. Holds = ({process, spawn} \ {None}) \cup (IF terminals THEN {"terminals"} ELSE {})
  BY DEF Holds
<1>2. Running \subseteq {process, spawn} /\ (claim = "in" => Running \subseteq {process}) /\ Running \subseteq Procs
  BY DEF NativeInv, NativeSpawnInv, Native!Running, Running
<1>3. process \in Procs \cup {None} /\ spawn \in Procs \cup {None} /\ (spawn # None => process = None \/ process = spawn)
  BY DEF NativeInv, Native!TypeOK, NativeSpawnInv
<1> QED BY <1>1, <1>2, <1>3, NoneAssumption DEF Safe

\* disconnect() begins for a caller, or is at work already.
LEMMA NativeBegins ==
    ASSUME Running' = Running,
           \/ disconnecting' = disconnecting
           \/ disconnecting' = IF disconnecting \in {"lock", "in"} THEN disconnecting ELSE "lock"
    PROVE  Keeps \/ Begun
BY DEF Keeps, Begun, Closing

\* A process is started only while none can run: connect() has _connect_lock,
\* and has reaped what there was.
LEMMA NativeLaunches ==
    ASSUME NativeInv, NEW c \in Callers, Native!Prepared(c)
    PROVE  Keeps \/ Launches
<1>1. Running = {}
  BY NoneAssumption DEF Native!Prepared, NativeInv, NativeSpawnInv, Native!Running, Running
<1>2. Closing' = Closing
  BY DEF Native!Prepared, Native!taskVars, Closing
<1>3. CASE UNCHANGED proc
  BY <1>2, <1>3 DEF Running, Keeps
<1>4. ASSUME NEW p \in Procs, proc' = [proc EXCEPT ![p] = "starting"] PROVE Launches
  <2>1. Running' = {p}
    BY <1>1, <1>4 DEF Running, NativeInv, Native!TypeOK
  <2> QED BY <1>1, <1>2, <2>1 DEF Launches
<1> QED BY <1>3, <1>4 DEF Native!Prepared

\* disconnect() that succeeds has nothing left: it has reaped the process, no
\* start was pending, and the services were closed after the connection was
\* given up, so no terminal was made since.
LEMMA NativeCloses ==
    ASSUME kind = "native", kind' = kind, NativeInv, Native!DisconnectEnds
    PROVE  Moves
<1>1. UNCHANGED <<proc, process, spawn, terminals>> /\ disconnecting = "in" /\ job["disconnect"].step = "done"
  BY DEF Native!DisconnectEnds, Native!procVars, Native!hostVars, Native!Ended
<1>2. Running' = Running
  BY <1>1 DEF Running
<1>3. CASE job["disconnect"].failed
  <2>1. disconnecting' = "bad"
    BY <1>3 DEF Native!DisconnectEnds
  <2> QED BY <1>1, <1>2, <2>1 DEF Moves, Left, Closing
<1>4. CASE ~job["disconnect"].failed
  <2>1. disconnecting' = "ok"
    BY <1>4 DEF Native!DisconnectEnds
  <2>2. process = None /\ spawn = None /\ ~terminals
    BY <1>1, <1>4, NamesAssumption DEF NativeInv, NativeDoneInv, Past, Native!Jobs
  <2>3. Holds' = {}
    BY <1>1, <2>2 DEF Holds
  <2> QED BY <1>1, <2>1, <2>3 DEF Moves, Emptied, Closing
<1> QED BY <1>3, <1>4

\* Every step of the client is one that the contract allows.
LEMMA NativeMoves == ASSUME kind = "native", kind' = kind, NativeInv, Native!Next PROVE Moves
<1>1. ASSUME NEW c \in Callers,
             \/ Native!Connect(c) \/ Native!Disconnect(c) \/ Native!Interrupt(c) \/ Native!ConnectTakes(c)
             \/ Native!PriorEnds(c) \/ Native!PrepareCloses(c) \/ Native!PrepareClosed(c) \/ Native!Spawned(c)
             \/ Native!SpawnFails(c) \/ Native!Initialized(c) \/ Native!InitFails(c) \/ Native!FailEnds(c)
             \/ Native!DisconnectReturns(c)
      PROVE  Keeps \/ Begun
  <2>1. UNCHANGED proc
    BY <1>1 DEF Native!Connect, Native!Disconnect, Native!Interrupt, Native!ConnectTakes, Native!PriorEnds,
       Native!PrepareCloses, Native!PrepareClosed, Native!Spawned, Native!SpawnFails, Native!Initialized,
       Native!InitFails, Native!FailEnds, Native!DisconnectReturns, Native!procVars
  <2>2. \/ disconnecting' = disconnecting
        \/ disconnecting' = IF disconnecting \in {"lock", "in"} THEN disconnecting ELSE "lock"
    BY <1>1 DEF Native!Connect, Native!Disconnect, Native!Interrupt, Native!ConnectTakes, Native!PriorEnds,
       Native!PrepareCloses, Native!PrepareClosed, Native!Spawned, Native!SpawnFails, Native!Initialized,
       Native!InitFails, Native!FailEnds, Native!DisconnectReturns, Native!taskVars, Native!Leave,
       Native!Disconnecting,
       Native!GivesUp
  <2> QED BY <2>1, <2>2, NativeBegins DEF Running
<1>2. ASSUME \/ Native!Claim \/ Native!ClaimEnds \/ Native!ReaderEnds \/ Native!Invalidate \/ Native!CleanupTakes
             \/ Native!CleanupEnds \/ Native!HostCleanupTakes \/ Native!HostCleanupEnds \/ Native!CreateTerminal
             \/ Native!DisconnectTakes
      PROVE  Keeps
  BY <1>2 DEF Native!Claim, Native!ClaimEnds, Native!ReaderEnds, Native!Invalidate, Native!CleanupTakes,
     Native!CleanupEnds,
     Native!HostCleanupTakes, Native!HostCleanupEnds, Native!CreateTerminal, Native!DisconnectTakes,
     Native!procVars,
     Native!taskVars, Running, Closing, Keeps
<1>3. ASSUME Running' \in {Running} \cup {Running \ {p} : p \in Procs}, UNCHANGED disconnecting PROVE Keeps
  BY <1>3, NativeSafe DEF Safe, Keeps, Closing
<1>4. ASSUME NEW p \in Procs, Native!SpawnStep(p) \/ Native!ProcExits(p) PROVE Keeps
  <2>1. Running' \in {Running, Running \ {p}} /\ UNCHANGED disconnecting
    BY <1>4 DEF Native!SpawnStep, Native!ProcStarts, Native!ProcFails, Native!ProcExits, Native!taskVars, Running,
       NativeInv, Native!TypeOK
  <2> QED BY <1>3, <2>1
<1>5. ASSUME NEW j \in Native!Jobs, Native!JobStep(j) PROVE Keeps
  <2>1. proc' = proc \/ (process # None /\ proc' = [proc EXCEPT ![process] = "dead"])
    BY <1>5 DEF Native!JobStep, Native!Enters, Native!Cancelled, Native!ReadersEnd, Native!Reaps, Native!HostTakes,
       Native!HostEnds, Native!procVars
  <2>2. UNCHANGED disconnecting
    BY <1>5 DEF Native!JobStep, Native!Enters, Native!Cancelled, Native!ReadersEnd, Native!Reaps, Native!HostTakes,
       Native!HostEnds, Native!taskVars
  <2>3. Running' = Running \/ \E p \in Procs : Running' = Running \ {p}
    BY <2>1 DEF Running, NativeInv, Native!TypeOK
  <2> QED BY <1>3, <2>2, <2>3
<1> QED BY <1>1, <1>2, <1>4, <1>5, NativeLaunches, NativeCloses
        DEF Native!Next, Native!CallStep, Moves

-----------------------------------------------------------------------------
(* The OpenCode client: its invariant *)

\* Steps of _disconnect_locked after the connection was given up.
Down == {"stop", "close", "writes", "join", "drop"}
Steps == {"cancel"} \cup Down

\* The job: a connect() has a phase, and is in _disconnect_locked in the first
\* and the last of them; the others always are.
JobInv ==
    /\ job.who = "none" <=> job = Idle
    /\ job.who # "none" => job.phase # "none" /\ (job.step = "none" <=> job.phase \in {"spawn", "init"})
    /\ job.phase = "only" <=> job.who \in {"disconnect", "cleanup"}
    /\ disconnecting = "in" <=> job.who = "disconnect"
    /\ job.who = "cleanup" <=> cleanup.step = "in"
    /\ job.cut => job.who = "connect"

\* The process of a client, and the one that is being started.
SpawnInv ==
    /\ claim # "none" => spawn # None
    /\ spawn # None => claim # "none" \/ job.phase = "spawn"
    /\ claim # "none" => job.phase # "spawn"
    /\ spawn # None => process = IF claim = "in" THEN spawn ELSE None
    /\ spawn # None => proc[spawn] \notin {"none", "closed"}
    /\ Running \subseteq {process, spawn}
    /\ \A p \in Procs : proc[p] = "held" => p \in {process, spawn}
    /\ process # None => proc[process] \in {"alive", "held", "dead"}

\* What a disconnect() has dealt with, as long as it has not failed.
StepInv ==
    /\ job.phase \in {"spawn", "init"} => (job.phase = "spawn" => process = None /\ writes = {}) /\ ~job.failed
    /\ job.phase = "init" => process # None /\ spawn = None
    /\ job.step = "close" => process # None /\ spawn = None
    /\ ~job.failed =>
        /\ job.step \in {"close", "writes", "join", "drop"} => spawn = None
        /\ job.step \in {"writes", "join", "drop"} => process = None
        /\ job.step \in {"join", "drop"} => writes = {}
        /\ job.step = "drop" => thread = None

\* The reader threads: only the one the client knows runs, and it is forgotten
\* only when it has ended.
OwnReader(q) ==
    \/ reader[q].from = q
    \/ reader[q].from = None /\ reader[q].at = "new"
    \/ reader[q].from = None /\ reader[q].at \in {"look", "post"} /\ reader[q].item = "end"
ThreadInv ==
    /\ Threads \subseteq {thread} \ {None}
    /\ \A q \in Threads : OwnReader(q)
    /\ spawn # None => Threads = {}
    /\ job.phase = "spawn" => Threads = {}
    /\ Threads # {} =>
         /\ process \in {None, thread}
         /\ \/ process = thread
            \/ job.step \in Steps \ {"drop"}
            \/ disconnecting = "lock"

\* A connection that is up has a process, and nobody disconnects it.
UpInv ==
    connected =>
        /\ process # None /\ spawn = None
        /\ job.step \in {"none", "cancel"} /\ job.phase # "spawn"

\* Its threads and callbacks are its own.
AloneInv ==
    connected =>
        /\ \A q \in Threads : q = process /\ (reader[q].at = "new" \/ reader[q].from = process)
        /\ \A i \in 1 .. Len(ready) : ready[i].from = process

\* A thread that posts has something to post, and a queue to post it to.
PostInv ==
    \A q \in Procs : /\ reader[q].at \in {"look", "post"} => reader[q].item \in Items
                     /\ reader[q].at = "post" => reader[q].queue \in Procs

CountInv ==
    /\ scheduled <= Limit + 1 /\ (~overflow => scheduled <= Limit)
    /\ queue # None => scheduled = Len(ready) + Len(inbox)

\* A clean-up that is at work disconnects the process it was scheduled for.
LaterInv ==
    /\ cleanup.step # "none" => cleanup.expected # None
    /\ job.who = "cleanup" => process \in {None, cleanup.expected} /\ (spawn # None => claim = "in")

JobType == [who : {"none", "connect", "disconnect", "cleanup"},
            phase : {"none", "prior", "spawn", "init", "fail", "only"},
            step : {"none", "cancel", "stop", "close", "writes", "join", "drop"},
            failed : BOOLEAN, cut : BOOLEAN]

OpenCodeInv == TypeOK /\ JobInv /\ SpawnInv /\ StepInv /\ UpInv /\ PostInv /\ CountInv /\ LaterInv
ConnInv == ThreadInv /\ AloneInv /\ OwnConnection

\* What the steps of a job make of its record.
LEMMA JobUpdates ==
    ASSUME job \in JobType
    PROVE  /\ \A step \in Steps : Go(step) => /\ job' \in JobType /\ job'.step = step
                                             /\ UNCHANGED <<job.who, job.phase, job.failed, job.cut>>
           /\ \A step \in Steps : Fails(step) => /\ job' \in JobType /\ job'.step = step /\ job'.failed
                                                /\ UNCHANGED <<job.who, job.phase, job.cut>>
           /\ \A cut \in BOOLEAN : Undo(cut) => /\ job' \in JobType /\ job'.phase = "fail" /\ job'.step = "cancel"
                                               /\ ~job'.failed /\ job'.cut = (job.cut \/ cut) /\ UNCHANGED job.who
<1>1. ASSUME NEW step \in Steps, Go(step)
      PROVE  job' \in JobType /\ job'.step = step /\ UNCHANGED <<job.who, job.phase, job.failed, job.cut>>
  BY <1>1 DEF Go, JobType, Steps, Down
<1>2. ASSUME NEW step \in Steps, Fails(step)
      PROVE  job' \in JobType /\ job'.step = step /\ job'.failed /\ UNCHANGED <<job.who, job.phase, job.cut>>
  BY <1>2 DEF Fails, JobType, Steps, Down
<1>3. ASSUME NEW cut \in BOOLEAN, Undo(cut)
      PROVE  /\ job' \in JobType /\ job'.phase = "fail" /\ job'.step = "cancel"
             /\ ~job'.failed /\ job'.cut = (job.cut \/ cut) /\ UNCHANGED job.who
  BY <1>3 DEF Undo, JobType
<1> QED BY <1>1, <1>2, <1>3

\* A job begins with the agent's cancellation.
LEMMA JobBegins ==
    ASSUME NEW who \in {"connect", "disconnect", "cleanup"}, NEW phase \in {"prior", "only"}, Begins(who, phase)
    PROVE  job' \in JobType /\ job'.who = who /\ job'.phase = phase /\ job'.step = "cancel" /\ ~job'.failed /\ ~job'.cut
BY DEF Begins, JobType

\* There is no job.
LEMMA IdleIs ==
    Idle \in JobType /\ Idle.who = "none" /\ Idle.phase = "none" /\ Idle.step = "none" /\ ~Idle.failed /\ ~Idle.cut
BY DEF Idle, JobType

\* What an interrupted connect() leaves: a disconnect() that is asked for,
\* or its own undoing.
LEMMA InterruptJob ==
    ASSUME TypeOK, JobInv, Interrupt
    PROVE  /\ job.who = "connect" /\ UNCHANGED <<procVars, process, spawn, readVars, queueVars, writes>>
           /\ IF job.phase = "spawn" /\ spawn # None THEN claim' = "wait" ELSE claim' = claim
           /\ connected' = connected \/ connected' = FALSE
           /\ \/ /\ job' = Idle /\ disconnecting' = "lock" /\ job.phase = "prior" /\ job.step \in {"cancel", "writes", "join"}
              \/ /\ disconnecting' = disconnecting /\ job' \in JobType /\ job'.who = "connect" /\ job'.cut
                 /\ \/ /\ job.phase = "prior" /\ job'.phase = "prior" /\ job'.failed
                       /\ \/ job.step = "stop" /\ job'.step = "stop"
                          \/ job.step = "close" /\ job'.step = "writes"
                    \/ /\ job.phase = "fail" \/ (job.phase = "prior" /\ job.step = "drop")
                       /\ job'.phase = job.phase /\ job'.step = job.step /\ job'.failed = job.failed
                    \/ /\ job.phase \in {"spawn", "init"} /\ job'.phase = "fail" /\ job'.step = "cancel" /\ ~job'.failed
           /\ job.phase # "init" => UNCHANGED <<connected, cleanup>>
           /\ cleanup' = cleanup \/ (cleanup.step = "none" /\ cleanup'.step = "lock")
           /\ cleanup' \in [step : {"none", "lock", "in"}, expected : Procs \cup {None}]
<1> USE DEF Interrupt
<1>1. CASE job.phase = "prior" /\ job.step \in {"cancel", "writes", "join"}
  BY <1>1 DEF TypeOK, Leave
<1>2. CASE job.phase = "prior" /\ job.step \in {"stop", "close"}
  BY <1>2 DEF TypeOK, JobType
<1>3. CASE job.phase = "fail" \/ (job.phase = "prior" /\ job.step = "drop")
  BY <1>3 DEF TypeOK, JobType
<1>4. CASE job.phase = "spawn"
  BY <1>4, JobUpdates DEF TypeOK, JobType, ownVars, jobVars
<1>5. CASE job.phase = "init"
  <2>1. Undo(TRUE) /\ Retired /\ UNCHANGED <<claim, disconnecting>>
        /\ job \in JobType /\ job.who = "connect" /\ job.cut = FALSE
    BY <1>5 DEF TypeOK, JobType
  <2>2. job' \in JobType /\ job'.phase = "fail" /\ job'.step = "cancel" /\ ~job'.failed /\ job'.cut
        /\ job'.who = "connect"
    BY <2>1, JobUpdates
  <2>3. /\ cleanup' = cleanup \/ (cleanup.step = "none" /\ cleanup'.step = "lock")
        /\ cleanup' \in [step : {"none", "lock", "in"}, expected : Procs \cup {None}]
    BY <2>1 DEF TypeOK, Retired, ScheduleCleanup
  <2>4. (connected' = connected \/ connected' = FALSE) /\ UNCHANGED <<procVars, process, spawn, readVars, queueVars, writes>>
    BY <2>1 DEF Retired
  <2> QED BY <1>5, <2>1, <2>2, <2>3, <2>4
<1> QED BY <1>1, <1>2, <1>3, <1>4, <1>5 DEF JobInv, TypeOK

\* How the job ends that has dropped the queue.
LEMMA DroppedJob ==
    ASSUME TypeOK, JobInv, Drop
    PROVE  /\ \/ /\ job.phase = "prior" /\ ~job.failed /\ UNCHANGED <<disconnecting, cleanup>>
                 /\ job' \in JobType /\ job'.who = "connect" /\ job'.phase = "spawn" /\ job'.step = "none"
                 /\ ~job'.failed /\ job'.cut = job.cut
              \/ /\ job.who = "connect" /\ job' = Idle /\ cleanup' = cleanup
                 /\ disconnecting' \in {disconnecting, "lock"}
              \/ /\ job.who = "disconnect" /\ job' = Idle /\ cleanup' = cleanup
                 /\ disconnecting' = IF job.failed THEN "bad" ELSE "ok"
              \/ /\ job.who = "cleanup" /\ job' = Idle /\ cleanup' = NoCleanup /\ UNCHANGED disconnecting
<1>1. /\ job.step = "drop" /\ job.who \in {"connect", "disconnect", "cleanup"}
      /\ job.phase = "only" <=> job.who \in {"disconnect", "cleanup"}
      /\ job.phase \in {"prior", "fail", "only"} /\ job.failed \in BOOLEAN /\ job.cut \in BOOLEAN
  BY DEF TypeOK, JobInv, Drop, Idle
<1>2. CASE job.phase = "prior" /\ ~job.failed
  <2>1. /\ job' = [Idle EXCEPT !.who = "connect", !.phase = "spawn", !.cut = job.cut]
        /\ UNCHANGED <<disconnecting, cleanup>>
    BY <1>1, <1>2 DEF Drop, Disconnected
  <2> QED BY <1>1, <1>2, <2>1 DEF Idle, JobType
<1>3. CASE job.who = "connect" /\ ~(job.phase = "prior" /\ ~job.failed)
  BY <1>1, <1>3 DEF Drop, Disconnected, Leave
<1>4. CASE job.who = "disconnect"
  BY <1>1, <1>4 DEF Drop, Disconnected
<1>5. CASE job.who = "cleanup"
  BY <1>1, <1>5 DEF Drop, Disconnected
<1> QED BY <1>1, <1>2, <1>3, <1>4, <1>5

\* How connect() begins.
LEMMA ConnectJob ==
    ASSUME Connect
    PROVE  /\ UNCHANGED <<procVars, ownVars, connected, disconnecting, cleanup, readVars, queueVars, writes>>
           /\ job = Idle /\ disconnecting # "lock" /\ ~IsConnected
           /\ job' \in JobType /\ job'.who = "connect" /\ ~job'.failed /\ ~job'.cut
           /\ \/ MustDisconnect /\ job'.phase = "prior" /\ job'.step = "cancel"
              \/ ~MustDisconnect /\ job'.phase = "spawn" /\ job'.step = "none"
<1>1. CASE MustDisconnect
  <2>1. Begins("connect", "prior")
    BY <1>1 DEF Connect
  <2> QED BY <1>1, <2>1, JobBegins DEF Connect
<1>2. CASE ~MustDisconnect
  <2>1. job' = [who |-> "connect", phase |-> "spawn", step |-> "none", failed |-> FALSE, cut |-> FALSE]
    BY <1>2 DEF Connect, Idle
  <2> QED BY <1>2, <2>1 DEF Connect, JobType
<1> QED BY <1>1, <1>2

-----------------------------------------------------------------------------
(* The OpenCode client: types *)

ProcType ==
    /\ proc \in [Procs -> {"none", "starting", "alive", "failed", "held", "dead", "closed"}]
    /\ pipe \in [Procs -> 0 .. Frames]
OwnType ==
    /\ process \in Procs \cup {None} /\ spawn \in Procs \cup {None}
    /\ claim \in {"none", "wait", "in"} /\ connected \in BOOLEAN /\ writes \subseteq Procs
LockType ==
    /\ disconnecting \in {"none", "lock", "in", "ok", "bad"}
    /\ cleanup \in [step : {"none", "lock", "in"}, expected : Procs \cup {None}]
ReaderType == [at : {"none", "new", "read", "look", "post"}, from : Procs \cup {None},
               item : Items0, queue : Procs \cup {None}]
ThreadType == reader \in [Procs -> ReaderType] /\ thread \in Procs \cup {None}
Post == [queue : Procs, from : Procs \cup {None}, item : Items]
Message == [from : Procs \cup {None}, item : Items]
QueueType ==
    /\ ready \in Seq(Post) /\ queue \in Procs \cup {None} /\ inbox \in Seq(Message)
    /\ scheduled \in 0 .. Limit + 1 /\ overflow \in BOOLEAN
    /\ dispatcher \in [at : {"none", "get", "handle"}, from : Procs \cup {None}]

\* The types, one group of variables at a time.
LEMMA TypeParts ==
    TypeOK <=> /\ ProcType /\ OwnType /\ LockType /\ ThreadType /\ QueueType
               /\ job \in JobType
BY DEF TypeOK, ProcType, OwnType, LockType, ThreadType, QueueType, ReaderType, Post, Message, JobType

\* Where a reader thread goes on after it has dealt with a frame.
LEMMA ContinuesTo ==
    ASSUME ThreadType, NEW q \in Procs, Continues(q)
    PROVE  /\ reader' \in [Procs -> ReaderType] /\ \A r \in Procs \ {q} : reader'[r] = reader[r]
           /\ \/ /\ reader[q].item = "frame" /\ reader'[q].at = "read" /\ reader'[q].item = "none"
                 /\ UNCHANGED reader[q].from
              \/ /\ reader[q].item = "error" /\ reader'[q].at = "look" /\ reader'[q].item = "end"
                 /\ UNCHANGED reader[q].from
              \/ reader[q].item \notin {"frame", "error"} /\ reader'[q].at = "none"
<1> USE DEF Continues, ThreadType, ReaderType, Items, Items0, NoThread
<1> DEFINE new == CASE reader[q].item = "frame" -> [reader[q] EXCEPT !.at = "read", !.item = "none", !.queue = None]
                    [] reader[q].item = "error" -> [reader[q] EXCEPT !.at = "look", !.item = "end", !.queue = None]
                    [] OTHER -> NoThread
<1>1. reader' = [reader EXCEPT ![q] = new]
  OBVIOUS
<1>2. /\ new \in ReaderType
      /\ \/ reader[q].item = "frame" /\ new.at = "read" /\ new.item = "none" /\ new.from = reader[q].from
         \/ reader[q].item = "error" /\ new.at = "look" /\ new.item = "end" /\ new.from = reader[q].from
         \/ reader[q].item \notin {"frame", "error"} /\ new.at = "none"
  <2>1. CASE reader[q].item = "frame"
    <3>1. new = [reader[q] EXCEPT !.at = "read", !.item = "none", !.queue = None]
      BY <2>1
    <3> HIDE DEF new
    <3> QED BY <2>1, <3>1
  <2>2. CASE reader[q].item = "error"
    <3>1. new = [reader[q] EXCEPT !.at = "look", !.item = "end", !.queue = None]
      BY <2>2
    <3> HIDE DEF new
    <3> QED BY <2>2, <3>1
  <2>3. CASE reader[q].item \notin {"frame", "error"}
    <3>1. new = NoThread
      BY <2>3
    <3> HIDE DEF new
    <3> QED BY <2>3, <3>1
  <2> QED BY <2>1, <2>2, <2>3
<1> HIDE DEF new
<1>3. reader'[q] = new /\ reader' \in [Procs -> ReaderType]
  BY <1>1, <1>2
<1> QED BY <1>1, <1>2, <1>3

\* What the event loop makes of the first of a sequence.
LEMMA TailIs ==
    ASSUME NEW S, NEW s \in Seq(S), s # <<>>
    PROVE  /\ s[1] \in S /\ Len(s) > 0 /\ Tail(s) \in Seq(S) /\ Len(Tail(s)) = Len(s) - 1
           /\ \A i \in 1 .. Len(s) - 1 : Tail(s)[i] = s[i + 1]
OBVIOUS

\* What Append does to a sequence.
LEMMA AppendIs ==
    ASSUME NEW S, NEW s \in Seq(S), NEW e \in S
    PROVE  /\ Append(s, e) \in Seq(S) /\ Len(Append(s, e)) = Len(s) + 1
           /\ \A i \in 1 .. Len(s) : Append(s, e)[i] = s[i]
           /\ Append(s, e)[Len(s) + 1] = e
OBVIOUS

\* The processes and pipes keep their types.
LEMMA ProcKept == ASSUME OpenCodeInv, Next PROVE ProcType'
<1>0. ProcType /\ OwnType /\ SpawnInv /\ StepInv
  BY TypeParts DEF OpenCodeInv
<1> USE <1>0, NoneAssumption, LimitAssumption DEF ProcType, procVars
<1>1. ASSUME NEW p \in Procs, Spawn(p) \/ ProcStarts(p) \/ ProcFails(p) \/ ProcWrites(p) \/ DescendantExits(p)
      PROVE  ProcType'
  BY <1>1 DEF Spawn, ProcStarts, ProcFails, ProcWrites, DescendantExits
<1>2. ASSUME NEW p \in Procs, ProcExits(p) \/ Reads(p) PROVE ProcType'
  BY <1>2 DEF ProcExits, Dies, Reads, OwnType
<1>3. ASSUME Stop PROVE ProcType'
  BY <1>3 DEF Stop, Dies, OwnType
<1>4. ASSUME Close PROVE ProcType'
  <2>1. process \in Procs
    BY <1>4 DEF Close, StepInv, OwnType
  <2> QED BY <1>4, <2>1 DEF Close
<1>5. ASSUME ClaimEnds PROVE ProcType'
  BY <1>5 DEF ClaimEnds, OwnType, SpawnInv
<1>6. ASSUME UNCHANGED procVars PROVE ProcType'
  BY SMTT(30), <1>6
<1>7. ASSUME \/ Connect \/ Spawned \/ SpawnFails \/ Initialized \/ InitFails \/ SpawnRefused \/ Interrupt
             \/ Cancelled \/ AwaitWrites \/ JoinReader \/ Drop
             \/ Disconnect \/ DisconnectTakes \/ CleanupTakes \/ Invalidate \/ Claim \/ LoopStep \/ WriteStarts
             \/ \E q \in Procs : ReaderStarts(q) \/ LooksUp(q) \/ Posts(q) \/ WriteEnds(q)
      PROVE  ProcType'
  BY <1>6, <1>7 DEF Connect, Spawned, SpawnFails, Initialized, InitFails, SpawnRefused, Interrupt, Cancelled,
     AwaitWrites,
     JoinReader, Drop, Disconnect, DisconnectTakes, CleanupTakes, Invalidate, Claim, LoopStep, EnqueueDispatch,
     DispatchGets,
     Dispatched, WriteStarts, ReaderStarts, LooksUp, Posts, WriteEnds
<1> QED BY <1>1, <1>2, <1>3, <1>4, <1>5, <1>7 DEF Next, ConnectStep, JobStep, ThreadStep, SpawnStep

\* What the client owns keeps its type.
LEMMA OwnKept == ASSUME OpenCodeInv, Next PROVE OwnType'
<1>0. OwnType /\ LockType
  BY TypeParts DEF OpenCodeInv
<1> USE <1>0, NoneAssumption DEF OwnType, ownVars
<1>1. ASSUME \E p \in Procs : Spawn(p) \/ WriteEnds(p) PROVE OwnType'
  BY <1>1 DEF Spawn, WriteEnds
<1>2. ASSUME \/ Spawned \/ SpawnFails \/ Cancelled \/ Close \/ Claim \/ ClaimEnds \/ Invalidate \/ WriteStarts
             \/ InitFails
      PROVE  OwnType'
  BY <1>2 DEF Spawned, SpawnFails, Cancelled, Close, Claim, ClaimEnds, Invalidate, WriteStarts, IsConnected,
     InitFails, Retired
<1>3. ASSUME Interrupt PROVE OwnType'
  BY <1>3, InterruptJob DEF OpenCodeInv
<1>4. ASSUME LoopStep PROVE OwnType'
  BY <1>4 DEF LoopStep, EnqueueDispatch, DispatchGets, Dispatched, Lost
<1>5. ASSUME UNCHANGED <<ownVars, connected, writes>> PROVE OwnType'
  BY <1>5
<1>6. ASSUME \/ Connect \/ Initialized \/ SpawnRefused \/ Stop \/ AwaitWrites \/ JoinReader \/ Drop
             \/ Disconnect \/ DisconnectTakes \/ CleanupTakes
             \/ \E q \in Procs : \/ ThreadStep(q) \/ SpawnStep(q) \/ ProcWrites(q) \/ ProcExits(q) \/ DescendantExits(q)
      PROVE  OwnType'
  BY ZenonT(40), <1>5, <1>6 DEF Connect, Initialized, SpawnRefused, Stop, AwaitWrites, JoinReader, Drop, Disconnect,
     DisconnectTakes,
     CleanupTakes, ThreadStep, ReaderStarts, Reads, LooksUp, Posts, SpawnStep, ProcStarts, ProcFails,
     ProcWrites, ProcExits,
     DescendantExits
<1> QED BY <1>1, <1>2, <1>3, <1>4, <1>6 DEF Next, ConnectStep, JobStep

\* The tasks keep theirs.
LEMMA LockKept == ASSUME OpenCodeInv, Next PROVE LockType'
<1>0. OwnType /\ LockType
  BY TypeParts DEF OpenCodeInv
<1> USE <1>0, NoneAssumption DEF LockType, Leave, jobVars
<1>1. ASSUME cleanup' = cleanup \/ ScheduleCleanup, UNCHANGED disconnecting PROVE LockType'
  BY <1>1 DEF ScheduleCleanup, OwnType
<1>2. ASSUME InitFails \/ Invalidate \/ LoopStep PROVE LockType'
  BY <1>1, <1>2 DEF InitFails, Retired, Invalidate, LoopStep, EnqueueDispatch, DispatchGets, Dispatched, Lost
<1>3. ASSUME Initialized \/ Disconnect \/ DisconnectTakes PROVE LockType'
  BY <1>3 DEF Initialized, Disconnect, DisconnectTakes
<1>4. ASSUME CleanupTakes PROVE LockType'
  BY <1>4 DEF CleanupTakes, NoCleanup
<1>5. ASSUME Interrupt PROVE LockType'
  BY <1>5, InterruptJob DEF OpenCodeInv
<1>6. ASSUME Drop PROVE LockType'
  BY <1>6, DroppedJob DEF OpenCodeInv, NoCleanup
<1>7. ASSUME \/ Connect \/ Spawned \/ SpawnFails \/ SpawnRefused \/ (\E p \in Procs : Spawn(p))
             \/ Cancelled \/ Stop \/ Close \/ AwaitWrites \/ JoinReader \/ Claim \/ ClaimEnds \/ WriteStarts
             \/ \E q \in Procs : \/ ThreadStep(q) \/ WriteEnds(q) \/ SpawnStep(q) \/ ProcWrites(q) \/ ProcExits(q)
                                 \/ DescendantExits(q)
      PROVE  LockType'
  BY <1>1, <1>7 DEF Connect, Spawned, SpawnFails, SpawnRefused, Spawn, Cancelled, Stop, Close, AwaitWrites,
     JoinReader,
     Claim, ClaimEnds, WriteStarts, ThreadStep, ReaderStarts, Reads, LooksUp, Posts, WriteEnds, SpawnStep,
     ProcStarts,
     ProcFails, ProcWrites, ProcExits, DescendantExits
<1> QED BY <1>2, <1>3, <1>4, <1>5, <1>6, <1>7 DEF Next, ConnectStep, JobStep

\* The threads keep theirs, and post only what they have read.
LEMMA ThreadKept == ASSUME OpenCodeInv, Next PROVE ThreadType' /\ PostInv'
<1>0. OwnType /\ ThreadType /\ QueueType /\ PostInv
  BY TypeParts DEF OpenCodeInv
<1> USE <1>0, NoneAssumption DEF ThreadType, PostInv, Items, readVars
<1>1. ASSUME NEW q \in Procs, ReaderStarts(q) \/ Reads(q) PROVE ThreadType' /\ PostInv'
  BY <1>1 DEF ReaderStarts, Reads, Takes, ReaderType, Items, Items0, OwnType
<1>2. ASSUME NEW q \in Procs, Continues(q), UNCHANGED thread PROVE ThreadType' /\ PostInv'
  BY <1>2, ContinuesTo
<1>3. ASSUME NEW q \in Procs, LooksUp(q) \/ Posts(q) PROVE ThreadType' /\ PostInv'
  <2>1. CASE Continues(q)
    BY <1>2, <1>3, <2>1 DEF LooksUp, Posts
  <2>2. CASE LooksUp(q) /\ queue # None
    <3>1. /\ reader' = [reader EXCEPT ![q] = [reader[q] EXCEPT !.at = "post", !.queue = queue]]
          /\ UNCHANGED thread /\ queue \in Procs /\ reader[q].at = "look"
      BY <2>2 DEF LooksUp, QueueType
    <3>2. reader[q] \in ReaderType
      OBVIOUS
    <3> QED BY <3>1, <3>2 DEF ReaderType, Items0
  <2> QED BY <1>3, <2>1, <2>2 DEF LooksUp, Posts
<1>4. ASSUME Spawned PROVE ThreadType' /\ PostInv'
  BY <1>4 DEF Spawned, OwnType, ReaderType, NoThread, Items0
<1>5. ASSUME JoinReader PROVE ThreadType' /\ PostInv'
  BY <1>5 DEF JoinReader, Joined
<1>6. ASSUME UNCHANGED readVars PROVE ThreadType' /\ PostInv'
  BY <1>6
<1>7. ASSUME \/ Connect \/ SpawnFails \/ Initialized \/ InitFails \/ SpawnRefused \/ Interrupt
             \/ Cancelled \/ Stop \/ Close \/ AwaitWrites \/ Drop
             \/ Disconnect \/ DisconnectTakes \/ CleanupTakes \/ Invalidate \/ Claim \/ ClaimEnds \/ LoopStep \/ WriteStarts
             \/ \E p \in Procs : \/ Spawn(p) \/ WriteEnds(p) \/ SpawnStep(p) \/ ProcWrites(p) \/ ProcExits(p)
                                 \/ DescendantExits(p)
      PROVE  ThreadType' /\ PostInv'
  BY <1>6, <1>7 DEF Connect, SpawnFails, Initialized, InitFails, SpawnRefused, Interrupt, Cancelled, Stop,
     Close, AwaitWrites,
     Drop, Disconnect, DisconnectTakes, CleanupTakes, Invalidate, Claim, ClaimEnds, LoopStep, EnqueueDispatch,
     DispatchGets,
     Dispatched, WriteStarts, Spawn, WriteEnds, SpawnStep, ProcStarts, ProcFails, ProcWrites, ProcExits,
     DescendantExits
<1> QED BY <1>1, <1>3, <1>4, <1>5, <1>7 DEF Next, ConnectStep, JobStep, ThreadStep

\* The counter never passes the error that reports its limit, and while a
\* connection has a queue it counts what is posted and not yet dispatched.
LEMMA QueueKept == ASSUME OpenCodeInv, Next PROVE QueueType' /\ CountInv'
<1>0. OwnType /\ ThreadType /\ QueueType /\ PostInv /\ CountInv
  BY TypeParts DEF OpenCodeInv
<1> USE <1>0, NoneAssumption, LimitAssumption DEF QueueType, CountInv, queueVars
<1>1. ASSUME Spawned PROVE QueueType' /\ CountInv'
  <2>1. spawn \in Procs /\ queue' = spawn /\ inbox' = <<>> /\ scheduled' = 0 /\ overflow' = FALSE /\ ready' = <<>>
        /\ dispatcher' = [at |-> "get", from |-> None]
    BY <1>1 DEF Spawned, NewQueue, OwnType
  <2>2. inbox' \in Seq(Message) /\ Len(inbox') = 0
    BY <2>1
  <2>3. QueueType'
    <3>1. dispatcher' \in [at : {"none", "get", "handle"}, from : Procs \cup {None}]
      BY <2>1
    <3>2. ready' \in Seq(Post) /\ queue' \in Procs \cup {None}
      BY <2>1
    <3>3. scheduled' \in 0 .. Limit + 1
      BY <2>1
    <3>4. overflow' \in BOOLEAN
      BY <2>1
    <3> QED BY <2>2, <3>1, <3>2, <3>3, <3>4
  <2>4. CountInv'
    BY <2>1, <2>2
  <2> QED BY <2>3, <2>4
<1>2. ASSUME Drop PROVE QueueType' /\ CountInv'
  <2>1. queue' = None /\ inbox' = <<>> /\ scheduled' = 0 /\ overflow' = FALSE /\ ready' = ready
        /\ dispatcher' = [at |-> "none", from |-> None]
    BY <1>2 DEF Drop, NoTask
  <2>2. inbox' \in Seq(Message) /\ Len(inbox') = 0
    BY <2>1
  <2>3. QueueType'
    <3>1. dispatcher' \in [at : {"none", "get", "handle"}, from : Procs \cup {None}]
      BY <2>1
    <3>2. ready' \in Seq(Post) /\ queue' \in Procs \cup {None}
      BY <2>1
    <3>3. scheduled' \in 0 .. Limit + 1
      BY <2>1
    <3>4. overflow' \in BOOLEAN
      BY <2>1
    <3> QED BY <2>2, <3>1, <3>2, <3>3, <3>4
  <2>4. CountInv'
    BY <2>1, <2>2
  <2> QED BY <2>3, <2>4
<1>3. ASSUME NEW q \in Procs, Posts(q) PROVE QueueType' /\ CountInv'
  <2>1. CASE UNCHANGED queueVars
    BY <2>1
  <2>2. ASSUME ~overflow, scheduled' = scheduled + 1, overflow' = Full, NEW item \in Items, Posted(q, item),
               UNCHANGED <<queue, inbox, dispatcher>>
        PROVE  QueueType' /\ CountInv'
    <3> DEFINE new == [queue |-> reader[q].queue, from |-> reader[q].from, item |-> item]
    <3>1. new \in Post /\ ready' = Append(ready, new)
      BY <1>3, <2>2 DEF Posts, Posted, Post, ThreadType, ReaderType, PostInv
    <3> HIDE DEF new
    <3>2. ready' \in Seq(Post) /\ Len(ready') = Len(ready) + 1 /\ Len(ready) \in Nat /\ Len(inbox) \in Nat
      BY <3>1, AppendIs, LenProperties
    <3>3. scheduled' \in 0 .. Limit + 1 /\ overflow' \in BOOLEAN /\ (~overflow' => scheduled' <= Limit)
      <4>1. CASE Full
        <5>1. overflow' = TRUE
          BY <2>2, <4>1, Zenon
        <5>2. scheduled' \in 0 .. Limit + 1
          BY <2>2
        <5> QED BY <5>1, <5>2
      <4>2. CASE ~Full
        BY <2>2, <4>2 DEF Full
      <4> QED BY <4>1, <4>2
    <3> QED BY <2>2, <3>2, <3>3
  <2>3. \E item \in Items : Posted(q, item) \/ UNCHANGED queueVars
    BY <1>3 DEF Posts, PostInv, Items
  <2> QED BY <1>3, <2>1, <2>2, <2>3 DEF Posts, PostInv, Items
<1>4. ASSUME EnqueueDispatch PROVE QueueType' /\ CountInv'
  <2>1. /\ ready[1] \in Post /\ Len(ready) \in Nat \ {0} /\ ready' \in Seq(Post) /\ Len(ready') = Len(ready) - 1
    BY <1>4, TailIs, EmptySeq DEF EnqueueDispatch
  <2>2. Len(inbox) \in Nat
    BY LenProperties
  <2>3. CASE Accepts
    <3>1. Frame(ready[1].from, ready[1].item) \in Message
      BY <2>1 DEF Frame, Post, Message
    <3>2. inbox' = Append(inbox, Frame(ready[1].from, ready[1].item))
      BY <1>4, <2>3 DEF EnqueueDispatch
    <3>3. inbox' \in Seq(Message) /\ Len(inbox') = Len(inbox) + 1
      BY <3>1, <3>2, AppendIs
    <3>4. UNCHANGED <<scheduled, queue, overflow, dispatcher>>
      BY <1>4, <2>3 DEF EnqueueDispatch
    <3>5. CountInv'
      <4>1. Len(ready') + Len(inbox') = Len(ready) + Len(inbox)
        BY <2>1, <2>2, <3>3
      <4> QED BY <3>4, <4>1
    <3> QED BY <2>1, <3>3, <3>4, <3>5
  <2>4. CASE ~Accepts
    <3>1. UNCHANGED <<inbox, queue, overflow, dispatcher>> /\ scheduled' = IF scheduled = 0 THEN 0 ELSE scheduled - 1
      BY <1>4, <2>4 DEF EnqueueDispatch, MarkConsumed
    <3> QED BY <2>1, <2>2, <3>1
  <2> QED BY <2>3, <2>4
<1>5. ASSUME DispatchGets PROVE QueueType' /\ CountInv'
  <2>1. inbox[1] \in Message /\ Len(inbox) \in Nat \ {0} /\ inbox' \in Seq(Message) /\ Len(inbox') = Len(inbox) - 1
    BY <1>5, TailIs, EmptySeq DEF DispatchGets
  <2>2. Len(ready) \in Nat
    BY LenProperties
  <2>3. UNCHANGED <<ready, queue, overflow>> /\ scheduled' = IF scheduled = 0 THEN 0 ELSE scheduled - 1
    BY <1>5 DEF DispatchGets, MarkConsumed
  <2>4. dispatcher' \in [at : {"none", "get", "handle"}, from : Procs \cup {None}]
    BY <1>5, <2>1 DEF DispatchGets, Lost, NoTask, Message
  <2> QED BY <2>1, <2>2, <2>3, <2>4
<1>6. ASSUME Dispatched PROVE QueueType' /\ CountInv'
  BY <1>6 DEF Dispatched, Lost, NoTask
<1>7. ASSUME UNCHANGED queueVars PROVE QueueType' /\ CountInv'
  BY SMTT(30), <1>7
<1>8. ASSUME \/ Connect \/ SpawnFails \/ Initialized \/ InitFails \/ SpawnRefused \/ Interrupt
             \/ Cancelled \/ Stop \/ Close \/ AwaitWrites \/ JoinReader
             \/ Disconnect \/ DisconnectTakes \/ CleanupTakes \/ Invalidate \/ Claim \/ ClaimEnds \/ WriteStarts
             \/ \E p \in Procs : \/ Spawn(p) \/ ReaderStarts(p) \/ Reads(p) \/ LooksUp(p) \/ WriteEnds(p) \/ SpawnStep(p)
                                 \/ ProcWrites(p) \/ ProcExits(p) \/ DescendantExits(p)
      PROVE  QueueType' /\ CountInv'
  BY <1>7, <1>8 DEF Connect, SpawnFails, Initialized, InitFails, SpawnRefused, Interrupt, Cancelled, Stop,
     Close, AwaitWrites,
     JoinReader, Disconnect, DisconnectTakes, CleanupTakes, Invalidate, Claim, ClaimEnds, WriteStarts, Spawn,
     ReaderStarts,
     Reads, LooksUp, WriteEnds, SpawnStep, ProcStarts, ProcFails, ProcWrites, ProcExits, DescendantExits
<1> QED BY <1>1, <1>2, <1>3, <1>4, <1>5, <1>6, <1>8 DEF Next, ConnectStep, JobStep, ThreadStep, LoopStep

-----------------------------------------------------------------------------
(* The OpenCode client: the job that holds _connect_lock *)

\* The record of the job agrees with who is at work.
LEMMA JobKept ==
    ASSUME TypeOK, JobInv, Next
    PROVE  JobInv' /\ job' \in JobType
<1> USE DEF TypeOK, JobInv, Steps, Down, jobVars
<1>1. ASSUME Connect PROVE JobInv' /\ job' \in JobType
  <2>1. CASE MustDisconnect
    <3>1. job' \in JobType /\ job'.who = "connect" /\ job'.phase = "prior" /\ job'.step = "cancel" /\ ~job'.cut
      BY <1>1, <2>1, JobBegins DEF Connect
    <3> QED BY <1>1, <3>1, IdleIs DEF Connect
  <2>2. CASE ~MustDisconnect
    <3>1. job' \in JobType /\ job'.who = "connect" /\ job'.phase = "spawn" /\ job'.step = "none" /\ ~job'.cut
      <4>1. job' = [who |-> "connect", phase |-> "spawn", step |-> "none", failed |-> FALSE, cut |-> FALSE]
        BY <1>1, <2>2 DEF Connect, Idle
      <4> QED BY <4>1 DEF JobType
    <3> QED BY <1>1, <3>1, IdleIs DEF Connect
  <2> QED BY <2>1, <2>2
<1>2. ASSUME Spawned PROVE JobInv' /\ job' \in JobType
  <2>1. job' \in JobType /\ job'.phase = "init" /\ UNCHANGED <<job.who, job.step, job.cut, disconnecting, cleanup>>
    BY <1>2 DEF Spawned, JobType
  <2> QED BY <1>2, <2>1, IdleIs DEF Spawned
<1>3. ASSUME SpawnFails \/ SpawnRefused \/ InitFails PROVE JobInv' /\ job' \in JobType
  <2>1. Undo(FALSE) /\ job \in JobType /\ job.phase \in {"spawn", "init"} /\ disconnecting' = disconnecting
    BY <1>3 DEF SpawnFails, SpawnRefused, InitFails, JobType
  <2>2. job' \in JobType /\ job'.phase = "fail" /\ job'.step = "cancel" /\ UNCHANGED <<job.who>> /\ job'.cut = job.cut
    BY <2>1, JobUpdates
  <2>3. cleanup' = cleanup \/ (cleanup.step = "none" /\ cleanup'.step = "lock")
    <3>1. cleanup' = cleanup \/ ScheduleCleanup
      BY <1>3 DEF SpawnFails, SpawnRefused, InitFails, Retired
    <3> QED BY <3>1 DEF ScheduleCleanup
  <2>4. job.who = "connect"
    BY <2>1, IdleIs
  <2> QED BY <2>1, <2>2, <2>3, <2>4, IdleIs
<1>4. ASSUME Initialized PROVE JobInv' /\ job' \in JobType
  BY <1>4, IdleIs DEF Initialized, Leave
<1>5. ASSUME Interrupt PROVE JobInv' /\ job' \in JobType
  BY <1>5, InterruptJob, IdleIs
<1>6. ASSUME NEW step \in Steps, Go(step) \/ Fails(step), job.step # "none", UNCHANGED <<disconnecting, cleanup>>
      PROVE JobInv' /\ job' \in JobType
  BY <1>6, JobUpdates, IdleIs DEF JobType
<1>7. ASSUME JobStep, ~Drop PROVE JobInv' /\ job' \in JobType
  BY <1>6, <1>7 DEF JobStep, Cancelled, Stop, Close, AwaitWrites, JoinReader, Joined
<1>8. ASSUME Drop PROVE JobInv' /\ job' \in JobType
  BY <1>8, DroppedJob, IdleIs DEF NoCleanup
<1>9. ASSUME DisconnectTakes PROVE JobInv' /\ job' \in JobType
  BY <1>9, JobBegins, IdleIs DEF DisconnectTakes
<1>10. ASSUME CleanupTakes PROVE JobInv' /\ job' \in JobType
  BY <1>10, JobBegins, IdleIs DEF CleanupTakes, NoCleanup
<1>11. ASSUME Disconnect PROVE JobInv' /\ job' \in JobType
  BY <1>11, IdleIs DEF Disconnect, JobType
<1>12. ASSUME UNCHANGED <<job, disconnecting>>, cleanup' = cleanup \/ (cleanup.step = "none" /\ cleanup'.step = "lock")
       PROVE JobInv' /\ job' \in JobType
  BY <1>12 DEF JobType
<1>13. ASSUME Invalidate \/ LoopStep PROVE JobInv' /\ job' \in JobType
  BY <1>12, <1>13 DEF Invalidate, LoopStep, EnqueueDispatch, DispatchGets, Dispatched, Lost, ScheduleCleanup
<1>14. ASSUME (\E p \in Procs : Spawn(p)) \/ Claim \/ ClaimEnds \/ WriteStarts PROVE JobInv' /\ job' \in JobType
  BY <1>12, <1>14 DEF Spawn, Claim, ClaimEnds, WriteStarts
<1>15. ASSUME NEW p \in Procs, ThreadStep(p) \/ WriteEnds(p) \/ SpawnStep(p) \/ ProcWrites(p) \/ ProcExits(p) \/ DescendantExits(p)
      PROVE JobInv' /\ job' \in JobType
  BY <1>12, <1>15 DEF ThreadStep, ReaderStarts, Reads, LooksUp, Posts, WriteEnds, SpawnStep, ProcStarts,
     ProcFails, ProcWrites, ProcExits, DescendantExits
<1> QED BY <1>1, <1>2, <1>3, <1>4, <1>5, <1>7, <1>8, <1>9, <1>10, <1>11, <1>13, <1>14, <1>15
       DEF Next, ConnectStep

-----------------------------------------------------------------------------
(* The OpenCode client: the threads of a connection *)

\* A step of a reader thread that keeps to its process.
LEMMA ReaderMoves ==
    ASSUME ThreadType, ThreadInv, NEW q \in Threads, reader' \in [Procs -> ReaderType],
           \A r \in Procs \ {q} : reader'[r] = reader[r], reader'[q].at = "none" \/ OwnReader(q)',
           UNCHANGED <<thread, spawn, process, job, disconnecting>>
    PROVE  ThreadInv'
<1>1. Threads' \subseteq Threads /\ \A r \in Threads' : OwnReader(r)'
  <2>1. ASSUME NEW r \in Threads' PROVE r \in Threads /\ OwnReader(r)'
    <3>1. CASE r = q
      BY <2>1, <3>1 DEF Threads
    <3>2. CASE r # q
      BY <2>1, <3>2 DEF Threads, ThreadInv, OwnReader
    <3> QED BY <3>1, <3>2
  <2> QED BY <2>1
<1> QED BY <1>1 DEF ThreadInv

\* A step of a reader thread leaves every thread with its own process.
LEMMA ThreadKeepsOwn ==
    ASSUME OpenCodeInv, ConnInv, NEW q \in Procs, ThreadStep(q)
    PROVE  /\ ThreadInv'
           /\ q \in Threads /\ UNCHANGED <<process, connected, job>>
           /\ \A r \in Procs \ {q} : reader'[r] = reader[r]
           /\ \/ reader[q].at = "new" /\ reader'[q].from = process
              \/ reader[q].at # "new" /\ reader'[q].from = reader[q].from
              \/ reader'[q].at = "none"
<1>0. ThreadType /\ OwnType /\ QueueType /\ ThreadInv /\ PostInv
  BY TypeParts DEF OpenCodeInv, ConnInv
<1>1. q \in Threads
  BY DEF ThreadStep, ReaderStarts, Reads, LooksUp, Posts, Threads
<1>2. q = thread /\ OwnReader(q) /\ process \in {None, q} /\ thread \in Procs
  BY <1>0, <1>1, NoneAssumption DEF ThreadInv, ThreadType
<1>3. UNCHANGED <<thread, spawn, process, connected, job, disconnecting>>
  BY DEF ThreadStep, ReaderStarts, Reads, LooksUp, Posts, readVars, ownVars, jobVars
<1>4. reader[q] \in ReaderType
  BY <1>0 DEF ThreadType
<1> DEFINE Moved == /\ reader' \in [Procs -> ReaderType] /\ \A r \in Procs \ {q} : reader'[r] = reader[r]
                    /\ reader'[q].at = "none" \/ OwnReader(q)'
                    /\ \/ reader[q].at = "new" /\ reader'[q].from = process
                       \/ reader[q].at # "new" /\ reader'[q].from = reader[q].from
                       \/ reader'[q].at = "none"
<1>5. ASSUME ReaderStarts(q) PROVE Moved
  <2> DEFINE new == [reader[q] EXCEPT !.from = process, !.at = IF process = None THEN "look" ELSE "read",
                                      !.item = IF process = None THEN "end" ELSE "none"]
  <2>1. new \in ReaderType /\ new.from = process /\ (IF process = None THEN new.at = "look" /\ new.item = "end"
                                                     ELSE new.at = "read" /\ new.item = "none")
    BY <1>0, <1>4 DEF ReaderType, OwnType, Items0, Items
  <2>2. reader' = [reader EXCEPT ![q] = new] /\ reader[q].at = "new"
    BY <1>0, <1>5 DEF ReaderStarts, ThreadType
  <2> HIDE DEF new
  <2>3. reader'[q] = new /\ reader' \in [Procs -> ReaderType] /\ \A r \in Procs \ {q} : reader'[r] = reader[r]
    BY <1>0, <2>1, <2>2 DEF ThreadType
  <2>4. OwnReader(q)'
    BY <1>2, <2>1, <2>3 DEF OwnReader
  <2> QED BY <2>1, <2>2, <2>3, <2>4
<1>6. ASSUME Reads(q) PROVE Moved
  <2>1. PICK item \in Items : Takes(q, item)
    BY <1>6 DEF Reads, Items
  <2>2. reader' = [reader EXCEPT ![q] = [reader[q] EXCEPT !.at = "look", !.item = item]] /\ reader[q].at = "read"
    BY <1>0, <1>6, <2>1 DEF Reads, Takes, ThreadType
  <2>3. /\ reader' \in [Procs -> ReaderType] /\ \A r \in Procs \ {q} : reader'[r] = reader[r]
        /\ reader'[q].at = "look" /\ reader'[q].item = item /\ reader'[q].from = reader[q].from
    BY <1>0, <1>4, <2>2 DEF ThreadType, ReaderType, Items0
  <2>4. OwnReader(q)'
    BY <1>2, <2>2, <2>3 DEF OwnReader, Items
  <2> QED BY <2>2, <2>3, <2>4
<1>7. ASSUME Continues(q) /\ reader[q].at \in {"look", "post"} PROVE Moved
  <2>1. reader[q].item \in Items
    BY <1>0, <1>7 DEF PostInv
  <2>2. reader'[q].at = "none" \/ OwnReader(q)'
    BY <1>0, <1>2, <1>7, <2>1, ContinuesTo DEF OwnReader, Items
  <2> QED BY <1>0, <1>7, <2>2, ContinuesTo
<1>8. ASSUME LooksUp(q) /\ queue # None PROVE Moved
  <2>1. reader' = [reader EXCEPT ![q] = [reader[q] EXCEPT !.at = "post", !.queue = queue]] /\ reader[q].at = "look"
    BY <1>0, <1>8 DEF LooksUp, ThreadType
  <2>2. /\ reader' \in [Procs -> ReaderType] /\ \A r \in Procs \ {q} : reader'[r] = reader[r]
        /\ reader'[q].at = "post" /\ reader'[q].item = reader[q].item /\ reader'[q].from = reader[q].from
    BY <1>0, <1>4, <2>1 DEF ThreadType, ReaderType, QueueType
  <2>3. OwnReader(q)'
    BY <1>0, <1>2, <2>1, <2>2 DEF OwnReader, PostInv, Items
  <2> QED BY <2>1, <2>2, <2>3
<1>9. Moved
  <2> HIDE DEF Moved
  <2> QED BY <1>5, <1>6, <1>7, <1>8 DEF ThreadStep, LooksUp, Posts
<1> QED BY <1>0, <1>1, <1>3, <1>9, ReaderMoves

\* What a thread hands to the loop names the process it reads.
LEMMA PostsOwn ==
    ASSUME OpenCodeInv, ConnInv, NEW q \in Procs, ThreadStep(q)
    PROVE  AloneInv' /\ UNCHANGED <<inbox, dispatcher, writes>>
<1>0. ThreadType /\ OwnType /\ QueueType /\ ThreadInv /\ PostInv /\ AloneInv
  BY TypeParts DEF OpenCodeInv, ConnInv
<1>1. UNCHANGED <<inbox, dispatcher, writes>>
  BY DEF ThreadStep, ReaderStarts, Reads, LooksUp, Posts, queueVars
<1>2. ASSUME connected' PROVE \A r \in Threads' : r = process' /\ (reader'[r].at = "new" \/ reader'[r].from = process')
  <2>1. connected /\ process' = process /\ q \in Threads
    BY <1>2, ThreadKeepsOwn
  <2>2. \A r \in Threads : r = process /\ (reader[r].at = "new" \/ reader[r].from = process)
    BY <1>0, <2>1 DEF AloneInv
  <2>3. ASSUME NEW r \in Threads', r # q PROVE r = process' /\ (reader'[r].at = "new" \/ reader'[r].from = process')
    <3>1. reader'[r] = reader[r] /\ r \in Threads
      BY <2>3, ThreadKeepsOwn DEF Threads
    <3> QED BY <2>1, <2>2, <3>1
  <2>4. ASSUME q \in Threads' PROVE q = process' /\ (reader'[q].at = "new" \/ reader'[q].from = process')
    <3>1. reader'[q].at # "none"
      BY <2>4 DEF Threads
    <3> QED BY <2>1, <2>2, <3>1, ThreadKeepsOwn
  <2> QED BY <2>3, <2>4
<1>3. ASSUME connected' PROVE \A i \in 1 .. Len(ready') : ready'[i].from = process'
  <2>1. connected /\ process' = process /\ q \in Threads
    BY <1>3, ThreadKeepsOwn
  <2>2. CASE ready' = ready
    BY <1>0, <2>1, <2>2 DEF AloneInv
  <2>3. ASSUME Posts(q), NEW item \in Items, Posted(q, item) PROVE \A i \in 1 .. Len(ready') : ready'[i].from = process'
    <3> DEFINE new == [queue |-> reader[q].queue, from |-> reader[q].from, item |-> item]
    <3>1. reader[q].from = process
      BY <1>0, <2>1, <2>3 DEF AloneInv, Posts
    <3>2. new \in Post /\ new.from = process /\ ready' = Append(ready, new)
      BY <1>0, <2>3, <3>1 DEF Posts, Posted, Post, ThreadType, ReaderType, PostInv
    <3> HIDE DEF new
    <3>3. Len(ready') = Len(ready) + 1 /\ ready'[Len(ready) + 1] = new /\ Len(ready) \in Nat
          /\ \A i \in 1 .. Len(ready) : ready'[i] = ready[i]
      BY <1>0, <3>2, AppendIs, LenProperties DEF QueueType
    <3>4. \A i \in 1 .. Len(ready) : ready[i].from = process
      BY <1>0, <2>1 DEF AloneInv
    <3> QED BY <2>1, <3>2, <3>3, <3>4
  <2>4. ready' = ready \/ \E item \in Items : Posts(q) /\ Posted(q, item)
    BY <1>0 DEF ThreadStep, ReaderStarts, Reads, LooksUp, Posts, queueVars, PostInv, Items
  <2> QED BY <2>2, <2>3, <2>4
<1> QED BY <1>1, <1>2, <1>3 DEF AloneInv

-----------------------------------------------------------------------------
(* The OpenCode client: every step keeps the invariant *)

\* What _spawn_popen hands to the connect() that waits for it.
LEMMA SpawnedJob ==
    ASSUME job \in JobType, Spawned
    PROVE  job' \in JobType /\ job'.phase = "init" /\ UNCHANGED <<job.who, job.step, job.cut, job.failed>>
BY DEF Spawned, JobType

\* What runs is the process of the client or the one that is being started.
LEMMA SpawnKept == ASSUME OpenCodeInv, Next, job' \in JobType, TypeOK', JobInv' PROVE SpawnInv'
<1>0. /\ ProcType /\ OwnType /\ LockType /\ ThreadType /\ QueueType /\ job \in JobType /\ TypeOK
      /\ JobInv /\ SpawnInv /\ StepInv /\ UpInv /\ PostInv /\ LaterInv
  BY TypeParts DEF OpenCodeInv
<1> USE <1>0, NoneAssumption DEF OwnType, ProcType, SpawnInv, JobInv, StepInv, Running, UpInv, procVars,
        ownVars, jobVars, readVars, queueVars, Leave, ScheduleCleanup, Steps, Down, NoThread, NoTask,
        NoCleanup
<1>1. ASSUME Connect PROVE SpawnInv'
  BY <1>1, ConnectJob, IdleIs DEF Connect, MustDisconnect, IsConnected
<1>2. ASSUME Spawned PROVE SpawnInv'
  BY <1>2, SpawnedJob DEF Spawned, NewQueue
<1>3. ASSUME SpawnFails PROVE SpawnInv'
  BY <1>3, JobUpdates DEF SpawnFails
<1>4. ASSUME Initialized PROVE SpawnInv'
  BY <1>4, IdleIs DEF Initialized
<1>5. ASSUME InitFails PROVE SpawnInv'
  BY <1>5, JobUpdates DEF InitFails, Retired
<1>6. ASSUME SpawnRefused PROVE SpawnInv'
  BY <1>6, JobUpdates DEF SpawnRefused
<1>7. ASSUME NEW p \in Procs, Spawn(p) PROVE SpawnInv'
  BY <1>7 DEF Spawn
<1>8. ASSUME Interrupt PROVE SpawnInv'
  BY <1>8, InterruptJob, IdleIs DEF Interrupt, procVars
<1>9. ASSUME Cancelled PROVE SpawnInv'
  BY <1>9, JobUpdates DEF Cancelled
<1>10. ASSUME Stop PROVE SpawnInv'
  BY <1>10, JobUpdates DEF Stop, SpawnPending, Dies
<1>11. ASSUME Close PROVE SpawnInv'
  BY <1>11, JobUpdates DEF Close
<1>12. ASSUME AwaitWrites PROVE SpawnInv'
  BY <1>12, JobUpdates DEF AwaitWrites
<1>13. ASSUME JoinReader PROVE SpawnInv'
  BY <1>13, JobUpdates DEF JoinReader, Joined, ReaderOver, Outlives
<1>14. ASSUME Drop PROVE SpawnInv'
  BY <1>14, DroppedJob, IdleIs DEF Drop
<1>15. ASSUME DisconnectTakes PROVE SpawnInv'
  BY <1>15, JobBegins, IdleIs DEF DisconnectTakes
<1>16. ASSUME CleanupTakes PROVE SpawnInv'
  BY <1>16, JobBegins, IdleIs DEF CleanupTakes, Current
<1>17. ASSUME Claim PROVE SpawnInv'
  BY <1>17 DEF Claim
<1>18. ASSUME ClaimEnds PROVE SpawnInv'
  BY <1>18 DEF ClaimEnds
<1>19. ASSUME NEW p \in Procs, ProcStarts(p) PROVE SpawnInv'
  BY <1>19 DEF ProcStarts
<1>20. ASSUME NEW p \in Procs, ProcFails(p) PROVE SpawnInv'
  BY <1>20 DEF ProcFails
<1>21. ASSUME NEW p \in Procs, ProcExits(p) PROVE SpawnInv'
  BY <1>21 DEF ProcExits, Dies
<1>22. ASSUME NEW p \in Procs, DescendantExits(p) PROVE SpawnInv'
  BY <1>22 DEF DescendantExits
<1>23. ASSUME UNCHANGED <<claim, job, proc, process, spawn>> PROVE SpawnInv'
  BY <1>23
<1>24. ASSUME \/ Disconnect \/ Invalidate \/ EnqueueDispatch \/ DispatchGets \/ Dispatched
             \/ WriteStarts
      PROVE  SpawnInv'
  BY <1>23, <1>24 DEF Disconnect, Invalidate, EnqueueDispatch, DispatchGets, Dispatched, WriteStarts,
     jobVars, ownVars, procVars, queueVars, readVars
<1>25. ASSUME NEW p \in Procs,
             \/ ReaderStarts(p) \/ Reads(p) \/ LooksUp(p) \/ Posts(p) \/ WriteEnds(p)
             \/ ProcWrites(p)
      PROVE  SpawnInv'
  BY <1>23, <1>25 DEF ReaderStarts, Reads, LooksUp, Posts, WriteEnds, ProcWrites, jobVars, ownVars,
     procVars, queueVars, readVars
<1> QED BY <1>1, <1>2, <1>3, <1>4, <1>5, <1>6, <1>7, <1>8, <1>9, <1>10, <1>11, <1>12, <1>13, <1>14, <1>15,
     <1>16, <1>17, <1>18, <1>19, <1>20, <1>21, <1>22, <1>24, <1>25 DEF Next, ConnectStep, JobStep,
     ThreadStep, LoopStep, SpawnStep

\* A disconnect() that has not failed leaves nothing behind that it has dealt with.
LEMMA StepKept == ASSUME OpenCodeInv, Next, job' \in JobType, TypeOK', JobInv' PROVE StepInv'
<1>0. /\ ProcType /\ OwnType /\ LockType /\ ThreadType /\ QueueType /\ job \in JobType /\ TypeOK
      /\ JobInv /\ SpawnInv /\ StepInv /\ UpInv /\ PostInv /\ LaterInv
  BY TypeParts DEF OpenCodeInv
<1> USE <1>0, NoneAssumption DEF OwnType, ProcType, StepInv, JobInv, SpawnInv, UpInv, MustDisconnect,
        IsConnected, procVars, ownVars, jobVars, readVars, queueVars, Leave, ScheduleCleanup, Steps,
        Down, NoThread, NoTask, NoCleanup
<1>1. ASSUME Connect PROVE StepInv'
  BY <1>1, ConnectJob, IdleIs DEF Connect, MustDisconnect, IsConnected
<1>2. ASSUME Spawned PROVE StepInv'
  BY <1>2, SpawnedJob DEF Spawned, NewQueue
<1>3. ASSUME SpawnFails PROVE StepInv'
  BY <1>3, JobUpdates DEF SpawnFails
<1>4. ASSUME Initialized PROVE StepInv'
  BY <1>4, IdleIs DEF Initialized
<1>5. ASSUME InitFails PROVE StepInv'
  BY <1>5, JobUpdates DEF InitFails, Retired
<1>6. ASSUME SpawnRefused PROVE StepInv'
  BY <1>6, JobUpdates DEF SpawnRefused
<1>7. ASSUME NEW p \in Procs, Spawn(p) PROVE StepInv'
  <2>1. job' = job /\ job.phase = "spawn" /\ job.step = "none" /\ UNCHANGED <<process, writes, thread>>
    BY <1>7 DEF Spawn, Idle
  <2> QED BY <2>1
<1>8. ASSUME Interrupt PROVE StepInv'
  BY <1>8, InterruptJob, IdleIs DEF Interrupt, procVars
<1>9. ASSUME Cancelled PROVE StepInv'
  BY <1>9, JobUpdates DEF Cancelled
<1>10. ASSUME Stop PROVE StepInv'
  BY <1>10, JobUpdates DEF Stop, SpawnPending, Dies
<1>11. ASSUME Close PROVE StepInv'
  BY <1>11, JobUpdates DEF Close
<1>12. ASSUME AwaitWrites PROVE StepInv'
  BY <1>12, JobUpdates DEF AwaitWrites
<1>13. ASSUME JoinReader PROVE StepInv'
  BY <1>13, JobUpdates DEF JoinReader, Joined, ReaderOver, Outlives
<1>14. ASSUME Drop PROVE StepInv'
  BY <1>14, DroppedJob, IdleIs DEF Drop
<1>15. ASSUME DisconnectTakes PROVE StepInv'
  BY <1>15, JobBegins, IdleIs DEF DisconnectTakes
<1>16. ASSUME CleanupTakes PROVE StepInv'
  BY <1>16, JobBegins, IdleIs DEF CleanupTakes, Current
<1>17. ASSUME Claim PROVE StepInv'
  BY <1>17 DEF Claim
<1>18. ASSUME ClaimEnds PROVE StepInv'
  BY <1>18 DEF ClaimEnds
<1>19. ASSUME WriteStarts PROVE StepInv'
  BY <1>19 DEF WriteStarts, IsConnected
<1>20. ASSUME NEW p \in Procs, WriteEnds(p) PROVE StepInv'
  BY <1>20 DEF WriteEnds
<1>21. ASSUME UNCHANGED <<job, process, spawn, thread, writes>> PROVE StepInv'
  BY <1>21
<1>22. ASSUME Disconnect \/ Invalidate \/ EnqueueDispatch \/ DispatchGets \/ Dispatched PROVE StepInv'
  BY <1>21, <1>22 DEF Disconnect, Invalidate, EnqueueDispatch, DispatchGets, Dispatched, jobVars,
     ownVars, procVars, queueVars, readVars
<1>23. ASSUME NEW p \in Procs,
             \/ ReaderStarts(p) \/ Reads(p) \/ LooksUp(p) \/ Posts(p) \/ ProcStarts(p)
             \/ ProcFails(p) \/ ProcWrites(p) \/ ProcExits(p) \/ DescendantExits(p)
      PROVE  StepInv'
  BY <1>21, <1>23 DEF ReaderStarts, Reads, LooksUp, Posts, ProcStarts, ProcFails, ProcWrites, ProcExits,
     DescendantExits, jobVars, ownVars, procVars, queueVars, readVars
<1> QED BY <1>1, <1>2, <1>3, <1>4, <1>5, <1>6, <1>7, <1>8, <1>9, <1>10, <1>11, <1>12, <1>13, <1>14, <1>15,
     <1>16, <1>17, <1>18, <1>19, <1>20, <1>22, <1>23 DEF Next, ConnectStep, JobStep, ThreadStep,
     LoopStep, SpawnStep

\* A connection that is up has its process.
LEMMA UpKept == ASSUME OpenCodeInv, Next, job' \in JobType, TypeOK', JobInv' PROVE UpInv'
<1>0. /\ ProcType /\ OwnType /\ LockType /\ ThreadType /\ QueueType /\ job \in JobType /\ TypeOK
      /\ JobInv /\ SpawnInv /\ StepInv /\ UpInv /\ PostInv /\ LaterInv
  BY TypeParts DEF OpenCodeInv
<1> USE <1>0, NoneAssumption DEF OwnType, ProcType, UpInv, StepInv, SpawnInv, JobInv, IsConnected,
        procVars, ownVars, jobVars, readVars, queueVars, Leave, ScheduleCleanup, Steps, Down, NoThread,
        NoTask, NoCleanup
<1>1. ASSUME Connect PROVE UpInv'
  BY <1>1, ConnectJob, IdleIs DEF Connect, MustDisconnect, IsConnected
<1>2. ASSUME Spawned PROVE UpInv'
  BY <1>2, SpawnedJob DEF Spawned, NewQueue
<1>3. ASSUME SpawnFails PROVE UpInv'
  BY <1>3, JobUpdates DEF SpawnFails
<1>4. ASSUME Initialized PROVE UpInv'
  BY <1>4, IdleIs DEF Initialized
<1>5. ASSUME InitFails PROVE UpInv'
  BY <1>5, JobUpdates DEF InitFails, Retired
<1>6. ASSUME SpawnRefused PROVE UpInv'
  BY <1>6, JobUpdates DEF SpawnRefused
<1>7. ASSUME NEW p \in Procs, Spawn(p) PROVE UpInv'
  BY <1>7 DEF Spawn
<1>8. ASSUME Interrupt PROVE UpInv'
  BY <1>8, InterruptJob, IdleIs DEF Interrupt, procVars
<1>9. ASSUME Cancelled PROVE UpInv'
  BY <1>9, JobUpdates DEF Cancelled
<1>10. ASSUME Stop PROVE UpInv'
  BY <1>10, JobUpdates DEF Stop, SpawnPending, Dies
<1>11. ASSUME Close PROVE UpInv'
  BY <1>11, JobUpdates DEF Close
<1>12. ASSUME AwaitWrites PROVE UpInv'
  BY <1>12, JobUpdates DEF AwaitWrites
<1>13. ASSUME JoinReader PROVE UpInv'
  BY <1>13, JobUpdates DEF JoinReader, Joined, ReaderOver, Outlives
<1>14. ASSUME Drop PROVE UpInv'
  BY <1>14, DroppedJob, IdleIs DEF Drop
<1>15. ASSUME DisconnectTakes PROVE UpInv'
  BY <1>15, JobBegins, IdleIs DEF DisconnectTakes
<1>16. ASSUME CleanupTakes PROVE UpInv'
  BY <1>16, JobBegins, IdleIs DEF CleanupTakes, Current
<1>17. ASSUME Invalidate PROVE UpInv'
  BY <1>17 DEF Invalidate
<1>18. ASSUME Claim PROVE UpInv'
  BY <1>18 DEF Claim
<1>19. ASSUME ClaimEnds PROVE UpInv'
  BY <1>19 DEF ClaimEnds
<1>20. ASSUME DispatchGets PROVE UpInv'
  BY <1>20, TailIs DEF DispatchGets, MarkConsumed, Lost, InDisconnect
<1>21. ASSUME Dispatched PROVE UpInv'
  BY <1>21 DEF Dispatched, Lost, InDisconnect
<1>22. ASSUME UNCHANGED <<connected, job, process, spawn>> PROVE UpInv'
  BY <1>22
<1>23. ASSUME Disconnect \/ EnqueueDispatch \/ WriteStarts PROVE UpInv'
  BY <1>22, <1>23 DEF Disconnect, EnqueueDispatch, WriteStarts, jobVars, ownVars, procVars, queueVars,
     readVars
<1>24. ASSUME NEW p \in Procs,
             \/ ReaderStarts(p) \/ Reads(p) \/ LooksUp(p) \/ Posts(p) \/ WriteEnds(p)
             \/ ProcStarts(p) \/ ProcFails(p) \/ ProcWrites(p) \/ ProcExits(p)
             \/ DescendantExits(p)
      PROVE  UpInv'
  BY <1>22, <1>24 DEF ReaderStarts, Reads, LooksUp, Posts, WriteEnds, ProcStarts, ProcFails, ProcWrites,
     ProcExits, DescendantExits, jobVars, ownVars, procVars, queueVars, readVars
<1> QED BY <1>1, <1>2, <1>3, <1>4, <1>5, <1>6, <1>7, <1>8, <1>9, <1>10, <1>11, <1>12, <1>13, <1>14, <1>15,
     <1>16, <1>17, <1>18, <1>19, <1>20, <1>21, <1>23, <1>24 DEF Next, ConnectStep, JobStep, ThreadStep,
     LoopStep, SpawnStep

\* The clean-up at work meets no later process.
LEMMA LaterInvKept == ASSUME OpenCodeInv, Next, job' \in JobType, TypeOK', JobInv' PROVE LaterInv'
<1>0. /\ ProcType /\ OwnType /\ LockType /\ ThreadType /\ QueueType /\ job \in JobType /\ TypeOK
      /\ JobInv /\ SpawnInv /\ StepInv /\ UpInv /\ PostInv /\ LaterInv
  BY TypeParts DEF OpenCodeInv
<1> USE <1>0, NoneAssumption DEF OwnType, LockType, LaterInv, SpawnInv, JobInv, StepInv, procVars,
        ownVars, jobVars, readVars, queueVars, Leave, ScheduleCleanup, Steps, Down, NoThread, NoTask,
        NoCleanup
<1>1. ASSUME Connect PROVE LaterInv'
  BY <1>1, ConnectJob, IdleIs DEF Connect, MustDisconnect, IsConnected
<1>2. ASSUME Spawned PROVE LaterInv'
  BY <1>2, SpawnedJob DEF Spawned, NewQueue
<1>3. ASSUME SpawnFails PROVE LaterInv'
  BY <1>3, JobUpdates DEF SpawnFails
<1>4. ASSUME Initialized PROVE LaterInv'
  BY <1>4, IdleIs DEF Initialized
<1>5. ASSUME InitFails PROVE LaterInv'
  BY <1>5, JobUpdates DEF InitFails, Retired
<1>6. ASSUME SpawnRefused PROVE LaterInv'
  BY <1>6, JobUpdates DEF SpawnRefused
<1>7. ASSUME NEW p \in Procs, Spawn(p) PROVE LaterInv'
  BY <1>7 DEF Spawn
<1>8. ASSUME Interrupt PROVE LaterInv'
  <2>1. job'.who # "cleanup"
    BY <1>8, InterruptJob, IdleIs
  <2>2. cleanup'.step # "none" => cleanup'.expected # None
    <3>1. cleanup' = cleanup \/ ScheduleCleanup
      BY <1>8 DEF Interrupt, Retired
    <3> QED BY <3>1
  <2> QED BY <2>1, <2>2
<1>9. ASSUME Cancelled PROVE LaterInv'
  BY <1>9, JobUpdates DEF Cancelled
<1>10. ASSUME Stop PROVE LaterInv'
  BY <1>10, JobUpdates DEF Stop, SpawnPending, Dies
<1>11. ASSUME Close PROVE LaterInv'
  BY <1>11, JobUpdates DEF Close
<1>12. ASSUME AwaitWrites PROVE LaterInv'
  BY <1>12, JobUpdates DEF AwaitWrites
<1>13. ASSUME JoinReader PROVE LaterInv'
  BY <1>13, JobUpdates DEF JoinReader, Joined, ReaderOver, Outlives
<1>14. ASSUME Drop PROVE LaterInv'
  <2>1. job'.who # "cleanup" /\ (cleanup' = cleanup \/ cleanup' = NoCleanup)
    BY <1>14, DroppedJob, IdleIs
  <2> QED BY <2>1
<1>15. ASSUME DisconnectTakes PROVE LaterInv'
  BY <1>15, JobBegins, IdleIs DEF DisconnectTakes
<1>16. ASSUME CleanupTakes PROVE LaterInv'
  BY <1>16, JobBegins, IdleIs DEF CleanupTakes, Current
<1>17. ASSUME Invalidate PROVE LaterInv'
  BY <1>17 DEF Invalidate
<1>18. ASSUME Claim PROVE LaterInv'
  BY <1>18 DEF Claim
<1>19. ASSUME ClaimEnds PROVE LaterInv'
  BY <1>19 DEF ClaimEnds
<1>20. ASSUME DispatchGets PROVE LaterInv'
  BY <1>20, TailIs DEF DispatchGets, MarkConsumed, Lost, InDisconnect
<1>21. ASSUME Dispatched PROVE LaterInv'
  BY <1>21 DEF Dispatched, Lost, InDisconnect
<1>22. ASSUME UNCHANGED <<claim, cleanup, job, process, spawn>> PROVE LaterInv'
  BY <1>22
<1>23. ASSUME Disconnect \/ EnqueueDispatch \/ WriteStarts PROVE LaterInv'
  BY <1>22, <1>23 DEF Disconnect, EnqueueDispatch, WriteStarts, jobVars, ownVars, procVars, queueVars,
     readVars
<1>24. ASSUME NEW p \in Procs,
             \/ ReaderStarts(p) \/ Reads(p) \/ LooksUp(p) \/ Posts(p) \/ WriteEnds(p)
             \/ ProcStarts(p) \/ ProcFails(p) \/ ProcWrites(p) \/ ProcExits(p)
             \/ DescendantExits(p)
      PROVE  LaterInv'
  BY <1>22, <1>24 DEF ReaderStarts, Reads, LooksUp, Posts, WriteEnds, ProcStarts, ProcFails, ProcWrites,
     ProcExits, DescendantExits, jobVars, ownVars, procVars, queueVars, readVars
<1> QED BY <1>1, <1>2, <1>3, <1>4, <1>5, <1>6, <1>7, <1>8, <1>9, <1>10, <1>11, <1>12, <1>13, <1>14, <1>15,
     <1>16, <1>17, <1>18, <1>19, <1>20, <1>21, <1>23, <1>24 DEF Next, ConnectStep, JobStep, ThreadStep,
     LoopStep, SpawnStep

\* The reader threads stay the client's own.
LEMMA ThreadsKept == ASSUME OpenCodeInv, ConnInv, ~SlowThreads, Next, job' \in JobType, TypeOK', JobInv' PROVE ThreadInv'
<1>0. /\ ProcType /\ OwnType /\ LockType /\ ThreadType /\ QueueType /\ job \in JobType /\ TypeOK
      /\ JobInv /\ SpawnInv /\ StepInv /\ UpInv /\ PostInv /\ LaterInv
  BY TypeParts DEF OpenCodeInv
<1>a. ThreadInv /\ AloneInv /\ OwnConnection
  BY DEF ConnInv
<1> USE <1>0, <1>a, NoneAssumption DEF ThreadType, OwnType, ThreadInv, OwnReader, StepInv, SpawnInv,
        JobInv, UpInv, Threads, Running, IsConnected, PostInv, procVars, ownVars, jobVars, readVars,
        queueVars, Leave, ScheduleCleanup, Steps, Down, NoThread, NoTask, NoCleanup
<1>1. ASSUME Connect PROVE ThreadInv'
  BY <1>1, ConnectJob, IdleIs DEF Connect, MustDisconnect, IsConnected
<1>2. ASSUME Spawned PROVE ThreadInv'
  BY <1>2, SpawnedJob DEF Spawned, NewQueue
<1>3. ASSUME SpawnFails PROVE ThreadInv'
  BY <1>3, JobUpdates DEF SpawnFails
<1>4. ASSUME Initialized PROVE ThreadInv'
  BY <1>4, IdleIs DEF Initialized
<1>5. ASSUME InitFails PROVE ThreadInv'
  BY <1>5, JobUpdates DEF InitFails, Retired
<1>6. ASSUME SpawnRefused PROVE ThreadInv'
  BY <1>6, JobUpdates DEF SpawnRefused
<1>7. ASSUME NEW p \in Procs, Spawn(p) PROVE ThreadInv'
  BY <1>7 DEF Spawn
<1>8. ASSUME Interrupt PROVE ThreadInv'
  <2>1. UNCHANGED <<reader, thread, spawn, process>> /\ job'.phase # "spawn"
    BY <1>8, InterruptJob, IdleIs
  <2>2. \/ disconnecting' = "lock"
        \/ disconnecting' = disconnecting /\ job'.step = job.step
        \/ job'.step \in Steps \ {"drop"}
    BY <1>8, InterruptJob, IdleIs
  <2> QED BY <2>1, <2>2
<1>9. ASSUME Cancelled PROVE ThreadInv'
  BY <1>9, JobUpdates DEF Cancelled
<1>10. ASSUME Stop PROVE ThreadInv'
  BY <1>10, JobUpdates DEF Stop, SpawnPending, Dies
<1>11. ASSUME Close PROVE ThreadInv'
  BY <1>11, JobUpdates DEF Close
<1>12. ASSUME AwaitWrites PROVE ThreadInv'
  BY <1>12, JobUpdates DEF AwaitWrites
<1>13. ASSUME JoinReader PROVE ThreadInv'
  BY <1>13, JobUpdates DEF JoinReader, Joined, ReaderOver, Outlives
<1>14. ASSUME Drop PROVE ThreadInv'
  BY <1>14, DroppedJob, IdleIs DEF Drop
<1>15. ASSUME Disconnect PROVE ThreadInv'
  BY <1>15 DEF Disconnect
<1>16. ASSUME DisconnectTakes PROVE ThreadInv'
  BY <1>16, JobBegins, IdleIs DEF DisconnectTakes
<1>17. ASSUME CleanupTakes PROVE ThreadInv'
  BY <1>17, JobBegins, IdleIs DEF CleanupTakes, Current
<1>18. ASSUME Claim PROVE ThreadInv'
  BY <1>18 DEF Claim
<1>19. ASSUME ClaimEnds PROVE ThreadInv'
  BY <1>19 DEF ClaimEnds
<1>20. ASSUME NEW p \in Procs, ThreadStep(p) PROVE ThreadInv'
  BY <1>20, ThreadKeepsOwn
<1>21. ASSUME UNCHANGED <<disconnecting, job, process, reader, spawn, thread>> PROVE ThreadInv'
  BY <1>21
<1>22. ASSUME Invalidate \/ EnqueueDispatch \/ DispatchGets \/ Dispatched \/ WriteStarts PROVE ThreadInv'
  BY <1>21, <1>22 DEF Invalidate, EnqueueDispatch, DispatchGets, Dispatched, WriteStarts, jobVars,
     ownVars, procVars, queueVars, readVars
<1>23. ASSUME NEW p \in Procs,
             \/ WriteEnds(p) \/ ProcStarts(p) \/ ProcFails(p) \/ ProcWrites(p) \/ ProcExits(p)
             \/ DescendantExits(p)
      PROVE  ThreadInv'
  BY <1>21, <1>23 DEF WriteEnds, ProcStarts, ProcFails, ProcWrites, ProcExits, DescendantExits, jobVars,
     ownVars, procVars, queueVars, readVars
<1> QED BY <1>1, <1>2, <1>3, <1>4, <1>5, <1>6, <1>7, <1>8, <1>9, <1>10, <1>11, <1>12, <1>13, <1>14, <1>15,
     <1>16, <1>17, <1>18, <1>19, <1>20, <1>22, <1>23 DEF Next, ConnectStep, JobStep, LoopStep, SpawnStep

\* What posts to the loop of a connection that is up is its own.
LEMMA AloneKept == ASSUME OpenCodeInv, ConnInv, ~SlowThreads, Next, job' \in JobType, TypeOK', JobInv' PROVE AloneInv'
<1>0. /\ ProcType /\ OwnType /\ LockType /\ ThreadType /\ QueueType /\ job \in JobType /\ TypeOK
      /\ JobInv /\ SpawnInv /\ StepInv /\ UpInv /\ PostInv /\ LaterInv
  BY TypeParts DEF OpenCodeInv
<1>a. ThreadInv /\ AloneInv /\ OwnConnection
  BY DEF ConnInv
<1> USE <1>0, <1>a, NoneAssumption DEF ThreadType, OwnType, QueueType, AloneInv, ThreadInv, StepInv,
        SpawnInv, JobInv, UpInv, Threads, PostInv, procVars, ownVars, jobVars, readVars, queueVars,
        Leave, ScheduleCleanup, Steps, Down, NoThread, NoTask
<1>1. ASSUME Connect PROVE AloneInv'
  <2>1. UNCHANGED <<connected, reader, ready, process>>
    BY <1>1, ConnectJob
  <2> QED BY <2>1
<1>2. ASSUME Spawned PROVE AloneInv'
  BY <1>2, SpawnedJob DEF Spawned, NewQueue
<1>3. ASSUME InitFails PROVE AloneInv'
  BY <1>3, JobUpdates DEF InitFails, Retired
<1>4. ASSUME Interrupt PROVE AloneInv'
  <2>1. UNCHANGED <<reader, ready, process>> /\ (connected' => connected)
    <3>1. UNCHANGED <<reader, ready, inbox, dispatcher, process, writes>> /\ (connected' = connected \/ connected' = FALSE)
      BY <1>4, InterruptJob
    <3>2. connected' => connected
      BY <3>1, Zenon
    <3> QED BY <3>1, <3>2
  <2> QED BY <2>1
<1>5. ASSUME Cancelled PROVE AloneInv'
  BY <1>5, JobUpdates DEF Cancelled
<1>6. ASSUME Close PROVE AloneInv'
  BY <1>6, JobUpdates DEF Close
<1>7. ASSUME Invalidate PROVE AloneInv'
  BY <1>7 DEF Invalidate
<1>8. ASSUME Claim PROVE AloneInv'
  BY <1>8 DEF Claim
<1>9. ASSUME ClaimEnds PROVE AloneInv'
  BY <1>9 DEF ClaimEnds
<1>10. ASSUME EnqueueDispatch PROVE AloneInv'
  BY <1>10, TailIs, AppendIs DEF EnqueueDispatch, Accepts, MarkConsumed, Frame
<1>11. ASSUME DispatchGets PROVE AloneInv'
  BY <1>11, TailIs DEF DispatchGets, MarkConsumed, Lost, InDisconnect
<1>12. ASSUME Dispatched PROVE AloneInv'
  BY <1>12 DEF Dispatched, Lost, InDisconnect
<1>13. ASSUME NEW p \in Procs, ThreadStep(p) PROVE AloneInv'
  BY <1>13, PostsOwn
<1>14. ASSUME UNCHANGED <<connected, process, reader, ready>> PROVE AloneInv'
  BY <1>14
<1>15. ASSUME \/ SpawnFails \/ Initialized \/ SpawnRefused \/ Stop \/ AwaitWrites \/ JoinReader
             \/ Drop \/ Disconnect \/ DisconnectTakes \/ CleanupTakes \/ WriteStarts
      PROVE  AloneInv'
  BY <1>14, <1>15 DEF SpawnFails, Initialized, SpawnRefused, Stop, AwaitWrites, JoinReader, Drop,
     Disconnect, DisconnectTakes, CleanupTakes, WriteStarts, jobVars, ownVars, procVars, queueVars,
     readVars
<1>16. ASSUME NEW p \in Procs,
             \/ Spawn(p) \/ WriteEnds(p) \/ ProcStarts(p) \/ ProcFails(p) \/ ProcWrites(p)
             \/ ProcExits(p) \/ DescendantExits(p)
      PROVE  AloneInv'
  BY <1>14, <1>16 DEF Spawn, WriteEnds, ProcStarts, ProcFails, ProcWrites, ProcExits, DescendantExits,
     jobVars, ownVars, procVars, queueVars, readVars
<1> QED BY <1>1, <1>2, <1>3, <1>4, <1>5, <1>6, <1>7, <1>8, <1>9, <1>10, <1>11, <1>12, <1>13, <1>15, <1>16 DEF
     Next, ConnectStep, JobStep, LoopStep, SpawnStep

\* So is what waits for the dispatcher.
LEMMA ConnectionKept == ASSUME OpenCodeInv, ConnInv, ~SlowThreads, Next, job' \in JobType, TypeOK', JobInv' PROVE OwnConnection'
<1>0. /\ ProcType /\ OwnType /\ LockType /\ ThreadType /\ QueueType /\ job \in JobType /\ TypeOK
      /\ JobInv /\ SpawnInv /\ StepInv /\ UpInv /\ PostInv /\ LaterInv
  BY TypeParts DEF OpenCodeInv
<1>a. ThreadInv /\ AloneInv /\ OwnConnection
  BY DEF ConnInv
<1> USE <1>0, <1>a, NoneAssumption DEF OwnType, QueueType, UpInv, AloneInv, OwnConnection, OwnFrames,
        OwnWrites, StepInv, SpawnInv, JobInv, procVars, ownVars, jobVars, readVars, queueVars, Leave,
        ScheduleCleanup, Steps, Down, NoThread, NoTask, NoCleanup
<1>1. ASSUME Spawned PROVE OwnConnection'
  BY <1>1, SpawnedJob DEF Spawned, NewQueue
<1>2. ASSUME InitFails PROVE OwnConnection'
  BY <1>2, JobUpdates DEF InitFails, Retired
<1>3. ASSUME Interrupt PROVE OwnConnection'
  <2>1. UNCHANGED <<inbox, dispatcher, process, writes>> /\ (connected' => connected)
    <3>1. UNCHANGED <<reader, ready, inbox, dispatcher, process, writes>> /\ (connected' = connected \/ connected' = FALSE)
      BY <1>3, InterruptJob
    <3>2. connected' => connected
      BY <3>1, Zenon
    <3> QED BY <3>1, <3>2
  <2> QED BY <2>1
<1>4. ASSUME Cancelled PROVE OwnConnection'
  BY <1>4, JobUpdates DEF Cancelled
<1>5. ASSUME Close PROVE OwnConnection'
  BY <1>5, JobUpdates DEF Close
<1>6. ASSUME Drop PROVE OwnConnection'
  BY <1>6, DroppedJob, IdleIs DEF Drop
<1>7. ASSUME Invalidate PROVE OwnConnection'
  BY <1>7 DEF Invalidate
<1>8. ASSUME Claim PROVE OwnConnection'
  BY <1>8 DEF Claim
<1>9. ASSUME ClaimEnds PROVE OwnConnection'
  BY <1>9 DEF ClaimEnds
<1>10. ASSUME EnqueueDispatch PROVE OwnConnection'
  <2>1. UNCHANGED <<connected, process, dispatcher, writes>>
    BY <1>10 DEF EnqueueDispatch
  <2>2. ASSUME connected, NEW i \in 1 .. Len(inbox') PROVE inbox'[i].from = process
    <3>1. ready[1].from = process /\ ready[1] \in Post
      BY <1>10, <2>2, TailIs DEF EnqueueDispatch
    <3>2. Frame(ready[1].from, ready[1].item) \in Message /\ Frame(ready[1].from, ready[1].item).from = process
      BY <3>1 DEF Frame, Post, Message
    <3>3. inbox' = inbox \/ inbox' = Append(inbox, Frame(ready[1].from, ready[1].item))
      BY <1>10 DEF EnqueueDispatch
    <3>4. \A k \in 1 .. Len(inbox) : inbox[k].from = process
      BY <2>2
    <3>5. CASE inbox' = inbox
      BY <2>2, <3>4, <3>5
    <3>6. CASE inbox' = Append(inbox, Frame(ready[1].from, ready[1].item))
      <4>1. Len(inbox') = Len(inbox) + 1 /\ inbox'[Len(inbox) + 1].from = process /\ Len(inbox) \in Nat
            /\ \A k \in 1 .. Len(inbox) : inbox'[k] = inbox[k]
        BY <3>2, <3>6, AppendIs, LenProperties
      <4> QED BY <2>2, <3>4, <4>1
    <3> QED BY <3>3, <3>5, <3>6
  <2> QED BY <2>1, <2>2
<1>11. ASSUME DispatchGets PROVE OwnConnection'
  BY <1>11, TailIs DEF DispatchGets, MarkConsumed, Lost, InDisconnect
<1>12. ASSUME Dispatched PROVE OwnConnection'
  BY <1>12 DEF Dispatched, Lost, InDisconnect
<1>13. ASSUME WriteStarts PROVE OwnConnection'
  BY <1>13 DEF WriteStarts, IsConnected
<1>14. ASSUME NEW p \in Procs, WriteEnds(p) PROVE OwnConnection'
  BY <1>14 DEF WriteEnds
<1>15. ASSUME NEW p \in Procs, ThreadStep(p) PROVE OwnConnection'
  BY <1>15, PostsOwn, ThreadKeepsOwn
<1>16. ASSUME UNCHANGED <<connected, dispatcher, inbox, process, writes>> PROVE OwnConnection'
  BY <1>16
<1>17. ASSUME \/ Connect \/ SpawnFails \/ Initialized \/ SpawnRefused \/ Stop \/ AwaitWrites
             \/ JoinReader \/ Disconnect \/ DisconnectTakes \/ CleanupTakes
      PROVE  OwnConnection'
  BY <1>16, <1>17 DEF Connect, SpawnFails, Initialized, SpawnRefused, Stop, AwaitWrites, JoinReader,
     Disconnect, DisconnectTakes, CleanupTakes, ownVars, procVars, queueVars, readVars
<1>18. ASSUME NEW p \in Procs,
             \/ Spawn(p) \/ ProcStarts(p) \/ ProcFails(p) \/ ProcWrites(p) \/ ProcExits(p)
             \/ DescendantExits(p)
      PROVE  OwnConnection'
  BY <1>16, <1>18 DEF Spawn, ProcStarts, ProcFails, ProcWrites, ProcExits, DescendantExits, jobVars,
     ownVars, queueVars, readVars
<1> QED BY <1>1, <1>2, <1>3, <1>4, <1>5, <1>6, <1>7, <1>8, <1>9, <1>10, <1>11, <1>12, <1>13, <1>14, <1>15,
     <1>17, <1>18 DEF Next, ConnectStep, JobStep, LoopStep, SpawnStep

\* It holds of a client that was just made.
LEMMA OpenCodeStarts == Init => OpenCodeInv /\ ConnInv
<1> SUFFICES ASSUME Init PROVE OpenCodeInv /\ ConnInv
  OBVIOUS
<1>1. TypeOK
  <2>1. /\ Idle \in JobType /\ NoCleanup \in [step : {"none", "lock", "in"}, expected : Procs \cup {None}]
        /\ NoThread \in ReaderType /\ NoTask \in [at : {"none", "get", "handle"}, from : Procs \cup {None}]
    BY DEF JobType, ReaderType, Items0, Idle, NoCleanup, NoThread, NoTask
  <2>2. ProcType /\ OwnType /\ LockType
    <3>1. ProcType
      <4>1. proc = [p \in Procs |-> "none"] /\ pipe = [p \in Procs |-> 0] /\ 0 \in 0 .. Frames
        BY LimitAssumption DEF Init, InitThreads
      <4> QED BY <4>1 DEF ProcType
    <3>2. OwnType /\ LockType
      BY <2>1 DEF Init, InitThreads, OwnType, LockType
    <3> QED BY <3>1, <3>2
  <2>3. ThreadType /\ QueueType
    <3>1. ready \in Seq(Post) /\ inbox \in Seq(Message)
      BY DEF Init, InitThreads
    <3>2. /\ reader = [p \in Procs |-> NoThread] /\ thread = None /\ queue = None /\ scheduled = 0
          /\ overflow = FALSE /\ dispatcher = NoTask
      BY DEF Init, InitThreads
    <3>3. 0 \in 0 .. Limit + 1
      BY LimitAssumption
    <3> QED BY <2>1, <3>1, <3>2, <3>3 DEF ThreadType, QueueType
  <2> QED BY <2>1, <2>2, <2>3, TypeParts DEF Init
<1> USE NoneAssumption, LimitAssumption DEF Init, InitThreads, Idle, NoThread, NoTask, NoCleanup
<1>2. JobInv /\ SpawnInv /\ StepInv /\ UpInv /\ LaterInv
  BY DEF JobInv, SpawnInv, StepInv, UpInv, LaterInv, Running
<1>3. PostInv /\ CountInv
  BY DEF PostInv, CountInv
<1>4. ThreadInv /\ AloneInv /\ OwnConnection
  BY DEF ThreadInv, AloneInv, OwnConnection, OwnFrames, OwnWrites, Threads
<1> QED BY <1>1, <1>2, <1>3, <1>4 DEF OpenCodeInv, ConnInv

\* Nothing changes unless a step is taken.
LEMMA OpenCodeStays == ASSUME UNCHANGED vars PROVE (OpenCodeInv => OpenCodeInv') /\ (ConnInv => ConnInv')
<1> USE DEF vars, procVars, ownVars, jobVars, readVars, queueVars
<1>1. OpenCodeInv => OpenCodeInv'
  <2>1. TypeOK => TypeOK'
    BY DEF TypeOK
  <2>2. JobInv /\ SpawnInv /\ StepInv /\ UpInv /\ LaterInv => (JobInv /\ SpawnInv /\ StepInv /\ UpInv /\ LaterInv)'
    BY DEF JobInv, SpawnInv, StepInv, UpInv, LaterInv, Running
  <2>3. PostInv /\ CountInv => (PostInv /\ CountInv)'
    BY DEF PostInv, CountInv
  <2> QED BY <2>1, <2>2, <2>3 DEF OpenCodeInv
<1>2. ConnInv => ConnInv'
  BY DEF ConnInv, ThreadInv, AloneInv, OwnConnection, OwnFrames, OwnWrites, Threads, OwnReader
<1> QED BY <1>1, <1>2

\* Types and the job, after a step.
LEMMA OpenCodeTyped == ASSUME OpenCodeInv, Next PROVE TypeOK' /\ job' \in JobType /\ JobInv'
<1>1. ProcType' /\ OwnType' /\ LockType' /\ ThreadType' /\ QueueType' /\ job' \in JobType /\ JobInv'
  BY ProcKept, OwnKept, LockKept, ThreadKept, QueueKept, JobKept DEF OpenCodeInv
<1>2. TypeOK'
  <2>1. ProcType' /\ OwnType' /\ LockType' /\ ThreadType' /\ QueueType' /\ (job \in JobType)'
    BY <1>1
  <2> QED BY <2>1, TypeParts, PTL
<1> QED BY <1>1, <1>2

\* Every step keeps it.
LEMMA OpenCodeKeeps == OpenCodeInv /\ [Next]_vars => OpenCodeInv'
<1>1. ASSUME OpenCodeInv, Next PROVE OpenCodeInv'
  <2>1. TypeOK' /\ job' \in JobType /\ JobInv'
    BY <1>1, OpenCodeTyped
  <2> QED BY <1>1, <2>1, SpawnKept, StepKept, UpKept, ThreadKept, QueueKept, LaterInvKept DEF OpenCodeInv
<1> QED BY <1>1, OpenCodeStays

\* As long as no thread outlives the wait for it, what a connection is given
\* and what it is sent to stays its own.
LEMMA OpenCodeOwns == ~SlowThreads /\ OpenCodeInv /\ ConnInv /\ [Next]_vars => ConnInv'
<1>1. ASSUME ~SlowThreads, OpenCodeInv, ConnInv, Next PROVE ConnInv'
  <2>1. TypeOK' /\ job' \in JobType /\ JobInv'
    BY <1>1, OpenCodeTyped
  <2> QED BY <1>1, <2>1, ThreadsKept, AloneKept, ConnectionKept DEF ConnInv
<1> QED BY <1>1, OpenCodeStays

-----------------------------------------------------------------------------
(* The OpenCode client keeps the contract *)

\* At most one process runs, and the client can clean it up.
LEMMA OpenCodeSafe == ASSUME kind = "opencode", OpenCodeInv PROVE Safe
<1>1. Holds = ({process, spawn, thread} \cup writes) \ {None}
  BY DEF Holds
<1>2. Running \subseteq {process, spawn} /\ Running \subseteq Procs
  BY DEF OpenCodeInv, SpawnInv, Running
<1>3. /\ process \in Procs \cup {None} /\ spawn \in Procs \cup {None} /\ thread \in Procs \cup {None}
      /\ writes \subseteq Procs
      /\ spawn # None => process \in {None, spawn}
  BY DEF OpenCodeInv, TypeOK, SpawnInv
<1> QED BY <1>1, <1>2, <1>3, NoneAssumption DEF Safe

\* A process is started only while none can run: what there was is reaped, and
\* no earlier start is pending.
LEMMA OpenCodeLaunches == ASSUME OpenCodeInv, NEW p \in Procs, Spawn(p) PROVE Launches
<1>1. Running = {}
  BY NoneAssumption DEF Spawn, OpenCodeInv, StepInv, SpawnInv, Running
<1>2. Running' = {p}
  BY <1>1 DEF Spawn, Running, OpenCodeInv, TypeOK
<1>3. Closing' = Closing
  BY DEF Spawn, jobVars, Closing
<1> QED BY <1>1, <1>2, <1>3 DEF Launches

\* disconnect() that succeeds has nothing left: it has reaped the process, no
\* start was pending, and it has waited for the threads.
LEMMA OpenCodeCloses == ASSUME kind = "opencode", kind' = kind, OpenCodeInv, Drop PROVE Moves
<1>1. UNCHANGED <<proc, process, spawn, thread, writes>> /\ job.step = "drop"
  BY DEF Drop, procVars, ownVars, readVars
<1>2. Running' = Running
  BY <1>1 DEF Running
<1>3. CASE job.who = "disconnect"
  <2>1. disconnecting = "in" /\ disconnecting' = IF job.failed THEN "bad" ELSE "ok"
    BY <1>3, DroppedJob DEF OpenCodeInv, JobInv
  <2>2. CASE job.failed
    BY <1>2, <2>1, <2>2 DEF Moves, Left, Closing
  <2>3. CASE ~job.failed
    <3>1. process = None /\ spawn = None /\ thread = None /\ writes = {}
      BY <1>1, <2>3 DEF OpenCodeInv, StepInv
    <3>2. Holds' = {}
      BY <1>1, <3>1 DEF Holds
    <3> QED BY <2>1, <2>3, <3>2 DEF Moves, Emptied, Closing
  <2> QED BY <2>2, <2>3
<1>4. CASE job.who # "disconnect"
  <2>1. disconnecting # "in" /\ disconnecting' \in {disconnecting, "lock"}
    BY <1>4, DroppedJob DEF OpenCodeInv, JobInv
  <2> QED BY <1>2, <2>1 DEF Moves, Keeps, Begun, Closing
<1> QED BY <1>3, <1>4

\* Every step of the client is one that the contract allows.
LEMMA OpenCodeMoves == ASSUME kind = "opencode", kind' = kind, OpenCodeInv, Next PROVE Moves
<1>1. ASSUME Interrupt \/ Initialized \/ Disconnect PROVE Keeps \/ Begun
  <2>1. UNCHANGED proc
    BY <1>1 DEF Interrupt, Initialized, Disconnect, procVars
  <2>2. disconnecting' = disconnecting \/ (disconnecting # "in" /\ disconnecting' = "lock")
    <3>1. CASE Disconnect
      BY <3>1 DEF Disconnect
    <3>2. CASE Interrupt \/ Initialized
      <4>1. job # Idle /\ job.who = "connect"
        BY <3>2, InterruptJob, IdleIs DEF Initialized, OpenCodeInv, JobInv, TypeOK
      <4>2. disconnecting # "in"
        BY <4>1 DEF OpenCodeInv, JobInv
      <4>3. disconnecting' \in {disconnecting, "lock"}
        BY <3>2, InterruptJob DEF Initialized, Leave, OpenCodeInv
      <4> QED BY <4>2, <4>3
    <3> QED BY <1>1, <3>1, <3>2
  <2> QED BY <2>1, <2>2 DEF Keeps, Begun, Running, Closing
<1>2. ASSUME UNCHANGED proc, Closing' = Closing PROVE Keeps
  BY <1>2 DEF Keeps, Running
<1>3. ASSUME \/ Connect \/ Spawned \/ SpawnFails \/ InitFails \/ SpawnRefused \/ Cancelled \/ AwaitWrites \/ JoinReader
             \/ DisconnectTakes \/ CleanupTakes \/ Invalidate \/ Claim \/ LoopStep \/ WriteStarts
             \/ \E q \in Procs : ThreadStep(q) \/ WriteEnds(q) \/ ProcWrites(q)
      PROVE  Keeps
  <2>1. UNCHANGED proc
    BY <1>3 DEF Connect, Spawned, SpawnFails, InitFails, SpawnRefused, Cancelled, AwaitWrites, JoinReader,
       DisconnectTakes,
       CleanupTakes, Invalidate, Claim, LoopStep, EnqueueDispatch, DispatchGets, Dispatched, WriteStarts,
       ThreadStep,
       ReaderStarts, Reads, LooksUp, Posts, WriteEnds, ProcWrites, procVars
  <2>2. Closing' = Closing
    BY <1>3 DEF Connect, Spawned, SpawnFails, InitFails, SpawnRefused, Cancelled, AwaitWrites, JoinReader,
       DisconnectTakes,
       CleanupTakes, Invalidate, Claim, LoopStep, EnqueueDispatch, DispatchGets, Dispatched, WriteStarts,
       ThreadStep,
       ReaderStarts, Reads, LooksUp, Posts, WriteEnds, ProcWrites, jobVars, Closing
  <2> QED BY SMTT(30), <1>2, <2>1, <2>2
<1>4. ASSUME \/ Stop \/ Close \/ ClaimEnds
             \/ \E p \in Procs : SpawnStep(p) \/ ProcExits(p) \/ DescendantExits(p)
      PROVE  Keeps
  <2>1. \/ proc' = proc
        \/ \E p \in Procs, s \in {"dead", "held", "closed", "failed"} : proc' = [proc EXCEPT ![p] = s]
        \/ \E p \in Procs : proc[p] = "starting" /\ proc' = [proc EXCEPT ![p] = "alive"]
    BY <1>4, NoneAssumption DEF Stop, Close, ClaimEnds, SpawnStep, ProcStarts, ProcFails, ProcExits,
       DescendantExits, Dies,
       OpenCodeInv, TypeOK, SpawnInv, StepInv
  <2>2. Running' = Running \/ \E p \in Procs : Running' = Running \ {p}
    <3> USE DEF Running, OpenCodeInv, TypeOK
    <3>1. ASSUME NEW p \in Procs, NEW s \in {"dead", "held", "closed", "failed"}, proc' = [proc EXCEPT ![p] = s]
          PROVE  Running' = Running \ {p}
      BY <3>1
    <3>2. ASSUME NEW p \in Procs, proc[p] = "starting", proc' = [proc EXCEPT ![p] = "alive"] PROVE Running' = Running
      BY <3>2
    <3> QED BY <2>1, <3>1, <3>2
  <2>3. UNCHANGED disconnecting
    BY <1>4 DEF Stop, Close, ClaimEnds, SpawnStep, ProcStarts, ProcFails, ProcExits, DescendantExits, jobVars
  <2> QED BY <2>2, <2>3, OpenCodeSafe DEF Safe, Keeps, Closing
<1> QED BY <1>1, <1>3, <1>4, OpenCodeLaunches, OpenCodeCloses DEF Next, ConnectStep, JobStep, Moves

-----------------------------------------------------------------------------
(* The three clients together *)

\* A client without a reader thread, a queue or a worker thread that writes.
Quiet == ready = <<>> /\ queue = None /\ inbox = <<>> /\ dispatcher = NoTask /\ writes = {}

ClientsInv ==
    \/ kind = "native" /\ NativeInv /\ Quiet
    \/ kind = "cursor" /\ CursorInv /\ Quiet
    \/ kind = "opencode" /\ OpenCodeInv

OwnersInv == kind = "opencode" => ConnInv

\* What the steps of every kind leave alone.
LEMMA ClientsStay ==
    ASSUME UNCHANGED clientsVars
    PROVE  /\ UNCHANGED <<kind, Native!vars, Cursor!vars, vars>> /\ (Quiet => Quiet')
BY DEF clientsVars, vars, nativeVars, cursorVars, Cursor!procVars, procVars, ownVars, jobVars, readVars,
   queueVars, Native!vars,
   Native!procVars, Native!lockVars, Native!callVars, Native!taskVars, Native!hostVars, Cursor!vars, Quiet

\* A client of any kind starts in the invariant.
LEMMA ClientsStart == ClientsInit => ClientsInv /\ OwnersInv
<1>1. ASSUME ClientsInit, InitThreads PROVE Quiet
  BY <1>1 DEF InitThreads, Quiet
<1> QED BY <1>1, NativeStarts, CursorStarts, OpenCodeStarts DEF ClientsInit, ClientsInv, OwnersInv

\* A step of any kind of client keeps it.
LEMMA ClientsKeep == ClientsInv /\ [ClientsNext]_clientsVars => ClientsInv'
<1> SUFFICES ASSUME ClientsInv, [ClientsNext]_clientsVars PROVE ClientsInv'
  OBVIOUS
<1>1. CASE NativeStep
  <2>1. Quiet => Quiet'
    BY <1>1 DEF NativeStep, openCodeVars, queueVars, Quiet
  <2> QED BY <1>1, <2>1, NativeKeeps DEF NativeStep, ClientsInv
<1>2. CASE CursorStep
  <2>1. Quiet => Quiet'
    BY <1>2 DEF CursorStep, openCodeVars, queueVars, Quiet
  <2> QED BY <1>2, <2>1, CursorKeeps DEF CursorStep, ClientsInv
<1>3. CASE OpenCodeStep
  BY <1>3, OpenCodeKeeps DEF OpenCodeStep, ClientsInv
<1>4. CASE UNCHANGED clientsVars
  BY <1>4, ClientsStay, NativeKeeps, CursorKeeps, OpenCodeKeeps DEF ClientsInv
<1> QED BY <1>1, <1>2, <1>3, <1>4 DEF ClientsNext

\* So it does what a connection owns.
LEMMA OwnersKeep == ~SlowThreads /\ ClientsInv /\ OwnersInv /\ [ClientsNext]_clientsVars => OwnersInv'
<1> SUFFICES ASSUME ~SlowThreads, ClientsInv, OwnersInv, [ClientsNext]_clientsVars, kind' = "opencode" PROVE ConnInv'
  BY DEF OwnersInv
<1>1. kind = "opencode" /\ [Next]_vars
  BY ClientsStay DEF ClientsNext, NativeStep, CursorStep, OpenCodeStep
<1> QED BY <1>1, OpenCodeOwns DEF ClientsInv, OwnersInv

\* The invariant holds in every state of every kind of client.
THEOREM ClientsInvariant == ClientsSpec => []ClientsInv
BY ClientsStart, ClientsKeep, PTL DEF ClientsSpec

\* The invariant of each kind gives what the contract shows of it.
LEMMA ClientsSafe == ClientsInv => Safe
BY NativeSafe, CursorSafe, OpenCodeSafe DEF ClientsInv

\* ClientTransport, CursorProcess and OpenCodeTransport implement ProcessOwner,
\* the contract the pool relies on, whatever is interrupted or fails and
\* whatever threads are late: at most one process runs, the client holds on to
\* it, and a disconnect() that reports success left no process, thread or
\* terminal behind (connect, disconnect, _disconnect_locked, _reap_process,
\* _claim_and_reap, close of the Cursor client).
THEOREM ClientsKeepContract == ClientsSpec => RefinesOwner
<1>1. ClientsInit => Contract!Init
  <2> SUFFICES ASSUME ClientsInit PROVE Contract!Init
    OBVIOUS
  <2>1. Running = {} /\ Closing = "none"
    BY DEF ClientsInit, Native!Init, Cursor!Init, Init, Running, Closing
  <2>2. Holds = {}
    BY DEF ClientsInit, Native!Init, Cursor!Init, Init, InitThreads, Holds
  <2> QED BY <2>1, <2>2 DEF Contract!Init
<1>2. ClientsInv /\ ClientsInv' /\ [ClientsNext]_clientsVars => [Contract!Next]_(Contract!vars)
  <2> SUFFICES ASSUME ClientsInv, ClientsInv', [ClientsNext]_clientsVars PROVE [Contract!Next]_(Contract!vars)
    OBVIOUS
  <2>1. Safe'
    BY ClientsSafe, PTL
  <2>2. CASE ClientsNext
    <3>1. Moves
      BY <2>2, NativeMoves, CursorMoves, OpenCodeMoves
         DEF ClientsNext, NativeStep, CursorStep, OpenCodeStep, ClientsInv
    <3> QED BY <2>1, <3>1, MovesAllowed
  <2>3. CASE UNCHANGED clientsVars
    BY <2>3 DEF Contract!vars, clientsVars, vars, procVars, ownVars, jobVars, readVars, nativeVars, Running,
       Holds, Closing
  <2> QED BY <2>2, <2>3
<1> QED BY <1>1, <1>2, ClientsInvariant, PTL DEF ClientsSpec, RefinesOwner, Contract!Spec

\* MAX_OPENCODE_DISPATCH_BACKLOG: the counter that the threads and the event
\* loop share is exact, over any number of connections (_schedule_dispatch,
\* _enqueue_dispatch, _dispatch_loop).
THEOREM BacklogCounted == ClientsSpec => []BacklogExact
<1>1. ClientsInv => BacklogExact
  BY DEF ClientsInv, Quiet, OpenCodeInv, TypeOK, CountInv, BacklogExact
<1> QED BY <1>1, ClientsInvariant, PTL

\* _cleanup_transport_if_current of the native and of the OpenCode client: the
\* clean-up that was scheduled for a lost transport never disconnects a later
\* one, whoever connects and disconnects in between.
THEOREM LaterTransportsKept == ClientsSpec => []CleanupKeepsLater
<1>1. ClientsInv => CleanupKeepsLater
  <2>1. NativeInv => Native!LaterKept
    BY DEF NativeInv, NativeLaterInv, NativeJobsInv, Native!LaterKept
  <2>2. OpenCodeInv => LaterKept
    BY DEF OpenCodeInv, LaterInv, LaterKept
  <2> QED BY <2>1, <2>2 DEF ClientsInv, CleanupKeepsLater
<1> QED BY <1>1, ClientsInvariant, PTL

\* A frame that is handled or waits while a connection counts as up was written
\* by its own process, and a worker thread writes to it, if no thread outlives
\* the time the client gives it: with slower ones the code keeps a reader it
\* cannot stop (_read_loop, _dispatch_loop, _write_with_timeout).
THEOREM ConnectionsOwn == ASSUME ~SlowThreads PROVE ClientsSpec => []OwnConnection
<1>1. ClientsInv /\ OwnersInv => OwnConnection
  BY DEF ClientsInv, Quiet, OwnersInv, ConnInv, OwnConnection, OwnFrames, OwnWrites, NoTask
<1>2. ClientsInv /\ OwnersInv /\ [ClientsNext]_clientsVars => OwnersInv'
  BY OwnersKeep
<1> QED BY <1>1, <1>2, ClientsStart, ClientsInvariant, PTL DEF ClientsSpec
=============================================================================
