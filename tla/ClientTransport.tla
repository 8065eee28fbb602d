-------------------------- MODULE ClientTransport --------------------------
(***************************************************************************)
(* The transport of a native client (src/src/soulacp/adapters/             *)
(* base_client.py, ACPClientBase): the child process, its reader, and the  *)
(* host services it uses.  connect(), disconnect(), the clean-up of a      *)
(* process that starts after its connect() gave up, and the clean-ups that *)
(* follow a lost connection run at once; _connect_lock, _disconnect_lock   *)
(* and _host_cleanup_lock order them, and a process may survive terminate  *)
(* and kill.                                                               *)
(*                                                                         *)
(* An interrupted RPC ends its best-effort notification no later than the  *)
(* process it writes to, so it never meets a later connection.             *)
(***************************************************************************)
EXTENDS ClientConstants, Naturals, FiniteSets

VARIABLES
    proc,          \* the processes
    process,       \* self.process
    connected,     \* _connected
    readers,       \* the processes a reader task reads
    spawn,         \* the process of _async_spawn_task
    claim,         \* _async_spawn_cleanup_task
    connectLock, disconnectLock, hostLock,
    pc,            \* the callers
    interrupted,   \* callers whose connect() was cancelled or timed out
    job,           \* the calls of _disconnect_locked
    disconnecting, \* _disconnect_task
    cleanup,       \* _process_cleanup_task
    hostCleanup,   \* _host_cleanup_task
    terminals,     \* whether _terminal_service has terminals
    leaked,        \* whether a service was replaced that had terminals
    needCleanup    \* _host_services_need_cleanup

procVars == <<proc, spawn, claim>>
lockVars == <<connectLock, disconnectLock, hostLock>>
callVars == <<pc, interrupted>>
taskVars == <<disconnecting, cleanup, hostCleanup>>
hostVars == <<terminals, leaked, needCleanup>>
vars == <<proc, process, connected, readers, spawn, claim, lockVars, callVars, job,
          taskVars, hostVars>>

\* Who disconnects: a connect() of a caller, the task of disconnect(), the
\* process clean-up, and the claim of a late process.
Jobs == Callers \cup {"disconnect", "cleanup", "claim"}
Idle == [step |-> "none", failed |-> FALSE]

Running == {p \in Procs : proc[p] \in {"starting", "alive"}}

\* Every variable keeps its type, and the spawn stays recorded while its claim
\* is at work.
TypeOK ==
    /\ proc \in [Procs -> {"none", "starting", "alive", "failed", "dead"}]
    /\ process \in Procs \cup {None} /\ readers \subseteq Procs
    /\ spawn \in Procs \cup {None} /\ claim \in {"none", "wait", "in"}
    /\ connected \in BOOLEAN
    /\ connectLock \in Jobs \cup {None}
    /\ disconnectLock \in Jobs \cup {None}
    /\ hostLock \in Jobs \cup {None, "host"}
    /\ pc \in [Callers -> {"out", "lock", "prior", "prepare", "close", "cut", "spawn",
                           "init", "fail", "disconnect"}]
    /\ interrupted \in [Callers -> BOOLEAN]
    /\ job \in [Jobs -> [step : {"none", "lock", "cancel", "readers", "reap", "host", "close", "cut",
                                  "done"},
                         failed : BOOLEAN]]
    /\ disconnecting \in {"none", "lock", "in", "ok", "bad"}
    /\ cleanup \in [step : {"none", "lock", "in"}, expected : Procs \cup {None}]
    /\ hostCleanup \in {"none", "lock", "close"}
    /\ claim # "none" => spawn # None
    /\ terminals \in BOOLEAN /\ leaked \in BOOLEAN /\ needCleanup \in BOOLEAN

Init ==
    /\ proc = [p \in Procs |-> "none"] /\ process = None /\ readers = {}
    /\ spawn = None /\ claim = "none" /\ connected = FALSE
    /\ connectLock = None /\ disconnectLock = None /\ hostLock = None
    /\ pc = [c \in Callers |-> "out"] /\ interrupted = [c \in Callers |-> FALSE]
    /\ job = [j \in Jobs |-> Idle]
    /\ disconnecting = "none" /\ cleanup = [step |-> "none", expected |-> None]
    /\ hostCleanup = "none"
    /\ terminals = FALSE /\ leaked = FALSE /\ needCleanup = FALSE

-----------------------------------------------------------------------------
(* Helpers *)

Go(c, step) == pc' = [pc EXCEPT ![c] = step]
Step(j, step) == job' = [job EXCEPT ![j].step = step]
Begins(j) == job' = [job EXCEPT ![j] = [step |-> "lock", failed |-> FALSE]]
Ended(j) == job[j].step = "done"
Forget(j) == job' = [job EXCEPT ![j] = Idle]

IsConnected == connected /\ process # None /\ proc[process] = "alive"

\* Names are used again; an object some task still refers to is not.
Unused(p) ==
    /\ proc[p] \in {"none", "dead", "failed"}
    /\ p \notin {process, spawn, cleanup.expected} \cup readers

\* _schedule_host_cleanup and _schedule_process_cleanup.
ScheduleHost == hostCleanup' = IF hostCleanup = "none" THEN "lock" ELSE hostCleanup
ScheduleCleanup ==
    cleanup' = IF process # None /\ cleanup.step = "none"
               THEN [step |-> "lock", expected |-> process]
               ELSE cleanup

\* A connect() that failed disconnects before it raises.
Fails(c) == Go(c, "fail") /\ Begins(c)

\* connect() returns or raises to its caller; after a cancellation or timeout it
\* disconnects first.
Disconnecting(c) ==
    /\ Go(c, "disconnect")
    /\ interrupted' = [interrupted EXCEPT ![c] = FALSE]
    /\ disconnecting' = IF disconnecting \in {"lock", "in"} THEN disconnecting ELSE "lock"
Leave(c) ==
    /\ connectLock' = None
    /\ IF interrupted[c] THEN Disconnecting(c)
       ELSE Go(c, "out") /\ UNCHANGED <<interrupted, disconnecting>>

-----------------------------------------------------------------------------
(* connect() *)

Connect(c) ==
    /\ pc[c] = "out"
    /\ Go(c, "lock")
    /\ UNCHANGED <<procVars, process, connected, readers, lockVars, interrupted, job, taskVars, hostVars>>

\* Mutant of Refused: a spawn that is still pending does not refuse connect().
RefusedConnected == IsConnected
Refused == IsConnected \/ spawn # None

ConnectTakes(c) ==
    /\ pc[c] = "lock" /\ connectLock = None
    /\ \/ Refused /\ Leave(c) /\ UNCHANGED job
       \/ /\ ~Refused /\ process # None
          /\ connectLock' = c /\ Go(c, "prior") /\ Begins(c)
          /\ UNCHANGED <<interrupted, disconnecting>>
       \/ /\ ~Refused /\ process = None
          /\ connectLock' = c /\ Go(c, "prepare")
          /\ UNCHANGED <<interrupted, disconnecting, job>>
    /\ UNCHANGED <<procVars, process, connected, readers, disconnectLock, hostLock,
                   cleanup, hostCleanup, hostVars>>

\* A process of an earlier connection is reaped, or connect() raises.
PriorEnds(c) ==
    /\ pc[c] = "prior" /\ Ended(c)
    /\ Forget(c)
    /\ IF job[c].failed THEN Leave(c)
       ELSE Go(c, "prepare") /\ UNCHANGED <<connectLock, interrupted, disconnecting>>
    /\ UNCHANGED <<procVars, process, connected, readers, disconnectLock, hostLock,
                   cleanup, hostCleanup, hostVars>>

\* _prepare_host_services: the services of the last connection are closed
\* before they are replaced.
\* Mutant of MustClose: only a running clean-up is awaited.
MustCloseNot == FALSE
MustClose == needCleanup
PrepareCloses(c) ==
    /\ pc[c] = "prepare" /\ hostCleanup = "none" /\ MustClose /\ hostLock = None
    /\ hostLock' = c /\ Go(c, "close")
    /\ UNCHANGED <<procVars, process, connected, readers, connectLock, disconnectLock,
                   interrupted, job, taskVars, hostVars>>

\* The new services, and the start of the process; no command may be found.
Prepared(c) ==
    /\ pc[c] = "prepare" /\ hostCleanup = "none" /\ ~MustClose
    /\ leaked' = (leaked \/ terminals)
    /\ terminals' = FALSE /\ needCleanup' = TRUE
    /\ \/ /\ \E p \in Procs :
                /\ Unused(p)
                /\ proc' = [proc EXCEPT ![p] = "starting"]
                /\ spawn' = p
          /\ Go(c, "spawn") /\ UNCHANGED job
       \/ Fails(c) /\ UNCHANGED <<proc, spawn>>
    /\ UNCHANGED <<claim, process, connected, readers, lockVars, interrupted, taskVars>>

ProcStarts(p) ==
    /\ proc[p] = "starting"
    /\ proc' = [proc EXCEPT ![p] = "alive"]
    /\ UNCHANGED <<spawn, claim, process, connected, readers, lockVars, callVars, job, taskVars, hostVars>>

ProcFails(p) ==
    /\ proc[p] = "starting"
    /\ proc' = [proc EXCEPT ![p] = "failed"]
    /\ UNCHANGED <<spawn, claim, process, connected, readers, lockVars, callVars, job, taskVars, hostVars>>

Spawned(c) ==
    /\ pc[c] = "spawn" /\ proc[spawn] \in {"alive", "dead"}
    /\ process' = spawn /\ readers' = readers \cup {spawn} /\ connected' = TRUE
    /\ spawn' = None
    /\ Go(c, "init")
    /\ UNCHANGED <<proc, claim, lockVars, interrupted, job, taskVars, hostVars>>

\* The failed start leaves its bookkeeping to the claim as well.
SpawnFails(c) ==
    /\ pc[c] = "spawn" /\ proc[spawn] = "failed"
    /\ claim' = "wait" /\ Fails(c)
    /\ UNCHANGED <<proc, spawn, process, connected, readers, lockVars, interrupted, taskVars, hostVars>>

Initialized(c) ==
    /\ pc[c] = "init" /\ IsConnected
    /\ Leave(c)
    /\ UNCHANGED <<procVars, process, connected, readers, disconnectLock, hostLock, job,
                   cleanup, hostCleanup, hostVars>>

\* A request of the handshake fails; unless it was refused, its outcome is
\* unknown and the transport is retired by _invalidate_uncertain_rpc_transport.
InitFails(c) ==
    /\ pc[c] = "init"
    /\ Fails(c)
    /\ \/ connected /\ connected' = FALSE /\ ScheduleHost /\ ScheduleCleanup
       \/ UNCHANGED <<connected, hostCleanup, cleanup>>
    /\ UNCHANGED <<procVars, process, readers, lockVars, interrupted, disconnecting, hostVars>>

FailEnds(c) ==
    /\ pc[c] = "fail" /\ Ended(c)
    /\ Forget(c)
    /\ Leave(c)
    /\ UNCHANGED <<procVars, process, connected, readers, disconnectLock, hostLock,
                   cleanup, hostCleanup, hostVars>>

\* connect() is cancelled or times out.  Its own task is cancelled and awaited.
\* It gives up at once, except that the end of a reader hides the cancellation
\* from it, and that clean-up once begun is finished.
GivesUp(c) ==
    /\ Disconnecting(c) /\ Forget(c)
    /\ connectLock' = IF connectLock = c THEN None ELSE connectLock
    /\ disconnectLock' = IF disconnectLock = c THEN None ELSE disconnectLock
    /\ UNCHANGED claim

Marked(c) == interrupted' = [interrupted EXCEPT ![c] = TRUE]

Interrupt(c) ==
    /\ ~interrupted[c]
    /\ \/ /\ pc[c] = "lock" \/ (pc[c] = "prior" /\ job[c].step \in {"lock", "cancel", "host"})
          /\ GivesUp(c)
       \/ /\ pc[c] = "prior" /\ job[c].step \in {"readers", "reap", "close", "done"}
          /\ Marked(c)
          /\ CASE job[c].step = "reap" -> job' = [job EXCEPT ![c].failed = TRUE]
               [] job[c].step = "close" -> job' = [job EXCEPT ![c] = [step |-> "cut", failed |-> TRUE]]
               [] OTHER -> UNCHANGED job
          /\ UNCHANGED <<claim, pc, connectLock, disconnectLock, disconnecting>>
       \/ /\ pc[c] \in {"prepare", "spawn", "init"}
          /\ Marked(c) /\ Fails(c)
          /\ claim' = IF pc[c] = "spawn" THEN "wait" ELSE claim
          /\ UNCHANGED <<connectLock, disconnectLock, disconnecting>>
       \/ /\ pc[c] = "close" /\ Marked(c) /\ Go(c, "cut")
          /\ UNCHANGED <<claim, job, connectLock, disconnectLock, disconnecting>>
       \/ /\ pc[c] = "fail" /\ Marked(c)
          /\ UNCHANGED <<claim, pc, job, connectLock, disconnectLock, disconnecting>>
    /\ UNCHANGED <<proc, spawn, process, connected, readers, hostLock, cleanup, hostCleanup,
                   hostVars>>

-----------------------------------------------------------------------------
(* _disconnect_locked, by whoever calls it *)

\* The agent is told to cancel while the connection still counts as up.
Enters(j) ==
    /\ job[j].step = "lock" /\ disconnectLock = None
    /\ disconnectLock' = j
    /\ Step(j, IF connected THEN "cancel" ELSE "readers")
    /\ UNCHANGED <<procVars, process, connected, readers, connectLock, hostLock, callVars,
                   taskVars, hostVars>>

Cancelled(j) ==
    /\ job[j].step = "cancel"
    /\ connected' = FALSE
    /\ Step(j, "readers")
    /\ UNCHANGED <<procVars, process, readers, lockVars, callVars, taskVars, hostVars>>

\* The reader is cancelled and awaited.
\* Mutant of ReadersAfter: the reader is cancelled but not awaited.
ReadersAfterLate == readers
ReadersAfter == {}
\* Mutant of ReadersStop: the reader is awaited but not cancelled.
ReadersStopAlone == readers = {}
ReadersStop == TRUE
ReadersEnd(j) ==
    /\ job[j].step = "readers" /\ ReadersStop
    /\ connected' = FALSE
    /\ readers' = ReadersAfter
    /\ Step(j, "reap")
    /\ UNCHANGED <<procVars, process, lockVars, callVars, taskVars, hostVars>>

\* _reap_disconnected_transport.
\* Mutant of SpawnPending: a pending spawn is not reported.
SpawnPendingNot(j) == FALSE
SpawnPending(j) == spawn # None /\ j # "claim"
\* Mutant of Kept: the process is forgotten although it lives.
KeptNever == None
Kept == process
Reaps(j) ==
    /\ job[j].step = "reap"
    /\ \/ /\ SpawnPending(j)
          /\ job' = [job EXCEPT ![j] = [step |-> "host", failed |-> TRUE]]
          /\ UNCHANGED <<proc, process>>
       \/ /\ ~SpawnPending(j) /\ process = None
          /\ Step(j, "host") /\ UNCHANGED <<proc, process>>
       \/ /\ ~SpawnPending(j) /\ process # None
          /\ proc' = [proc EXCEPT ![process] = "dead"]
          /\ process' = None
          /\ Step(j, "host")
       \/ /\ ~SpawnPending(j) /\ process # None /\ proc[process] = "alive"
          /\ MayFail \/ job[j].failed   \* it survives, or the wait is cancelled
          /\ process' = Kept
          /\ job' = [job EXCEPT ![j] = [step |-> "host", failed |-> TRUE]]
          /\ UNCHANGED proc
    /\ UNCHANGED <<spawn, claim, connected, readers, lockVars, callVars, taskVars, hostVars>>

HostTakes(j) ==
    /\ job[j].step = "host" /\ hostLock = None
    /\ hostLock' = j
    /\ Step(j, "close")
    /\ UNCHANGED <<procVars, process, connected, readers, connectLock, disconnectLock,
                   callVars, taskVars, hostVars>>

\* _close_host_services ends.
ServicesClose == terminals' = FALSE /\ needCleanup' = FALSE /\ UNCHANGED leaked
ServicesRemain == MayFail /\ terminals /\ UNCHANGED hostVars
\* A cut call waits for its terminals, but takes no note of their end.
ServicesCut == terminals' = FALSE /\ UNCHANGED <<leaked, needCleanup>>

HostEnds(j) ==
    /\ job[j].step \in {"close", "cut"}
    /\ hostLock' = None /\ disconnectLock' = None
    /\ \/ job[j].step = "close" /\ ServicesClose /\ Step(j, "done")
       \/ job[j].step = "cut" /\ ServicesCut /\ Step(j, "done")
       \/ ServicesRemain /\ job' = [job EXCEPT ![j] = [step |-> "done", failed |-> TRUE]]
    /\ UNCHANGED <<procVars, process, connected, readers, connectLock, callVars, taskVars>>

PrepareClosed(c) ==
    /\ pc[c] \in {"close", "cut"}
    /\ hostLock' = None
    /\ \/ pc[c] = "close" /\ ServicesClose /\ Go(c, "prepare") /\ UNCHANGED job
       \/ pc[c] = "cut" /\ ServicesCut /\ Fails(c)
       \/ ServicesRemain /\ Fails(c)
    /\ UNCHANGED <<procVars, process, connected, readers, connectLock, disconnectLock,
                   interrupted, taskVars>>

-----------------------------------------------------------------------------
(* disconnect(): its task is shared by all callers until it is done *)

Disconnect(c) ==
    /\ pc[c] = "out"
    /\ Disconnecting(c)
    /\ UNCHANGED <<procVars, process, connected, readers, lockVars, job, cleanup, hostCleanup, hostVars>>

DisconnectTakes ==
    /\ disconnecting = "lock" /\ connectLock = None
    /\ connectLock' = "disconnect" /\ disconnecting' = "in"
    /\ Begins("disconnect")
    /\ UNCHANGED <<procVars, process, connected, readers, disconnectLock, hostLock, callVars,
                   cleanup, hostCleanup, hostVars>>

DisconnectEnds ==
    /\ disconnecting = "in" /\ Ended("disconnect")
    /\ connectLock' = None
    /\ disconnecting' = IF job["disconnect"].failed THEN "bad" ELSE "ok"
    /\ Forget("disconnect")
    /\ UNCHANGED <<procVars, process, connected, readers, disconnectLock, hostLock, callVars,
                   cleanup, hostCleanup, hostVars>>

DisconnectReturns(c) ==
    /\ pc[c] = "disconnect" /\ disconnecting \in {"ok", "bad"}
    /\ Go(c, "out")
    /\ UNCHANGED <<procVars, process, connected, readers, lockVars, interrupted, job, taskVars, hostVars>>

-----------------------------------------------------------------------------
(* A process that starts late *)

\* Mutant of SpawnClaimed: the record of the spawn is dropped when it is claimed.
SpawnClaimedDropped == spawn' = None
SpawnClaimed == UNCHANGED spawn

Claim ==
    /\ claim = "wait" /\ proc[spawn] # "starting"
    /\ IF proc[spawn] = "failed"
       THEN claim' = "none" /\ spawn' = None /\ UNCHANGED <<process, job>>
       ELSE claim' = "in" /\ process' = spawn /\ Begins("claim") /\ SpawnClaimed
    /\ UNCHANGED <<proc, connected, readers, lockVars, callVars, taskVars, hostVars>>

ClaimEnds ==
    /\ claim = "in" /\ Ended("claim")
    /\ claim' = "none" /\ spawn' = None
    /\ Forget("claim")
    /\ UNCHANGED <<proc, process, connected, readers, lockVars, callVars, taskVars, hostVars>>

-----------------------------------------------------------------------------
(* A lost connection *)

\* Mutant of LossSchedules: only the services are closed.
LossSchedulesHost == ScheduleHost /\ UNCHANGED cleanup
LossSchedules == ScheduleHost /\ ScheduleCleanup

\* The end of the stream, a protocol error, or a pipe that broke.
ReaderEnds ==
    /\ \E p \in readers : readers' = readers \ {p}
    /\ connected' = FALSE
    /\ IF disconnectLock = None THEN LossSchedules
       ELSE UNCHANGED <<hostCleanup, cleanup>>
    /\ UNCHANGED <<procVars, process, lockVars, callVars, job, disconnecting, hostVars>>

\* A request was cancelled or timed out: the transport is retired.
Invalidate ==
    /\ connected
    /\ connected' = FALSE
    /\ ScheduleHost /\ ScheduleCleanup
    /\ UNCHANGED <<procVars, process, readers, lockVars, callVars, job, disconnecting, hostVars>>

\* _cleanup_transport_if_current.
\* Mutant of Current: whatever transport there is is retired.
CurrentAny == process # None
Current == process = cleanup.expected
NoCleanup == [step |-> "none", expected |-> None]
CleanupTakes ==
    /\ cleanup.step = "lock" /\ connectLock = None
    /\ IF Current
       THEN /\ connectLock' = "cleanup" /\ cleanup' = [cleanup EXCEPT !.step = "in"]
            /\ Begins("cleanup")
       ELSE cleanup' = NoCleanup /\ UNCHANGED <<connectLock, job>>
    /\ UNCHANGED <<procVars, process, connected, readers, disconnectLock, hostLock, callVars,
                   disconnecting, hostCleanup, hostVars>>

CleanupEnds ==
    /\ cleanup.step = "in" /\ Ended("cleanup")
    /\ connectLock' = None /\ cleanup' = NoCleanup
    /\ Forget("cleanup")
    /\ UNCHANGED <<procVars, process, connected, readers, disconnectLock, hostLock, callVars,
                   disconnecting, hostCleanup, hostVars>>

HostCleanupTakes ==
    /\ hostCleanup = "lock" /\ hostLock = None
    /\ hostLock' = "host" /\ hostCleanup' = "close"
    /\ UNCHANGED <<procVars, process, connected, readers, connectLock, disconnectLock, callVars,
                   job, disconnecting, cleanup, hostVars>>

HostCleanupEnds ==
    /\ hostCleanup = "close"
    /\ hostLock' = None /\ hostCleanup' = "none"
    /\ ServicesClose \/ ServicesRemain
    /\ UNCHANGED <<procVars, process, connected, readers, connectLock, disconnectLock, callVars,
                   job, disconnecting, cleanup>>

-----------------------------------------------------------------------------
(* The agent *)

ProcExits(p) ==
    /\ proc[p] = "alive"
    /\ proc' = [proc EXCEPT ![p] = "dead"]
    /\ UNCHANGED <<spawn, claim, process, connected, readers, lockVars, callVars, job, taskVars, hostVars>>

CreateTerminal ==
    /\ connected /\ readers # {} /\ ~terminals
    /\ terminals' = TRUE
    /\ UNCHANGED <<procVars, process, connected, readers, lockVars, callVars, job, taskVars,
                   leaked, needCleanup>>

-----------------------------------------------------------------------------

CallStep(c) ==
    \/ ConnectTakes(c) \/ PriorEnds(c) \/ PrepareCloses(c) \/ Prepared(c) \/ PrepareClosed(c)
    \/ Spawned(c) \/ SpawnFails(c) \/ Initialized(c) \/ InitFails(c) \/ FailEnds(c)
    \/ DisconnectReturns(c)
JobStep(j) ==
    Enters(j) \/ Cancelled(j) \/ ReadersEnd(j) \/ Reaps(j) \/ HostTakes(j) \/ HostEnds(j)
SpawnStep(p) == ProcStarts(p) \/ ProcFails(p)

Next ==
    \/ \E c \in Callers : Connect(c) \/ Disconnect(c) \/ Interrupt(c) \/ CallStep(c)
    \/ \E j \in Jobs : JobStep(j)
    \/ \E p \in Procs : SpawnStep(p) \/ ProcExits(p)
    \/ DisconnectTakes \/ DisconnectEnds \/ Claim \/ ClaimEnds
    \/ ReaderEnds \/ Invalidate \/ CleanupTakes \/ CleanupEnds
    \/ HostCleanupTakes \/ HostCleanupEnds \/ CreateTerminal

\* Locks are handed over in the order of their waiters, so who waits for a lock
\* that is free again and again gets it: strong fairness.  Starts end, with a
\* process or without; a reader meets the end of a process.
Fairness ==
    /\ \A c \in Callers : SF_vars(CallStep(c))
    /\ \A j \in Jobs : SF_vars(JobStep(j))
    /\ \A p \in Procs : WF_vars(SpawnStep(p))
    /\ SF_vars(DisconnectTakes) /\ WF_vars(DisconnectEnds)
    /\ WF_vars(Claim) /\ WF_vars(ClaimEnds)
    /\ SF_vars(CleanupTakes) /\ WF_vars(CleanupEnds)
    /\ SF_vars(HostCleanupTakes) /\ WF_vars(HostCleanupEnds)

Spec == Init /\ [][Next]_vars /\ Fairness

-----------------------------------------------------------------------------
(* Properties *)

\* _connect_once: concurrent callers cannot make a second process, not even
\* while the process of an interrupted connect() may still appear.
OneProcess == Cardinality(Running) <= 1

\* A process that runs is self.process or the object of the pending spawn, so
\* disconnect() can retry what failed.
EveryProcessOwned == \A p \in Running : p \in {process, spawn}

\* _disconnect_locked: a connection that counts as up has a reader, which will
\* notice its end, and no reader of an earlier one is left to report it lost.
ConnectedRead == connected => process # None /\ readers = {process}

\* _prepare_host_services: no service is replaced while it has terminals.
NoneLeaked == ~leaked

\* disconnect() reports success only when no process runs or may start, and no
\* terminal is left.
DisconnectTrue ==
    [][disconnecting = "in" /\ disconnecting' = "ok" =>
        Running = {} /\ process = None /\ spawn = None /\ ~terminals]_vars

\* _cleanup_transport_if_current: the clean-up that was scheduled for a lost
\* transport never disconnects a later one.
LaterKept == job["cleanup"].step # "none" => process \in {None, cleanup.expected}

\* Every call returns to its caller.
CallsReturn == \A c \in Callers : pc[c] # "out" ~> pc[c] = "out"

\* test_client_lifecycle.py:4755, "natural stdout EOF schedules full process
\* cleanup": a transport that was lost is reaped although nobody calls
\* disconnect().  Violated while the clean-up of an earlier transport still
\* waits for _connect_lock: no other is scheduled, and that one declines.
LostReaped == \A p \in Procs : (process = p /\ p \notin readers) ~> process # p
=============================================================================
