------------------------- MODULE OpenCodeTransport -------------------------
(***************************************************************************)
(* The transport of the OpenCode client (src/src/soulacp/adapters/         *)
(* opencode_client.py): a synchronous child process that threads read and  *)
(* write.  A reader thread hands every frame to the event loop with        *)
(* call_soon_threadsafe, a callback puts it into the queue of its          *)
(* connection, and a task dispatches the queue in order.  Worker threads   *)
(* write.  connect(), disconnect() and the clean-up of a lost transport    *)
(* replace the process while those threads are at work.                    *)
(*                                                                         *)
(* The jobs that hold _connect_lock exclude each other, so there is one    *)
(* job; the process of a spawn that was interrupted is reaped beside it.   *)
(* connect() has one caller at a time, as the pool calls it: after an      *)
(* interrupted connect() its disconnect() comes first.  The queue of a     *)
(* connection is named by its process.  Host services and the cancel()     *)
(* of a prompt are those of ClientTransport.                               *)
(***************************************************************************)
EXTENDS ClientConstants, Naturals, Sequences

CONSTANTS
    Frames,      \* bound: frames in a pipe
    Limit,       \* MAX_OPENCODE_DISPATCH_BACKLOG
    SlowThreads, \* whether a thread may outlive the wait for it
    Descendants  \* whether a descendant may keep the pipes of a process

ASSUME LimitAssumption == Frames \in Nat /\ Limit \in Nat
ASSUME ThreadsAssumption == SlowThreads \in BOOLEAN /\ Descendants \in BOOLEAN

VARIABLES
    proc,          \* the processes; "held": dead, but its pipes are open
    process,       \* _popen
    connected,     \* _connected
    spawn,         \* the process of _spawn_task
    claim,         \* _spawn_cleanup_task
    job,           \* who holds _connect_lock, and how far
    disconnecting, \* _disconnect_task
    cleanup,       \* _process_cleanup_task
    pipe,          \* frames written and not read, per process
    reader,        \* the reader threads, by the process they were started for
    thread,        \* _reader_thread
    ready,         \* callbacks the event loop has not run
    queue, inbox,  \* _dispatch_queue and what is in it
    scheduled,     \* _scheduled_dispatches
    overflow,      \* _dispatch_overflow
    dispatcher,    \* _dispatch_task
    writes         \* _write_tasks, by the process they were started for

procVars == <<proc, pipe>>
ownVars == <<process, spawn, claim>>
jobVars == <<job, disconnecting, cleanup>>
readVars == <<reader, thread>>
queueVars == <<ready, queue, inbox, scheduled, overflow, dispatcher>>
vars == <<procVars, ownVars, connected, jobVars, readVars, queueVars, writes>>

Idle == [who |-> "none", phase |-> "none", step |-> "none", failed |-> FALSE, cut |-> FALSE]
NoCleanup == [step |-> "none", expected |-> None]
NoThread == [at |-> "none", from |-> None, item |-> "none", queue |-> None]
NoTask == [at |-> "none", from |-> None]

Items == {"frame", "error", "end"}
Items0 == Items \cup {"none"}
Frame(p, item) == [from |-> p, item |-> item]

Running == {p \in Procs : proc[p] \in {"starting", "alive"}}
Threads == {p \in Procs : reader[p].at # "none"}

\* Every variable keeps its type.
TypeOK ==
    /\ proc \in [Procs -> {"none", "starting", "alive", "failed", "held", "dead", "closed"}]
    /\ pipe \in [Procs -> 0 .. Frames]
    /\ process \in Procs \cup {None} /\ spawn \in Procs \cup {None}
    /\ claim \in {"none", "wait", "in"} /\ connected \in BOOLEAN
    /\ job \in [who : {"none", "connect", "disconnect", "cleanup"},
                phase : {"none", "prior", "spawn", "init", "fail", "only"},
                step : {"none", "cancel", "stop", "close", "writes", "join", "drop"},
                failed : BOOLEAN, cut : BOOLEAN]
    /\ disconnecting \in {"none", "lock", "in", "ok", "bad"}
    /\ cleanup \in [step : {"none", "lock", "in"}, expected : Procs \cup {None}]
    /\ reader \in [Procs -> [at : {"none", "new", "read", "look", "post"}, from : Procs \cup {None},
                             item : Items0, queue : Procs \cup {None}]]
    /\ thread \in Procs \cup {None}
    /\ ready \in Seq([queue : Procs, from : Procs \cup {None}, item : Items])
    /\ queue \in Procs \cup {None}
    /\ inbox \in Seq([from : Procs \cup {None}, item : Items])
    /\ scheduled \in 0 .. Limit + 1 /\ overflow \in BOOLEAN
    /\ dispatcher \in [at : {"none", "get", "handle"}, from : Procs \cup {None}]
    /\ writes \subseteq Procs

\* No thread, callback or task is under way.
InitThreads ==
    /\ pipe = [p \in Procs |-> 0] /\ reader = [p \in Procs |-> NoThread] /\ thread = None
    /\ ready = <<>> /\ queue = None /\ inbox = <<>> /\ scheduled = 0 /\ overflow = FALSE
    /\ dispatcher = NoTask /\ writes = {}

Init ==
    /\ proc = [p \in Procs |-> "none"]
    /\ process = None /\ spawn = None /\ claim = "none" /\ connected = FALSE
    /\ job = Idle /\ disconnecting = "none" /\ cleanup = NoCleanup
    /\ InitThreads
-----------------------------------------------------------------------------
(* Helpers *)

IsConnected == connected /\ process # None /\ proc[process] = "alive"

\* _disconnect_lock.locked().
InDisconnect == job.step # "none"

\* Names are used again; one that some task, thread or callback refers to is not.
Unused(p) ==
    /\ proc[p] \in {"none", "failed", "dead", "closed"}
    /\ p \notin {process, spawn, cleanup.expected, queue, dispatcher.from} \cup Threads \cup writes
    /\ \A q \in Procs : reader[q].from # p /\ reader[q].queue # p
    /\ \A i \in 1 .. Len(ready) : p \notin {ready[i].queue, ready[i].from}
    /\ \A i \in 1 .. Len(inbox) : inbox[i].from # p

ScheduleCleanup ==
    cleanup' = IF process # None /\ cleanup.step = "none"
               THEN [step |-> "lock", expected |-> process]
               ELSE cleanup

\* The job goes on, to the end of its disconnect() if it has failed.
Go(step) == job' = [job EXCEPT !.step = step]
Fails(step) == job' = [job EXCEPT !.step = step, !.failed = TRUE]
Begins(who, phase) ==
    job' = [who |-> who, phase |-> phase, step |-> "cancel", failed |-> FALSE, cut |-> FALSE]

\* A connect() that failed disconnects before it raises.
Undo(cut) ==
    job' = [job EXCEPT !.phase = "fail", !.step = "cancel", !.failed = FALSE, !.cut = @ \/ cut]

\* connect() releases the lock; an interrupted one calls disconnect().
Leave(cut) ==
    /\ job' = Idle
    /\ disconnecting' = IF cut THEN "lock" ELSE disconnecting

-----------------------------------------------------------------------------
(* connect() *)

MustDisconnect == process # None \/ spawn # None \/ writes # {}

Connect ==
    /\ job = Idle /\ disconnecting # "lock" /\ ~IsConnected
    /\ IF MustDisconnect THEN Begins("connect", "prior")
       ELSE job' = [Idle EXCEPT !.who = "connect", !.phase = "spawn"]
    /\ UNCHANGED <<procVars, ownVars, connected, disconnecting, cleanup, readVars, queueVars, writes>>

\* _spawn_popen starts a thread that starts the process.
Spawn(p) ==
    /\ job.phase = "spawn" /\ spawn = None /\ Unused(p)
    /\ proc' = [proc EXCEPT ![p] = "starting"] /\ pipe' = [pipe EXCEPT ![p] = 0]
    /\ spawn' = p
    /\ UNCHANGED <<process, claim, connected, jobVars, readVars, queueVars, writes>>

\* There is no command, or the host services of the last connection remain.
SpawnRefused ==
    /\ job.phase = "spawn" /\ spawn = None
    /\ Undo(FALSE)
    /\ UNCHANGED <<procVars, ownVars, connected, disconnecting, cleanup, readVars, queueVars, writes>>

\* The loop has run the callbacks it had when it began to wait for the thread.
NewQueue == queue' = spawn /\ inbox' = <<>> /\ scheduled' = 0 /\ overflow' = FALSE
Spawned ==
    /\ job.phase = "spawn" /\ spawn # None /\ proc[spawn] \in {"alive", "held", "dead"}
    /\ ready = <<>>
    /\ process' = spawn /\ spawn' = None /\ connected' = TRUE
    /\ NewQueue
    /\ dispatcher' = [at |-> "get", from |-> None]
    /\ reader' = [reader EXCEPT ![spawn] = [NoThread EXCEPT !.at = "new"]] /\ thread' = spawn
    /\ job' = [job EXCEPT !.phase = "init"]
    /\ UNCHANGED <<procVars, claim, disconnecting, cleanup, ready, writes>>

SpawnFails ==
    /\ job.phase = "spawn" /\ spawn # None /\ proc[spawn] = "failed"
    /\ claim' = "wait" /\ Undo(FALSE)
    /\ UNCHANGED <<procVars, process, spawn, connected, disconnecting, cleanup, readVars, queueVars,
                   writes>>

Initialized ==
    /\ job.phase = "init" /\ IsConnected
    /\ Leave(job.cut)
    /\ UNCHANGED <<procVars, ownVars, connected, cleanup, readVars, queueVars, writes>>

\* A request of the handshake was refused, or its outcome is unknown and the
\* transport is retired (_invalidate_uncertain_rpc_transport).
Retired ==
    \/ connected /\ connected' = FALSE /\ ScheduleCleanup
    \/ UNCHANGED <<connected, cleanup>>
InitFails ==
    /\ job.phase = "init"
    /\ Undo(FALSE) /\ Retired
    /\ UNCHANGED <<procVars, ownVars, disconnecting, readVars, queueVars, writes>>

\* connect() is cancelled or times out.  A disconnect it had begun for an
\* earlier process is cut short where it waits for threads, goes on with an
\* error where it waits for the process, and hides the cancellation where it
\* waits for the dispatcher; one that undoes this connect() is finished.
Interrupt ==
    /\ job.who = "connect" /\ ~job.cut
    /\ \/ /\ job.phase = "prior" /\ job.step \in {"cancel", "writes", "join"}
          /\ Leave(TRUE) /\ UNCHANGED <<claim, connected, cleanup>>
       \/ /\ job.phase = "prior" /\ job.step \in {"stop", "close"}
          /\ job' = [job EXCEPT !.cut = TRUE, !.failed = TRUE,
                                !.step = IF @ = "close" THEN "writes" ELSE @]
          /\ UNCHANGED <<claim, connected, disconnecting, cleanup>>
       \/ /\ job.phase = "fail" \/ (job.phase = "prior" /\ job.step = "drop")
          /\ job' = [job EXCEPT !.cut = TRUE]
          /\ UNCHANGED <<claim, connected, disconnecting, cleanup>>
       \/ /\ job.phase = "spawn"
          /\ claim' = IF spawn # None THEN "wait" ELSE claim
          /\ Undo(TRUE) /\ UNCHANGED <<connected, disconnecting, cleanup>>
       \/ /\ job.phase = "init"
          /\ Undo(TRUE) /\ Retired /\ UNCHANGED <<claim, disconnecting>>
    /\ UNCHANGED <<procVars, process, spawn, readVars, queueVars, writes>>

-----------------------------------------------------------------------------
(* _disconnect_locked, by the job that holds _connect_lock *)

\* The agent is told to cancel while the connection still counts as up.
Cancelled ==
    /\ job.step = "cancel"
    /\ connected' = FALSE /\ Go("stop")
    /\ UNCHANGED <<procVars, ownVars, disconnecting, cleanup, readVars, queueVars, writes>>

Dies(p) ==
    \E how \in {"dead"} \cup (IF Descendants THEN {"held"} ELSE {}) :
        proc' = [proc EXCEPT ![p] = how]

\* Mutant of SpawnPending: a pending spawn is not reported.
SpawnPendingNot == FALSE
SpawnPending == spawn # None

\* _terminate_popen: terminate and kill, each with its time to end.
Stop ==
    /\ job.step = "stop"
    /\ \/ SpawnPending /\ Fails("writes") /\ UNCHANGED proc
       \/ ~SpawnPending /\ process = None /\ Go("writes") /\ UNCHANGED proc
       \/ /\ ~SpawnPending /\ process # None /\ Go("close")
          /\ IF proc[process] = "alive" THEN Dies(process) ELSE UNCHANGED proc
       \/ /\ ~SpawnPending /\ process # None
          /\ job.failed \/ (MayFail /\ proc[process] = "alive")
          /\ Fails("writes") /\ UNCHANGED proc
    /\ UNCHANGED <<pipe, ownVars, connected, disconnecting, cleanup, readVars, queueVars, writes>>

\* Closing stdout waits for a reader that is inside readline().
Blocked(p) == proc[p] = "held" /\ \E q \in Procs : reader[q].at = "read" /\ reader[q].from = p
Close ==
    /\ job.step = "close" /\ ~Blocked(process)
    /\ proc' = [proc EXCEPT ![process] = "closed"] /\ pipe' = [pipe EXCEPT ![process] = 0]
    /\ process' = None
    /\ Go("writes")
    /\ UNCHANGED <<spawn, claim, connected, disconnecting, cleanup, readVars, queueVars, writes>>

\* A thread that is stuck on the pipe of a process, or is slow, outlives the wait.
Outlives(p) == SlowThreads \/ (p # None /\ proc[p] \in {"alive", "held"})

AwaitWrites ==
    /\ job.step = "writes"
    /\ \/ writes = {} /\ Go("join")
       \/ (\E p \in writes : Outlives(p)) /\ Fails("join")
    /\ UNCHANGED <<procVars, ownVars, connected, disconnecting, cleanup, readVars, queueVars, writes>>

ReaderOver == thread \notin Threads

\* Mutant of Joined: the reader thread is not waited for.
JoinedAnyway == Go("drop") /\ thread' = None
Joined == ReaderOver /\ Go("drop") /\ thread' = None
JoinReader ==
    /\ job.step = "join"
    /\ \/ Joined
       \/ ~ReaderOver /\ Outlives(reader[thread].from) /\ Fails("drop") /\ UNCHANGED thread
    /\ UNCHANGED <<procVars, ownVars, connected, disconnecting, cleanup, reader, queueVars, writes>>

\* The dispatcher is cancelled and awaited, its queue dropped, and the job ends.
Disconnected ==
    CASE job.phase = "prior" /\ ~job.failed ->
            /\ job' = [Idle EXCEPT !.who = "connect", !.phase = "spawn", !.cut = job.cut]
            /\ UNCHANGED <<disconnecting, cleanup>>
      [] job.who = "connect" /\ (job.phase = "fail" \/ job.failed) ->
            Leave(job.cut) /\ UNCHANGED cleanup
      [] job.who = "disconnect" ->
            /\ job' = Idle /\ disconnecting' = IF job.failed THEN "bad" ELSE "ok"
            /\ UNCHANGED cleanup
      [] job.who = "cleanup" ->
            job' = Idle /\ cleanup' = NoCleanup /\ UNCHANGED disconnecting
Drop ==
    /\ job.step = "drop"
    /\ dispatcher' = NoTask /\ queue' = None /\ inbox' = <<>>
    /\ scheduled' = 0 /\ overflow' = FALSE
    /\ Disconnected
    /\ UNCHANGED <<procVars, ownVars, connected, readVars, ready, writes>>
-----------------------------------------------------------------------------
(* disconnect(), and the clean-up of a lost transport *)

Disconnect ==
    /\ disconnecting \notin {"lock", "in"}
    /\ disconnecting' = "lock"
    /\ UNCHANGED <<procVars, ownVars, connected, job, cleanup, readVars, queueVars, writes>>

DisconnectTakes ==
    /\ disconnecting = "lock" /\ job = Idle
    /\ disconnecting' = "in" /\ Begins("disconnect", "only")
    /\ UNCHANGED <<procVars, ownVars, connected, cleanup, readVars, queueVars, writes>>

\* _cleanup_transport_if_current.
\* Mutant of Current: whatever transport there is is retired.
CurrentAny == process # None
Current == process = cleanup.expected
CleanupTakes ==
    /\ cleanup.step = "lock" /\ job = Idle
    /\ IF Current
       THEN cleanup' = [cleanup EXCEPT !.step = "in"] /\ Begins("cleanup", "only")
       ELSE cleanup' = NoCleanup /\ UNCHANGED job
    /\ UNCHANGED <<procVars, ownVars, connected, disconnecting, readVars, queueVars, writes>>

\* A request was cancelled or timed out.
Invalidate ==
    /\ connected /\ connected' = FALSE /\ ScheduleCleanup
    /\ UNCHANGED <<procVars, ownVars, job, disconnecting, readVars, queueVars, writes>>

-----------------------------------------------------------------------------
(* _claim_and_reap: a process that starts late *)

Claim ==
    /\ claim = "wait" /\ proc[spawn] # "starting"
    /\ IF proc[spawn] = "failed"
       THEN claim' = "none" /\ spawn' = None /\ UNCHANGED process
       ELSE claim' = "in" /\ process' = spawn /\ UNCHANGED spawn
    /\ UNCHANGED <<procVars, connected, jobVars, readVars, queueVars, writes>>

\* The process is reaped, or survives and stays with the client.
ClaimEnds ==
    /\ claim = "in" /\ claim' = "none" /\ spawn' = None
    /\ \/ process' = None /\ proc' = [proc EXCEPT ![spawn] = "closed"]
       \/ MayFail /\ proc[spawn] = "alive" /\ UNCHANGED <<process, proc>>
    /\ UNCHANGED <<pipe, connected, jobVars, readVars, queueVars, writes>>

-----------------------------------------------------------------------------
(* _sync_read_loop, in a thread *)

\* The thread looks for its process only now.
ReaderStarts(q) ==
    /\ reader[q].at = "new"
    /\ reader' = [reader EXCEPT ![q].from = process, ![q].at = IF process = None THEN "look" ELSE "read",
                                ![q].item = IF process = None THEN "end" ELSE "none"]
    /\ UNCHANGED <<procVars, ownVars, connected, jobVars, thread, queueVars, writes>>

Takes(q, item) == reader' = [reader EXCEPT ![q].at = "look", ![q].item = item]
Reads(q) ==
    /\ reader[q].at = "read"
    /\ LET p == reader[q].from IN
         \/ /\ pipe[p] > 0 /\ pipe' = [pipe EXCEPT ![p] = @ - 1]
            /\ Takes(q, "frame") \/ Takes(q, "error")   \* too long, or no UTF-8
         \/ pipe[p] = 0 /\ proc[p] = "dead" /\ Takes(q, "end") /\ UNCHANGED pipe
         \/ proc[p] = "closed" /\ Takes(q, "error") /\ UNCHANGED pipe
    /\ UNCHANGED <<proc, ownVars, connected, jobVars, thread, queueVars, writes>>

\* After a frame the next one is read, after an error the end is reported.
Continues(q) ==
    reader' = [reader EXCEPT ![q] =
        CASE @.item = "frame" -> [@ EXCEPT !.at = "read", !.item = "none", !.queue = None]
          [] @.item = "error" -> [@ EXCEPT !.at = "look", !.item = "end", !.queue = None]
          [] OTHER -> NoThread]

\* _schedule_dispatch: the queue is looked up first, then the frame is counted
\* under the lock and handed to the loop.
LooksUp(q) ==
    /\ reader[q].at = "look"
    /\ IF queue = None THEN Continues(q)
       ELSE reader' = [reader EXCEPT ![q].at = "post", ![q].queue = queue]
    /\ UNCHANGED <<procVars, ownVars, connected, jobVars, thread, queueVars, writes>>

Posted(q, item) ==
    ready' = Append(ready, [queue |-> reader[q].queue, from |-> reader[q].from, item |-> item])
\* Mutant of Full: one more than the limit is accepted.
FullLate == scheduled > Limit
Full == scheduled >= Limit
Posts(q) ==
    /\ reader[q].at = "post"
    /\ Continues(q)
    /\ \/ overflow /\ UNCHANGED <<ready, scheduled, overflow>>
       \/ /\ ~overflow /\ scheduled' = scheduled + 1 /\ overflow' = Full
          /\ Posted(q, IF Full THEN "error" ELSE reader[q].item)
    /\ UNCHANGED <<procVars, ownVars, connected, jobVars, thread, queue, inbox, dispatcher, writes>>

-----------------------------------------------------------------------------
(* The event loop *)

MarkConsumed == scheduled' = IF scheduled = 0 THEN 0 ELSE scheduled - 1

Accepts == queue # None /\ ready[1].queue = queue
EnqueueDispatch ==
    /\ ready # <<>> /\ ready' = Tail(ready)
    /\ IF Accepts
       THEN inbox' = Append(inbox, Frame(ready[1].from, ready[1].item)) /\ UNCHANGED scheduled
       ELSE MarkConsumed /\ UNCHANGED inbox
    /\ UNCHANGED <<procVars, ownVars, connected, jobVars, readVars, queue, overflow, dispatcher, writes>>

\* _handle_reader_disconnect.
Lost ==
    /\ dispatcher' = NoTask /\ connected' = FALSE
    /\ IF InDisconnect THEN UNCHANGED cleanup ELSE ScheduleCleanup

DispatchGets ==
    /\ dispatcher.at = "get" /\ inbox # <<>>
    /\ inbox' = Tail(inbox) /\ MarkConsumed
    /\ IF inbox[1].item = "frame"
       THEN dispatcher' = [at |-> "handle", from |-> inbox[1].from] /\ UNCHANGED <<connected, cleanup>>
       ELSE Lost
    /\ UNCHANGED <<procVars, ownVars, job, disconnecting, readVars, ready, queue, overflow, writes>>

\* A frame is handled, or breaks the protocol.
Dispatched ==
    /\ dispatcher.at = "handle"
    /\ \/ dispatcher' = [at |-> "get", from |-> None] /\ UNCHANGED <<connected, cleanup>>
       \/ Lost
    /\ UNCHANGED <<procVars, ownVars, job, disconnecting, readVars, ready, queue, inbox, scheduled,
                   overflow, writes>>

\* _write_with_timeout hands a frame to a thread, and may stop waiting for it.
WriteStarts ==
    /\ IsConnected /\ writes' = writes \cup {process} /\ writes' # writes
    /\ UNCHANGED <<procVars, ownVars, connected, jobVars, readVars, queueVars>>
WriteEnds(p) ==
    /\ p \in writes /\ writes' = writes \ {p}
    /\ UNCHANGED <<procVars, ownVars, connected, jobVars, readVars, queueVars>>

-----------------------------------------------------------------------------
(* The agent *)

ProcStarts(p) ==
    /\ proc[p] = "starting" /\ proc' = [proc EXCEPT ![p] = "alive"]
    /\ UNCHANGED <<pipe, ownVars, connected, jobVars, readVars, queueVars, writes>>
ProcFails(p) ==
    /\ proc[p] = "starting" /\ proc' = [proc EXCEPT ![p] = "failed"]
    /\ UNCHANGED <<pipe, ownVars, connected, jobVars, readVars, queueVars, writes>>
ProcWrites(p) ==
    /\ proc[p] \in {"alive", "held"} /\ pipe[p] < Frames
    /\ pipe' = [pipe EXCEPT ![p] = @ + 1]
    /\ UNCHANGED <<proc, ownVars, connected, jobVars, readVars, queueVars, writes>>
ProcExits(p) ==
    /\ proc[p] = "alive" /\ Dies(p)
    /\ UNCHANGED <<pipe, ownVars, connected, jobVars, readVars, queueVars, writes>>
DescendantExits(p) ==
    /\ proc[p] = "held" /\ proc' = [proc EXCEPT ![p] = "dead"]
    /\ UNCHANGED <<pipe, ownVars, connected, jobVars, readVars, queueVars, writes>>

-----------------------------------------------------------------------------

ConnectStep ==
    Spawned \/ SpawnFails \/ Initialized \/ InitFails \/ SpawnRefused \/ (\E p \in Procs : Spawn(p))
JobStep == Cancelled \/ Stop \/ Close \/ AwaitWrites \/ JoinReader \/ Drop
ThreadStep(q) == ReaderStarts(q) \/ Reads(q) \/ LooksUp(q) \/ Posts(q)
LoopStep == EnqueueDispatch \/ DispatchGets \/ Dispatched
SpawnStep(p) == ProcStarts(p) \/ ProcFails(p)

Next ==
    \/ Connect \/ ConnectStep \/ Interrupt \/ JobStep
    \/ Disconnect \/ DisconnectTakes \/ CleanupTakes \/ Invalidate \/ Claim \/ ClaimEnds
    \/ \E q \in Procs : ThreadStep(q)
    \/ LoopStep \/ WriteStarts
    \/ \E p \in Procs : WriteEnds(p) \/ SpawnStep(p) \/ ProcWrites(p) \/ ProcExits(p) \/ DescendantExits(p)

\* Threads run and calls into the operating system return, unless a process
\* that lives keeps them; the loop runs what is ready, and hands the lock to who
\* waits for it.
Fairness ==
    /\ WF_vars(ConnectStep) /\ WF_vars(JobStep)
    /\ SF_vars(DisconnectTakes) /\ SF_vars(CleanupTakes) /\ WF_vars(Claim) /\ WF_vars(ClaimEnds)
    /\ \A q \in Procs : WF_vars(ThreadStep(q))
    /\ WF_vars(EnqueueDispatch) /\ WF_vars(DispatchGets) /\ WF_vars(Dispatched)
    /\ \A p \in Procs : WF_vars(proc[p] \notin {"alive", "held"} /\ WriteEnds(p)) /\ WF_vars(SpawnStep(p))

Spec == Init /\ [][Next]_vars /\ Fairness

-----------------------------------------------------------------------------
(* Properties *)

\* README.md:857: a frame that is handled, or waits to be, while a connection
\* counts as up was written by its own process, whatever threads and callbacks
\* of earlier connections were still under way.
OwnFrames ==
    connected =>
        /\ \A i \in 1 .. Len(inbox) : inbox[i].from = process
        /\ dispatcher.at = "handle" => dispatcher.from = process

\* _connect, _write_with_timeout: a worker thread writes to the process that is
\* connected when it gets to run, which is the one its frame was meant for.
OwnWrites == connected => writes \subseteq {process}

\* README.md:855-858: what a connection that is up is given, and what it is sent
\* to, is its own process.
OwnConnection == OwnFrames /\ OwnWrites

\* _cleanup_transport_if_current: the clean-up that was scheduled for a lost
\* transport never disconnects a later one.
LaterKept == job.who = "cleanup" => process \in {None, cleanup.expected}

\* MAX_OPENCODE_DISPATCH_BACKLOG: the counter that the threads and the loop
\* share counts what is under way, over any number of connections, so that no
\* more than the limit and the error that reports it ever is.
BacklogExact ==
    queue # None => scheduled = Len(ready) + Len(inbox) /\ scheduled <= Limit + 1

\* The connection of a process that is gone does not go on counting as up.
LossNoticed ==
    \A p \in Procs : (process = p /\ connected /\ proc[p] = "dead") ~> ~(process = p /\ connected)

\* CHANGELOG.md:463: a reader thread that outlives a disconnect stays owned.
ReadersOwned == Threads \subseteq {thread}

\* disconnect() ends, and so does every connect().
JobsEnd == (disconnecting \in {"lock", "in"} ~> disconnecting \in {"ok", "bad"}) /\ (job # Idle ~> job = Idle)

\* The contract of a client.
Owner == INSTANCE ProcessOwner WITH
    alive <- Running,
    held <- ({process, spawn, thread} \cup writes) \ {None},
    closing <- IF disconnecting = "lock" THEN "in" ELSE disconnecting,
    Others <- {}
ImplementsOwner == Owner!Spec
=============================================================================
