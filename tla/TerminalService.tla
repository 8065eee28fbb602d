-------------------------- MODULE TerminalService --------------------------
(***************************************************************************)
(* TerminalService (src/src/soulacp/services/terminal_service.py): the     *)
(* terminals an agent creates, each with a child process, a record and a   *)
(* place under the limit.  create() may be interrupted while the operating *)
(* system starts the process; then a task of its own claims and retires    *)
(* the late process.  kill(), release(), the clean-up of a create() that   *)
(* failed and close() may terminate the same process at once, and a        *)
(* process may survive terminate and kill.                                 *)
(*                                                                         *)
(* The captured output is the subject of TerminalOutput.                   *)
(***************************************************************************)
EXTENDS Naturals, FiniteSets

CONSTANTS
    Callers, Terminals,
    Limit,                   \* MAX_TERMINALS
    Free                     \* nobody

ASSUME LimitAssumption == Limit \in Nat
ASSUME FreeAssumption == Free \notin Callers \cup Terminals \cup {"close"}

VARIABLES
    proc,        \* the processes
    records,     \* _terminals
    reserved,    \* _reserved_terminal_slots
    createLock,  \* the holder of _create_lock
    pc, target,  \* each caller, and the terminal it creates or terminates
    late,        \* for each terminal, the task that claims its late process
    job,         \* the calls of _terminate
    closed, closer

vars == <<proc, records, reserved, createLock, pc, target, late, job, closed, closer>>

\* Who calls _terminate for x: a caller's owned task, the task of a late spawn,
\* and the close task.
LateJob(x) == <<"late", x>>
CloseJob(x) == <<"close", x>>
Jobs == Callers \cup {LateJob(x) : x \in Terminals} \cup {CloseJob(x) : x \in Terminals}
JobSteps == {"none", "wait", "in", "ok", "bad"}

ASSUME CallersAssumption ==
    /\ "close" \notin Callers
    /\ \A x \in Terminals : LateJob(x) \notin Callers /\ CloseJob(x) \notin Callers
CloseTask == [phase : {"none", "lock", "gather", "owned", "done"},
              awaits : SUBSET Jobs, failed : BOOLEAN]

Spawning == {x \in Terminals : late[x] = "spawn"}

\* Every variable keeps its type, and a slot is reserved for each process that
\* may still appear without a record.
TypeOK ==
    /\ proc \in [Terminals -> {"none", "starting", "failed", "alive", "dead"}]
    /\ records \subseteq Terminals
    /\ createLock \in Callers \cup {Free, "close"}
    /\ pc \in [Callers -> {"out", "spawn", "forget", "kill", "release", "close", "closed"}]
    /\ target \in [Callers -> Terminals \cup {Free}]
    /\ late \in [Terminals -> {"none", "spawn", "claimed"}]
    /\ job \in [Jobs -> JobSteps]
    /\ closed \in BOOLEAN /\ closer \in CloseTask
    /\ reserved = Cardinality(Spawning)

Init ==
    /\ proc = [x \in Terminals |-> "none"]
    /\ records = {} /\ reserved = 0 /\ createLock = Free
    /\ pc = [c \in Callers |-> "out"] /\ target = [c \in Callers |-> Free]
    /\ late = [x \in Terminals |-> "none"]
    /\ job = [j \in Jobs |-> "none"]
    /\ closed = FALSE
    /\ closer = [phase |-> "none", awaits |-> {}, failed |-> FALSE]

-----------------------------------------------------------------------------
(* Helpers *)

Of(j) == IF j \in Callers THEN target[j] ELSE j[2]
JobsOf(x) == {j \in Jobs : job[j] # "none" /\ Of(j) = x}
\* Names are used again: the service draws new ones without end.
Unused(x) == proc[x] \in {"none", "dead", "failed"} /\ x \notin records
             /\ late[x] = "none" /\ \A c \in Callers : target[c] # x

\* Mutant of Full: a place is not reserved for a late process.
FullRecords == Cardinality(records) >= Limit
Full == Cardinality(records) + reserved >= Limit

Leave(c) == pc' = [pc EXCEPT ![c] = "out"] /\ target' = [target EXCEPT ![c] = Free]

\* An owned task has ended; close() learns how if it awaits it.
OwnedEnds(j, failed) ==
    closer' = IF j \in closer.awaits
              THEN [closer EXCEPT !.awaits = @ \ {j}, !.failed = @ \/ failed] ELSE closer

-----------------------------------------------------------------------------
(* create() and the processes *)

Create(c) ==
    /\ pc[c] = "out" /\ createLock = Free /\ ~closed /\ ~Full
    /\ createLock' = c /\ pc' = [pc EXCEPT ![c] = "spawn"]
    /\ \E x \in Terminals :
         /\ Unused(x)
         /\ proc' = [proc EXCEPT ![x] = "starting"]
         /\ target' = [target EXCEPT ![c] = x]
    /\ UNCHANGED <<records, reserved, late, job, closed, closer>>

\* The operating system starts the process, or refuses to.
SpawnEnds(x) ==
    /\ proc[x] = "starting"
    /\ \E result \in {"alive", "failed"} : proc' = [proc EXCEPT ![x] = result]
    /\ UNCHANGED <<records, reserved, createLock, pc, target, late, job, closed, closer>>

Exits(x) ==
    /\ proc[x] = "alive" /\ proc' = [proc EXCEPT ![x] = "dead"]
    /\ UNCHANGED <<records, reserved, createLock, pc, target, late, job, closed, closer>>

\* The process is there: it has a record from now on, unless the service was
\* closed meanwhile, when it is terminated under the lock.
Created(c) ==
    /\ pc[c] = "spawn" /\ proc[target[c]] \in {"alive", "dead"}
    /\ records' = records \cup {target[c]}
    /\ IF closed THEN /\ pc' = [pc EXCEPT ![c] = "forget"]
                      /\ job' = [job EXCEPT ![c] = "wait"]
                      /\ UNCHANGED <<createLock, target>>
       ELSE createLock' = Free /\ Leave(c) /\ UNCHANGED job
    /\ UNCHANGED <<proc, reserved, late, closed, closer>>

\* create() is cancelled, or learns that the process was refused: its place is
\* reserved, and a task of its own goes on.
\* Mutant of Interrupted: it is left to itself.
InterruptedLost(c) ==
    /\ pc[c] = "spawn"
    /\ createLock' = Free /\ Leave(c)
    /\ UNCHANGED <<proc, records, reserved, late, job, closed, closer>>
Interrupted(c) ==
    /\ pc[c] = "spawn"
    /\ reserved' = reserved + 1 /\ late' = [late EXCEPT ![target[c]] = "spawn"]
    /\ createLock' = Free /\ Leave(c)
    /\ UNCHANGED <<proc, records, job, closed, closer>>

\* _claim_and_reap_late_spawn: the reservation becomes a record.
\* Mutants of Claim: a reservation is kept after a process that was refused, or
\* after any.
ClaimAppeared(x) ==
    /\ late[x] = "spawn" /\ proc[x] \in {"alive", "dead"} /\ createLock = Free
    /\ reserved' = reserved - 1
    /\ late' = [late EXCEPT ![x] = "claimed"] /\ records' = records \cup {x}
    /\ job' = [job EXCEPT ![LateJob(x)] = "wait"]
    /\ UNCHANGED <<proc, createLock, pc, target, closed, closer>>
ClaimKept(x) ==
    /\ late[x] = "spawn" /\ proc[x] # "starting" /\ createLock = Free
    /\ IF proc[x] = "failed"
       THEN /\ late' = [late EXCEPT ![x] = "none"] /\ OwnedEnds(LateJob(x), FALSE)
            /\ UNCHANGED <<records, job>>
       ELSE /\ late' = [late EXCEPT ![x] = "claimed"] /\ records' = records \cup {x}
            /\ job' = [job EXCEPT ![LateJob(x)] = "wait"] /\ UNCHANGED closer
    /\ UNCHANGED <<proc, reserved, createLock, pc, target, closed>>
Claim(x) ==
    /\ late[x] = "spawn" /\ proc[x] # "starting" /\ createLock = Free
    /\ reserved' = reserved - 1
    /\ IF proc[x] = "failed"
       THEN /\ late' = [late EXCEPT ![x] = "none"] /\ OwnedEnds(LateJob(x), FALSE)
            /\ UNCHANGED <<records, job>>
       ELSE /\ late' = [late EXCEPT ![x] = "claimed"] /\ records' = records \cup {x}
            /\ job' = [job EXCEPT ![LateJob(x)] = "wait"] /\ UNCHANGED closer
    /\ UNCHANGED <<proc, createLock, pc, target, closed>>

LateEnds(x) ==
    /\ \/ job[LateJob(x)] = "ok" /\ createLock = Free /\ records' = records \ {x}
       \/ job[LateJob(x)] = "bad" /\ UNCHANGED records
    /\ job' = [job EXCEPT ![LateJob(x)] = "none"] /\ late' = [late EXCEPT ![x] = "none"]
    /\ OwnedEnds(LateJob(x), job[LateJob(x)] = "bad")
    /\ UNCHANGED <<proc, reserved, createLock, pc, target, closed>>

-----------------------------------------------------------------------------
(* _terminate, kill() and release() *)

Locked(x) == \E j \in JobsOf(x) : job[j] = "in"

TerminateTakes(j) ==
    /\ job[j] = "wait" /\ ~Locked(Of(j))
    /\ job' = [job EXCEPT ![j] = "in"]
    /\ UNCHANGED <<proc, records, reserved, createLock, pc, target, late, closed, closer>>

\* The process exits after terminate or kill, or it does neither in time.
TerminateEnds(j) ==
    /\ job[j] = "in"
    /\ \/ proc' = [proc EXCEPT ![Of(j)] = "dead"] /\ job' = [job EXCEPT ![j] = "ok"]
       \/ proc[Of(j)] = "alive" /\ job' = [job EXCEPT ![j] = "bad"] /\ UNCHANGED proc
    /\ UNCHANGED <<records, reserved, createLock, pc, target, late, closed, closer>>

KillOrRelease(c) ==
    /\ pc[c] = "out"
    /\ \E x \in records, kind \in {"kill", "release"} :
         /\ pc' = [pc EXCEPT ![c] = kind] /\ target' = [target EXCEPT ![c] = x]
         /\ job' = [job EXCEPT ![c] = "wait"]
    /\ UNCHANGED <<proc, records, reserved, createLock, late, closed, closer>>

\* The call returns with its owned task.  kill() keeps the record, and so does
\* every call whose process is still there.
\* Mutant of Terminated: a failure skips the end of the lock.
TerminatedLocked(c) ==
    /\ pc[c] \in {"kill", "release", "forget"} /\ job[c] \in {"ok", "bad"}
    /\ records' = IF pc[c] # "kill" /\ job[c] = "ok" THEN records \ {target[c]} ELSE records
    /\ createLock' = IF pc[c] = "forget" /\ job[c] = "ok" THEN Free ELSE createLock
    /\ job' = [job EXCEPT ![c] = "none"] /\ OwnedEnds(c, job[c] = "bad")
    /\ Leave(c)
    /\ UNCHANGED <<proc, reserved, late, closed>>
Terminated(c) ==
    /\ pc[c] \in {"kill", "release", "forget"} /\ job[c] \in {"ok", "bad"}
    /\ records' = IF pc[c] # "kill" /\ job[c] = "ok" THEN records \ {target[c]} ELSE records
    /\ createLock' = IF pc[c] = "forget" THEN Free ELSE createLock
    /\ job' = [job EXCEPT ![c] = "none"] /\ OwnedEnds(c, job[c] = "bad")
    /\ Leave(c)
    /\ UNCHANGED <<proc, reserved, late, closed>>

-----------------------------------------------------------------------------
(* close() *)

\* Another close task is started if the last one left a record; otherwise the
\* call gets the result of that one.
Close(c) ==
    /\ pc[c] = "out" /\ closed' = TRUE
    /\ IF closer.phase = "none" \/ (closer.phase = "done" /\ records # {})
       THEN /\ closer' = [phase |-> "lock", awaits |-> {}, failed |-> FALSE]
            /\ pc' = [pc EXCEPT ![c] = "close"]
       ELSE /\ pc' = [pc EXCEPT ![c] = IF closer.phase = "done" THEN "closed" ELSE "close"]
            /\ UNCHANGED closer
    /\ UNCHANGED <<proc, records, reserved, createLock, target, late, job>>

CloseReturns(c) ==
    /\ pc[c] = "closed" /\ Leave(c)
    /\ UNCHANGED <<proc, records, reserved, createLock, late, job, closed, closer>>

CloseLocks ==
    /\ closer.phase = "lock" /\ createLock = Free
    /\ createLock' = "close" /\ closer' = [closer EXCEPT !.phase = "gather"]
    /\ job' = [j \in Jobs |-> IF \E x \in records : j = CloseJob(x) THEN "wait" ELSE job[j]]
    /\ UNCHANGED <<proc, records, reserved, pc, target, late, closed>>

\* The owned tasks that have not ended.
OwnedTasks == {c \in Callers : job[c] # "none"} \cup {LateJob(x) : x \in {y \in Terminals : late[y] # "none"}}

\* Mutant of CloseGathers: the other owned tasks are not awaited.
CloseGathersAlone ==
    /\ closer.phase = "gather" /\ \A x \in Terminals : job[CloseJob(x)] \notin {"wait", "in"}
    /\ records' = records \ {x \in Terminals : job[CloseJob(x)] = "ok"}
    /\ closer' = [phase |-> "owned", awaits |-> {},
                  failed |-> \E x \in Terminals : job[CloseJob(x)] = "bad"]
    /\ job' = [j \in Jobs |-> IF \E x \in Terminals : j = CloseJob(x) THEN "none" ELSE job[j]]
    /\ createLock' = Free
    /\ UNCHANGED <<proc, reserved, pc, target, late, closed>>
CloseGathers ==
    /\ closer.phase = "gather" /\ \A x \in Terminals : job[CloseJob(x)] \notin {"wait", "in"}
    /\ records' = records \ {x \in Terminals : job[CloseJob(x)] = "ok"}
    /\ closer' = [phase |-> "owned", awaits |-> OwnedTasks,
                  failed |-> \E x \in Terminals : job[CloseJob(x)] = "bad"]
    /\ job' = [j \in Jobs |-> IF \E x \in Terminals : j = CloseJob(x) THEN "none" ELSE job[j]]
    /\ createLock' = Free
    /\ UNCHANGED <<proc, reserved, pc, target, late, closed>>

CloseEnds ==
    /\ closer.phase = "owned" /\ closer.awaits = {}
    /\ closer' = [closer EXCEPT !.phase = "done"]
    /\ pc' = [c \in Callers |-> IF pc[c] = "close" THEN "closed" ELSE pc[c]]
    /\ UNCHANGED <<proc, records, reserved, createLock, target, late, job, closed>>

-----------------------------------------------------------------------------
CallStep(c) ==
    \/ Created(c) \/ Terminated(c) \/ CloseReturns(c)
    \/ pc[c] = "spawn" /\ proc[target[c]] = "failed" /\ Interrupted(c)
CloseStep == CloseLocks \/ CloseGathers \/ CloseEnds
Terminate(j) == TerminateTakes(j) \/ TerminateEnds(j)
LateStep(x) == Claim(x) \/ LateEnds(x)

Next ==
    \/ \E c \in Callers : \/ Create(c) \/ Created(c) \/ Interrupted(c)
                          \/ KillOrRelease(c) \/ Terminated(c) \/ Close(c) \/ CloseReturns(c)
    \/ \E x \in Terminals : SpawnEnds(x) \/ Exits(x) \/ LateStep(x)
    \/ \E j \in Jobs : Terminate(j)
    \/ CloseStep

Spec == Init /\ [][Next]_vars

\* The operating system answers, waits for a process have a deadline, and the
\* create lock is granted in turn.
FairSpec ==
    /\ Spec /\ WF_vars(CloseStep)
    /\ \A c \in Callers : WF_vars(CallStep(c))
    /\ \A x \in Terminals : WF_vars(SpawnEnds(x)) /\ SF_vars(LateStep(x))
    /\ \A j \in Jobs : SF_vars(TerminateTakes(j)) /\ WF_vars(TerminateEnds(j))

-----------------------------------------------------------------------------
(* Properties *)

Live(x) == proc[x] \in {"starting", "alive"}

\* The limit holds for the processes themselves: those that are starting or were
\* started late, and those that would not exit, included.
ProcessLimit == Cardinality({x \in Terminals : Live(x)}) <= Limit

\* No process is forgotten: each has a record, is being created, or is claimed by
\* a task of its own.
EveryProcessOwned ==
    \A x \in Terminals : Live(x) =>
        \/ x \in records \/ late[x] = "spawn"
        \/ \E c \in Callers : pc[c] = "spawn" /\ target[c] = x

\* When a close() succeeds no process, record or reservation is left, and none
\* appears later.
CloseComplete ==
    closer.phase = "done" /\ ~closer.failed =>
        records = {} /\ reserved = 0 /\ \A x \in Terminals : ~Live(x)

\* A close() that is called when nothing is left to clean up succeeds.
CloseErrorTrue ==
    [][\A c \in Callers : pc[c] = "out" /\ pc'[c] = "closed" /\ closer.failed =>
                        \E x \in Terminals : Live(x) \/ x \in records]_vars

\* A reserved place is given back or becomes a terminal, although nobody waits for it.
ReservationEnds == \A x \in Terminals : late[x] = "spawn" ~> late[x] # "spawn"

\* The close task ends, and with it every close(), whatever runs meanwhile.
CloseReturned == closer.phase \in {"lock", "gather", "owned"} ~> closer.phase = "done"
=============================================================================
