--------------------------- MODULE CursorProcess ---------------------------
(***************************************************************************)
(* The processes of the Cursor client (src/src/soulacp/adapters/           *)
(* cursor_client.py), one per query.  _query_lock orders the queries;      *)
(* _lifecycle_lock orders the start of a process, its end, connect(),      *)
(* disconnect() and the reaping of a process that starts after its query   *)
(* gave up.  A query may end at any time: with a result or an error, by    *)
(* its deadline, or because its caller was cancelled or left the stream.   *)
(***************************************************************************)
EXTENDS ClientConstants, Naturals

VARIABLES
    proc,          \* the processes
    process,       \* _process
    connected,     \* whether _binary is set
    spawn,         \* the process of _spawn_task
    claim,         \* _spawn_cleanup_task
    queryLock, lifecycleLock,
    pc,            \* the callers
    disconnecting  \* _disconnect_task

procVars == <<proc, process, spawn, claim>>
vars == <<procVars, connected, queryLock, lifecycleLock, pc, disconnecting>>

Running == {p \in Procs : proc[p] \in {"starting", "alive"}}

\* Every variable keeps its type.
TypeOK ==
    /\ proc \in [Procs -> {"none", "starting", "alive", "failed", "dead"}]
    /\ process \in Procs \cup {None} /\ spawn \in Procs \cup {None} /\ connected \in BOOLEAN
    /\ claim \in {"none", "wait", "lock", "in"}
    /\ queryLock \in Callers \cup {None}
    /\ lifecycleLock \in Callers \cup {None, "disconnect", "claim"}
    /\ pc \in [Callers -> {"out", "query", "start", "spawn", "write", "run", "finish", "reap", "connect",
                           "disconnect"}]
    /\ disconnecting \in {"none", "lock", "late", "in", "ok", "bad"}

Init ==
    /\ proc = [p \in Procs |-> "none"] /\ process = None /\ spawn = None /\ claim = "none"
    /\ connected = FALSE /\ queryLock = None /\ lifecycleLock = None
    /\ pc = [c \in Callers |-> "out"] /\ disconnecting = "none"

-----------------------------------------------------------------------------
(* Helpers *)

Go(c, step) == pc' = [pc EXCEPT ![c] = step]

\* Names are used again; a process the client or a query refers to is not.
Unused(p) == proc[p] \in {"none", "dead", "failed"} /\ p \notin {process, spawn}

\* A query ends and the next one in the queue goes on.
Ends(c) == Go(c, "out") /\ queryLock' = None

\* _terminate_owned_process: the process is gone, or survives and stays.
Gone ==
    /\ proc' = IF process = None THEN proc ELSE [proc EXCEPT ![process] = "dead"]
    /\ process' = None
Survives == MayFail /\ process # None /\ proc[process] = "alive" /\ UNCHANGED <<proc, process>>

-----------------------------------------------------------------------------
(* connect() *)

Connect(c) ==
    /\ pc[c] = "out" /\ Go(c, "connect")
    /\ UNCHANGED <<procVars, connected, queryLock, lifecycleLock, disconnecting>>

\* Whether the process of an earlier query may still appear, or remains.
Pending == spawn # None \/ claim # "none" \/ process # None

\* It is refused while a process remains, and may not find the binary.
Connects(c) ==
    /\ pc[c] = "connect" /\ lifecycleLock = None
    /\ connected' \in {connected, connected \/ ~Pending}
    /\ Go(c, "out")
    /\ UNCHANGED <<procVars, queryLock, lifecycleLock, disconnecting>>

-----------------------------------------------------------------------------
(* query() and query_stream() *)

Query(c) ==
    /\ pc[c] = "out" /\ Go(c, "query")
    /\ UNCHANGED <<procVars, connected, queryLock, lifecycleLock, disconnecting>>

QueryTakes(c) ==
    /\ pc[c] = "query" /\ queryLock = None
    /\ queryLock' = c /\ Go(c, "start")
    /\ UNCHANGED <<procVars, connected, lifecycleLock, disconnecting>>

\* _spawn_with_deadline.
\* Mutant of Refused: a process that may still appear does not refuse a query.
RefusedRunning == ~connected \/ process # None
Refused == ~connected \/ Pending
Starts(c) ==
    /\ pc[c] = "start" /\ lifecycleLock = None
    /\ \/ Ends(c) /\ UNCHANGED <<proc, spawn, lifecycleLock>>   \* refused, or too late
       \/ /\ ~Refused
          /\ \E p \in Procs :
                Unused(p) /\ proc' = [proc EXCEPT ![p] = "starting"] /\ spawn' = p
          /\ lifecycleLock' = c /\ Go(c, "spawn") /\ UNCHANGED queryLock
    /\ UNCHANGED <<process, claim, connected, disconnecting>>

Spawned(c) ==
    /\ pc[c] = "spawn" /\ proc[spawn] \in {"alive", "dead"}
    /\ process' = spawn /\ spawn' = None
    /\ lifecycleLock' = None /\ Go(c, "write")
    /\ UNCHANGED <<proc, claim, connected, queryLock, disconnecting>>

\* The start fails, takes too long, or its caller is cancelled: the spawn is
\* left to _claim_and_reap_late_spawn.
StartLeft(c) ==
    /\ pc[c] = "spawn"
    /\ claim' = "wait" /\ lifecycleLock' = None /\ Ends(c)
    /\ UNCHANGED <<proc, process, spawn, connected, disconnecting>>

\* _write_prompt ends well only if the process takes the prompt.
PromptWritten(c) ==
    /\ pc[c] = "write" /\ Go(c, "run")
    /\ UNCHANGED <<procVars, connected, queryLock, lifecycleLock, disconnecting>>

\* The query has its output, fails, or is given up.
Finishes(c) ==
    /\ pc[c] \in {"write", "run"} /\ Go(c, "finish")
    /\ UNCHANGED <<procVars, connected, queryLock, lifecycleLock, disconnecting>>

\* Only a query that waits can be given up before it has a process.
GivesUp(c) ==
    /\ \/ pc[c] \in {"query", "connect"} /\ Go(c, "out") /\ UNCHANGED queryLock
       \/ pc[c] = "start" /\ Ends(c)
    /\ UNCHANGED <<procVars, connected, lifecycleLock, disconnecting>>

\* _finish_query_cleanup, which goes on when its caller is cancelled.  A
\* disconnect() may have reaped the process before.
FinishTakes(c) ==
    /\ pc[c] = "finish" /\ lifecycleLock = None
    /\ IF process = None THEN Ends(c) /\ UNCHANGED lifecycleLock
       ELSE lifecycleLock' = c /\ Go(c, "reap") /\ UNCHANGED queryLock
    /\ UNCHANGED <<procVars, connected, disconnecting>>
FinishEnds(c) ==
    /\ pc[c] = "reap"
    /\ Gone \/ Survives
    /\ lifecycleLock' = None /\ Ends(c)
    /\ UNCHANGED <<spawn, claim, connected, disconnecting>>

-----------------------------------------------------------------------------
(* _claim_and_reap_late_spawn *)

ClaimSees ==
    /\ claim = "wait" /\ proc[spawn] # "starting"
    /\ IF proc[spawn] = "failed"
       THEN /\ claim' = "none" /\ spawn' = None
            /\ disconnecting' = IF disconnecting = "late" THEN "lock" ELSE disconnecting
       ELSE claim' = "lock" /\ UNCHANGED <<spawn, disconnecting>>
    /\ UNCHANGED <<proc, process, connected, queryLock, lifecycleLock, pc>>

ClaimTakes ==
    /\ claim = "lock" /\ lifecycleLock = None
    /\ lifecycleLock' = "claim" /\ claim' = "in" /\ process' = spawn
    /\ UNCHANGED <<proc, spawn, connected, queryLock, pc, disconnecting>>

\* A disconnect() that waits for the claim goes on, or fails with it.
ClaimEnds ==
    /\ claim = "in"
    /\ claim' = "none" /\ spawn' = None /\ lifecycleLock' = None
    /\ \/ Gone /\ disconnecting' = IF disconnecting = "late" THEN "lock" ELSE disconnecting
       \/ Survives /\ disconnecting' = IF disconnecting = "late" THEN "bad" ELSE disconnecting
    /\ UNCHANGED <<connected, queryLock, pc>>

-----------------------------------------------------------------------------
(* disconnect(): its task is shared by all callers until it is done *)

Disconnect(c) ==
    /\ pc[c] = "out" /\ Go(c, "disconnect")
    /\ disconnecting' = IF disconnecting \in {"lock", "late", "in"} THEN disconnecting ELSE "lock"
    /\ UNCHANGED <<procVars, connected, queryLock, lifecycleLock>>

\* Mutant of ClaimAwaited: a late process is left to its claim.
ClaimAwaitedNever == FALSE
ClaimAwaited == claim # "none"
DisconnectTakes ==
    /\ disconnecting = "lock" /\ lifecycleLock = None
    /\ connected' = FALSE
    /\ IF ClaimAwaited THEN disconnecting' = "late" /\ UNCHANGED lifecycleLock
       ELSE disconnecting' = "in" /\ lifecycleLock' = "disconnect"
    /\ UNCHANGED <<procVars, queryLock, pc>>

DisconnectEnds ==
    /\ disconnecting = "in" /\ lifecycleLock' = None
    /\ \/ Gone /\ disconnecting' = "ok"
       \/ Survives /\ disconnecting' = "bad"
    /\ UNCHANGED <<spawn, claim, connected, queryLock, pc>>

DisconnectReturns(c) ==
    /\ pc[c] = "disconnect" /\ disconnecting \in {"ok", "bad"}
    /\ Go(c, "out")
    /\ UNCHANGED <<procVars, connected, queryLock, lifecycleLock, disconnecting>>

-----------------------------------------------------------------------------
(* The agent *)

ProcStarts(p) ==
    /\ proc[p] = "starting" /\ proc' = [proc EXCEPT ![p] = "alive"]
    /\ UNCHANGED <<process, spawn, claim, connected, queryLock, lifecycleLock, pc, disconnecting>>
ProcFails(p) ==
    /\ proc[p] = "starting" /\ proc' = [proc EXCEPT ![p] = "failed"]
    /\ UNCHANGED <<process, spawn, claim, connected, queryLock, lifecycleLock, pc, disconnecting>>
ProcExits(p) ==
    /\ proc[p] = "alive" /\ proc' = [proc EXCEPT ![p] = "dead"]
    /\ UNCHANGED <<process, spawn, claim, connected, queryLock, lifecycleLock, pc, disconnecting>>

-----------------------------------------------------------------------------

QueryStep(c) ==
    \/ QueryTakes(c) \/ Starts(c) \/ Spawned(c) \/ StartLeft(c) \/ PromptWritten(c) \/ Finishes(c)
    \/ FinishTakes(c) \/ FinishEnds(c)
CallStep(c) == QueryStep(c) \/ Connects(c) \/ DisconnectReturns(c)
SpawnStep(p) == ProcStarts(p) \/ ProcFails(p)

Next ==
    \/ \E c \in Callers : Query(c) \/ Connect(c) \/ Disconnect(c) \/ GivesUp(c) \/ CallStep(c)
    \/ ClaimSees \/ ClaimTakes \/ ClaimEnds \/ DisconnectTakes \/ DisconnectEnds
    \/ \E p \in Procs : SpawnStep(p) \/ ProcExits(p)

\* Locks are handed over in the order of their waiters, a query has a deadline,
\* and so has every wait for a process.
Fairness ==
    /\ \A c \in Callers : SF_vars(CallStep(c))
    /\ WF_vars(ClaimSees) /\ SF_vars(ClaimTakes) /\ WF_vars(ClaimEnds)
    /\ SF_vars(DisconnectTakes) /\ WF_vars(DisconnectEnds)
    /\ \A p \in Procs : WF_vars(SpawnStep(p))

Spec == Init /\ [][Next]_vars /\ Fairness

-----------------------------------------------------------------------------
(* Properties *)

\* Every query and connect() ends, and every disconnect() unless somebody
\* connects again before it has the lock back.
CallsReturn ==
    /\ \A c \in Callers : pc[c] \notin {"out", "disconnect"} ~> pc[c] = "out"
    /\ disconnecting = "lock" ~> disconnecting # "lock"
    /\ disconnecting = "late" ~> disconnecting \in {"ok", "bad"} \/ connected

\* The contract of a client.
Owner == INSTANCE ProcessOwner WITH
    alive <- Running,
    held <- {process, spawn} \ {None},
    closing <- IF disconnecting \in {"lock", "late"} THEN "in" ELSE disconnecting,
    Others <- {}
ImplementsOwner == Owner!Spec
=============================================================================
