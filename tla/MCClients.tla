----------------------------- MODULE MCClients -----------------------------
(***************************************************************************)
(* The three kinds of clients side by side, each a small instance of its   *)
(* module and an implementation of ProcessOwner.                           *)
(***************************************************************************)
EXTENDS OpenCodeTransport, TLC

CONSTANTS c1, c2, p1, p2

Symmetric == Permutations(Callers) \cup Permutations(Procs)

VARIABLES
    kind,          \* of the client
    pc,            \* of ClientTransport and CursorProcess; then of either
    readers, connectLock, disconnectLock, hostLock, interrupted, hostCleanup, terminals, leaked,
    needCleanup,
    queryLock, lifecycleLock

nativeVars == <<readers, connectLock, disconnectLock, hostLock, interrupted, hostCleanup, terminals,
                leaked, needCleanup>>
cursorVars == <<queryLock, lifecycleLock>>
openCodeVars == <<pipe, readVars, queueVars, writes>>
clientsVars == <<vars, kind, pc, nativeVars, cursorVars>>

Native == INSTANCE ClientTransport
Cursor == INSTANCE CursorProcess

ClientsInit ==
    \/ kind = "native" /\ Native!Init /\ InitThreads /\ queryLock = None /\ lifecycleLock = None
    \/ /\ kind = "cursor" /\ Cursor!Init /\ InitThreads /\ job = Idle /\ cleanup = NoCleanup
       /\ readers = None /\ connectLock = None /\ disconnectLock = None /\ hostLock = None
       /\ interrupted = None /\ hostCleanup = None /\ terminals = None /\ leaked = None
       /\ needCleanup = None
    \/ /\ kind = "opencode" /\ Init /\ pc = None /\ queryLock = None /\ lifecycleLock = None
       /\ readers = None /\ connectLock = None /\ disconnectLock = None /\ hostLock = None
       /\ interrupted = None /\ hostCleanup = None /\ terminals = None /\ leaked = None
       /\ needCleanup = None

NativeStep == kind = "native" /\ Native!Next /\ UNCHANGED <<kind, openCodeVars, cursorVars>>
CursorStep == kind = "cursor" /\ Cursor!Next /\ UNCHANGED <<kind, openCodeVars, job, cleanup, nativeVars>>
OpenCodeStep == kind = "opencode" /\ Next /\ UNCHANGED <<kind, pc, nativeVars, cursorVars>>

ClientsNext == NativeStep \/ CursorStep \/ OpenCodeStep
ClientsSpec == ClientsInit /\ [][ClientsNext]_clientsVars

\* What a client holds on to, and how far its disconnect() is.
Holds ==
    CASE kind = "native" -> ({process, spawn} \ {None}) \cup (IF terminals THEN {"terminals"} ELSE {})
      [] kind = "cursor" -> {process, spawn} \ {None}
      [] kind = "opencode" -> ({process, spawn, thread} \cup writes) \ {None}
Closing == IF disconnecting \in {"lock", "late"} THEN "in" ELSE disconnecting

\* Whatever the kind of a client, and whatever is interrupted or fails: at most
\* one process runs, the client holds on to it until it is gone, and a
\* disconnect() that reports success left no process and no terminal behind.
Contract == INSTANCE ProcessOwner WITH
    alive <- Running,
    held <- Holds,
    closing <- Closing,
    Others <- {"terminals"}
RefinesOwner == Contract!Spec

\* _cleanup_transport_if_current, of both files that have one: the clean-up that
\* was scheduled for a lost transport never disconnects a later one.
CleanupKeepsLater ==
    /\ kind = "native" => Native!LaterKept
    /\ kind = "opencode" => LaterKept
=============================================================================
