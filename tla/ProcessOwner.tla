---------------------------- MODULE ProcessOwner ----------------------------
(***************************************************************************)
(* What the pool relies on when it leaves a process to a client: at most   *)
(* one process runs, the client holds on to it until it is gone, and a     *)
(* disconnect() that reports success left nothing behind.  Every kind of   *)
(* client implements it: the native ones (ClientTransport), OpenCode       *)
(* (OpenCodeTransport) and the Cursor CLI (CursorProcess).                 *)
(***************************************************************************)
EXTENDS Naturals

CONSTANTS
    Procs,       \* child processes
    Others       \* what else a client may have to give back

VARIABLES
    alive,       \* the processes that run or may still start
    held,        \* what the client can still clean up
    closing      \* the disconnect() at work, or how the last one ended

vars == <<alive, held, closing>>

Init == alive = {} /\ held = {} /\ closing = "none"

\* What runs is held, before the step and after it.
Held == alive' \subseteq held' /\ held' \subseteq Procs \cup Others

Starts(p) == alive = {} /\ alive' = {p} /\ Held /\ UNCHANGED closing

\* A process ends, or something is taken or given back.
Ends == alive' \in {alive, {}} /\ Held /\ UNCHANGED closing

Disconnect == closing # "in" /\ closing' = "in" /\ alive' = alive /\ Held

Disconnected == closing = "in" /\ closing' = "ok" /\ held' = {} /\ Held

\* The client keeps what it could not clean up.
Remains == closing = "in" /\ closing' = "bad" /\ alive' \in {alive, {}} /\ Held

Next == (\E p \in Procs : Starts(p)) \/ Ends \/ Disconnect \/ Disconnected \/ Remains

Spec == Init /\ [][Next]_vars
=============================================================================
