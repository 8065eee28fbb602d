---------------------------- MODULE HostRequests ----------------------------
(***************************************************************************)
(* The requests an agent sends to its host while a client is connected     *)
(* (src/src/soulacp/adapters/base_client.py, ACPClientBase): permission    *)
(* requests, calls of the file and terminal services, and waits for a      *)
(* terminal.  Each runs as a task of its own; the agent may cancel it, the *)
(* prompt it belongs to may end or be cancelled, and the connection may be *)
(* lost, closed and made again before it ends.                             *)
(*                                                                         *)
(* The reader dispatches one frame at a time: while it writes a refusal it *)
(* reads nothing else, so a refusal is one step.  Drawing the same id      *)
(* again while its task exists is a protocol error and ends the reader.    *)
(***************************************************************************)
EXTENDS BaseClientConstants, FiniteSets

VARIABLES
    link,      \* "up" while _connected; then the stages of disconnect()
    transport, \* the number of the transport
    turn,      \* _permission_turn, by number; 0 is the inactive one of a new client
    status,    \* its active and cancelled fields
    task,      \* _request_tasks_by_id: what each task is doing
    kind,      \* what each task serves
    captured,  \* _permission_request_turns
    started,   \* _request_reply_started
    doomed,    \* the transport the process clean-up shall retire, 0 for none
    asked      \* what the agent knows of its last request with each id

vars == <<link, transport, turn, status, task, kind, captured, started, doomed, asked>>

Turns == 0 .. MaxTurns
Kinds == {"permission", "service", "wait"}
\* "other" stands for every answer that grants nothing: results, refusals, and
\* the outcome "cancelled" of a permission request.
Answers == {"none", "selected", "other", "-32800"}
Never == [turn |-> 0, transport |-> 0, cancelled |-> FALSE, answer |-> "none", replies |-> 0]

HostTasks == {i \in Ids : task[i] # "none"}
Waits == {i \in HostTasks : kind[i] = "wait"}

\* Every variable keeps its type, and tasks and waits keep to their limits.
TypeOK ==
    /\ link \in {"down", "up", "lost", "closing", "failed"}
    /\ transport \in 0 .. MaxLinks /\ doomed \in 0 .. transport
    /\ turn \in Turns
    /\ status \in [Turns -> {"idle", "active", "cancelled", "over"}]
    /\ task \in [Ids -> {"none", "new", "running", "unwinding", "reply", "ack", "ending"}]
    /\ kind \in [Ids -> Kinds]
    /\ captured \in [Ids -> Turns]
    /\ started \subseteq Ids
    /\ asked \in [Ids -> [turn : Turns, transport : 0 .. MaxLinks, cancelled : BOOLEAN,
                          answer : Answers, replies : 0 .. 2]]
    /\ Cardinality(HostTasks) <= MaxTasks
    /\ Cardinality(Waits) <= MaxWaits

Init ==
    /\ link = "down" /\ transport = 0 /\ doomed = 0
    /\ turn = 0 /\ status = [t \in Turns |-> "idle"]
    /\ task = [i \in Ids |-> "none"] /\ kind = [i \in Ids |-> "service"]
    /\ captured = [i \in Ids |-> 0] /\ started = {}
    /\ asked = [i \in Ids |-> Never]

-----------------------------------------------------------------------------
(* Helpers *)

Set(i, step) == task' = [task EXCEPT ![i] = step]

\* _send_result and _send_error: nothing is written on a lost connection.
Write(i, answer) ==
    asked' = IF link = "up"
             THEN [asked EXCEPT ![i].answer = answer, ![i].replies = @ + 1]
             ELSE asked

\* _send_host_result and _send_host_error.
\* Mutant of Mark: a started reply is not remembered.
MarkForgotten(i) == UNCHANGED started
Mark(i) == started' = started \cup {i}
Reply(i, answer) == Mark(i) /\ Write(i, answer) /\ Set(i, "reply")

\* task.cancel(): a task that has not run yet ends without running.
Cancelled(step) ==
    CASE step = "new" -> "ending"
      [] step \in {"running", "reply"} -> "unwinding"
      [] step = "ack" -> "ending"
      [] OTHER -> step

TurnEnds(t, how) == IF status[t] = "active" THEN [status EXCEPT ![t] = how] ELSE status

\* _request_done.
Gone(i) ==
    /\ Set(i, "none")
    /\ captured' = [captured EXCEPT ![i] = 0]
    /\ started' = started \ {i}

-----------------------------------------------------------------------------
(* The agent's frames *)

Outstanding(i) == asked[i].transport = transport /\ asked[i].replies = 0

\* A request arrives; the agent draws an id again when it has its answer.
Arrives(i) ==
    /\ link = "up" /\ task[i] = "none" /\ ~Outstanding(i)
    /\ UNCHANGED <<link, transport, turn, status, started, doomed>>

Sent(i, answer) ==
    asked' = [asked EXCEPT ![i] = [turn |-> turn, transport |-> transport,
                                   cancelled |-> FALSE, answer |-> answer,
                                   replies |-> IF answer = "none" THEN 0 ELSE 1]]

\* Mutant of Admitted: the limit of waits is tested as the one of tasks.
AdmittedWaits(k) == Cardinality(HostTasks) < MaxTasks
Admitted(k) ==
    /\ k = "wait" => Cardinality(Waits) < MaxWaits
    /\ Cardinality(HostTasks) < MaxTasks

Request(i) ==
    \E k \in Kinds :
        /\ Arrives(i) /\ Admitted(k)
        /\ Set(i, "new")
        /\ kind' = [kind EXCEPT ![i] = k]
        /\ captured' = [captured EXCEPT ![i] = IF k = "permission" THEN turn ELSE 0]
        /\ Sent(i, "none")

\* Foreign sessions and requests above the limits are refused by the reader.
Refuse(i) ==
    /\ Arrives(i)
    /\ Sent(i, "other")
    /\ UNCHANGED <<task, kind, captured>>

\* $/cancel_request.
AgentCancels(i) ==
    /\ link = "up" /\ task[i] # "none" /\ ~asked[i].cancelled
    /\ asked' = [asked EXCEPT ![i].cancelled = TRUE]
    /\ task' = IF i \in started THEN task ELSE [task EXCEPT ![i] = Cancelled(@)]
    /\ UNCHANGED <<link, transport, turn, status, kind, captured, started, doomed>>

-----------------------------------------------------------------------------
(* The tasks: _run_request and _handle_request *)

\* Mutant of Granting: the turn that is current when the task runs decides.
GrantingNow(i) == turn
Granting(i) == captured[i]

\* Mutant of Decide: a request of a turn that is over is dropped.
DecideSilently(i) ==
    /\ kind[i] = "permission"
    /\ IF status[Granting(i)] = "active"
       THEN Reply(i, "selected")
       ELSE Set(i, "ending") /\ UNCHANGED <<started, asked>>

\* The decision on a permission request and its writing are one step.
Decide(i) ==
    /\ kind[i] = "permission"
    /\ IF status[Granting(i)] = "active"
       THEN Reply(i, "selected")
       ELSE Reply(i, "other")

Starts(i) ==
    /\ task[i] = "new"
    /\ IF link # "up" THEN Set(i, "ending") /\ UNCHANGED <<started, asked>>
       ELSE \/ Decide(i)
            \/ Reply(i, "other")   \* malformed parameters, unknown methods
            \/ kind[i] # "permission" /\ Set(i, "running") /\ UNCHANGED <<started, asked>>
    /\ UNCHANGED <<link, transport, turn, status, kind, captured, doomed>>

\* A service returns or raises.
ServiceEnds(i) ==
    /\ task[i] = "running"
    /\ Reply(i, "other")
    /\ UNCHANGED <<link, transport, turn, status, kind, captured, doomed>>

\* The cancelled service has cleaned up.
\* Mutant of Acknowledges: the cancellation is not acknowledged.
AcknowledgesNever(i) == FALSE
Acknowledges(i) == link = "up" /\ i \notin started
Unwound(i) ==
    /\ task[i] = "unwinding"
    /\ IF Acknowledges(i)
       THEN Mark(i) /\ Write(i, "-32800") /\ Set(i, "ack")
       ELSE Set(i, "ending") /\ UNCHANGED <<started, asked>>
    /\ UNCHANGED <<link, transport, turn, status, kind, captured, doomed>>

Ends(i) ==
    /\ task[i] \in {"reply", "ack", "ending"}
    /\ Gone(i)
    /\ UNCHANGED <<link, transport, turn, status, kind, doomed, asked>>

\* The pipe does not take the reply: the transport shall be retired.
DrainFails(i) ==
    /\ task[i] = "reply"
    /\ Gone(i)
    /\ doomed' = IF doomed = 0 THEN transport ELSE doomed
    /\ UNCHANGED <<link, transport, turn, status, kind, asked>>

-----------------------------------------------------------------------------
(* Prompts *)

\* A query begins; requests that wait keep the turn they came with.
BeginTurn ==
    /\ turn < MaxTurns /\ turn + transport < MaxEpochs
    /\ turn' = turn + 1
    /\ status' = [TurnEnds(turn, "over") EXCEPT ![turn + 1] = "active"]
    /\ UNCHANGED <<link, transport, task, kind, captured, started, doomed, asked>>

\* The prompt's response arrives.
TurnCompletes ==
    /\ link = "up" /\ status[turn] = "active"
    /\ status' = TurnEnds(turn, "over")
    /\ UNCHANGED <<link, transport, turn, task, kind, captured, started, doomed, asked>>

CancelTurn ==
    /\ link = "up" /\ status[turn] = "active"
    /\ status' = TurnEnds(turn, "cancelled")
    /\ UNCHANGED <<link, transport, turn, task, kind, captured, started, doomed, asked>>

-----------------------------------------------------------------------------
(* The connection *)

Connect ==
    /\ link = "down" /\ transport < MaxLinks /\ turn + transport < MaxEpochs
    /\ link' = "up" /\ transport' = transport + 1
    /\ status' = TurnEnds(turn, "over")
    /\ UNCHANGED <<turn, task, kind, captured, started, doomed, asked>>

\* The reader meets the end of the stream or a protocol error.
ReaderEnds ==
    /\ link = "up"
    /\ link' = "lost"
    /\ UNCHANGED <<transport, turn, status, task, kind, captured, started, doomed, asked>>

\* disconnect(), called or run for a doomed transport.
Disconnect ==
    /\ link = "up"
    /\ link' = "lost"
    /\ status' = TurnEnds(turn, "over")
    /\ UNCHANGED <<transport, turn, task, kind, captured, started, doomed, asked>>

Retire ==
    /\ doomed # 0
    /\ doomed' = 0
    /\ IF doomed = transport /\ link = "up" THEN link' = "lost" ELSE UNCHANGED link
    /\ UNCHANGED <<transport, turn, status, task, kind, captured, started, asked>>

\* _close_host_services cancels the tasks and closes the terminals ...
\* Mutant of ClosedTask: the waits are left to end with their terminals.
ClosedTaskButWaits(i) == IF kind[i] = "wait" /\ task[i] = "running" THEN "running" ELSE Cancelled(task[i])
ClosedTask(i) == Cancelled(task[i])
CloseHostServices ==
    /\ link \in {"lost", "failed"}
    /\ link' = "closing"
    /\ task' = [i \in Ids |-> ClosedTask(i)]
    /\ UNCHANGED <<transport, turn, status, kind, captured, started, doomed, asked>>

\* ... which may fail; then the tasks are not waited for, and the services are
\* closed again before another connection.
TerminalsFail ==
    /\ link = "closing"
    /\ link' = "failed"
    /\ UNCHANGED <<transport, turn, status, task, kind, captured, started, doomed, asked>>

\* Mutant of Gathered: closing does not wait for the cancelled tasks.
GatheredNone == TRUE
Gathered == HostTasks = {}
Closed ==
    /\ link = "closing" /\ Gathered
    /\ link' = "down"
    /\ UNCHANGED <<transport, turn, status, task, kind, captured, started, doomed, asked>>

-----------------------------------------------------------------------------

TaskStep(i) == Starts(i) \/ ServiceEnds(i) \/ Unwound(i) \/ Ends(i) \/ DrainFails(i)

Next ==
    \/ \E i \in Ids : Request(i) \/ Refuse(i) \/ AgentCancels(i) \/ TaskStep(i)
    \/ BeginTurn \/ TurnCompletes \/ CancelTurn
    \/ Connect \/ ReaderEnds \/ Disconnect \/ Retire
    \/ CloseHostServices \/ TerminalsFail \/ Closed

\* The event loop runs every task that can run; the services end their calls
\* when they are cancelled.  A service that is not cancelled owes nothing.
Fairness ==
    /\ \A i \in Ids : WF_vars(Starts(i)) /\ WF_vars(Unwound(i)) /\ WF_vars(Ends(i))
    /\ WF_vars(Retire) /\ WF_vars(CloseHostServices) /\ WF_vars(Closed)

Spec == Init /\ [][Next]_vars /\ Fairness

-----------------------------------------------------------------------------
(* Properties *)

\* _request_reply_started: the agent never reads two answers to one request,
\* however cancellation, completion and clean-up meet.
ReplyOnce == \A i \in Ids : asked[i].replies <= 1

\* _permission_request_turns: a permission is granted only while the prompt
\* during which it was asked is the current one and neither over nor cancelled.
PermissionInTurn ==
    [][\A i \in Ids :
        asked'[i].answer = "selected" /\ asked[i].answer # "selected" =>
            asked'[i].turn = turn /\ status[turn] = "active"]_vars

\* _close_host_services: while a connection is up, every task serves a request
\* that came over it; no task writes its answer to a later agent.
OwnTransport ==
    link = "up" => \A i \in HostTasks : asked[i].transport = transport

\* _run_request: an agent gets one answer at most to each of its requests, and
\* never one to a request of an earlier agent.
AnswersInPlace == ReplyOnce /\ OwnTransport

Unanswered(i) == link = "up" /\ asked[i].transport = transport /\ asked[i].replies = 0

\* _run_request: while the connection lasts, a request the agent did not
\* cancel never loses its task without an answer.
AnsweredUnlessCancelled ==
    \A i \in Ids : Unanswered(i) /\ ~asked[i].cancelled => task[i] # "none"

\* README.md:822-824 and the docstring of _run_request: a cancelled request is
\* acknowledged, so no request at all loses its task without an answer.
\* Violated: a task that is cancelled before its first step never runs.
Answered == \A i \in Ids : Unanswered(i) => task[i] # "none"

\* _run_request: a request whose service is at work when it is cancelled is
\* answered, or its connection is lost.
CancelAnswered ==
    \A i \in Ids : (task[i] = "unwinding" /\ link = "up") ~> (link # "up" \/ asked[i].replies = 1)

\* disconnect(): clean-up comes to an end, with success or with the error of
\* the terminals, although requests wait for terminals that never exit.
CloseEnds == link = "lost" ~> link \in {"down", "failed"}
=============================================================================
