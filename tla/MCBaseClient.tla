---------------------------- MODULE MCBaseClient ----------------------------
(***************************************************************************)
(* The three models of one native client (ACPClientBase), each with a      *)
(* specification and a run of its own: SessionState, what the client knows *)
(* of its session; PromptTurn, the text of its prompts; HostRequests, what *)
(* the agent asks of it.  They share the names of some variables, never    *)
(* their values: each specification leaves what only the others have alone.*)
(***************************************************************************)
EXTENDS SessionState, BaseClientConstants, TLC

VARIABLES
    turn,
    agent, sent, rpc, streaming, queue, streamError, text, outcome,  \* of PromptTurn
    transport, status, task, kind, captured, doomed, asked           \* of HostRequests

Turn == INSTANCE PromptTurn
Host == INSTANCE HostRequests

Symmetric == Permutations(Tasks) \cup Permutations(Sessions)

\* None is what is not there: no task, no metadata and no snapshot.
ASSUME NamesAssumption ==
    /\ None \notin Tasks
    /\ None \notin [of : Sessions, n : Nat]
    /\ None \notin [id : Sessions \cup {None}, view : [Parts -> [of : Sessions, n : Nat] \cup {None}],
                    strays : SUBSET Parts]

-----------------------------------------------------------------------------
(* What no other model has *)

stateVars == <<requests, session_id, view, transition, current, opened, deleted, version, job,
               news, strays>>
turnVars == <<agent, sent, rpc, streaming, queue, streamError, text, outcome>>
hostVars == <<transport, status, task, kind, captured, doomed, asked>>

NoState ==
    /\ requests = <<>> /\ session_id = None /\ view = Blank
    /\ transition = [active |-> FALSE, id |-> None]
    /\ current = None /\ opened = {} /\ deleted = {} /\ version = <<>> /\ job = None
    /\ news = 0 /\ strays = {}
NoTurns ==
    /\ agent = <<>> /\ sent = <<>> /\ rpc = "none" /\ streaming = FALSE /\ queue = <<>>
    /\ streamError = FALSE /\ text = <<>> /\ outcome = <<>>
NoHost ==
    /\ transport = 0 /\ status = <<>> /\ task = <<>> /\ kind = <<>> /\ captured = <<>>
    /\ doomed = 0 /\ asked = <<>>

-----------------------------------------------------------------------------
(* The specifications *)

allVars == <<vars, turn, turnVars, hostVars>>

StateInit == Init /\ turn = 0 /\ NoTurns /\ NoHost
StateNext == Next /\ UNCHANGED <<turn, turnVars, hostVars>>
StateSpec == StateInit /\ [][StateNext]_allVars

TurnInit == Turn!Init /\ started = 0 /\ NoState /\ NoHost
TurnNext == Turn!Next /\ UNCHANGED <<started, stateVars, hostVars>>
TurnSpec == TurnInit /\ [][TurnNext]_allVars /\ Turn!Fairness

HostInit == Host!Init /\ wire = <<>> /\ call = <<>> /\ chunks = <<>> /\ NoState /\ NoTurns
HostNext == Host!Next /\ UNCHANGED <<wire, call, chunks, stateVars, turnVars>>
HostSpec == HostInit /\ [][HostNext]_allVars /\ Host!Fairness

-----------------------------------------------------------------------------
(* What the runs check *)

OwnAnswers == Turn!OwnAnswers
DeadlineRetires == Turn!DeadlineRetires
PromptEnds == Turn!PromptEnds

AnswersInPlace == Host!AnswersInPlace
AnsweredUnlessCancelled == Host!AnsweredUnlessCancelled
PermissionInTurn == Host!PermissionInTurn
CancelAnswered == Host!CancelAnswered
=============================================================================
