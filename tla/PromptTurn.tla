----------------------------- MODULE PromptTurn -----------------------------
(***************************************************************************)
(* The prompts of one native client (src/src/soulacp/adapters/             *)
(* base_client.py, ACPClientBase): query() collects the text of an answer, *)
(* query_stream() hands it on while it arrives.  The reader, the request   *)
(* and the consumer of a stream are tasks of their own that share the      *)
(* collected chunks and one queue; deadlines, errors, a consumer that      *)
(* walks away and the loss of the connection end a prompt at any point.    *)
(*                                                                         *)
(* _query_lock admits one prompt at a time.  The agent follows the         *)
(* protocol: the text of a prompt precedes its response.  A frame that     *)
(* does not parse, and text above the limits, end the reader.              *)
(***************************************************************************)
EXTENDS BaseClientConstants, Sequences

VARIABLES
    link,        \* "up", "retired" (not _connected, but still read), "down"
    wire,        \* frames the agent wrote and the reader has not dispatched
    agent,       \* the agent's work on each prompt
    sent,        \* the chunks of each answer so far
    turn,        \* the number of the current prompt
    call,        \* query() or query_stream(), and how far its caller is
    rpc,         \* the request session/prompt
    chunks,      \* _chunks
    streaming,   \* _streaming
    queue,       \* _stream_queue
    streamError, \* _stream_error
    text,        \* what the caller of each prompt got
    outcome      \* how each prompt ended for its caller

agentVars == <<agent, sent>>
streamVars == <<streaming, queue, streamError>>
callVars == <<turn, call, text, outcome>>
vars == <<link, wire, agentVars, callVars, rpc, chunks, streamVars>>

Turns == 1 .. MaxTurns
Chunk(t, n) == [kind |-> "text", turn |-> t, n |-> n]
End == [kind |-> "end"]
Chunks == [kind : {"text"}, turn : Turns, n : 1 .. MaxText]
Responses == [kind : {"response"}, turn : Turns, ok : BOOLEAN, tail : BOOLEAN]

\* Every variable keeps its type, and the queue is in use only by a stream.
TypeOK ==
    /\ link \in {"up", "retired", "down"}
    /\ wire \in Seq(Chunks \cup Responses)
    /\ agent \in [Turns -> {"none", "working", "answered"}]
    /\ sent \in [Turns -> 0 .. MaxText]
    /\ turn \in 0 .. MaxTurns
    /\ call \in {"idle", "collect", "reads", "holds", "drains", "holdsLast", "fails"}
    /\ rpc \in {"none", "start", "wait", "answered", "refused", "broken", "timeout",
               "done", "failed"}
    /\ chunks \in Seq(Chunks)
    /\ streaming \in BOOLEAN
    /\ queue \in Seq(Chunks \cup {End})
    /\ ~streaming => queue = <<>>
    /\ streamError \in BOOLEAN
    /\ text \in [Turns -> Seq(Chunks)]
    /\ outcome \in [Turns -> {"none", "ok", "error", "timeout", "left"}]

Init ==
    /\ link = "up" /\ wire = <<>>
    /\ agent = [t \in Turns |-> "none"] /\ sent = [t \in Turns |-> 0]
    /\ turn = 0 /\ call = "idle" /\ rpc = "none"
    /\ chunks = <<>> /\ streaming = FALSE /\ queue = <<>> /\ streamError = FALSE
    /\ text = [t \in Turns |-> <<>>] /\ outcome = [t \in Turns |-> "none"]

-----------------------------------------------------------------------------
(* Helpers *)

\* _append_chunk.
Accept(c) ==
    /\ chunks' = Append(chunks, c)
    /\ queue' = IF streaming THEN Append(queue, c) ELSE queue

\* Mutant of Enqueue: nobody need be reading the queue.
EnqueueAlways(item) == queue' = Append(queue, item)
Enqueue(item) == queue' = IF streaming THEN Append(queue, item) ELSE queue

\* The request of a prompt is written, or refused when the client is not connected.
Written ==
    IF link = "up"
    THEN rpc' = "wait" /\ agent' = [agent EXCEPT ![turn'] = "working"]
    ELSE rpc' = "broken" /\ UNCHANGED agent

\* An interrupted request retires the transport.
\* Mutant of Retired: the transport is kept.
RetiredNot == link
Retired == IF link = "up" THEN "retired" ELSE link

Ends(how) ==
    /\ call' = "idle" /\ rpc' = "none"
    /\ outcome' = [outcome EXCEPT ![turn] = how]

-----------------------------------------------------------------------------
(* The agent *)

AgentText(t) ==
    /\ link # "down" /\ agent[t] = "working" /\ sent[t] < MaxText
    /\ sent' = [sent EXCEPT ![t] = @ + 1]
    /\ wire' = Append(wire, Chunk(t, sent[t] + 1))
    /\ UNCHANGED <<link, agent, callVars, rpc, chunks, streamVars>>

\* The response may carry text that was not sent before.
AgentAnswers(t) ==
    /\ link # "down" /\ agent[t] = "working"
    /\ agent' = [agent EXCEPT ![t] = "answered"]
    /\ \E ok, tail \in BOOLEAN :
        /\ tail => ok /\ sent[t] < MaxText
        /\ sent' = IF tail THEN [sent EXCEPT ![t] = @ + 1] ELSE sent
        /\ wire' = Append(wire, [kind |-> "response", turn |-> t, ok |-> ok, tail |-> tail])
    /\ UNCHANGED <<link, callVars, rpc, chunks, streamVars>>

-----------------------------------------------------------------------------
(* The reader *)

\* A response is matched with the pending request by its id.
Pending(f) == rpc = "wait" /\ f.turn = turn

Dispatch ==
    /\ link # "down" /\ wire # <<>>
    /\ wire' = Tail(wire)
    /\ LET f == Head(wire) IN
        \/ /\ f.kind = "text" /\ link = "up"
           /\ Accept(f) /\ UNCHANGED rpc
        \/ /\ f.kind = "text" /\ link # "up"
           /\ UNCHANGED <<chunks, queue, rpc>>
        \/ /\ f.kind = "response" /\ Pending(f)
           /\ rpc' = IF f.ok THEN "answered" ELSE "refused"
           /\ IF f.tail THEN Accept(Chunk(f.turn, sent[f.turn])) ELSE UNCHANGED <<chunks, queue>>
        \/ /\ f.kind = "response" /\ ~Pending(f)
           /\ UNCHANGED <<chunks, queue, rpc>>
    /\ UNCHANGED <<link, agentVars, callVars, streaming, streamError>>

\* The stream ends, a frame is malformed, or a clean-up cancels the reader.
ReaderEnds ==
    /\ link # "down"
    /\ link' = "down" /\ wire' = <<>>
    /\ agent' = [t \in Turns |-> IF agent[t] = "working" THEN "answered" ELSE agent[t]]
    /\ rpc' = IF rpc = "wait" THEN "broken" ELSE rpc
    /\ streamError' = (streamError \/ streaming)
    /\ Enqueue(End)
    /\ UNCHANGED <<sent, callVars, chunks, streaming>>

\* Another connection is made between two prompts.
Connect ==
    /\ link = "down" /\ call = "idle"
    /\ link' = "up"
    /\ UNCHANGED <<wire, agentVars, callVars, rpc, chunks, streamVars>>

-----------------------------------------------------------------------------
(* query() *)

\* Mutant of Fresh: the text of the last prompt is kept.
FreshNot == chunks
Fresh == <<>>

Query ==
    /\ call = "idle" /\ turn < MaxTurns
    /\ turn' = turn + 1 /\ call' = "collect"
    /\ chunks' = Fresh
    /\ Written
    /\ UNCHANGED <<link, wire, sent, text, outcome, streamVars>>

\* The response has arrived; late text within the grace period is returned too.
QueryReturns ==
    /\ call = "collect" /\ rpc = "answered"
    /\ text' = [text EXCEPT ![turn] = chunks]
    /\ Ends("ok")
    /\ UNCHANGED <<link, wire, agentVars, turn, chunks, streamVars>>

\* An error of the agent leaves the transport as it is.
QueryRefused ==
    /\ call = "collect" /\ rpc = "refused"
    /\ Ends("error")
    /\ UNCHANGED <<link, wire, agentVars, turn, text, chunks, streamVars>>

\* The deadline, a cancellation, or a lost connection: the transport is retired,
\* and the prompt ends when it is gone.
QueryInterrupted ==
    /\ call = "collect" /\ rpc \in {"wait", "answered"}
    /\ rpc' = "timeout" /\ link' = Retired
    /\ UNCHANGED <<wire, agentVars, callVars, chunks, streamVars>>

\* Mutant of Gone: the prompt ends before the transport is gone.
GoneNot == TRUE
Gone == link # "retired"
QueryFails ==
    /\ call = "collect" /\ rpc \in {"timeout", "broken"} /\ Gone
    /\ Ends(IF rpc = "timeout" THEN "timeout" ELSE "error")
    /\ UNCHANGED <<link, wire, agentVars, turn, text, chunks, streamVars>>

-----------------------------------------------------------------------------
(* query_stream(): its request, _send *)

QueryStream ==
    /\ call = "idle" /\ turn < MaxTurns
    /\ turn' = turn + 1 /\ call' = "reads" /\ rpc' = "start"
    /\ chunks' = Fresh
    /\ streaming' = TRUE /\ queue' = <<>> /\ streamError' = FALSE
    /\ UNCHANGED <<link, wire, agentVars, text, outcome>>

SendStarts ==
    /\ rpc = "start" /\ UNCHANGED turn
    /\ Written
    /\ UNCHANGED <<link, wire, sent, call, text, outcome, chunks, streamVars>>

SendInterrupted ==
    /\ streaming /\ rpc = "wait"
    /\ rpc' = "timeout" /\ link' = Retired
    /\ UNCHANGED <<wire, agentVars, callVars, chunks, streamVars>>

\* The request ends, with the sentinel in either case.
SendEnds ==
    /\ streaming /\ rpc \in {"answered", "refused", "broken", "timeout"}
    /\ rpc = "timeout" => Gone
    /\ rpc' = IF rpc = "answered" THEN "done" ELSE "failed"
    /\ streamError' = (streamError \/ rpc # "answered")
    /\ Enqueue(End)
    /\ UNCHANGED <<link, wire, agentVars, callVars, chunks, streaming>>

-----------------------------------------------------------------------------
(* query_stream(): its consumer *)

\* The first item of the queue is yielded, or starts the drain.
Takes ==
    /\ call = "reads" /\ queue # <<>>
    /\ queue' = Tail(queue)
    /\ IF Head(queue) = End
       THEN call' = "drains" /\ UNCHANGED text
       ELSE call' = "holds" /\ text' = [text EXCEPT ![turn] = Append(@, Head(queue))]
    /\ UNCHANGED <<link, wire, agentVars, turn, outcome, rpc, chunks, streaming, streamError>>

\* After the sentinel everything that is queued is yielded.
Drains ==
    /\ call = "drains" /\ queue # <<>>
    /\ queue' = Tail(queue)
    /\ IF Head(queue) = End
       THEN UNCHANGED <<call, text>>
       ELSE call' = "holdsLast" /\ text' = [text EXCEPT ![turn] = Append(@, Head(queue))]
    /\ UNCHANGED <<link, wire, agentVars, turn, outcome, rpc, chunks, streaming, streamError>>

\* The consumer asks for more.
Resumes ==
    /\ call \in {"holds", "holdsLast"}
    /\ call' = IF call = "holds" THEN "reads" ELSE "drains"
    /\ UNCHANGED <<link, wire, agentVars, turn, text, outcome, rpc, chunks, streamVars>>

\* The stream is reset; a request that is still at work is cancelled and awaited.
Closes(how) ==
    /\ Ends(how)
    /\ streaming' = FALSE /\ queue' = <<>> /\ streamError' = FALSE
    /\ UNCHANGED <<wire, agentVars, turn, text, chunks>>

Completes ==
    /\ call = "drains" /\ queue = <<>> /\ ~streamError
    /\ Closes("ok") /\ UNCHANGED link

\* A failed stream is cleaned up before its caller sees the error: a transport
\* that is up is disconnected.
Fails(how) ==
    /\ call' = "fails" /\ link' = Retired
    /\ outcome' = [outcome EXCEPT ![turn] = how]
    /\ UNCHANGED <<wire, agentVars, turn, text, rpc, chunks, streamVars>>

StreamFails == call = "drains" /\ queue = <<>> /\ streamError /\ Fails("error")
StreamTimeout == call = "reads" /\ queue = <<>> /\ Fails("timeout")
\* The consumer closes the generator, or is cancelled.
Leaves == call \in {"reads", "holds", "holdsLast"} /\ Fails("left")

FailureEnds ==
    /\ call = "fails" /\ Gone
    /\ Closes(outcome[turn]) /\ UNCHANGED link

-----------------------------------------------------------------------------

CallStep ==
    \/ QueryReturns \/ QueryRefused \/ QueryFails
    \/ SendStarts \/ SendEnds
    \/ Takes \/ Drains \/ Completes \/ StreamFails \/ FailureEnds
\* Mutant of Interrupts: streams have no deadline.
InterruptsQuery == QueryInterrupted
Interrupts == QueryInterrupted \/ SendInterrupted \/ StreamTimeout

Next ==
    \/ \E t \in Turns : AgentText(t) \/ AgentAnswers(t)
    \/ Dispatch \/ ReaderEnds \/ Connect
    \/ Query \/ QueryStream \/ CallStep \/ Interrupts \/ Resumes \/ Leaves

\* Every task that can run runs, deadlines pass, a retired transport is reaped;
\* the consumer may hold a chunk for ever.
Fairness ==
    /\ WF_vars(CallStep) /\ WF_vars(Interrupts)
    /\ WF_vars(link = "retired" /\ ReaderEnds)

Spec == Init /\ [][Next]_vars /\ Fairness

-----------------------------------------------------------------------------
(* Properties *)

Answer(t) == [n \in 1 .. sent[t] |-> Chunk(t, n)]

\* _append_chunk and the queue: what a caller got is a beginning of the answer
\* to its own prompt, in order and without a gap, whatever ended the prompts
\* before it; a prompt that ended well gave the whole answer.
OwnText ==
    \A t \in Turns :
        /\ Len(text[t]) <= sent[t]
        /\ text[t] = SubSeq(Answer(t), 1, Len(text[t]))
        /\ outcome[t] = "ok" => text[t] = Answer(t)

\* _invalidate_uncertain_rpc_transport and _cancel_after_timeout: no prompt is
\* written over a connection that still owes the response to an earlier one.
NoOverlap ==
    \A t1, t2 \in Turns : agent[t1] = "working" /\ agent[t2] = "working" => t1 = t2

\* _query_locked: prompts over one connection are answered one after the other,
\* each with its own text.
OwnAnswers == OwnText /\ NoOverlap

\* README.md:814: a prompt that missed its deadline, or that its consumer left,
\* returns only when the connection is gone.
DeadlineRetires ==
    [][\A t \in Turns :
        call # "idle" /\ call' = "idle" /\ outcome'[t] \in {"timeout", "left"} /\ t = turn =>
            link = "down"]_vars

\* The comment at base_client.py:1350: "The sentinel is emitted only after the
\* correlated session/prompt response carries its required stopReason", so a
\* stream whose request was answered does not end in an error of its own.
\* Violated: the reader emits it too, when the connection ends after the response.
AnsweredCompletes ==
    [][outcome' # outcome /\ outcome'[turn] = "error" => rpc \notin {"answered", "done"}]_vars

\* query() and query_stream() end, unless the consumer holds a chunk for ever.
PromptEnds == (call # "idle") ~> (call \in {"idle", "holds", "holdsLast"})
=============================================================================
