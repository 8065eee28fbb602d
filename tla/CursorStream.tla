---------------------------- MODULE CursorStream ----------------------------
(***************************************************************************)
(* A streamed query of the Cursor client (query_stream of                  *)
(* src/src/soulacp/adapters/cursor_client.py): how the text is put         *)
(* together from the events of the agent.  A "stamped" agent writes        *)
(* timestamped deltas, and snapshots of what it has said before it uses a  *)
(* tool and at its end; a "plain" one deltas without timestamps, a         *)
(* "legacy" one all of its text each time, in a field of its own; the      *)
(* result may end with text that no event had.  A "rogue" one writes any   *)
(* event, and lines that are none.  A text is a sequence of pieces.        *)
(***************************************************************************)
EXTENDS Naturals, Sequences

CONSTANTS
    Pieces,      \* of text
    MaxEvents,   \* bound: events the agent writes
    MaxRogue,    \* bound: events a rogue agent writes
    EventLimit,  \* MAX_CURSOR_STREAM_EVENTS
    ChunkLimit   \* MAX_CURSOR_RESPONSE_CHUNKS

VARIABLES
    style,       \* of the agent
    agent,       \* how far it is
    said,        \* its text
    wire,        \* events that were not read yet
    written,     \* how many it has written
    open,        \* whether some process has the other end of the pipe
    text,        \* content_chunks, joined
    chunks,      \* their number
    stamped,     \* saw_timestamped_assistant_delta
    events,      \* stream_events
    at,          \* where the stream is: it reads, yields, or yields its last chunk
    outcome

agentVars == <<style, agent, said, wire, written, open>>
streamVars == <<text, chunks, stamped, events, at, outcome>>
vars == <<agentVars, streamVars>>

Event(type, content) == [type |-> type, text |-> content, time |-> FALSE, call |-> FALSE]
Delta(content) == [Event("assistant", content) EXCEPT !.time = TRUE]
ToolSnapshot(content) == [Delta(content) EXCEPT !.call = TRUE]

Texts == {<<>>} \cup {<<piece>> : piece \in Pieces}
RogueEvents ==
    [type : {"assistant"}, text : Texts, time : BOOLEAN, call : BOOLEAN]
        \cup {Event(type, content) : type \in {"content", "result"}, content \in Texts}
        \cup {Event(type, <<>>) : type \in {"other", "failure", "malformed"}}

Init ==
    /\ style \in {"stamped", "plain", "legacy", "rogue"}
    /\ agent = "talks" /\ said = <<>> /\ wire = <<>> /\ written = 0 /\ open = TRUE
    /\ text = <<>> /\ chunks = 0 /\ stamped = FALSE /\ events = 0
    /\ at = "read" /\ outcome = "none"

-----------------------------------------------------------------------------
(* The agent *)

Writes(event) == wire' = Append(wire, event) /\ written' = written + 1

Says(piece) ==
    /\ agent = "talks" /\ written < MaxEvents
    /\ style # "rogue"
    /\ said' = Append(said, piece)
    /\ Writes(CASE style = "stamped" -> Delta(<<piece>>)
                [] style = "plain" -> Event("assistant", <<piece>>)
                [] style = "legacy" -> Event("content", said'))
    /\ UNCHANGED <<style, agent, open, streamVars>>

UsesTool ==
    /\ style = "stamped" /\ agent = "talks" /\ said # <<>> /\ written < MaxEvents
    /\ Writes(ToolSnapshot(said))
    /\ UNCHANGED <<style, agent, said, open, streamVars>>

Concludes ==
    /\ style = "stamped" /\ agent = "talks" /\ said # <<>> /\ written < MaxEvents
    /\ Writes(Event("assistant", said)) /\ agent' = "concluded"
    /\ UNCHANGED <<style, said, open, streamVars>>

GivesResult ==
    /\ style # "rogue" /\ agent \in {"talks", "concluded"} /\ written < MaxEvents
    /\ \E rest \in Texts : said' = said \o rest
    /\ Writes(Event("result", said')) /\ agent' = "done"
    /\ UNCHANGED <<style, open, streamVars>>

WritesAnything ==
    /\ style = "rogue" /\ agent = "talks" /\ written < MaxRogue
    /\ \E event \in RogueEvents :
         /\ Writes(event)
         /\ IF event.type = "result" THEN said' = event.text /\ agent' = "done"
            ELSE UNCHANGED <<said, agent>>
    /\ UNCHANGED <<style, open, streamVars>>

\* The process ends; a descendant of it may keep the pipe.
Exits ==
    /\ agent # "exited" /\ agent' = "exited" /\ open' \in BOOLEAN
    /\ UNCHANGED <<style, said, wire, written, streamVars>>

-----------------------------------------------------------------------------
(* The stream *)

Over(how) == at' = "over" /\ outcome' = how

\* _record_delta, and the yield after it.
Yields(delta, then) ==
    IF chunks >= ChunkLimit
    THEN Over("limit") /\ UNCHANGED <<text, chunks>>
    ELSE /\ text' = text \o delta /\ chunks' = chunks + 1
         /\ at' = then /\ UNCHANGED outcome

Starts(content, beginning) ==
    Len(beginning) <= Len(content) /\ SubSeq(content, 1, Len(beginning)) = beginning
After(content, beginning) == SubSeq(content, Len(beginning) + 1, Len(content))

Result(event) ==
    IF ~Starts(event.text, text) THEN Over("disagrees") /\ UNCHANGED <<text, chunks>>
    ELSE IF event.text = text THEN Over("done") /\ UNCHANGED <<text, chunks>>
    ELSE Yields(After(event.text, text), "last")

\* Mutant of Buffered: a snapshot at the end counts as a delta.
BufferedCalls(event) == event.call
Buffered(event) == event.call \/ (~event.time /\ stamped)

\* _extract_assistant_delta.
Extracted(event) ==
    CASE event.type = "assistant" -> event.text
      [] event.type = "content" -> IF Starts(event.text, text) THEN After(event.text, text) ELSE <<>>
      [] OTHER -> <<>>

Passes == UNCHANGED <<text, chunks, at, outcome>>

Reads ==
    /\ at = "read" /\ wire # <<>> /\ wire' = Tail(wire) /\ events' = events + 1
    /\ LET event == wire[1]
           skipped == event.type = "assistant" /\ Buffered(event)
       IN
         /\ stamped' = (stamped \/ (event.type = "assistant" /\ event.time /\ ~event.call))
         /\ IF events >= EventLimit THEN Over("limit") /\ UNCHANGED <<text, chunks>>
            ELSE IF event.type \in {"malformed", "failure"}
            THEN Over(event.type) /\ UNCHANGED <<text, chunks>>
            ELSE IF event.type = "result" THEN Result(event)
            ELSE IF skipped \/ Extracted(event) = <<>> THEN Passes
            ELSE Yields(Extracted(event), "yield")
    /\ UNCHANGED <<style, agent, said, written, open>>

\* The consumer comes back, or leaves the stream.
Resumes ==
    \/ at = "yield" /\ at' = "read" /\ UNCHANGED <<agentVars, text, chunks, stamped, events, outcome>>
    \/ at = "last" /\ Over("done") /\ UNCHANGED <<agentVars, text, chunks, stamped, events>>
Leaves ==
    /\ at \in {"yield", "last"} /\ Over("left")
    /\ UNCHANGED <<agentVars, text, chunks, stamped, events>>

\* The prompt takes too long, the next event does, or the caller is cancelled.
\* The time that the consumer takes does not count.
TimesOut ==
    /\ at = "read" /\ Over("timeout")
    /\ UNCHANGED <<agentVars, text, chunks, stamped, events>>

\* The output ends, or is held open after the end of the process.
OutputEnds ==
    /\ at = "read" /\ wire = <<>> /\ agent = "exited"
    /\ Over(IF open THEN "held" ELSE "ended")
    /\ UNCHANGED <<agentVars, text, chunks, stamped, events>>

-----------------------------------------------------------------------------

Next ==
    \/ \E piece \in Pieces : Says(piece)
    \/ UsesTool \/ Concludes \/ GivesResult \/ WritesAnything \/ Exits
    \/ Reads \/ Resumes \/ Leaves \/ TimesOut \/ OutputEnds

Spec == Init /\ [][Next]_vars

-----------------------------------------------------------------------------
(* Properties *)

\* query_stream: at every moment the consumer has got a beginning of what the
\* agent said, nothing twice and nothing left out, whichever of the documented
\* kinds of events it writes; a stream that succeeds was whole, also that of an
\* agent that follows none; and an agent that follows one is never refused.
StreamWhole ==
    /\ style # "rogue" => Starts(said, text) /\ outcome \notin {"disagrees", "malformed", "failure"}
    /\ outcome = "done" => text = said
=============================================================================
