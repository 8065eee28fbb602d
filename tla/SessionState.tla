---------------------------- MODULE SessionState ----------------------------
(***************************************************************************)
(* The session of one connected native client and what the client knows of *)
(* it (src/src/soulacp/adapters/base_client.py): session_id, its options,  *)
(* its mode and its other metadata ("facts": title, usage, commands).      *)
(* Tasks of the caller start requests; session/new and session/load change *)
(* the session, prompts and loads are serialized by _query_lock, the other *)
(* calls are not.  The reader applies the agent's updates in between, and  *)
(* a request whose outcome is unknown retires the connection.              *)
(*                                                                         *)
(* The agent (external) handles requests in the order they were written    *)
(* and works on a prompt meanwhile; it changes its sessions when it likes. *)
(* A malformed response is a reply of its own kind.  One connection is     *)
(* modelled: the next one starts with the state of _reset_protocol_state.  *)
(***************************************************************************)
EXTENDS Naturals, Sequences, FiniteSets

CONSTANTS
    Tasks, Sessions, None,
    Calls,       \* the calls that are made
    Concurrent,  \* new and resume overlap other calls; the pool's do not
    MaxCalls,    \* bound on the calls of a run
    MaxNews      \* bound on what the agent sends of its own accord

Transitions == {"new", "resume"}
Locked == {"resume", "prompt"}
AllCalls == Locked \cup {"new", "set_config", "set_mode", "close", "delete", "list"}

ASSUME SessionStateAssumption ==
    /\ None \notin Sessions /\ Calls \subseteq AllCalls
    /\ Concurrent \in BOOLEAN /\ MaxCalls \in Nat /\ MaxNews \in Nat

VARIABLES
    link,        \* "up", "retired" (not _connected, but still read), "down"
    requests,    \* what the agent has not handled
    wire,        \* what the reader has not dispatched
    \* the client
    session_id,
    view,        \* its session's options, mode and facts
    transition,  \* _session_transition_active, _session_transition_id
    call,        \* each task's call
    chunks,      \* _chunks
    \* the agent
    current,     \* the session it opened last
    opened,      \* the sessions it ever opened
    deleted,     \* the sessions it deleted
    version,     \* how often each part of each session changed
    job,         \* the prompt it works on, and the text it sent for it
    \* bookkeeping
    started,     \* the calls so far
    news,        \* what the agent sent of its own accord so far
    strays       \* the parts of view an update of another session wrote

clientVars == <<session_id, view, transition, call, chunks>>
agentVars == <<current, opened, deleted, version, job>>
vars == <<link, requests, wire, clientVars, agentVars, started, news, strays>>

Parts == {"options", "mode", "facts"}
Idle == [op |-> "idle", on |-> None, pc |-> "idle", reply |-> None, prev |-> None, owns |-> FALSE]
Blank == [p \in Parts |-> None]

\* The calls of a run are few, and so is what the agent sends: every version is small.
Versions == 0 .. MaxCalls + MaxNews
Known == [of : Sessions, n : Versions] \cup {None}

\* Every variable keeps its type, and a transition is some task's call.
TypeOK ==
    /\ link \in {"up", "retired", "down"}
    /\ session_id \in Sessions \cup {None}
    /\ view \in [Parts -> Known]
    /\ transition \in [active : BOOLEAN, id : Sessions \cup {None}]
    /\ \A t \in Tasks :
        /\ call[t].op \in AllCalls \cup {"idle"}
        /\ call[t].pc \in {"idle", "lock", "wait", "answered", "fails"}
    /\ current \in Sessions \cup {None} /\ opened \subseteq Sessions /\ deleted \subseteq Sessions
    /\ version \in [Sessions -> [Parts -> Versions]]
    /\ transition.active =>
        Cardinality({t \in Tasks : call[t].op \in Transitions /\ call[t].prev # None}) = 1
    /\ started \in 0 .. MaxCalls /\ news \in 0 .. MaxNews /\ strays \subseteq Parts

Init ==
    /\ link = "up" /\ requests = <<>> /\ wire = <<>>
    /\ session_id = None /\ view = Blank /\ transition = [active |-> FALSE, id |-> None]
    /\ call = [t \in Tasks |-> Idle] /\ chunks = <<>>
    /\ current = None /\ opened = {} /\ deleted = {} /\ version = [s \in Sessions |-> [p \in Parts |-> 0]]
    /\ job = [to |-> None, on |-> None, sent |-> 0]
    /\ started = 0 /\ news = 0 /\ strays = {}

-----------------------------------------------------------------------------
(* The agent *)

Latest(s, p) == [of |-> s, n |-> version[s][p]]
Changed(s, p) == [version EXCEPT ![s][p] = @ + 1]
Replay(s) == [kind |-> "text", of |-> s, live |-> FALSE]
Reply(r, how) == [kind |-> "response", to |-> r.by, how |-> how, of |-> r.on, new |-> Blank]

\* The parts that the response to session/new or session/load carries.
Carried(s) == {[p \in Parts |-> IF p \in there THEN Latest(s, p) ELSE None] :
                  there \in SUBSET {"options", "mode"}}

\* A request is refused, or its response is malformed.
AgentFails(r, how) ==
    /\ wire' = Append(wire, Reply(r, how))
    /\ UNCHANGED agentVars

\* A session is created, or loaded with its history.
AgentOpens(r) ==
    \E s \in IF r.op = "new" THEN Sessions \ (opened \cup deleted) ELSE {r.on} \ deleted :
    \E new \in Carried(s), history \in {<<>>, <<Replay(s)>>} :
        /\ r.op = "new" => history = <<>>
        /\ wire' = wire \o history \o <<[Reply(r, "ok") EXCEPT !.of = s, !.new = new]>>
        /\ current' = s /\ opened' = opened \cup {s}
        /\ UNCHANGED <<deleted, version, job>>

AgentSets(r, p) ==
    /\ current = r.on
    /\ version' = Changed(r.on, p)
    /\ wire' = Append(wire, [Reply(r, "ok") EXCEPT !.new = [Blank EXCEPT ![p] = [of |-> r.on, n |-> version'[r.on][p]]]])
    /\ UNCHANGED <<current, opened, deleted, job>>

AgentCloses(r) ==
    /\ current' = IF current = r.on THEN None ELSE current
    /\ deleted' = IF r.op = "delete" THEN deleted \cup {r.on} ELSE deleted
    /\ wire' = Append(wire, Reply(r, "ok"))
    /\ UNCHANGED <<opened, version, job>>

AgentLists(r) == wire' = Append(wire, Reply(r, "ok")) /\ UNCHANGED agentVars

AgentPrompted(r) ==
    /\ current = r.on
    /\ job' = [to |-> r.by, on |-> r.on, sent |-> 0]
    /\ UNCHANGED <<wire, current, opened, deleted, version>>

AgentHandles ==
    /\ link # "down" /\ requests # <<>>
    /\ requests' = Tail(requests)
    /\ LET r == Head(requests) IN
        \/ \E how \in {"refused", "malformed"} : AgentFails(r, how)
        \/ r.op \in Transitions /\ AgentOpens(r)
        \/ r.op = "set_config" /\ AgentSets(r, "options")
        \/ r.op = "set_mode" /\ AgentSets(r, "mode")
        \/ r.op \in {"close", "delete"} /\ AgentCloses(r)
        \/ r.op = "list" /\ AgentLists(r)
        \/ r.op = "prompt" /\ AgentPrompted(r)
    /\ UNCHANGED <<link, clientVars, started, news, strays>>

AgentText ==
    /\ link # "down" /\ job.to # None /\ news < MaxNews
    /\ job' = [job EXCEPT !.sent = @ + 1]
    /\ wire' = Append(wire, [kind |-> "text", of |-> job.on, live |-> TRUE])
    /\ news' = news + 1
    /\ UNCHANGED <<link, requests, clientVars, current, opened, deleted, version, started, strays>>

AgentAnswers(how) ==
    /\ link # "down" /\ job.to # None
    /\ job' = [job EXCEPT !.to = None]
    /\ wire' = Append(wire, Reply([by |-> job.to, on |-> job.on], how))
    /\ UNCHANGED <<link, requests, clientVars, current, opened, deleted, version, started, news, strays>>

AgentUpdates(p) ==
    /\ link # "down" /\ current # None /\ news < MaxNews
    /\ version' = Changed(current, p) /\ news' = news + 1
    /\ wire' = Append(wire, [kind |-> p, of |-> current, n |-> version'[current][p]])
    /\ UNCHANGED <<link, requests, clientVars, current, opened, deleted, job, started, strays>>

-----------------------------------------------------------------------------
(* Helpers *)

Serving(t) == call[t].pc \in {"wait", "answered", "fails"}
LockFree == \A t \in Tasks : ~(call[t].op \in Locked /\ Serving(t))
Busy == {t \in Tasks : call[t].op # "idle"}

\* _clear_session_state; nobody's mode object is the client's after it.
\* Mutant of Cleared: the metadata of the last session stays.
ClearedNot == view
Cleared == Blank
Disowned == [t \in Tasks |-> [call[t] EXCEPT !.owns = FALSE]]

\* _snapshot_session_state and _restore_session_state.
Snapshot == [id |-> session_id, view |-> view, strays |-> strays]

\* An interrupted request retires the connection.
\* Mutant of Retired: the connection is kept.
RetiredNot == link
Retired == IF link = "up" THEN "retired" ELSE link

\* A call ends; its lock is free, and a transition releases and restores what it took.
Ends(t, calls) == call' = [calls EXCEPT ![t] = Idle]

Restored(prev) == session_id' = prev.id /\ view' = prev.view /\ strays' = prev.strays

FinishFailed(t) ==
    IF call[t].prev = None
    THEN Ends(t, call) /\ UNCHANGED <<session_id, view, transition, strays>>
    ELSE /\ Ends(t, Disowned) /\ Restored(call[t].prev)
         /\ transition' = [active |-> FALSE, id |-> None]

-----------------------------------------------------------------------------
(* Calls *)

\* The arguments a call accepts now.
Accepts(op, s) ==
    CASE op = "new" -> session_id = None /\ s = None
      [] op = "resume" -> s \in Sessions
      [] op \in {"prompt", "close"} -> session_id # None /\ s = session_id
      [] op = "set_config" -> session_id # None /\ s = session_id /\ view["options"] # None
      [] op = "set_mode" -> session_id # None /\ s = session_id /\ view["mode"] # None
      [] op = "delete" -> s \in Sessions /\ s # session_id
      [] op = "list" -> s = None

\* The pool connects and resumes a client that nobody else uses.
Alone(op) ==
    ~Concurrent =>
        /\ op \in Transitions => Busy = {}
        /\ \A t \in Busy : call[t].op \notin Transitions

\* _begin_rpc_lifecycle: a transition keeps a snapshot of the session and clears the rest.
Begin(t, mine) ==
    /\ ~transition.active
    /\ view' = Cleared /\ strays' = {}
    /\ transition' = [active |-> TRUE, id |-> mine.on]
    /\ call' = [Disowned EXCEPT ![t] = [mine EXCEPT !.prev = Snapshot]]

\* A request is written.
Write(t, op, s) ==
    /\ link = "up"
    /\ requests' = Append(requests, [op |-> op, on |-> s, by |-> t])
    /\ LET mine == [Idle EXCEPT !.op = op, !.on = s, !.pc = "wait", !.owns = (op = "set_mode")] IN
        IF op \in Transitions THEN Begin(t, mine)
        ELSE call' = [call EXCEPT ![t] = mine] /\ UNCHANGED <<view, transition, strays>>
    /\ chunks' = IF op = "prompt" THEN <<>> ELSE chunks
    /\ UNCHANGED <<link, wire, session_id, agentVars, news>>

Starts(t, op, s) ==
    /\ call[t].op = "idle" /\ started < MaxCalls /\ op \in Calls
    /\ started' = started + 1
    /\ Alone(op)
    /\ \/ op \notin Locked /\ Accepts(op, s) /\ Write(t, op, s)
       \/ /\ op \in Locked /\ Accepts(op, s)
          /\ call' = [call EXCEPT ![t] = [Idle EXCEPT !.op = op, !.on = s, !.pc = "lock"]]
          /\ UNCHANGED <<link, requests, wire, session_id, view, transition, chunks, agentVars, news, strays>>

\* Mutant of Admits: the lock is not taken.
AdmitsAll == TRUE
Admits == LockFree

\* The lock is taken; a prompt goes to the session of that moment.
LockTaken(t) ==
    /\ call[t].pc = "lock" /\ Admits
    /\ IF call[t].op = "prompt" THEN Accepts("prompt", session_id) ELSE TRUE
    /\ Write(t, call[t].op, IF call[t].op = "prompt" THEN session_id ELSE call[t].on)
    /\ UNCHANGED started

\* No session, no connection, or another transition: nothing is written.
LockWasted(t) ==
    /\ call[t].pc = "lock" /\ LockFree
    /\ \/ link # "up"
       \/ call[t].op = "prompt" /\ session_id = None
       \/ call[t].op = "resume" /\ transition.active
    /\ Ends(t, call)
    /\ UNCHANGED <<link, requests, wire, session_id, view, transition, chunks, agentVars, started, news, strays>>

\* _capture_session_config: what the response carries replaces what is known.
Captured(new) == [p \in Parts |-> IF new[p] # None THEN new[p] ELSE view[p]]

\* Commit of session/new, session/load and session/resume.
CommitTransition(t) ==
    LET f == call[t].reply IN
        /\ session_id' = f.of
        /\ view' = Captured(f.new) /\ strays' = {p \in strays : f.new[p] = None}
        /\ transition' = [active |-> FALSE, id |-> None]
        /\ Ends(t, Disowned)

CommitConfig(t) ==
    /\ view' = Captured(call[t].reply.new) /\ strays' = strays \ {"options"}
    /\ Ends(t, call)
    /\ UNCHANGED <<session_id, transition>>

\* set_mode writes into the mode object it read before the request.
CommitMode(t) ==
    /\ view' = IF call[t].owns THEN Captured(call[t].reply.new) ELSE view
    /\ Ends(t, call)
    /\ UNCHANGED <<session_id, transition, strays>>

CommitClose(t) ==
    IF call[t].on = session_id
    THEN /\ session_id' = None /\ view' = Blank /\ strays' = {}
         /\ Ends(t, Disowned) /\ UNCHANGED transition
    ELSE Ends(t, call) /\ UNCHANGED <<session_id, view, transition, strays>>

Commit(t) ==
    LET op == call[t].op IN
        \/ op \in Transitions /\ CommitTransition(t)
        \/ op = "set_config" /\ CommitConfig(t)
        \/ op = "set_mode" /\ CommitMode(t)
        \/ op = "close" /\ CommitClose(t)
        \/ op \in {"prompt", "delete", "list"} /\ Ends(t, call)
           /\ UNCHANGED <<session_id, view, transition, strays>>

\* The task of a request resumes after its response was dispatched.
Completes(t) ==
    /\ call[t].pc = "answered" /\ call[t].reply.how = "ok"
    /\ Commit(t)
    /\ UNCHANGED <<link, requests, wire, chunks, agentVars, started, news>>

Refused(t) ==
    /\ call[t].pc = "answered" /\ call[t].reply.how = "refused"
    /\ FinishFailed(t)
    /\ UNCHANGED <<link, requests, wire, chunks, agentVars, started, news>>

Uncertain(t) ==
    /\ call' = [call EXCEPT ![t].pc = "fails"]
    /\ link' = Retired
    /\ UNCHANGED <<requests, wire, session_id, view, transition, chunks, agentVars, started, news, strays>>

\* A deadline or a cancellation: was the request done?
Malformed(t) == call[t].pc = "answered" /\ call[t].reply.how = "malformed"
Interrupted(t) == call[t].pc \in {"wait", "answered"} /\ ~Malformed(t) /\ Uncertain(t)

\* The validation of a result raises.
Rejected(t) == Malformed(t) /\ Uncertain(t)

\* Before the clean-up, when its lock is held, or after it.
Fails(t) ==
    /\ call[t].pc = "fails"
    /\ FinishFailed(t)
    /\ UNCHANGED <<link, requests, wire, chunks, agentVars, started, news>>

-----------------------------------------------------------------------------
(* The reader *)

\* Nothing is read any more, and whoever waits for an answer fails.
Unplugged ==
    /\ link' = "down" /\ requests' = <<>> /\ wire' = <<>>
    /\ job' = [job EXCEPT !.to = None]
    /\ call' = [t \in Tasks |-> IF call[t].pc = "wait" THEN [call[t] EXCEPT !.pc = "fails"] ELSE call[t]]
    /\ UNCHANGED <<session_id, view, chunks, current, opened, deleted, version, started, news, strays>>

\* The connection is lost, or a frame is invalid: the reader ends.
Lost == Unplugged /\ UNCHANGED transition
ReaderEnds == link # "down" /\ Lost

\* _disconnect_locked, in a disconnect() or in the clean-up: it cancels the reader
\* and forgets the transition, whose call has still to bring its snapshot back.
Disconnects ==
    /\ link # "down" \/ transition.active
    /\ Unplugged
    /\ transition' = [active |-> FALSE, id |-> None]

\* The validation of an update raises, which ends the reader.
UpdateRejected == link = "up" /\ wire # <<>> /\ Head(wire).kind \in Parts /\ Lost

\* Updates are accepted for the session and for the one it changes to.
Ours(s) == s \in {session_id, transition.id}

\* Text is part of an answer unless a history is replayed.
AcceptText(f) ==
    /\ chunks' = IF transition.id = None THEN Append(chunks, f) ELSE chunks
    /\ UNCHANGED <<view, call, strays>>

\* A mode update changes the mode object, when there is one.
AcceptUpdate(f) ==
    /\ IF f.kind = "mode" /\ view["mode"] = None THEN UNCHANGED <<view, strays>>
       ELSE /\ view' = [view EXCEPT ![f.kind] = [of |-> f.of, n |-> f.n]]
            /\ strays' = IF transition.active /\ f.of # transition.id
                         THEN strays \cup {f.kind} ELSE strays \ {f.kind}
    /\ UNCHANGED <<chunks, call>>

AcceptResponse(f) ==
    /\ call' = IF call[f.to].pc = "wait"
               THEN [call EXCEPT ![f.to].pc = "answered", ![f.to].reply = f] ELSE call
    /\ UNCHANGED <<view, chunks, strays>>

Dispatch ==
    /\ link # "down" /\ wire # <<>>
    /\ LET f == Head(wire) IN
        \/ /\ f.kind # "response" /\ link = "up" /\ ~Ours(f.of)
           /\ Lost
        \/ /\ \/ f.kind = "text" /\ link = "up" /\ Ours(f.of) /\ AcceptText(f)
              \/ f.kind \in Parts /\ link = "up" /\ Ours(f.of) /\ AcceptUpdate(f)
              \/ f.kind = "response" /\ AcceptResponse(f)
              \/ f.kind # "response" /\ link = "retired" /\ UNCHANGED <<view, chunks, call, strays>>
           /\ wire' = Tail(wire)
           /\ UNCHANGED <<link, requests, session_id, transition, agentVars, started, news>>

-----------------------------------------------------------------------------

CallStep(t) ==
    Completes(t) \/ Refused(t) \/ Rejected(t) \/ Fails(t) \/ LockTaken(t) \/ LockWasted(t)
Start(t) == \E op \in Calls, s \in Sessions \cup {None} : Starts(t, op, s)
AgentStep ==
    \/ AgentHandles \/ AgentText \/ \E how \in {"ok", "refused", "malformed"} : AgentAnswers(how)
    \/ \E p \in Parts : AgentUpdates(p)

Done == Busy = {} /\ (started = MaxCalls \/ link # "up") /\ UNCHANGED vars

Next ==
    \/ \E t \in Tasks : Start(t) \/ CallStep(t) \/ Interrupted(t)
    \/ AgentStep \/ Dispatch \/ UpdateRejected \/ ReaderEnds \/ Disconnects \/ Done

Spec == Init /\ [][Next]_vars

-----------------------------------------------------------------------------
(* Properties *)

\* Nothing is under way: the client and the agent have nothing to tell each other.
Quiet ==
    /\ link = "up" /\ requests = <<>>
    /\ \A n \in DOMAIN wire : wire[n].kind # "response"
    /\ \A t \in Tasks : call[t].pc \in {"idle", "lock"}

\* _complete_rpc_lifecycle, _finish_rpc_lifecycle and the retirement of
\* interrupted requests (CHANGELOG.md:447): whatever failed, a client whose
\* connection is usable has the session the agent has, or none when it has none.
IdentityAgrees == Quiet => session_id = current

\* A prompt whose query returns has the text the agent sent for it, all of it
\* and nothing else: no replayed history, no other session's text, no text lost
\* to another call; as long as the connection is up.
WholeAnswer ==
    [][\A t \in Tasks :
        (call[t].op = "prompt" /\ Completes(t) /\ link = "up") =>
            /\ Len(chunks) = job.sent
            /\ \A n \in DOMAIN chunks : chunks[n].live /\ chunks[n].of = call[t].on]_vars

\* No call has changed the session without having committed or restored it.
Settled == session_id # None /\ \A t \in Tasks : call[t].prev = None

\* README.md:550: what is known of one session is cleared when another takes its
\* place, and is back when that fails, also over a connection that was lost and
\* cleaned up in between: what belongs to another session is an update of the
\* last session that arrived in the middle of the change.
OwnMetadata ==
    Settled => \A p \in Parts : view[p] # None => view[p].of = session_id \/ p \in strays

\* The following do not hold; README.md of this directory says why.

\* README.md:550 without the exception of OwnMetadata.
NothingForeign == Settled => \A p \in Parts : view[p] # None => view[p].of = session_id

\* README.md:550 as soon as the client itself knows of no change of session.
OwnAtOnce ==
    session_id # None /\ ~transition.active =>
        \A p \in Parts : view[p] # None => view[p].of = session_id \/ p \in strays

\* README.md:547, "session_mode_state tracks advertised modes and the current
\* selection": once every response and update is dispatched, the mode is the agent's.
ModeTracks ==
    Quiet /\ wire = <<>> /\ session_id # None /\ view["mode"] # None =>
        view["mode"] = Latest(session_id, "mode")

\* An update of the session that the agent has just opened does not end the connection.
CurrentAccepted ==
    link = "up" /\ wire # <<>> /\ Head(wire).kind # "response" /\ Head(wire).of = current
        => Ours(current)

\* The docstring of delete_session, "Delete a non-active session".
ActiveKept == session_id \notin deleted

\* WholeAnswer, when another call has retired the connection.
AnswerWhole ==
    [][\A t \in Tasks :
        (call[t].op = "prompt" /\ Completes(t)) => Len(chunks) = job.sent]_vars
=============================================================================
