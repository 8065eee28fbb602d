--------------------------- MODULE ManagedSession ---------------------------
(***************************************************************************)
(* ManagedSession (src/src/soulacp/session.py): calls of query() and       *)
(* stream(), reset_session() and close() by several tasks.  A turn of a    *)
(* user holds that user's lock, looks the user's provider session up,      *)
(* leases a client of the primary pool within an attempt budget, possibly  *)
(* falls back to another provider, prompts the agent and stores the        *)
(* session it ended with.                                                  *)
(*                                                                         *)
(* The store and the pools are used through what SessionStore and Pool     *)
(* promise: a store operation is one step that happens or raises, a lease  *)
(* is granted by an open pool alone and for the session it was asked for,  *)
(* close_all() of a pool ends with every transport reaped or raises.       *)
(***************************************************************************)
EXTENDS Naturals, Sequences, SequencesExt, FiniteSets

CONSTANTS
    Tasks, Users, Sessions,
    Nobody,                  \* the user of a call without a user id
    NoSession,
    MaxAttempts,             \* max(1, max_retries)
    Fallback,                \* enable_fallback, and no auth_method_id
    MaxCalls                 \* bound on the number of calls

ASSUME BudgetAssumption == MaxAttempts \in Nat \ {0} /\ Fallback \in BOOLEAN
ASSUME BoundAssumption == MaxCalls \in Nat
ASSUME NamesAssumption == Nobody \notin Users /\ NoSession \notin Sessions

Providers == {"primary", "fallback"}

VARIABLES
    pc, turn,       \* each task, and the call it is in
    line,           \* per user, the holder of the lock and those who wait for it
    mapping,        \* the session store
    pool,           \* the pools: not made yet, in _pools or removed from it
    closed,         \* _closed
    closing,        \* the close task: its phase, and whether it has an error
    flushed,        \* _store_flush_complete
    unsaved,        \* mappings changed since the store was flushed
    due,            \* those of them that changed before close() was first called
    stale,          \* turns overtaken by a reset of their user's session
    calls

storeVars == <<mapping, unsaved, due>>
closeVars == <<closed, closing, flushed>>
vars == <<pc, turn, line, storeVars, pool, closeVars, stale, calls>>

NoTurn == [user |-> Nobody, op |-> "none", provider |-> "primary", looked |-> NoSession,
           session |-> NoSession, attempt |-> 1, tries |-> 0, fresh |-> FALSE, prompts |-> 0]
Turns == [user : Users \cup {Nobody}, op : {"none", "query", "reset", "close"},
          provider : Providers, looked : Sessions \cup {NoSession},
          session : Sessions \cup {NoSession}, attempt : 1 .. MaxAttempts,
          tries : Nat, fresh : BOOLEAN, prompts : Nat]
Steps == {"out", "lock", "lookup", "acquire", "clear", "backoff", "fallback",
          "prompt", "release", "save", "reset", "close"}

\* Every variable keeps its type, and nobody is twice in the line for a lock.
TypeOK ==
    /\ pc \in [Tasks -> Steps] /\ turn \in [Tasks -> Turns]
    /\ line \in [Users -> Seq(Tasks)]
    /\ \A u \in Users : \A i, j \in 1 .. Len(line[u]) : line[u][i] = line[u][j] => i = j
    /\ mapping \in [Users \X Providers -> Sessions \cup {NoSession}]
    /\ pool \in [Providers -> {"absent", "open", "closed", "gone"}]
    /\ closed \in BOOLEAN /\ flushed \in BOOLEAN
    /\ closing \in [phase : {"none", "pools", "gather", "flush", "done"}, failed : BOOLEAN]
    /\ unsaved \subseteq Users \X Providers /\ due \subseteq unsaved
    /\ stale \subseteq Tasks /\ calls \in 0 .. MaxCalls

Init ==
    /\ pc = [t \in Tasks |-> "out"] /\ turn = [t \in Tasks |-> NoTurn]
    /\ line = [u \in Users |-> <<>>]
    /\ mapping = [k \in Users \X Providers |-> NoSession]
    /\ pool = [p \in Providers |-> "absent"]
    /\ closed = FALSE /\ flushed = FALSE
    /\ closing = [phase |-> "none", failed |-> FALSE]
    /\ unsaved = {} /\ due = {} /\ stale = {} /\ calls = 0

-----------------------------------------------------------------------------
(* Helpers *)

Goto(t, step) == pc' = [pc EXCEPT ![t] = step]

\* Mutant of HasLock: the lock is not taken.
HasLockAlways(t) == TRUE
HasLock(t) == turn[t].user \in Users => Head(line[turn[t].user]) = t

\* _pools
InPools(p) == pool[p] \in {"open", "closed"}
GetPool(p) == pool' = [pool EXCEPT ![p] = IF @ = "absent" THEN "open" ELSE @]

\* Mutant of Return: the lock is kept.
ReturnLocked(t) ==
    /\ Goto(t, "out") /\ turn' = [turn EXCEPT ![t] = NoTurn]
    /\ stale' = stale \ {t} /\ UNCHANGED line

\* The call ends; it gives the user's lock up, or its place in the line.
Return(t) ==
    /\ Goto(t, "out") /\ turn' = [turn EXCEPT ![t] = NoTurn]
    /\ line' = [u \in Users |-> RemoveFirst(line[u], t)]
    /\ stale' = stale \ {t}

\* A store operation on the task's mapping: it sets the value, or it raises.
Key(t) == <<turn[t].user, turn[t].provider>>
Stores(t, session) ==
    \/ /\ turn[t].user # Nobody
       /\ session # NoSession \/ pc[t] \in {"clear", "reset"}
       /\ mapping' = [mapping EXCEPT ![Key(t)] = session]
       /\ unsaved' = IF mapping' = mapping THEN unsaved ELSE unsaved \cup {Key(t)}
       /\ UNCHANGED due
    \/ UNCHANGED storeVars

\* The turns of a user that are past the lookup.
Overtaken(u) == {t \in Tasks : turn[t].user = u /\ turn[t].op = "query" /\ pc[t] # "lock"}

-----------------------------------------------------------------------------
(* query(), stream() and reset_session() *)

Call(t) ==
    /\ pc[t] = "out" /\ calls < MaxCalls /\ calls' = calls + 1
    /\ \E u \in Users \cup {Nobody}, op \in {"query", "reset"} :
         /\ op = "reset" => u # Nobody /\ ~closed
         /\ turn' = [turn EXCEPT ![t] = [NoTurn EXCEPT !.user = u, !.op = op]]
         /\ line' = IF u = Nobody THEN line ELSE [line EXCEPT ![u] = Append(@, t)]
    /\ Goto(t, "lock")
    /\ UNCHANGED <<storeVars, pool, closeVars, stale>>

\* reset_session() asks only before it waits whether the session is closed.
\* Mutant of Start: so does a query.
StartUnasked(t) ==
    /\ pc[t] = "lock" /\ HasLock(t)
    /\ IF turn[t].op = "reset" THEN Goto(t, "reset") /\ UNCHANGED <<turn, line, pool, stale>>
       ELSE Goto(t, "lookup") /\ GetPool("primary") /\ UNCHANGED <<turn, line, stale>>
    /\ UNCHANGED <<storeVars, closeVars, calls>>
Start(t) ==
    /\ pc[t] = "lock" /\ HasLock(t)
    /\ IF turn[t].op = "reset" THEN Goto(t, "reset") /\ UNCHANGED <<turn, line, pool, stale>>
       ELSE IF closed THEN Return(t) /\ UNCHANGED pool
       ELSE Goto(t, "lookup") /\ GetPool("primary") /\ UNCHANGED <<turn, line, stale>>
    /\ UNCHANGED <<storeVars, closeVars, calls>>

Reset(t) ==
    /\ pc[t] = "reset" /\ Stores(t, NoSession)
    /\ Goto(t, "out") /\ turn' = [turn EXCEPT ![t] = NoTurn]
    /\ line' = [u \in Users |-> RemoveFirst(line[u], t)]
    /\ stale' = stale \cup Overtaken(turn[t].user)
    /\ UNCHANGED <<pool, closeVars, calls>>

\* A lookup that raises counts as no session.
Lookup(t) ==
    /\ pc[t] = "lookup"
    /\ \E s \in {NoSession} \cup (IF turn[t].user = Nobody THEN {} ELSE {mapping[Key(t)]}) :
         turn' = [turn EXCEPT ![t].looked = s, ![t].session = s, ![t].fresh = FALSE]
    /\ Goto(t, "acquire")
    /\ UNCHANGED <<line, storeVars, pool, closeVars, stale, calls>>

Tried(t) == [turn[t] EXCEPT !.tries = @ + 1]

\* pool.acquire() grants a lease.  Without a requested session the client has
\* any, or none.
Leased(t) ==
    /\ pc[t] = "acquire" /\ pool[turn[t].provider] = "open"
    /\ \E s \in IF turn[t].session # NoSession THEN {turn[t].session} ELSE Sessions \cup {NoSession} :
         turn' = [turn EXCEPT ![t] = [Tried(t) EXCEPT !.session = s, !.prompts = @ + 1]]
    /\ Goto(t, "prompt")
    /\ UNCHANGED <<line, storeVars, pool, closeVars, stale, calls>>

\* The requested session cannot be resumed: clear it, and ask for none.
NotResumed(t) ==
    /\ pc[t] = "acquire" /\ turn[t].session # NoSession
    /\ turn' = [turn EXCEPT ![t] = [Tried(t) EXCEPT !.session = NoSession, !.fresh = TRUE]]
    /\ Goto(t, "clear")
    /\ UNCHANGED <<line, storeVars, pool, closeVars, stale, calls>>

Clear(t) ==
    /\ pc[t] = "clear" /\ Stores(t, NoSession) /\ Goto(t, "acquire")
    /\ UNCHANGED <<turn, line, pool, closeVars, stale, calls>>

\* A connection error, a timeout or a retryable RPC error before the prompt.
\* Mutant of Transient: the retry asks for no session.
TransientFresh(t) ==
    /\ pc[t] = "acquire" /\ turn[t].provider = "primary" /\ turn[t].attempt < MaxAttempts
    /\ turn' = [turn EXCEPT ![t] = [Tried(t) EXCEPT !.session = NoSession]]
    /\ Goto(t, "backoff")
    /\ UNCHANGED <<line, storeVars, pool, closeVars, stale, calls>>
Transient(t) ==
    /\ pc[t] = "acquire" /\ turn[t].provider = "primary" /\ turn[t].attempt < MaxAttempts
    /\ turn' = [turn EXCEPT ![t] = Tried(t)]
    /\ Goto(t, "backoff")
    /\ UNCHANGED <<line, storeVars, pool, closeVars, stale, calls>>

\* Mutant of Backoff: the attempt is not counted.
BackoffUncounted(t) ==
    /\ pc[t] = "backoff" /\ Goto(t, "acquire")
    /\ UNCHANGED <<turn, line, storeVars, pool, closeVars, stale, calls>>
Backoff(t) ==
    /\ pc[t] = "backoff" /\ Goto(t, "acquire")
    /\ turn' = [turn EXCEPT ![t].attempt = @ + 1]
    /\ UNCHANGED <<line, storeVars, pool, closeVars, stale, calls>>

\* The last attempt failed, or an error that is not retried: there remains the
\* fallback.
GiveUp(t) ==
    /\ pc[t] = "acquire" /\ turn[t].provider = "primary" /\ Fallback
    /\ turn' = [turn EXCEPT ![t] = Tried(t)]
    /\ Goto(t, "fallback")
    /\ UNCHANGED <<line, storeVars, pool, closeVars, stale, calls>>

FallBack(t) ==
    /\ pc[t] = "fallback"
    /\ IF closed THEN Return(t) /\ UNCHANGED pool
       ELSE /\ turn' = [turn EXCEPT ![t].provider = "fallback", ![t].session = NoSession]
            /\ Goto(t, "lookup") /\ GetPool("fallback") /\ UNCHANGED <<line, stale>>
    /\ UNCHANGED <<storeVars, closeVars, calls>>

\* An error the caller gets: authentication, pool timeout or closed pool, any
\* error of the fallback, and the last one when there is no fallback.
Refused(t) ==
    /\ pc[t] = "acquire" /\ Return(t)
    /\ UNCHANGED <<storeVars, pool, closeVars, calls>>

\* The prompt is answered; the client may have changed its session meanwhile.
Answered(t) ==
    /\ pc[t] = "prompt"
    /\ \E s \in Sessions \cup {NoSession} : turn' = [turn EXCEPT ![t].session = s]
    /\ Goto(t, "release")
    /\ UNCHANGED <<line, storeVars, pool, closeVars, stale, calls>>

\* The outcome of a prompt that failed is unknown: it is not repeated.
\* Mutant of Failed: it is, as before the prompt.
FailedRetried(t) ==
    /\ pc[t] = "prompt"
    /\ turn[t].attempt < MaxAttempts /\ Goto(t, "backoff")
    /\ UNCHANGED <<turn, line, storeVars, pool, closeVars, stale, calls>>
Failed(t) ==
    /\ pc[t] = "prompt" /\ Return(t)
    /\ UNCHANGED <<storeVars, pool, closeVars, calls>>

\* The lease ends, or its release raises.
Release(t) ==
    /\ pc[t] = "release"
    /\ \/ Goto(t, "save") /\ UNCHANGED <<turn, line, stale>>
       \/ Return(t)
    /\ UNCHANGED <<storeVars, pool, closeVars, calls>>

Save(t) ==
    /\ pc[t] = "save" /\ Stores(t, turn[t].session) /\ Return(t)
    /\ UNCHANGED <<pool, closeVars, calls>>

\* The task is cancelled, or the consumer of a stream leaves it.
Cancel(t) ==
    /\ pc[t] \notin {"out", "close"} /\ Return(t)
    /\ UNCHANGED <<storeVars, pool, closeVars, calls>>

-----------------------------------------------------------------------------
(* close() *)

CloseDone == closing.phase \in {"none", "done"}
CloseAgain == (\E p \in Providers : InPools(p)) \/ ~flushed

Close(t) ==
    /\ pc[t] = "out" /\ calls < MaxCalls /\ calls' = calls + 1
    /\ closed' = TRUE
    /\ due' = IF closed THEN due ELSE unsaved
    /\ IF closing.phase = "none" \/ (CloseDone /\ CloseAgain)
       THEN /\ closing' = [phase |-> "pools", failed |-> FALSE]
            /\ Goto(t, "close") /\ turn' = [turn EXCEPT ![t].op = "close"]
       ELSE /\ UNCHANGED closing
            /\ IF CloseDone THEN UNCHANGED <<pc, turn>>
               ELSE Goto(t, "close") /\ turn' = [turn EXCEPT ![t].op = "close"]
    /\ UNCHANGED <<line, mapping, unsaved, pool, flushed, stale>>

ClosePools ==
    /\ closing.phase = "pools"
    /\ pool' = [p \in Providers |-> IF pool[p] = "open" THEN "closed" ELSE pool[p]]
    /\ closing' = [closing EXCEPT !.phase = "gather"]
    /\ UNCHANGED <<pc, turn, line, storeVars, closed, flushed, stale, calls>>

\* Every close_all() has ended; the pools whose close_all() raised are retained.
PoolsClosed ==
    /\ closing.phase = "gather"
    /\ \E bad \in SUBSET {p \in Providers : InPools(p)} :
         /\ pool' = [p \in Providers |-> IF InPools(p) /\ p \notin bad THEN "gone" ELSE pool[p]]
         /\ closing' = [phase |-> "flush", failed |-> bad # {}]
    /\ UNCHANGED <<pc, turn, line, storeVars, closed, flushed, stale, calls>>

\* The store is flushed unless an earlier close() did it; the close task ends,
\* and with it the calls that await it.
CloseEnd(error) ==
    /\ closing' = [phase |-> "done", failed |-> error]
    /\ pc' = [t \in Tasks |-> IF pc[t] = "close" THEN "out" ELSE pc[t]]
    /\ turn' = [t \in Tasks |-> IF pc[t] = "close" THEN NoTurn ELSE turn[t]]
Flush ==
    /\ closing.phase = "flush"
    /\ \/ /\ ~flushed /\ flushed' = TRUE
          /\ unsaved' = {} /\ due' = {} /\ CloseEnd(closing.failed)
       \/ ~flushed /\ CloseEnd(TRUE) /\ UNCHANGED <<flushed, unsaved, due>>
       \/ flushed /\ CloseEnd(closing.failed) /\ UNCHANGED <<flushed, unsaved, due>>
    /\ UNCHANGED <<line, mapping, pool, closed, stale, calls>>

-----------------------------------------------------------------------------
Acquire(t) == Leased(t) \/ NotResumed(t) \/ Transient(t) \/ GiveUp(t) \/ Refused(t)
Prompt(t) == Answered(t) \/ Failed(t)
Turn(t) ==
    \/ Start(t) \/ Reset(t) \/ Lookup(t) \/ Acquire(t) \/ Clear(t) \/ Backoff(t)
    \/ FallBack(t) \/ Prompt(t) \/ Release(t) \/ Save(t)
CloseStep == ClosePools \/ PoolsClosed \/ Flush

Next == (\E t \in Tasks : Call(t) \/ Turn(t) \/ Cancel(t) \/ Close(t)) \/ CloseStep

Spec == Init /\ [][Next]_vars

\* Tasks are scheduled fairly; leases, prompts and store operations end, since
\* the pool and the client put deadlines on them.
FairSpec == Spec /\ WF_vars(CloseStep) /\ \A t \in Tasks : WF_vars(Turn(t))

-----------------------------------------------------------------------------
(* Properties *)

\* The mapping that a turn was looked up with stays what the store holds until
\* the turn itself changes it: turns and resets of one user exclude each other.
TurnOwnsMapping ==
    \A t \in Tasks :
        /\ pc[t] \in {"acquire", "backoff", "prompt", "release", "save"}
        /\ turn[t].looked # NoSession /\ ~turn[t].fresh
        => mapping[Key(t)] = turn[t].looked

\* A late turn does not bring back a mapping after reset_session() cleared it.
ResetSticks ==
    [][\A t \in stale : pc[t] = "save" /\ pc'[t] = "out" => mapping' = mapping]_vars

\* Whatever was retried, resumed or handed to the fallback before, the prompt
\* is sent to one agent, once.
PromptOnce == \A t \in Tasks : turn[t].prompts <= 1

\* A conversation goes on in the session that was stored for it, through retries
\* and the fallback, unless the provider confirmed that it is gone.
ContinuesConversation ==
    \A t \in Tasks : pc[t] = "prompt" /\ turn[t].looked # NoSession =>
                        turn[t].session = turn[t].looked \/ turn[t].fresh

\* The attempt budget: one more lease is asked for after a stale session, and
\* as much of the fallback.
AttemptBudget ==
    \A t \in Tasks :
        turn[t].tries <= MaxAttempts + (IF turn[t].provider = "primary" THEN 1 ELSE 3)

\* After close() succeeded there is no pool, and never again one, and the
\* mappings changed before it was called are flushed: also when the first
\* close() failed half way.
ClosedForGood ==
    closing.phase = "done" /\ ~closing.failed =>
        /\ \A p \in Providers : ~InPools(p)
        /\ due = {}

\* Nothing that was stored before a call of close() is left to be flushed when
\* the call succeeds at once.
CloseFlushes ==
    [][/\ calls' # calls /\ closed /\ <<pc, line>>' = <<pc, line>>
       /\ closing.phase = "done" /\ ~closing.failed
       => unsaved = {}]_vars

\* Every call ends: nobody waits forever for the lock of a user, for an attempt
\* or for the close task.
CallsEnd == \A t \in Tasks : pc[t] # "out" ~> pc[t] = "out"
=============================================================================
