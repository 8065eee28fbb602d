-------------------------------- MODULE Pool --------------------------------
(***************************************************************************)
(* ACPConnectionPool (src/src/soulacp/pool.py): a bounded pool of          *)
(* subprocess clients, with one live lease per logical session, a FIFO     *)
(* queue of callers, background keepalive and an owned shutdown.           *)
(*                                                                         *)
(* asyncio runs one task at a time and no body of "async with self._lock"  *)
(* awaits, so every locked section, with the statements around it up to    *)
(* the next await, is one action.  Times are abstract: an expiry, a        *)
(* timeout or a cancellation may happen at any moment when Events has it.  *)
(* Which of several idle clients is the least recently released one is     *)
(* abstract too: any of them may be the victim of an eviction.             *)
(***************************************************************************)
EXTENDS Naturals, FiniteSets, Sequences, SequencesExt

CONSTANTS
    Callers,           \* tasks that use the pool
    Clients,           \* client objects, each one subprocess transport
    Sessions,          \* logical session ids
    NoSession,         \* None, for a session id
    NoClient,          \* None, for a client
    Requests,          \* what callers may ask of acquire()
    ProviderSessions,  \* session ids a new client or ensure_session may return
    PoolSize, MaxConnections, MaxUses, StartupAttempts, CrossSession,
    Keepalive,         \* pool_keepalive_interval > 0
    Events             \* what the environment may do

EventKinds == {"ping", "resume", "ensure", "connect", "disconnect", "cancel",
               "timeout", "unfit", "switch", "close"}

ASSUME SessionAssumption == NoSession \notin Sessions
ASSUME ClientAssumption == NoClient \notin Clients
ASSUME FiniteAssumption == IsFiniteSet(Callers) /\ IsFiniteSet(Clients)
ASSUME RequestAssumption ==
    Requests \subseteq [session : Sessions \cup {NoSession}, fresh : BOOLEAN]
ASSUME ProviderAssumption == ProviderSessions \subseteq Sessions \cup {NoSession}
ASSUME LimitAssumption ==
    /\ PoolSize \in Nat \ {0} /\ MaxConnections \in Nat \ {0}
    /\ MaxUses \in Nat \ {0} /\ StartupAttempts \in Nat \ {0}
    /\ PoolSize <= MaxConnections
ASSUME SwitchAssumption ==
    CrossSession \in BOOLEAN /\ Keepalive \in BOOLEAN /\ Events \subseteq EventKinds

VARIABLES
    \* Per client: entry state, its close task, and what the client reports.
    st, task, claim, sess, uses, unfit,
    live,              \* clients whose subprocess exists
    unreaped,          \* _unreaped_clients
    claims,            \* _session_claims
    creating,          \* _creating
    waiters,           \* _waiters
    event,             \* callers whose waiter event is set
    closed,            \* _closed
    \* Per caller: where it is, its request, the client it holds, its attempts.
    pc, req, lease, tries,
    ka,                \* the keepalive loop
    ca, caWait         \* the close_all task and the close tasks it awaits

clientVars == <<st, task, claim, sess, uses, unfit>>
processVars == <<live, unreaped>>
queueVars == <<waiters, event>>
callerVars == <<pc, req, lease, tries>>
closeVars == <<closed, ca, caWait>>
vars == <<clientVars, processVars, claims, creating, queueVars, callerVars, ka,
          closeVars>>

NoReq == [session |-> NoSession, fresh |-> FALSE]
EntryStates == {"absent", "leased", "idle", "checking", "closing"}
CreatorPcs == {"connecting", "cleaning", "backoff", "failing"}
PreparePcs == {"pinging", "resuming", "ensuring"}
RetirePcs == {"retire", "health_retire"}
ClosePcs == {"closewait", "health_close", "closedwait"}
CallerPcs == {"out", "checkout", "waiting", "leased", "releasing"}
             \cup CreatorPcs \cup PreparePcs \cup RetirePcs \cup ClosePcs
ClosePhases == {"open", "marked", "gather", "background", "retry", "reap",
                "done", "failed"}

ClientTypes ==
    /\ st \in [Clients -> EntryStates]
    /\ task \in [Clients -> {"none", "running", "failed"}]
    /\ claim \in [Clients -> Sessions \cup {NoSession}]
    /\ sess \in [Clients -> Sessions \cup {NoSession}]
    /\ uses \in [Clients -> 0 .. MaxUses]
    /\ unfit \in [Clients -> BOOLEAN]

PoolTypes ==
    /\ live \subseteq Clients /\ unreaped \subseteq Clients
    /\ claims \subseteq Sessions
    /\ creating \in Nat
    /\ closed \in BOOLEAN
    /\ ka \in {"sleep", "checking", "off"}
    /\ ca \in ClosePhases /\ caWait \subseteq Clients

QueueTypes == waiters \in Seq(Callers) /\ event \subseteq Callers

CallerTypes ==
    /\ pc \in [Callers -> CallerPcs]
    /\ req \in [Callers -> Requests \cup {NoReq}]
    /\ lease \in [Callers -> Clients \cup {NoClient}]
    /\ tries \in [Callers -> 0 .. StartupAttempts]

\* Every variable keeps its type; in particular a client is never used more
\* often than pool_max_uses and a startup never attempted too often.
TypeOK == ClientTypes /\ PoolTypes /\ QueueTypes /\ CallerTypes

Init ==
    /\ st = [c \in Clients |-> "absent"]
    /\ task = [c \in Clients |-> "none"]
    /\ claim = [c \in Clients |-> NoSession]
    /\ sess = [c \in Clients |-> NoSession]
    /\ uses = [c \in Clients |-> 0]
    /\ unfit = [c \in Clients |-> FALSE]
    /\ live = {} /\ unreaped = {} /\ claims = {} /\ creating = 0
    /\ waiters = <<>> /\ event = {} /\ closed = FALSE
    /\ pc = [p \in Callers |-> "out"]
    /\ req = [p \in Callers |-> NoReq]
    /\ lease = [p \in Callers |-> NoClient]
    /\ tries = [p \in Callers |-> 0]
    /\ ka = IF Keepalive THEN "sleep" ELSE "off"
    /\ ca = "open" /\ caWait = {}

-----------------------------------------------------------------------------
(* Helpers *)

Tracked == {c \in Clients : st[c] # "absent"}
Creators == {p \in Callers : pc[p] \in CreatorPcs}

\* Mutants of Reserved: reservations, or leftovers of failed startups, are free.
ReservedSansCreating == Cardinality(Tracked \cup unreaped)
ReservedSansUnreaped == Cardinality(Tracked) + creating
Reserved == Cardinality(Tracked \cup unreaped) + creating

\* A creation slot is given back.  Mutant: it is not.
SlotKept == UNCHANGED creating
SlotReturned == creating' = creating - 1

\* Mutant of Retirable: pool_max_uses is not looked at.
RetirableUnworn(c) == unfit[c]
Retirable(c) == unfit[c] \/ uses[c] >= MaxUses

Expired == {c \in Clients : st[c] = "idle" /\ Retirable(c)}

\* Mutant of FitIdle: the state of the entry is not tested strictly.
FitUnlessClosing == {c \in Clients : st[c] \in {"idle", "leased"} /\ ~Retirable(c)}
FitIdle == {c \in Clients : st[c] = "idle" /\ ~Retirable(c)}

\* Failed cleanups that the next checkout retries.
Stalled == {c \in Clients : /\ task[c] # "running"
                            /\ \/ st[c] = "closing"
                               \/ st[c] = "absent" /\ c \in unreaped}

\* A client object nobody refers to: the identity of the next one created.
Unused == {c \in Clients \ (Tracked \cup unreaped \cup live \cup caWait) :
             \A p \in Callers : lease[p] # c}

\* Mutant of Claimed: a fresh transport is taken to need no claim.
ClaimedUnlessFresh(p) == ~req[p].fresh /\ req[p].session \in claims
Claimed(p) == req[p].session # NoSession /\ req[p].session \in claims

\* Mutant of Behind: a newcomer does not look at the queue.
BehindQueued(p) == pc[p] = "waiting" /\ Head(waiters) # p
Behind(p) == waiters # <<>> /\ Head(waiters) # p

\* Mutant of Candidates: cross-session reuse serves anonymous requests too.
CandidatesForAll(p) ==
    LET exact == {c \in FitIdle : sess[c] = req[p].session} IN
    IF req[p].fresh THEN {} ELSE IF exact = {} /\ CrossSession THEN FitIdle ELSE exact
Candidates(p) ==
    LET exact == {c \in FitIdle : sess[c] = req[p].session} IN
    IF req[p].fresh THEN {}
    ELSE IF exact # {} THEN exact
    ELSE IF req[p].session # NoSession /\ CrossSession THEN FitIdle
    ELSE {}

\* Mutant of WakeHead: everybody is woken.
WakeAll(queue, woken) == woken \cup Range(queue)
WakeHead(queue, woken) == IF queue = <<>> THEN woken ELSE woken \cup {Head(queue)}

\* Mutant of HeadWoken: the wakeup is forgotten.
NobodyWoken == UNCHANGED event
HeadWoken == event' = WakeHead(waiters, event)

\* The caller leaves the queue, if it is in it, and the new head is woken.
\* Mutants: it stays queued; the new head is not woken.
StayQueued(p) == waiters' = waiters /\ event' = WakeHead(waiters, event \ {p})
LeaveSilently(p) == waiters' = RemoveFirst(waiters, p) /\ event' = event \ {p}
LeaveQueue(p) ==
    /\ waiters' = RemoveFirst(waiters, p)
    /\ event' = WakeHead(waiters', event \ {p})

\* The callers in P return from acquire() or from its context manager.
Return(P) ==
    /\ pc' = [p \in Callers |-> IF p \in P THEN "out" ELSE pc[p]]
    /\ req' = [p \in Callers |-> IF p \in P THEN NoReq ELSE req[p]]
    /\ lease' = [p \in Callers |-> IF p \in P THEN NoClient ELSE lease[p]]
    /\ tries' = [p \in Callers |-> IF p \in P THEN 0 ELSE tries[p]]

\* Entries in C are marked closing and their close tasks run.
Closing(C) ==
    /\ st' = [c \in Clients |-> IF c \in C THEN "closing" ELSE st[c]]
    /\ task' = [c \in Clients |-> IF c \in C THEN "running" ELSE task[c]]

-----------------------------------------------------------------------------
(* acquire(): _checkout *)

Acquire(p) ==
    /\ pc[p] = "out"
    /\ \E r \in Requests : req' = [req EXCEPT ![p] = r]
    /\ pc' = [pc EXCEPT ![p] = "checkout"]
    /\ UNCHANGED <<clientVars, processVars, claims, creating, queueVars, lease,
                   tries, ka, closeVars>>

Runnable(p) == pc[p] = "checkout" \/ (pc[p] = "waiting" /\ p \in event)

CheckoutClosed(p) ==
    /\ Runnable(p) /\ closed
    /\ waiters' = RemoveFirst(waiters, p)
    /\ event' = event \ {p}
    /\ Return({p})
    /\ UNCHANGED <<clientVars, processVars, claims, creating, ka, closeVars>>


\* An open checkout first retires expired idle entries and retries the cleanups
\* that failed; the victims are retired with them, the chosen entry is leased.
Sweep(victims, chosen) ==
    LET retired == Expired \cup victims IN
    /\ st' = [c \in Clients |-> IF c \in retired THEN "closing"
                                ELSE IF c \in chosen THEN "leased" ELSE st[c]]
    /\ task' = [c \in Clients |-> IF c \in retired \cup Stalled THEN "running"
                                  ELSE task[c]]

\* The caller waits; a waiter that is already queued keeps its place.
Enqueue(p) ==
    /\ waiters' = IF pc[p] = "waiting" THEN waiters ELSE Append(waiters, p)
    /\ pc' = [pc EXCEPT ![p] = "waiting"]
    /\ UNCHANGED <<req, lease, tries>>

\* Others are ahead in the queue: the event keeps its value.
CheckoutBehind(p) ==
    /\ Runnable(p) /\ ~closed /\ Behind(p)
    /\ Sweep({}, {})
    /\ Enqueue(p)
    /\ UNCHANGED <<claim, sess, uses, unfit, processVars, claims, creating, event,
                   ka, closeVars>>

\* The requested session has a live lease.
CheckoutClaimed(p) ==
    /\ Runnable(p) /\ ~closed /\ ~Behind(p) /\ Claimed(p)
    /\ Sweep({}, {})
    /\ Enqueue(p)
    /\ event' = event \ {p}
    /\ UNCHANGED <<claim, sess, uses, unfit, processVars, claims, creating, ka,
                   closeVars>>

Served(p) == Runnable(p) /\ ~closed /\ ~Behind(p) /\ ~Claimed(p)

CheckoutReuse(p) ==
    /\ Served(p)
    /\ \E c \in Candidates(p) :
         /\ Sweep({}, {c})
         /\ uses' = [uses EXCEPT ![c] = @ + 1]
         /\ claim' = [claim EXCEPT ![c] = req[p].session]
         /\ lease' = [lease EXCEPT ![p] = c]
    /\ claims' = claims \cup ({req[p].session} \ {NoSession})
    /\ LeaveQueue(p)
    /\ pc' = [pc EXCEPT ![p] = "pinging"]
    /\ UNCHANGED <<sess, unfit, processVars, creating, req, tries, ka, closeVars>>

\* A creation slot is reserved and the first connect() starts.
CheckoutCreate(p) ==
    /\ Served(p) /\ Candidates(p) = {} /\ Reserved < MaxConnections
    /\ Sweep({}, {})
    /\ creating' = creating + 1
    /\ claims' = claims \cup ({req[p].session} \ {NoSession})
    /\ LeaveQueue(p)
    /\ \E c \in Unused : lease' = [lease EXCEPT ![p] = c] /\ live' = live \cup {c}
    /\ tries' = [tries EXCEPT ![p] = 1]
    /\ pc' = [pc EXCEPT ![p] = "connecting"]
    /\ UNCHANGED <<claim, sess, uses, unfit, unreaped, req, ka, closeVars>>

\* At capacity: one idle client, if there is one, is retired to make room.
CheckoutRebalance(p) ==
    /\ Served(p) /\ Candidates(p) = {} /\ Reserved >= MaxConnections
    /\ \E victims \in SUBSET FitIdle :
         /\ Cardinality(victims) = IF FitIdle = {} THEN 0 ELSE 1
         /\ Sweep(victims, {})
    /\ Enqueue(p)
    /\ event' = event \ {p}
    /\ UNCHANGED <<claim, sess, uses, unfit, processVars, claims, creating, ka,
                   closeVars>>

\* pool_acquire_timeout, or cancellation, of a caller in the queue.
AbandonWait(p) ==
    /\ Events \cap {"timeout", "cancel"} # {} /\ pc[p] = "waiting"
    /\ LeaveQueue(p)
    /\ Return({p})
    /\ UNCHANGED <<clientVars, processVars, claims, creating, ka, closeVars>>

\* A caller cancelled before its next checkout round leaves nothing behind.
CancelCheckout(p) ==
    /\ "cancel" \in Events /\ pc[p] = "checkout"
    /\ Return({p})
    /\ UNCHANGED <<clientVars, processVars, claims, creating, queueVars, ka,
                   closeVars>>

-----------------------------------------------------------------------------
(* _create_client and _create_reserved_entry *)

\* _finalize_prepared_entry refuses a client whose entry was retired, or whose
\* session s is neither the one claimed for the lease nor free to be claimed.
\* Mutants: the pool may close meanwhile; a leased session may be claimed.
RefusedUnlessFree(s, entry, claimed) ==
    s \notin {NoSession, claimed} /\ (claimed # NoSession \/ s \in claims)
RefusedIfRetired(s, entry, claimed) == closed \/ entry # "leased"
Refused(s, entry, claimed) ==
    \/ closed \/ entry # "leased"
    \/ s \notin {NoSession, claimed} /\ (claimed # NoSession \/ s \in claims)

\* The session to claim before the lease.  Mutant: requested ones suffice.
NothingToClaim(s, claimed) == {}
ToClaim(s, claimed) == {s} \ {NoSession, claimed}

\* Retirement or lease of client c, which reports session s.
Finalize(p, c, s, entry, claimed) ==
    \/ /\ Refused(s, entry, claimed)
       /\ pc' = [pc EXCEPT ![p] = "retire"]
       /\ claim' = [claim EXCEPT ![c] = claimed]
       /\ UNCHANGED claims
    \/ /\ ~Refused(s, entry, claimed)
       /\ pc' = [pc EXCEPT ![p] = "leased"]
       /\ claim' = [claim EXCEPT ![c] = IF ToClaim(s, claimed) = {} THEN claimed ELSE s]
       /\ claims' = claims \cup ToClaim(s, claimed)

\* What is left of _prepare_entry once the client answers.
Prepare(p, c, s, entry, claimed) ==
    LET resume == req[p].session # NoSession /\ s # req[p].session
        ensure == req[p].session = NoSession /\ s = NoSession
    IN \/ /\ resume \/ ensure
          /\ pc' = [pc EXCEPT ![p] = IF resume THEN "resuming" ELSE "ensuring"]
          /\ claim' = [claim EXCEPT ![c] = claimed]
          /\ UNCHANGED claims
       \/ /\ ~resume /\ ~ensure
          /\ Finalize(p, c, s, entry, claimed)

\* connect() succeeded: the entry is registered and the slot given back.
ConnectOk(p) ==
    /\ pc[p] = "connecting" /\ ~closed
    /\ SlotReturned
    /\ st' = [st EXCEPT ![lease[p]] = "leased"]
    /\ uses' = [uses EXCEPT ![lease[p]] = 1]
    /\ \E s \in ProviderSessions :
         /\ sess' = [sess EXCEPT ![lease[p]] = s]
         /\ Prepare(p, lease[p], s, "leased", req[p].session)
    /\ HeadWoken
    /\ UNCHANGED <<task, unfit, processVars, waiters, req, lease, tries, ka, closeVars>>

\* The pool closed meanwhile: the entry is registered closing, its close task
\* before the slot is given back, and the caller waits for that task.
ConnectLate(p) ==
    /\ pc[p] = "connecting" /\ closed
    /\ SlotReturned
    /\ Closing({lease[p]})
    /\ uses' = [uses EXCEPT ![lease[p]] = 1]
    /\ claim' = [claim EXCEPT ![lease[p]] = req[p].session]
    /\ \E s \in ProviderSessions : sess' = [sess EXCEPT ![lease[p]] = s]
    /\ HeadWoken
    /\ pc' = [pc EXCEPT ![p] = "closedwait"]
    /\ UNCHANGED <<unfit, processVars, claims, waiters, req, lease, tries, ka, closeVars>>

\* connect() failed, timed out, or its caller was cancelled.  Errors that must
\* not be retried leave no further attempt.
ConnectFail(p) ==
    /\ Events \cap {"connect", "cancel"} # {} /\ pc[p] = "connecting"
    /\ pc' = [pc EXCEPT ![p] = "cleaning"]
    /\ \E t \in {tries[p], StartupAttempts} : tries' = [tries EXCEPT ![p] = t]
    /\ UNCHANGED <<clientVars, processVars, claims, creating, queueVars, req, lease,
                   ka, closeVars>>

\* The owned disconnect of a failed startup succeeded.  A caller cancelled
\* while it waits for that, or in the backoff, makes no further attempt.
CleanOk(p) ==
    /\ pc[p] = "cleaning"
    /\ live' = live \ {lease[p]} /\ unreaped' = unreaped \ {lease[p]}
    /\ \/ tries[p] < StartupAttempts /\ pc' = [pc EXCEPT ![p] = "backoff"]
       \/ /\ tries[p] = StartupAttempts \/ "cancel" \in Events
          /\ pc' = [pc EXCEPT ![p] = "failing"]
    /\ lease' = [lease EXCEPT ![p] = NoClient]
    /\ UNCHANGED <<clientVars, claims, creating, queueVars, req, tries, ka, closeVars>>

\* It failed: the transport stays charged against the capacity, untracked.
\* Mutant: it is forgotten.
CleanFailForgotten(p) ==
    /\ "disconnect" \in Events /\ pc[p] = "cleaning"
    /\ pc' = [pc EXCEPT ![p] = "failing"]
    /\ UNCHANGED <<clientVars, processVars, claims, creating, queueVars, req, lease,
                   tries, ka, closeVars>>
CleanFail(p) ==
    /\ "disconnect" \in Events /\ pc[p] = "cleaning"
    /\ unreaped' = unreaped \cup {lease[p]}
    /\ pc' = [pc EXCEPT ![p] = "failing"]
    /\ UNCHANGED <<clientVars, live, claims, creating, queueVars, req, lease, tries,
                   ka, closeVars>>

Backoff(p) ==
    /\ pc[p] = "backoff"
    /\ \/ /\ \E c \in Unused : lease' = [lease EXCEPT ![p] = c] /\ live' = live \cup {c}
          /\ tries' = [tries EXCEPT ![p] = @ + 1]
          /\ pc' = [pc EXCEPT ![p] = "connecting"]
       \/ /\ "cancel" \in Events
          /\ pc' = [pc EXCEPT ![p] = "failing"]
          /\ UNCHANGED <<lease, live, tries>>
    /\ UNCHANGED <<clientVars, unreaped, claims, creating, queueVars, req, ka, closeVars>>

\* The reserved slot and session are given back.
CreateFailed(p) ==
    /\ pc[p] = "failing"
    /\ SlotReturned
    /\ claims' = claims \ {req[p].session}
    /\ HeadWoken
    /\ Return({p})
    /\ UNCHANGED <<clientVars, processVars, waiters, ka, closeVars>>

-----------------------------------------------------------------------------
(* _prepare_entry and the lease *)

PingOk(p) ==
    /\ pc[p] = "pinging"
    /\ Prepare(p, lease[p], sess[lease[p]], st[lease[p]], claim[lease[p]])
    /\ UNCHANGED <<st, task, sess, uses, unfit, processVars, creating, queueVars, req,
                   lease, tries, ka, closeVars>>

PingFail(p) ==
    /\ "ping" \in Events /\ pc[p] = "pinging"
    /\ pc' = [pc EXCEPT ![p] = "health_retire"]
    /\ UNCHANGED <<clientVars, processVars, claims, creating, queueVars, req, lease,
                   tries, ka, closeVars>>

ResumeOk(p) ==
    /\ pc[p] = "resuming"
    /\ sess' = [sess EXCEPT ![lease[p]] = req[p].session]
    /\ Finalize(p, lease[p], req[p].session, st[lease[p]], claim[lease[p]])
    /\ UNCHANGED <<st, task, uses, unfit, processVars, creating, queueVars, req, lease,
                   tries, ka, closeVars>>

\* ensure_session() bound the client to a session, or the client has none.
EnsureOk(p) ==
    /\ pc[p] = "ensuring"
    /\ \E s \in ProviderSessions :
         /\ sess' = [sess EXCEPT ![lease[p]] = s]
         /\ Finalize(p, lease[p], s, st[lease[p]], claim[lease[p]])
    /\ UNCHANGED <<st, task, uses, unfit, processVars, creating, queueVars, req, lease,
                   tries, ka, closeVars>>

\* An exception or a cancellation while the client is prepared.
\* Mutant: the error is raised without retiring the entry.
PrepareFailStranded(p) ==
    /\ pc[p] \in PreparePcs /\ "cancel" \in Events
    /\ Return({p})
    /\ UNCHANGED <<clientVars, processVars, claims, creating, queueVars, ka, closeVars>>
PrepareFail(p) ==
    /\ \/ pc[p] \in PreparePcs /\ "cancel" \in Events
       \/ pc[p] = "resuming" /\ "resume" \in Events
       \/ pc[p] = "ensuring" /\ "ensure" \in Events
    /\ pc' = [pc EXCEPT ![p] = "retire"]
    /\ UNCHANGED <<clientVars, processVars, claims, creating, queueVars, req, lease,
                   tries, ka, closeVars>>

\* The leased operation ended: normally, or by an exception or a cancellation.
EndLease(p) ==
    /\ pc[p] = "leased"
    /\ \/ pc' = [pc EXCEPT ![p] = "releasing"]
       \/ "cancel" \in Events /\ pc' = [pc EXCEPT ![p] = "retire"]
    /\ UNCHANGED <<clientVars, processVars, claims, creating, queueVars, req, lease,
                   tries, ka, closeVars>>

\* The leased operation moves the client to another logical session.
SwitchSession(p) ==
    /\ "switch" \in Events /\ pc[p] = "leased" /\ st[lease[p]] = "leased"
    /\ \E s \in Sessions : sess' = [sess EXCEPT ![lease[p]] = s]
    /\ UNCHANGED <<st, task, claim, uses, unfit, processVars, claims, creating,
                   queueVars, callerVars, ka, closeVars>>

\* A client dies, is invalidated, or outlives its idle timeout or maximum age.
BecomeUnfit(c) ==
    /\ "unfit" \in Events /\ st[c] \in {"leased", "idle", "checking"}
    /\ unfit' = [unfit EXCEPT ![c] = TRUE]
    /\ UNCHANGED <<st, task, claim, sess, uses, processVars, claims, creating,
                   queueVars, callerVars, ka, closeVars>>

-----------------------------------------------------------------------------
(* _finish_release_entry, _finish_retire_entry and _finish_close *)

\* close_all() retired the entry under the lease: nothing to release.
ReleaseGone(p) ==
    /\ pc[p] = "releasing" /\ st[lease[p]] # "leased"
    /\ Return({p})
    /\ UNCHANGED <<clientVars, processVars, claims, creating, queueVars, ka, closeVars>>

Unreleasable(c) == \/ closed \/ Retirable(c)
                   \/ claim[c] # NoSession /\ sess[c] # claim[c]

\* The claim is kept until the close succeeds.  Mutant: it is given back at once.
ReleaseCloseEarly(p) ==
    /\ pc[p] = "releasing" /\ st[lease[p]] = "leased" /\ Unreleasable(lease[p])
    /\ Closing({lease[p]})
    /\ claims' = claims \ {claim[lease[p]]}
    /\ claim' = [claim EXCEPT ![lease[p]] = NoSession]
    /\ pc' = [pc EXCEPT ![p] = "closewait"]
    /\ UNCHANGED <<sess, uses, unfit, processVars, creating, queueVars, req, lease,
                   tries, ka, closeVars>>
ReleaseClose(p) ==
    /\ pc[p] = "releasing" /\ st[lease[p]] = "leased" /\ Unreleasable(lease[p])
    /\ Closing({lease[p]})
    /\ pc' = [pc EXCEPT ![p] = "closewait"]
    /\ UNCHANGED <<claim, sess, uses, unfit, processVars, claims, creating, queueVars,
                   req, lease, tries, ka, closeVars>>

\* How many of the entries that were idle must go.  Mutant: off by one.
SurplusLate(idle) == IF Cardinality(idle) > PoolSize THEN 1 ELSE 0
Surplus(idle) == IF Cardinality(idle) >= PoolSize THEN 1 ELSE 0

\* The claim is given back; beyond pool_size idle entries the least recently
\* released one, never the entry just released, is closed in the background.
ReleaseIdle(p) ==
    LET c == lease[p]
        idle == {d \in Clients : st[d] = "idle"}
    IN /\ pc[p] = "releasing" /\ st[c] = "leased" /\ ~Unreleasable(c)
       /\ claims' = claims \ {claim[c]}
       /\ claim' = [claim EXCEPT ![c] = NoSession]
       /\ \E victims \in SUBSET idle :
            /\ Cardinality(victims) = Surplus(idle)
            /\ st' = [d \in Clients |-> IF d = c THEN "idle" ELSE
                                        IF d \in victims THEN "closing" ELSE st[d]]
            /\ task' = [d \in Clients |-> IF d \in victims THEN "running" ELSE task[d]]
       /\ HeadWoken
       /\ Return({p})
       /\ UNCHANGED <<sess, uses, unfit, processVars, creating, waiters, ka, closeVars>>

\* The entry is closed unless it is already gone; a failed close is retried.
Retire(p) ==
    LET c == lease[p] IN
    /\ pc[p] \in RetirePcs /\ st[c] # "absent"
    /\ Closing({c})
    /\ pc' = [pc EXCEPT ![p] = IF @ = "retire" THEN "closewait" ELSE "health_close"]
    /\ UNCHANGED <<claim, sess, uses, unfit, processVars, claims, creating, queueVars,
                   req, lease, tries, ka, closeVars>>

RetireGone(p) ==
    /\ pc[p] \in RetirePcs /\ st[lease[p]] = "absent"
    /\ IF pc[p] = "retire" THEN Return({p})
       ELSE /\ pc' = [pc EXCEPT ![p] = "checkout"]
            /\ lease' = [lease EXCEPT ![p] = NoClient]
            /\ UNCHANGED <<req, tries>>
    /\ UNCHANGED <<clientVars, processVars, claims, creating, queueVars, ka, closeVars>>

\* Callers awaiting the close task of c, and those that return when it ends.
Closers(c) == {p \in Callers : lease[p] = c /\ pc[p] \in ClosePcs}
Returning(c) == {p \in Closers(c) : pc[p] # "health_close"}

\* disconnect() succeeded: the transport is gone, its entry and claim with it.
CloseOk(c) ==
    /\ task[c] = "running"
    /\ st' = [st EXCEPT ![c] = "absent"]
    /\ task' = [task EXCEPT ![c] = "none"]
    /\ claims' = claims \ {claim[c]}
    /\ claim' = [claim EXCEPT ![c] = NoSession]
    /\ sess' = [sess EXCEPT ![c] = NoSession]
    /\ uses' = [uses EXCEPT ![c] = 0]
    /\ unfit' = [unfit EXCEPT ![c] = FALSE]
    /\ live' = live \ {c} /\ unreaped' = unreaped \ {c}
    /\ HeadWoken
    /\ pc' = [p \in Callers |-> IF p \notin Closers(c) THEN pc[p]
                                ELSE IF p \in Returning(c) THEN "out" ELSE "checkout"]
    /\ lease' = [p \in Callers |-> IF p \in Closers(c) THEN NoClient ELSE lease[p]]
    /\ req' = [p \in Callers |-> IF p \in Returning(c) THEN NoReq ELSE req[p]]
    /\ tries' = [p \in Callers |-> IF p \in Returning(c) THEN 0 ELSE tries[p]]
    /\ caWait' = caWait \ {c}
    /\ UNCHANGED <<creating, waiters, closed, ka, ca>>

\* It failed: the transport stays reserved and nobody is woken.  A caller that
\* was replacing an unhealthy client retires it once more.
CloseFail(c) ==
    /\ "disconnect" \in Events /\ task[c] = "running"
    /\ task' = [task EXCEPT ![c] = "failed"]
    /\ unreaped' = unreaped \cup {c}
    /\ pc' = [p \in Callers |-> IF p \notin Closers(c) THEN pc[p]
                                ELSE IF p \in Returning(c) THEN "out" ELSE "retire"]
    /\ lease' = [p \in Callers |-> IF p \in Returning(c) THEN NoClient ELSE lease[p]]
    /\ req' = [p \in Callers |-> IF p \in Returning(c) THEN NoReq ELSE req[p]]
    /\ tries' = [p \in Callers |-> IF p \in Returning(c) THEN 0 ELSE tries[p]]
    /\ caWait' = caWait \ {c}
    /\ UNCHANGED <<st, claim, sess, uses, unfit, live, claims, creating, queueVars,
                   closed, ka, ca>>

\* The creator awaits the close task itself, so its cancellation cancels it.
CancelLate(p) ==
    /\ "cancel" \in Events /\ pc[p] = "closedwait"
    /\ task' = [task EXCEPT ![lease[p]] = "failed"]
    /\ caWait' = caWait \ {lease[p]}
    /\ Return({p})
    /\ UNCHANGED <<st, claim, sess, uses, unfit, processVars, claims, creating,
                   queueVars, ka, closed, ca>>

-----------------------------------------------------------------------------
(* _run_keepalive *)

KeepaliveStart ==
    /\ ka = "sleep" /\ ~closed
    /\ st' = [c \in Clients |-> IF c \in Expired THEN "closing"
                                ELSE IF c \in FitIdle THEN "checking" ELSE st[c]]
    /\ task' = [c \in Clients |-> IF c \in Expired THEN "running" ELSE task[c]]
    /\ ka' = "checking"
    /\ UNCHANGED <<claim, sess, uses, unfit, processVars, claims, creating, queueVars,
                   callerVars, closeVars>>

KeepaliveFinish ==
    /\ ka = "checking"
    /\ LET checked == {c \in Clients : st[c] = "checking"} IN
       \E dead \in SUBSET checked :
         LET failed == dead \cup {c \in checked : Retirable(c) \/ closed} IN
         /\ "ping" \in Events \/ dead = {}
         /\ st' = [c \in Clients |-> IF c \in failed THEN "closing"
                                     ELSE IF c \in checked THEN "idle" ELSE st[c]]
         /\ task' = [c \in Clients |-> IF c \in failed THEN "running" ELSE task[c]]
    /\ HeadWoken
    /\ ka' = "sleep"
    /\ UNCHANGED <<claim, sess, uses, unfit, processVars, claims, creating, waiters,
                   callerVars, closeVars>>

-----------------------------------------------------------------------------
(* close_all and _finish_close_all *)

\* A first call, or a later one after a close that left transports reserved.
CloseAll ==
    /\ "close" \in Events
    /\ ca = "open" \/ (ca \in {"done", "failed"} /\ Reserved > 0)
    /\ closed' = TRUE
    /\ event' = event \cup Range(waiters)
    /\ st' = [c \in Clients |-> IF c \in Tracked THEN "closing" ELSE st[c]]
    /\ ca' = "marked" /\ caWait' = Tracked
    /\ UNCHANGED <<task, claim, sess, uses, unfit, processVars, claims, creating,
                   waiters, callerVars, ka>>

\* The keepalive task is cancelled, then the close tasks run.
CloseAllStart ==
    /\ ca = "marked"
    /\ ka' = "off"
    /\ Closing(caWait \cap Tracked)
    /\ ca' = "gather" /\ caWait' = caWait \cap Tracked
    /\ UNCHANGED <<claim, sess, uses, unfit, processVars, claims, creating, queueVars,
                   callerVars, closed>>

\* Nothing is being created any more: the tasks still running are awaited.
CloseAllGathered ==
    /\ ca = "gather" /\ caWait = {} /\ creating = 0
    /\ ca' = "background" /\ caWait' = {c \in Clients : task[c] = "running"}
    /\ UNCHANGED <<clientVars, processVars, claims, creating, queueVars, callerVars,
                   closed, ka>>

CloseAllRetry ==
    /\ ca = "background" /\ caWait = {}
    /\ Closing(Stalled \cap Tracked)
    /\ ca' = "retry" /\ caWait' = Stalled \cap Tracked
    /\ UNCHANGED <<claim, sess, uses, unfit, processVars, claims, creating, queueVars,
                   callerVars, closed, ka>>

\* Then the untracked transports are disconnected once more.
CloseAllReap ==
    /\ ca = "retry" /\ caWait = {}
    /\ task' = [c \in Clients |-> IF c \in unreaped \ Tracked THEN "running" ELSE task[c]]
    /\ ca' = "reap" /\ caWait' = unreaped \ Tracked
    /\ UNCHANGED <<st, claim, sess, uses, unfit, processVars, claims, creating,
                   queueVars, callerVars, closed, ka>>

CloseAllFinish ==
    /\ ca = "reap" /\ caWait = {}
    /\ ca' = IF Reserved > 0 THEN "failed" ELSE "done"
    /\ UNCHANGED <<clientVars, processVars, claims, creating, queueVars, callerVars,
                   closed, ka, caWait>>

-----------------------------------------------------------------------------

Checkout(p) == \/ CheckoutClosed(p) \/ CheckoutBehind(p) \/ CheckoutClaimed(p)
               \/ CheckoutReuse(p) \/ CheckoutCreate(p) \/ CheckoutRebalance(p)
Create(p) == ConnectOk(p) \/ ConnectLate(p) \/ ConnectFail(p) \/ CleanOk(p)
             \/ CleanFail(p) \/ Backoff(p) \/ CreateFailed(p)
Lease(p) == PingOk(p) \/ PingFail(p) \/ ResumeOk(p) \/ EnsureOk(p) \/ PrepareFail(p)
            \/ EndLease(p)
Release(p) == ReleaseGone(p) \/ ReleaseClose(p) \/ ReleaseIdle(p) \/ Retire(p)
              \/ RetireGone(p)
CloseClient(c) == CloseOk(c) \/ CloseFail(c)
CheckoutTakes(p) == CheckoutReuse(p) \/ CheckoutCreate(p)
                    \/ (FitIdle # {} /\ CheckoutRebalance(p))
KeepaliveStep == KeepaliveStart \/ KeepaliveFinish
CloseAllStep == CloseAllStart \/ CloseAllGathered \/ CloseAllRetry \/ CloseAllReap
                \/ CloseAllFinish

Next ==
    \/ \E p \in Callers : \/ Acquire(p) \/ Checkout(p) \/ AbandonWait(p)
                          \/ CancelCheckout(p) \/ Create(p) \/ Lease(p)
                          \/ SwitchSession(p) \/ Release(p) \/ CancelLate(p)
    \/ \E c \in Clients : CloseClient(c) \/ BecomeUnfit(c)
    \/ KeepaliveStep \/ CloseAll \/ CloseAllStep

Spec == Init /\ [][Next]_vars

\* Every task that can run does; waits for a subprocess have a deadline; and
\* callers end their leases.  A woken caller may find its client taken by a
\* keepalive check, but not for ever: the loop sleeps between two checks while
\* the caller is already in the ready queue.  Nothing obliges a caller to ask,
\* to time out or to be cancelled, or the pool to be closed.
Fairness ==
    /\ \A p \in Callers : /\ WF_vars(Checkout(p)) /\ WF_vars(Create(p))
                          /\ WF_vars(Lease(p)) /\ WF_vars(Release(p))
                          /\ SF_vars(CheckoutTakes(p))
    /\ \A c \in Clients : WF_vars(CloseClient(c))
    /\ WF_vars(KeepaliveFinish) /\ WF_vars(CloseAllStep)

FairSpec == Spec /\ Fairness

-----------------------------------------------------------------------------
(* Safety *)

\* The hard limit counts processes, not entries: at most pool_max_connections
\* subprocesses exist, whether starting, leased, idle, checked, closing or
\* left over by a cleanup that failed (README "Hard open + creating limit").
PhysicalCapacity == Cardinality(live) <= MaxConnections

\* A subprocess that exists is known to the pool or to the creator that is
\* still starting or reaping it: none is forgotten by a failed step.
EveryTransportOwned ==
    live \subseteq Tracked \cup unreaped \cup {lease[p] : p \in Creators}

\* _creating counts exactly the callers inside _create_client, so that it
\* neither leaks a slot nor gives one back twice.
CreatingExact == creating = Cardinality(Creators)

\* A session is claimed exactly as long as one entry, or one creator that
\* reserved it for the client it is starting, owns it: no session has two
\* owners and no claim outlives its owner.
SessionOwnedOnce ==
    /\ \A s \in claims : \/ \E c \in Tracked : claim[c] = s
                         \/ \E p \in Creators : req[p].session = s
    /\ \A c \in Tracked : claim[c] # NoSession =>
          /\ claim[c] \in claims
          /\ \A d \in Tracked : claim[d] = claim[c] => d = c
          /\ \A p \in Creators : req[p].session # claim[c]
    /\ \A p \in Creators : req[p].session # NoSession =>
          /\ req[p].session \in claims
          /\ \A q \in Creators : req[q].session = req[p].session => q = p

\* The callers that may be using or preparing the client of a live entry.
HolderPcs == PreparePcs \cup RetirePcs \cup {"leased", "releasing"}
Holders(c) == {p \in Callers : lease[p] = c /\ pc[p] \in HolderPcs}

\* No client is in two hands: an entry has at most one holder, and one that is
\* idle or being checked has none, whatever keepalive, eviction, retirement and
\* shutdown did meanwhile.
OneHolder ==
    \A c \in Clients : /\ Cardinality(Holders(c)) <= 1
                       /\ st[c] \in {"idle", "checking"} => Holders(c) = {}

\* No capacity is stranded: a leased entry has a holder that will release or
\* retire it, a checked one a keepalive cycle that will decide about it, and a
\* closing one a close task, or a close_all() that is about to start it.
EntryAttended ==
    \A c \in Clients : /\ st[c] = "leased" => Holders(c) # {}
                       /\ st[c] = "checking" => ka = "checking"
                       /\ st[c] = "closing" => task[c] # "none" \/ ca = "marked"

\* The session each lease was given for is still reserved for it while the
\* lease lasts, also after the client itself moved to another session.
LeasedSessionsDiffer ==
    \A p, q \in Callers :
        /\ p # q /\ pc[p] = "leased" /\ pc[q] = "leased"
        /\ st[lease[p]] = "leased" /\ st[lease[q]] = "leased"
        => claim[lease[p]] = NoSession \/ claim[lease[p]] # claim[lease[q]]

\* The queue holds exactly the waiting callers, once each.
QueueExact ==
    /\ Range(waiters) = {p \in Callers : pc[p] = "waiting"}
    /\ Len(waiters) = Cardinality(Range(waiters))

\* While the pool is open only the head of the queue can be awake: a woken
\* waiter that is not the head would spin, since its event stays set.
OnlyHeadAwake == ~closed => event \subseteq (IF waiters = <<>> THEN {} ELSE {Head(waiters)})

\* No wakeup is missed: when the head sleeps there is nothing it could be
\* given; its session is leased, or no idle client suits it and the pool is full.
NoMissedWakeup ==
    ~closed /\ waiters # <<>> /\ Head(waiters) \notin event =>
        \/ Claimed(Head(waiters))
        \/ Candidates(Head(waiters)) = {} /\ Reserved >= MaxConnections

\* A close_all() that returned left no subprocess, nobody starting one, no
\* claim and no caller asleep in the queue.
CloseAllComplete ==
    ca = "done" => /\ live = {} /\ Creators = {} /\ claims = {}
                   /\ \A p \in Callers : pc[p] = "waiting" => p \in event

\* Without a keepalive at most pool_size idle clients are retained.
IdleBounded == Cardinality({c \in Clients : st[c] = "idle"}) <= PoolSize

\* close_all() reports unreaped transports only while there are some: in state
\* "failed" every further call raises the error of the finished task, unless
\* something is still reserved and the cleanup is retried.
CloseErrorTrue == ca = "failed" => Reserved > 0

-----------------------------------------------------------------------------
(* Action properties *)

Yields(p) == pc[p] # "leased" /\ pc'[p] = "leased"

\* Once the pool is closed no caller is given a client, whatever it was
\* waiting for, starting or preparing when close_all() began.
NoLeaseAfterClose == [][closed => \A p \in Callers : ~Yields(p)]_vars

\* A client is yielded bound to the session that was asked for, and whatever
\* session it is bound to is claimed for this lease first.
YieldMatchesRequest ==
    [][\A p \in Callers : Yields(p) =>
          /\ st'[lease'[p]] = "leased"
          /\ req[p].session # NoSession => sess'[lease'[p]] = req[p].session
          /\ sess'[lease'[p]] = claim'[lease'[p]]
          /\ sess'[lease'[p]] \in claims' \cup {NoSession}]_vars

\* An anonymous request never receives a client that an earlier lease left
\* bound to a session (README "an anonymous request never receives ...").
AnonymousIsolation ==
    [][\A p \in Callers :
          Yields(p) /\ req[p].session = NoSession /\ uses[lease[p]] > 1 =>
             sess[lease[p]] = NoSession]_vars

\* A session stays claimed until its transport is idle again or is gone: a
\* failed or pending close never frees it for another lease.
ClaimOutlivesTransport ==
    [][\A c \in Tracked : claim[c] # NoSession /\ claim[c] \notin claims' =>
          st'[c] = "idle" \/ c \notin live']_vars

\* Callers are served in the order in which they queued, and a newcomer never
\* before anybody who waits.
Starts(p) == pc[p] \in {"checkout", "waiting"} /\ pc'[p] \in {"pinging", "connecting"}
Ahead(p, q) == \E i, j \in DOMAIN waiters : i < j /\ waiters[i] = p /\ waiters[j] = q
FifoService ==
    [][\A p \in Callers : Starts(p) =>
          \A q \in Range(waiters) \ {p} : Ahead(p, q)]_vars

-----------------------------------------------------------------------------
(* Liveness *)

\* Every caller in the queue is eventually served, or told the pool closed,
\* even if it may never time out.
WaiterServed == \A p \in Callers : pc[p] = "waiting" ~> pc[p] # "waiting"

\* Every acquire() ends with a lease or an error.
AcquireReturns == \A p \in Callers : pc[p] = "checkout" ~> pc[p] \in {"leased", "out"}

\* close_all() ends, whichever tasks are starting, checking or closing.
CloseAllEnds == closed ~> ca \in {"done", "failed"}
=============================================================================
