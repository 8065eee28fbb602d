# SoulACP: verification project

SoulACP is a Python asyncio library that drives coding-agent command-line
programs over the Agent Client Protocol. Each agent runs as a subprocess; the
library pools these subprocesses, keeps each user's conversation on the same
provider session, answers the agent's own requests (files, terminals,
permissions), and promises to own and reap every process it started. This
directory holds TLA+ models of that code, the TLC instances that check them and
TLAPS proofs about them. Paths such as `pool.py` mean `src/src/soulacp/pool.py`.

## The system

| part | state it keeps | operations | hard behaviours |
|---|---|---|---|
| `pool.py` `ACPConnectionPool` | entries with state, session and close task; reserved creations; unreaped clients; session claims; FIFO of waiters; close task | `acquire`, release, retire, keepalive, `close_all` | every await is a place where another caller, the keepalive, the shutdown or a cancellation comes between; disconnects fail and are retried |
| `session.py` `ManagedSession` | pools by provider, one lock per user, close task, whether the store was flushed | `query`, `stream`, `reset_session`, `close` | attempt budget and fallback before the prompt, never after it started; resets and turns of one user; close with turns still running |
| `session_store.py` `ProviderSessionStore` | mappings in a cache under two generations of keys, one lock | `get_session_id`, `set_session_id`, `clear`, `flush` | migration in several fallible cache operations; ambiguous legacy keys |
| `cache.py` `FileCache`, `MemoryCache` | map, dirty flag, debounce task, JSON file | `get`, `set`, `delete`, `exists`, `flush` | debounce against flush, failing writes, cancellation during a write, crashes |
| `adapters/base_client.py` transport | process, reader, spawn task and its claim, three locks, disconnect and clean-up tasks, host services | `connect`, `disconnect`, loss of the transport, late spawns | processes that start late or survive `kill`; clean-ups that overtake each other |
| `base_client.py` host requests | tasks by id, permission turns, replies under way | dispatch, `$/cancel_request`, reply, retire, close | cancellation at every step of a reply; requests that outlive their prompt or connection |
| `base_client.py` prompts | request, collected chunks, stream queue, error | `query`, `query_stream` | the reader, the request and the consumer share one queue; deadlines; EOF |
| `base_client.py` sessions | session id and snapshots of models, modes, configuration | new, load, resume, prompt, set_config, set_mode, close, delete, list, authenticate | requests whose outcome is unknown; updates in the middle of a change of session; a failing transition restores the state before it |
| `services/terminal_service.py` | records, reserved places, close task | `create`, `kill`, `release`, `wait_for_exit`, `get_output`, `close` | interrupted creates, processes that resist, several owners of one termination |
| `services/fs_service.py`, `path_utils.py` | operations in worker threads | read, write | threads that cannot be interrupted; files that others change or exchange meanwhile; limits and line ends |
| `adapters/opencode_client.py` | reader thread, dispatch queue, pending responses | connect, requests, events | frames of an earlier process dispatched after a reconnect |
| `adapters/cursor_client.py` | one process per query, late spawn claims | `query`, `query_stream`, `disconnect` | one-shot processes that outlive their query |
| `retry.py`, `_async.py` | none | `retry_async`, `wait_for_owned` | cancellation against the result of an owned task |
| about thirty provider adapters, configuration, errors, telemetry, privacy | none that others read | pure functions and thin subclasses | none |

How they meet: an application calls `ManagedSession`; that reads and writes
`ProviderSessionStore` (which stands on a cache backend) and leases clients from
one `ACPConnectionPool` per provider; a pool entry owns one client; a client owns
its process, its reader task, one task per request of the agent and the file and
terminal services. Everything runs on one event loop. State is shared between
tasks through attributes, and a task may be preempted, or cancelled, only at an
`await`. The models use this everywhere: **one action is what a task does from one
await to the next**, and whatever happens at an await (another task, a timeout, a
cancellation, a failure) is another action. Threads appear in two places, and there every
step of a thread is an action: the writer of the cache, and the threads that read and write
OpenCode's pipes.

The complete list of parts, with those not modelled and the reason, is in
`PROJECT.json` under `components`; the list of hazards, each at its line with
the properties that would catch it, is there under `hazards`.

## Modules

    SessionLease   <--refines--  PoolLease  --INSTANCE-->  Pool
    DurableMap     <--refines--  FileCacheMap  --EXTENDS-->  FileCache
    ProcessOwner   <--refines--  ClientTransport, OpenCodeTransport, CursorProcess
                                 (all three EXTEND ClientConstants and are instantiated by MCClients)
    SessionStore (uses a cache)        ManagedSession (uses a store and two pools)
                                 (MCSessions instantiates the first and EXTENDS the second)
    HostRequests    PromptTurn    SessionState     (with ClientTransport, four views of base_client.py;
                                 MCBaseClient instantiates the first two and EXTENDS the third)
    OwnedAwait     <--EXTENDS--  FileService
    TerminalService    TerminalOutput    CursorStream     (MCTextStreams instantiates the last two and FileService)
    PoolProofs             --EXTENDS-->  PoolLease, QueueLemmas
    FileCacheProofs        --EXTENDS-->  FileCacheMap, QueueLemmas
    ManagedSessionProofs   --EXTENDS-->  MCSessions, QueueLemmas     (turns and the store)
    ClientProofs           --EXTENDS-->  MCClients     (all three kinds of clients)
    BaseClientProofs       --EXTENDS-->  MCBaseClient     (prompts, host requests and session)
    TextStreamProofs       --EXTENDS-->  MCTextStreams     (streams and owned waits)
    TerminalServiceProofs  --EXTENDS-->  TerminalService

An `MC` module is the instance of one module or of several that TLC checks. Where it holds several
(`MCClients`, `MCTextStreams`, `MCSessions`, `MCBaseClient`), each has its own specification there, in which the variables
of the others stand still; `BaseClientConstants` and `ClientConstants` declare what those of one class have in common. Cfgs
with the name of another module (`FileCache_live`, `TerminalService`, `ManagedSession`, ...) check that module itself.

Components are composed through promises: `ManagedSession` uses a pool as "a lease
is granted by an open pool alone, for the session asked for; `close_all` ends with
everything reaped or raises", and that is what `Pool` is proved to provide
(`YieldsMatch`, `NoneAfterClose`, `ShutdownComplete`). `SessionStore` uses the cache operation by operation, each of
which may fail, which is what `FileCache` provides. `Pool` in turn uses a client as what owns at most one
process and keeps it until it is gone; `ProcessOwner` says so, and each of the three kinds of clients is proved to implement it (`ClientsKeepContract`).

### Pool

Per client `st` is `_Entry.state` (with "free" before and after an entry exists),
`task` its `close_task`, `sess` the session id the client reports, `claim` the id in
`_session_claims`. `live` is the set of clients whose subprocess exists: no variable of the
code, it is what the counters are about. A caller's `pc` names the await of
`acquire()` or of its helpers at which it stands. The actions, by function:

| code | actions |
|---|---|
| `_checkout` | `Checkout`, `CheckoutTakes`, `WaiterGivesUp` and the disjuncts under them |
| `_create_client`, `_open_reserved_client` | `Create` |
| `_prepare_entry`, `acquire` | `Lease` |
| `_finish_release_entry`, `_finish_retire_entry` | `Release` |
| `_close_entry`, `_retry_unreaped_clients` | `CloseClient` |
| `_run_keepalive` | `KeepaliveStart`, `KeepaliveFinish` |
| `close_all`, `_close_all` | `CloseAllCall`, `CloseAllStep` |

Abstract: times (an expiry or a timeout may happen at any moment when `Events` has
it), which idle client is the least recently released one, statistics.
`SessionLease` says what users of a pool may rely on about one session: free, reserved,
leased or draining, with one holder. `PoolLease` gives the refinement mapping.

### FileCache, DurableMap

`debounced` is the setting, chosen at the start. `lock` is the FIFO of an
`asyncio.Lock`, its head the holder. `Access` is the four
mutating and reading calls, `Save` the debounce task, `Flushes` the stages of `flush()`,
`WriterStep` the thread that writes, `Crash` the end of the process and the load
of the file by the next one. The write is one step of the writer: the code writes a
temporary file and renames it. `DurableMap` is a map whose file always equals some
earlier whole map and which may be called clean only if the file is up to date;
`FileCacheMap` shows that the cache implements it through failures and crashes.

### SessionStore

A stored session is the number of the `set` that stored it and the user it was stored
for, so that "older", "newer" and "somebody else's" can be told apart. `legacy` holds the keys of
older releases, shared by users whose ids collide under the old scheme.
Every cache operation is a step and may raise; what the cache holds may be malformed, and is then deleted. The history variables
`floor` and `torn` say what is promised: once a session is stored no older one is to be read, once a clear() has deleted both entries
nothing stored before, and an interrupted operation withdraws no promise. `torn` marks a set() and a clear() that have ended half way. Assumed: older
releases stored their mappings with the same ttl, and a legacy key that the code takes for unambiguous
(`_legacy_key_if_unambiguous`, `session_store.py:56-65`) is no other user's (`OwnersAssumption`).

### ManagedSession

`turn[t]` is the call a task is in, `line[u]` the user's lock with its queue, `mapping`
the store, `pool` the two pools. The steps of a turn follow `_query_attempt` and its
stream counterpart: lock, look-up, lease within the budget, resume reset, fallback, prompt, save.
`CloseStep` is the owned close task. `unsaved`, `due` and `stale` are history
variables for `CloseFlushes` and `ResetSticks`.

### TerminalService, TerminalOutput

`proc[x]` is what the operating system knows of a process, `records` and `reserved` what
the service knows; `late[x]` the task that claims a process whose `create` was
interrupted; `job[j]` a call of `_terminate`, by whoever called it. `TerminalOutput` is the
pure part: bytes arrive cut anywhere, and the last of them within the limit are
kept, without a partial character in front.

### OwnedAwait, FileService

Work that must not be abandoned is waited for by two kinds of helpers: `wait_for_owned` ("timed") and the loops around
`asyncio.shield` ("shielded", `_await_owned_cleanup` in four files and `_await_owned_thread`). `OwnedAwait` splits such a wait at the
turns of the event loop: `woken` says that the loop is about to run the caller, `thrown` that it will raise `CancelledError` in it; the work
may end and cancellations may come in between. It justifies what the other models take for
granted: an await of owned work ends with its result, a timeout or a cancellation, and never before the work.

`FileService` is one request of the agent to read or write a file. The thread checks, opens, and reads or writes
in pieces (`stage`), and the request waits for it as `OwnedAwait` has it. `entry` is what the path names, `kind` and
`data` the objects of the file system; others may rewrite an object or let the path name another one at any
moment. Lines are found as Python's text layer does with `newline=""`: after LF, CR LF or CR, where a CR at the end of what was
read is undecided. `alone` is a history variable: nobody else changed the open file. A character is one byte.
A request is refused before it has a thread when its limit or its text is too large; the path is one that `resolve_path` accepted.

### ProcessOwner

What the pool relies on when it leaves a process to a client: `alive` are the processes that run or may
still start, `held` is what the client can still get at to clean up, `closing` is the `disconnect()` at
work or how the last one ended. At most one process runs; whatever runs is held, in every state; a
`disconnect()` that reports success holds nothing any more, so it left no process behind. A failing one keeps what it could
not clean up. What is `held` differs: the process and a pending spawn in all three, the terminals too in a native
client, the reader thread and the writers too in OpenCode's.

### OpenCodeTransport

`proc` and `process` (`_popen`) are as in `ClientTransport`. All that
happens under `_connect_lock` is one `job`: who holds the lock (`connect`, `disconnect`, the clean-up of a
lost process), in which part of a `connect()` it is (a disconnect before it, the spawn, the handshake, the disconnect
after a failure), and the step of `_disconnect_locked`. A thread that reads takes four actions per frame
(`ReaderStarts`, `Reads`, `LooksUp`, `Posts`): it looks up `_dispatch_queue` before it counts and posts,
and the process or the queue may have been replaced between any two of them. `ready` holds the callbacks of
`call_soon_threadsafe`, `inbox` what is in the queue; a queue is named by the process of its connection.
`Descendants` lets a descendant keep the pipe of a dead process open (`proc` = "held"), `SlowThreads` lets a thread outlive
the three seconds that the client waits for it. Assumed: `connect()` has one caller at a time, and after an
interrupted one its `disconnect()` comes first, as the pool has it. The host services and the futures of
requests are those of `HostRequests` and `PromptTurn` and are not repeated.

### CursorProcess, CursorStream

`CursorProcess`: `pc[c]` is where a caller stands, `queryLock` and `lifecycleLock` the two locks, `claim` the task that waits
for a process whose query gave up before it started. A query has one process, and may end by
its result, by an error, by its deadline or because its caller left, at every await.
`CursorStream` is how `query_stream` builds its text. `said` is what the agent said and `text` what the
consumer got; the `style` of the agent is the kind of events it writes: timestamped deltas with snapshots ("stamped"),
deltas ("plain"), all of its text each time ("legacy"), or any events in any order ("rogue").

### ClientTransport, HostRequests, PromptTurn, SessionState

Four views of one class, separated by the state they touch.
`ClientTransport`: `proc`, `process`, `readers`, `spawn`, `claim`, the three locks, and
one `job` per call of `_disconnect_locked` (from `connect`, from the task of
`disconnect`, from the clean-up of a lost process, from the claim of a late one).
`HostRequests`: `task[i]` is the stage of the task of request `i`, `asked[i]` what the agent knows of
it; the stages of `disconnect` appear as values of `link`.
`PromptTurn`: `wire` is what the agent wrote and the reader has not dispatched, `rpc` the request, `queue`
and `chunks` what the reader fills, `call` how far the consumer is.
`SessionState`: `session_id` is the property of that name, `view` the metadata the client keeps
of its session (`session_config_options`, `session_mode_state`, and usage, title and commands as
"facts"), each part the session it is of and how often the agent had changed it; `transition` is
`_session_transition_active` and `_session_transition_id`, `prev` in a `call` the snapshot of
`_begin_rpc_lifecycle`, `owns` says that `set_mode` still holds the client's mode object. A call that
was answered commits in a later step (`Completes`), because the reader only resolves its future and
may dispatch more before the task runs. `strays` is a history variable: the
parts that an update of the former session wrote while a change of session was under way.
`Disconnects` is `_disconnect_locked`, of a `disconnect()` or of the clean-up: it forgets the transition, while the call that holds the snapshot
gives it back later (`Fails`), or at once if the connect lock is held (`base_client.py:2450`), or commits what was answered before (`Completes`).
`query_stream` differs from `query` in how text is delivered, which is `PromptTurn`'s subject, and is left out here.

Assumed: an agent draws a request id again only once it was answered (drawing it
while the task exists is a protocol error and ends the reader, which is modelled); a
refusal written by the reader is one step, since the reader reads nothing else
meanwhile; the best-effort notification of an interrupted RPC ends no later than
its process; an agent's text precedes its response; a client reconnects only between prompts, and when no other call of the last connection is left. In `SessionState`
the agent handles requests in the order it reads them and ignores the bound session of a request it refuses; the run
lets new and resume happen only on a client that nobody uses meanwhile (`Concurrent = FALSE`), as the
pool does (`pool.py:402` is the one caller of `resume` outside the clients); what happens otherwise is under *Disagreements*.

## Runs

`PROJECT.json` lists the twelve runs of the project. Check one with
`tlc -workers 2 -config <cfg> <module>`.

| run | bounds | what it shows |
|---|---|---|
| `pool` | 2 callers, 3 clients, 1 session, 2 connections, 2 uses, 2 startup attempts, cross-session reuse, fresh and anonymous requests, every failure, no keepalive | no process is leaked, forgotten or beyond the limit; no entry is stranded; claims outlive transports; a shutdown that returns is complete; one lease per session, anonymous callers isolated (that the types are right is proved); `Pool` implements `SessionLease` |
| `pool_queue` | 3 callers, 1 connection, 1 session, keepalive, timeouts, failing connects and pings, shutdown | FIFO, no missed wakeup; under fairness waiters are served and `close_all` ends |
| `filecache` | 2 callers, 1 key, 4 task names, both modes, ttl 1, clock to 1, every event | `FileCache` implements `DurableMap`; what is reported is on disk; flushes end |
| `filecache_owed` (violated; `FileCache` with `FileCache_owed.cfg`) | no ttl, failing writes | see *Disagreements* |
| `store_migration` (`MCSessions`) | 1 provider, 2 tasks, 3 users (two share a legacy key), 2 sets, clock to 3, failures, malformed entries | nobody reads a foreign session, nor an older or cleared one, but for number 9 under *Disagreements*; a migration loses none |
| `session_turns` | 2 tasks, 1 user and anonymous calls, 2 sessions, 2 attempts, fallback, 4 calls | prompts once, conversations continue, resets stick, closing is for good, calls end |
| `terminals` | 2 callers, 2 terminals, limit 1 | the limit; a close that succeeds left no process; reservations end |
| `text_streams` | terminal: 3 chunks of up to 3 bytes, limits 0, 3 and 4; Cursor: 6 events (3 of a rogue), 2 pieces of text, limits of 5 events and 3 chunks; files: texts of up to 5 characters, pieces of 2, limits of 2 characters, 4 bytes and 2 lines, 1 change by others | terminal output is the longest whole-character suffix; a stream delivers every piece once and in order, and succeeds only with the whole text; a read returns exactly the lines asked for or fails, and works on the file it checked; owned work never outlives the wait for it, and no cancellation of the caller is lost |
| `host_requests` (`MCBaseClient_host`) | 2 requests, 2 tasks, 1 wait, 2 prompts and 2 connections, 3 together | one answer, on its own connection; permissions only for the prompt that asked; cancelled work is answered |
| `transport_ownership` (`MCClients`) | each kind of client: 2 callers (OpenCode: one), 2 processes, processes and terminals that resist; pipes of 1 frame, a backlog of 1, no slow threads, no descendants | all three implement `ProcessOwner`; no frame reaches, and no write is meant for, another connection than its own; the counter shared with the reader threads is exact; a clean-up never hits a later process |
| `prompt_turns` (`MCBaseClient_turns`) | 3 prompts, 2 chunks each | own text, no overlap, prompts end |
| `session_state` (`MCBaseClient_state`) | 2 tasks, 2 sessions, 4 calls, 1 message of the agent's own | the client's session is the agent's whatever failed; metadata is of the session it is shown for, once a change of session is committed or restored; answers are whole |

Why the bounds suffice. The races of this code are between two tasks that share one
object, often with a third that closes it: two callers and the background
tasks (keepalive, close, debounce, clean-up, late spawn), which are always there, make
all of them. Three callers are needed only for the order of the queue.
Two processes are enough for a client, since what could be confused is
the present one and a former one; a name is used again once nothing refers to it, so any number of connections
follow each other. One frame in a pipe and a backlog of one put the limit, the error that reports it and
what a thread holds between two steps within a few steps of each other. Three clients let one close, one be unreaped and one be created at a limit of
two. A session and none (or two, in `MCPoolLease_more` and `SessionState`) tell "mine" from "somebody else's"; two uses, attempts and
prompts reach the boundary and pass it. `MaxTime`, `MaxSets`, `MaxCalls`, `MaxTurns`,
`MaxLinks`, `MaxEpochs`, `MaxText`, `MaxChunks`, `MaxEvents`, `MaxRogue`, `MaxNews`, `MaxChanges` and `Frames` are the only bounds that the code does not have;
they cut runs short and no property mentions them.
Every property is known to be breakable: for each, `PROJECT.json` names a mutant of a modelled
definition, defined above the original in its module, under which TLC finds it violated.

`CHECK_DEADLOCK FALSE` is set where a system may really stop: when the bounded calls
are used up (`ManagedSession`, the models of `MCTextStreams`), when a service was closed
(`TerminalService`), when no connection is left (`HostRequests`). `FileCache`, `Pool`, `SessionStore`,
the three clients, `PromptTurn` and `SessionState` are checked for deadlock
(the last has a step `Done` for the end of its bounded calls).

### Further instances

These are kept for changes of the modules they instantiate; they check properties
the runs above leave out.

| cfg | checks |
|---|---|
| `MCPoolLease_more` | two sessions and every request: `SessionOwnedOnce`, `OneHolder`, `LeasedSessionsDiffer`, `IdleBounded` without keepalive, `YieldMatchesRequest`, `RefinesLease` |
| `FileCache_live` | with a debounce and no failing writes, ttl 0 and 1: type, `SaveOwed`, `OneSaver`, `CleanIsDurable`; `DirtySaved`: every change reaches the disk |
| `HostRequests_live` | `CloseEnds`, `AnsweredUnlessCancelled` |
| `ClientTransport_live`, `CursorProcess_live` | `CallsReturn`: calls of these clients end |
| `OpenCodeTransport_live` | `LossNoticed`: a connection whose process is gone does not go on counting as up; `JobsEnd`: connects and disconnects end |

Every module has a `TypeOK`, and some have more properties than the runs list, mostly parts of the ones that are there or
weaker views of the same behaviour. They are checked by putting them into a cfg of the module: `QueueExact`, `OnlyHeadAwake`,
`EntryAttended`, `OneHolder`, `NoLeaseAfterClose` and `AcquireReturns` into `MCPool_queue` (which has the keepalive); `EveryProcessOwned`, `ConnectedRead`, `NoneLeaked`, `OneProcess` and `DisconnectTrue` into
`ClientTransport_live` (with `MayFail` TRUE and a second caller); `ImplementsOwner` and `ReadersOwned` into the `_live` cfgs of the
other clients; `EveryProcessOwned` and `CloseReturned` into `TerminalService`; `DeadlineRetires` into `MCBaseClient_turns`;
`TurnOwnsMapping` and `AttemptBudget` into `ManagedSession`.
Of these, `EntryAttended`, `OneHolder`, `NoLeaseAfterClose`, `LeasedSessionsDiffer`, `YieldMatchesRequest`, the `EveryProcessOwned` of the
terminals, `AnsweredUnlessCancelled`, `DeadlineRetires`, `TurnOwnsMapping` and `AttemptBudget` are proved as well.

### Fairness

Fairness says only what the event loop and the operating system give: a task that can
run runs, a call of the operating system returns, a deadline passes.

- `Pool`: weak fairness of each task's steps; strong fairness of `CheckoutTakes`,
  because the keepalive may take an idle client and give it back between a wakeup
  and the moment the woken waiter runs, again and again, but not at each of its runs for ever.
- `FileCache`: weak fairness of a caller that has queued, of debounce tasks, of the writer.
- `ManagedSession`: weak fairness of turns and of the close task; none of callers' decisions.
- `TerminalService`: strong fairness of steps that need a lock
  (`asyncio.Lock` is FIFO, so a step that is enabled again and again gets it), weak of the others.
- `HostRequests`: weak fairness of task starts, unwinding, replies and clean-up; none of a service
  that is not cancelled (a wait for a terminal may last for ever).
- `ClientTransport`, `CursorProcess` (in `_live`): as `TerminalService`; every wait of a Cursor query has a deadline.
- `OpenCodeTransport` (in `_live`): weak fairness of the job that holds the lock, of the loop and of threads, strong of
  who waits for the lock. A write to a process that lives is given none: it may block on a full pipe for ever.
- `PromptTurn`: weak fairness of the call, of deadlines and of the end of a retired
  transport; none of the agent or of the consumer of a stream.

## Disagreements

`filecache_owed` shows one as a run; the other instances each show one. The first ten were
reproduced by running the code.

1. `filecache_owed` (`SaveOwed`): a mutation applied between a failed
   debounced write and the end of its task (`cache.py:315`) is never scheduled.
2. `MCPoolLease_more.cfg` with `Keepalive = TRUE` (`IdleBounded`): the keepalive takes idle clients out of the
   count that `_finish_release_entry` compares with `pool_size` (`pool.py:547`), so more than
   `pool_size` stay idle; `pool.py:62` says "`pool_size` limits retained idle clients".
3. `MCPoolLease.cfg` with `CloseErrorTrue` in place of its properties: once `close_all` failed for a leased transport, later
   ones raise the same error after it was reaped (`pool.py:787`); `README.md:849-851`
   says a later `close()` retries.
4. `ManagedSession_flush.cfg` (`CloseFlushes`): what a late turn or reset changes after the
   flush of the first `close()` is not flushed by a later one (`session.py:413`).
5. The same as 3 in the terminal service (`terminal_service.py:255`): `TerminalService.cfg` with `Limit = 2` and
   `CloseErrorTrue` in place of its properties.
6. `HostRequests_live.cfg` with `Answered` in place of its properties: a request cancelled before its task took a step is
   never answered (`base_client.py:2867`); `README.md:822-824` promises code -32800.
7. `ClientTransport_live.cfg` with `LostReaped` in place of its property: the loss of a transport schedules no clean-up while that
   of an earlier one waits for the connect lock (`base_client.py:2179`).
8. `PromptTurn_eof.cfg` (`AnsweredCompletes`): when the output ends right after the response to a stream, the
   stream raises `ConnectionError` after yielding the whole answer (`base_client.py:2746`); `query` returns it.
9. `MCSessions.cfg` with `NeverOlder` in place of its properties: a `set()` that is interrupted between its two cache operations
   (`session_store.py:113-116`) leaves the legacy mapping beside the new one, and a `clear()` interrupted between its own (`127-130`) uncovers it,
   so `get` returns a session older than the one stored last. The comments promise nothing of failed operations; `ReadsTrue`, which holds,
   excepts exactly this case (`torn`).
10. `MCBaseClient_state.cfg` with `OwnAtOnce` in place of its properties and `MaxCalls` 2: when a `session/load` fails after updates of the new session came,
    `_disconnect_locked` forgets the transition (`base_client.py:2021-2022`) and the former metadata comes back only with the `finally` of `_rpc` (line 2594), which
    waits for the whole clean-up: until then a disconnected client with the former session and no transition shows the metadata of the other one.
    `README.md:547-552` says that it is cleared with the session and restored if the transition fails, not when. `OwnMetadata`, which
    holds, speaks of the time when the snapshot is back.

The next ones are properties of `SessionState` that do not hold. Each is found with `MCBaseClient_state.cfg` after
replacing its properties by the one named and its constants by those given
(they were found by TLC and by reading the code; 13 was reproduced by running it as well):

11. `NothingForeign` (`MaxCalls` 2): an update of the former session that is dispatched while session/load is under way
   is stored into the cleared metadata and kept for the new session (`base_client.py:2883` admits both ids);
   `README.md:547-552` says that metadata is cleared with the session it is of. `OwnMetadata`, which holds, excepts exactly these.
12. `ModeTracks` (`MaxCalls` 2): `set_mode` writes its mode after the await (`base_client.py:1128`), over a newer
    `current_mode_update`; `README.md:547` says the state tracks the current selection.
13. `CurrentAccepted` (`MaxCalls` 1): an update of the session just created that arrives before `session/new` has completed belongs
    to no known session and ends the connection (`base_client.py:2883`).
14. `ActiveKept` (`Concurrent` TRUE, `MaxCalls` 3, `MaxNews` 0): `delete_session` tests the active session before its await, so it may delete the
    one a concurrent `resume` makes active (`base_client.py:1055-1062`).
15. `IdentityAgrees` (`Concurrent` TRUE, 3, 0): a `close_session` that completes during a `resume` that is then refused is undone by the snapshot.
16. `OwnMetadata` (`Concurrent` TRUE, 4, 0): the response to a `set_config_option` of the former session is stored during a change of session.
17. `AnswerWhole` (`MaxCalls` 3): a prompt that was answered while another call's timeout had retired the connection returns without the
    text the reader dropped (`base_client.py:2850` ignores updates then); `WholeAnswer`, which holds, asks for a connection that is up.

The last two are about OpenCode's threads:

18. `OpenCodeTransport_slow.cfg` (`OwnConnection`; `ReadersOwned` too): a `disconnect()` fails when the reader thread outlives the wait for it, and
    keeps the thread; but the `connect()` after it looks only at the process and the writers
    (`opencode_client.py:114-119`) and replaces `_reader_thread` (line 187), so the old thread goes on and posts what it reads to
    the new connection. `README.md:855-858` says "a delayed callback from a disconnected transport cannot enter a replacement transport generation".
19. `OpenCodeTransport_live.cfg` with `Descendants` TRUE (`JobsEnd`): `_terminate_popen` closes stdout (lines 298-301) before the reader thread is
    waited for, and closing waits for the lock that `readline()` holds while a descendant of the agent keeps the pipe; `disconnect()` then has no bound.
    Reproduced by running the code; `README.md:853-855` promises as much for requests ("an inherited stdout
    pipe cannot hold a request until its full configured deadline") and leaves `disconnect()` open.

## Proofs

`PoolProofs` proves, for any finite sets of callers and clients, any sessions and requests
and any limits that satisfy the named ASSUMEs of `Pool`:

- `TypeCorrect`: `Spec => []TypeOK`. In particular no client exceeds `pool_max_uses`
  and no startup `pool_startup_attempts`. The strengthening `TypeInv` adds that a caller in a state that holds
  a client has one, that one in backoff has an attempt left, and that `creating` counts the creators.
- `CreatingCorrect`: the creation counter is the number of callers inside `_create_client`.
- `CapacityCorrect`: live processes never exceed `pool_max_connections`. This is not inductive, and the
  obvious strengthening "`Reserved` is within the limit" is false: a failed creator
  keeps its slot while its dead client is unreaped as well. `CapacityInv` bounds instead the number of occupants (tracked and
  unreaped clients) that are no creator's client plus the number of creators: a creator and its client share one slot.
- `OwnershipCorrect`: a live process belongs to an entry, to the unreaped set or to its creator.

`TypeStep`, `QuietSteps` and `CapacityStep` have one step per action; facts about the queue,
the counter and the sets of occupants are lemmas before them. `QueueLemmas` has what several proofs need of
sequences: which elements are left, in which order and how often, after an append or after the first occurrence
of one was removed.

The second half of `PoolProofs` goes on from there to who owns what, under the same assumptions. Its invariant is
`PoolInv`, and `PoolStep` shows that every step keeps it, conjunct by conjunct:

- `CapacityInv`; `LeaseInv`, a client is in one hand at most (`OneHand`); `EntryInv`, an entry has the task, the claim and the attention that its state
  calls for (`EntriesAttended`). `LeaseKept` and `EntryKept` are by action.
- `SessionOwnedOnce` (`SessionsOwned`). Only ten kinds of steps touch an owner or a claim (`StillSteps`); they do one of five
  things to a claim, each a lemma on sets of owners: an entry takes it, an entry gives it up, a creator reserves it, a creator returns it, a creator passes it to the entry
  it made (`ClaimTaken`, `ClaimDropped`, `ClaimReserved`, `ClaimReturned`, `ClaimPassed`). The last is the delicate one: the creator had no
  session of its own, or the entry has claimed the same.
- `QueueInv`, the queue holds exactly the callers that wait, once each; with it `ServedInOrder`.
- `NoMissedWakeup` (`HeadAwake`). A step either wakes the head, or makes what there is to be given no
  more (`Scarcer`): `WakeStep` sorts the actions, `NothingStill` shows that scarcity cannot end a wait.
- `ShutInv`, a `close_all` that returned left nothing and one that began woke everybody (`ShutdownComplete`, `NoneAfterClose`).
- `PrepareInv`, a client that is being prepared is claimed for the session that was asked for, and is one that may be
  (`AnonymousIsolated`, `YieldsMatch`). `LeasesDiffer` and `ClaimsLast` follow from the whole.

`LeaseRefined` proves `Spec => RefinesLease`: the pool implements `SessionLease`. The mapping says that a session is with the creator that reserved it
or with the user of the entry that claims it (`Creates`, `Uses`). A step keeps these, lets a session move to its next state, or
gives one to a caller that had none (`Kept`, `Moved`, `Given`); each such move is a step of `SessionLease` (`LeaseMoves`, `ShutStep`). That no two
callers map to the same session is `SessionOwnedOnce` and `LeaseInv`.

`FileCacheProofs`, for any callers, keys, values, ttls and settings: `MapRefined`, the refinement of `DurableMap`, `ReportsHold`, `CleanSaved`, `SaverKnown` and
`CacheTypes`. `QueueInv` says that the queue of the lock holds exactly who is at a step that needs it, and `WriteInv` that the thread
writes for the head of that queue alone; so nobody changes the map during a write, and what is on disk when a write ends well is
the map. `CleanIsDurable` is inductive only beside it, since a write that fails or is under way must leave the cache dirty; it survives the clock because
what has expired stays expired. `JoinInv` keeps `OneSaver` true through `flush()`, which forgets the task it has waited for, and that
task only when it has ended.

`TerminalServiceProofs`, for any callers, terminals and `Limit`: `LimitHolds`, `CloseLeavesNothing`, `NoProcessForgotten` and `TerminalTypes`.
The limit is not inductive: what `create()` counts (records and reservations) is not what runs. `PlaceInv`
bounds the places, the terminals with a record, with a late process or with a `create()` that has the lock; only `create()`
takes a place, and since it holds the lock nobody else's is uncounted (`PlacesMove`, `PlaceTaken`). `JobInv` says what the outcome of a job
still stands for when its caller sees it; `CloseInv` that after the lock nobody creates and all that is left
is claimed by tasks the close task awaits.

`BaseClientProofs`, for any limits, tasks, prompts, sessions and connections, has a part for each model of `MCBaseClient`.

- Host requests (`HostSpec`, any ids): `AnswersHold`, `AnsweredHolds`, `GrantsInTurn` and `HostTypes`, which includes the two limits. `HostReplyInv`
  relates the task that may write to the answer that was written, `HostLinkInv` the connection to the tasks it may have, `HostTurnInv` the turn
  a permission came with to the one that decides; `TaskSteps` reduces the steps of a task to those that write and those that only move on.
- Prompts (`TurnSpec`, answers of any length): `AnswersOwn`, every caller has a beginning of its own answer and all of it when the prompt ended well, and
  `DeadlinesRetire`. The answer is in five places at once: written by the agent, on its way, in `_chunks`, in the queue of the stream, with the consumer.
  `TurnInv` says how these fit together: what was accepted and then what is on its way is what was sent (`Joined`); the queue holds what was accepted and not yet yielded, then sentinels, and a
  sentinel only after the end of the request (`Queued`); only the prompt under way has anything on its way, and one whose
  request timed out has no connection that still accepts (`Wired`, `Requested`, `Works`).
- The session (`StateSpec`, any number of calls, of tasks and of sessions): `IdentitiesAgree` (`IdentityAgrees`), `MetadataOwn` (`OwnMetadata`) and
  `AnswersWhole` (`WholeAnswer`), if `~Concurrent`, that is, when a change of session is made on a client that nobody uses meanwhile; otherwise the
  first two are false (numbers 15 and 16 under Disagreements). None is inductive; `StateInv` is. `Staged`, `Apart` and `Changing` tie a
  call's stage, the lock and the transition together: a snapshot is held exactly while a transition is served, and is of the session the
  client still has; the client knows of the transition until it disconnects. Over a connection that is up, every call that waits has one thing under way, its request, its prompt or its answer, and
  nobody else has any (`Tokens`), which is of that call (`Matched`); `Metadata` speaks of the snapshots as well, since a refusal brings
  them back, and of what the client shows while one is held, since an answer that came before the end may still commit it; `Agrees` says what the agent's session is at each stage of a transition or of a close, before the client knows (`Bearing`, `ClosedBy`); `Texting`
  counts: what was accepted and what is on its way is what the agent sent, all of it of the one call that makes the agent write, and before its answer.
  First each action is reduced to what it does to these parts (`Wrote`, `Queues`, `Ended`, `GaveUp`, `LostAll`, `Handled`, `Takes` and the like, one lemma for each
  action), and each part is then shown to outlive each of these.

`ManagedSessionProofs`, for any users, providers and budget of attempts: `PromptedOnce`, `Continues`, `MappingOwned`, `BudgetKept`,
`ClosedIsTheEnd`, `ResetHolds` and `SessionTypes`. The line of a user is the heart: it holds that user's calls, and only its head
goes on (`LineInv`), so a turn that is past the line meets no other and what it has read of the mapping is still true
(`NobodyOvertaken`; `stale = {}`: no reset has overtaken a turn). `TurnsInv` relates step, attempts made and attempts
left: a session found stale costs one attempt more, once (`Spent`).

Its last part is about the session store (`StoreSpec`), for any users, providers, collisions of legacy keys and ttl: `ReadsHold` (`ReadsTrue`), nobody reads an older, cleared or
foreign session but in the case of `torn`, and `MigrationHolds` (`MigrationKeeps`), a migration never loses the mapping it moves. Operations on several providers at once, which the one
provider of the run does not have, are included. `floor` is the newest session promised to a user, and what makes this inductive is `StoreInv`. An entry is its user's, under a legacy key
of one of the users that have it (`Owned`; what is read under such a key is unambiguous). Each mapping is at its promise or past it, or not there (`Newest`), and a new entry lives
longer than the legacy one beside it, so one that has expired never uncovers an old one (`DeadHides`); what lies under the promise is a
legacy mapping with `torn` set: covered by the new entry after a `set` that ended half way, readable after a `clear` that did so as well. An interruption
neither lowers `floor` nor resets `torn`, so a promise of before holds after it.
`Knows` says what a task has found out at each step. Every step but the clock is a task's, at the mapping it works on; the others are left as they are.

`ClientProofs`, for any callers, processes and frames, any backlog limit, whether or not clean-up may fail, threads be late or
descendants keep a pipe, proves all that `transport_ownership` checks (of OpenCode: with the one caller that its model has):

- `ClientsKeepContract`: `ClientsSpec => RefinesOwner`. What a client shows of itself before and after a step (`Safe`) and the five kinds of
  moves that the contract allows (`Moves`) stand between the clients and `ProcessOwner` (`MovesAllowed`). For each kind there is
  an inductive invariant, a lemma that it gives `Safe`, one that a start happens only while nothing can run (`...Launches`),
  one that a `disconnect()` that succeeds has left nothing (`...Closes`), and one for all steps (`...Moves`).
- The invariants. Cursor (`CursorInv`): whoever starts or reaps a process holds `_lifecycle_lock`; a spawn that is not a query's has its claim,
  so `disconnect()`, which waits for claims, meets none once it has the lock. Native (`NativeInv`): a lock is held by exactly
  who is in the code it guards; who disconnects is there for it; what runs is `process` or the pending spawn; and `NativeDoneInv`, a
  `_disconnect_locked` that has not failed leaves none of what it has dealt with so far, terminals included, since no
  terminal is made once the connection is given up. OpenCode (`OpenCodeInv`): the record of the job agrees with who is at work,
  and `StepInv` says the same of its steps (process, then writers, then the reader).
- `BacklogCounted`: `BacklogExact`. `CountInv` includes a queue that was dropped while its callbacks were still in the loop; `PostInv` that a
  thread posts only to a queue it has seen.
- `LaterTransportsKept`: `CleanupKeepsLater`. Inductive with one more fact: while the clean-up is at work, a pending spawn is one
  that its claim has already made the client's.
- `ConnectionsOwn`: `OwnConnection`, if no thread outlives its wait (`~SlowThreads`; with slow ones it is false:
  number 18 under Disagreements). `ThreadInv`: only the thread that the client knows runs, and it is that of the process or of one being disconnected;
  `AloneInv`: while a connection is up, threads and callbacks are its own, which nothing else keeps true once a new connection begins.

`TextStreamProofs`, for any texts, pieces and limits:

- `StreamsWhole`: what the consumer of a Cursor stream has got is a beginning of what the agent said, all of it when the
  stream succeeds, and an agent that keeps to one of the three documented styles is never refused. `InStep` finds the invariant in the
  events on the wire: there are marks `m[0] <= m[1] <= ...`, from what was yielded to all that was said, such that the i-th event tells the text from `m[i-1]` to `m[i]`, in whichever form its
  style has. Whatever the agent writes adds a mark at the end, and whatever the client reads takes the first one off; a snapshot
  repeats and moves no mark. The result is the last event and carries everything (`ResultLast`).
- `WaitsToTheEnd`: a wait for owned work ends after the work and loses no cancellation, however many come and at whatever
  moments; also when the work is the thread of a file request (`FilesInv`). `OwnedToTheEnd` speaks of the end alone; `AwaitInv` says
  what leads there: a cancellation is about to be raised or is kept, and a caller gives up only when cancelled or too late.

Assumptions on the constants: most keep names apart (`None`, `Free`, `Nobody`, `NoSession`, `NoClient` are no
members of the sets they complete; `NamesAssumption` says the same of `None` where it stands for no metadata and no snapshot; no caller of a client is called as the other holders of its locks are; tasks have one caller); the others give limits and bounds their types
(`LimitAssumption`, `BudgetAssumption`, `LimitsAssumption`, `BoundsAssumption`, `ClockAssumption`); `OwnersAssumption` is what `SessionStore` assumes of keys. Only the
callers of the pool and of the cache, the clients and the debounce tasks are assumed finite, since their number is counted. `SaversAssumption` gives the cache two
identities of tasks more than it has callers: a task, an object in the code, is always a new one, and the model, which
uses identities again, must find one to which neither the cache nor a caller refers. The cuts (`MaxCalls`, `MaxTurns`, `MaxLinks`, `MaxEpochs`) are
arbitrary numbers in every theorem, so each holds for runs of any length.

Only model-checked: every liveness property (outside the prover's reach), and one invariant: `HostTextTrue` of the
terminals and files, which is about what recursive functions of the text compute and needs an induction over data. No
module declares a RECURSIVE operator.

## Not modelled

- The handshake of `base_client.py` (initialize, authenticate, logout, the model a client is configured with): `ClientTransport`
  has it as one step that may fail.
- Of `opencode_client.py`: requests and their futures (they follow `PromptTurn` and `SessionState`), host services, stderr, the
  environment. Of `cursor_client.py`: command line, environment, the drain of its pipes (an end of the query that may come at any time), JSON.
- Of `fs_service.py`: listing, `exists` and `stat`, which no request of an agent reaches; `path_utils.py`.
- `MemoryCache` (LRU bound), backoff and the classification of errors in `retry.py`.
- Provider adapters, configuration, errors, telemetry, privacy: pure functions of their input and
  thin subclasses; no state that the parts above read.
- Inside modelled parts: validation of protocol objects, formatting, statistics, the resolution of
  paths and environments, the search for descendant processes.

## Plan

Done, in this order: `Pool` with `SessionLease` and the first proofs; `FileCache` with
`DurableMap`; `SessionStore`; `ManagedSession`; `TerminalService` and `TerminalOutput`; `ClientTransport`,
`HostRequests`, `PromptTurn`, `SessionState`; `OpenCodeTransport`, `CursorProcess` and `CursorStream` with `ProcessOwner`; `OwnedAwait` and `FileService`.

Next:

1. The handshake of `base_client.py`: authentication and the configured model.
2. `MemoryCache` and the backoff of `retry.py`.
3. A composition of `ManagedSession` with `SessionLease` in place of its inlined promise.
