----------------------------- MODULE FileCache ------------------------------
(***************************************************************************)
(* FileCache (src/src/soulacp/cache.py): a map kept in memory and saved as *)
(* one JSON file, at once or by a debounce task, with an owned flush.      *)
(*                                                                         *)
(* Every access to the map holds an asyncio.Lock, which is granted in the  *)
(* order of the requests: "lock" is that queue and its head the holder.    *)
(* The holder runs from one await to the next in one action; the awaits of *)
(* set() that precede its mutation hold the lock and change nothing, so    *)
(* they are part of it.  The write itself happens in a thread while the    *)
(* holder waits.  A free lock is taken without an await in the code; the   *)
(* model lets others queue or cancel in between, which only adds           *)
(* behaviours.                                                             *)
(***************************************************************************)
EXTENDS Naturals, FiniteSets, Sequences, SequencesExt

CONSTANTS
    Callers,     \* tasks that call get, set, delete, exists or flush
    Savers,      \* identities of debounce tasks
    Keys, Values,
    Absent,      \* no entry for a key
    NoTask,      \* None, for a task
    Modes,       \* settings of debounce_seconds > 0
    TTLs,        \* the ttl arguments in use
    MaxTime,     \* bound on the clock
    Events       \* what the environment may do

EventKinds == {"fail", "large", "cancel", "crash", "flush"}

ASSUME TaskAssumption ==
    /\ Callers \cap Savers = {} /\ NoTask \notin Callers \cup Savers
    /\ IsFiniteSet(Callers) /\ IsFiniteSet(Savers)
\* A task has an identity that nobody else refers to: not the cache, which knows
\* one task, nor the callers, each of which waits for one.
ASSUME SaversAssumption == Cardinality(Savers) > Cardinality(Callers) + 1
ASSUME TimeAssumption == MaxTime \in Nat /\ TTLs \subseteq Nat
ASSUME ModeAssumption == Modes \subseteq BOOLEAN /\ Events \subseteq EventKinds

VARIABLES
    debounced,   \* debounce_seconds > 0
    data,        \* _data
    disk,        \* the contents of the file
    snap,        \* what the last started write contains
    writer,      \* the thread that writes it
    dirty,       \* _dirty
    lock,        \* _lock
    saveTask,    \* _save_task
    sv, failed,  \* per debounce task: where it is, its local "failed"
    \* Per caller: where it is, what it does, whether its cancellation is
    \* pending, and the debounce task its flush found.
    pc, op, cancelled, joined,
    now

saverVars == <<saveTask, sv, failed>>
callerVars == <<pc, op, cancelled, joined>>
\* What the cache itself never changes.
envVars == <<debounced, now>>
vars == <<data, disk, snap, writer, dirty, lock, saverVars, callerVars, envVars>>

\* expire_at is 0 for an entry that never expires.
Entries == [val : Values, until : Nat]
Maps == [Keys -> Entries \cup {Absent}]
Ops == [kind : {"get", "delete"}, key : Keys]
       \cup [kind : {"set"}, key : Keys, val : Values, ttl : TTLs]
NoOp == [kind |-> "none"]
Resting == {"out", "raised"}
Flushing == {"flush", "joining", "flushwant", "flushing"}

\* Every variable keeps its type; in particular no task queues twice for the
\* lock, where it would wait for itself.
TypeOK ==
    /\ debounced \in Modes
    /\ data \in Maps /\ disk \in Maps /\ snap \in Maps
    /\ writer \in {"idle", "busy", "saved", "failed"}
    /\ dirty \in BOOLEAN
    /\ lock \in Seq(Callers \cup Savers) /\ IsInjective(lock)
    /\ saveTask \in Savers \cup {NoTask}
    /\ sv \in [Savers -> {"sleep", "want", "writing", "unwinding", "fin", "done"}]
    /\ failed \in [Savers -> BOOLEAN]
    /\ pc \in [Callers -> Resting \cup Flushing \cup {"want", "writing"}]
    /\ op \in [Callers -> Ops \cup {NoOp}]
    /\ cancelled \in [Callers -> BOOLEAN]
    /\ joined \in [Callers -> Savers \cup {NoTask}]
    /\ now \in Nat

Empty == [k \in Keys |-> Absent]

Init ==
    /\ debounced \in Modes
    /\ data = Empty /\ disk = Empty /\ snap = Empty
    /\ writer = "idle" /\ dirty = FALSE /\ lock = <<>>
    /\ saveTask = NoTask
    /\ sv = [s \in Savers |-> "done"] /\ failed = [s \in Savers |-> FALSE]
    /\ pc = [p \in Callers |-> "out"] /\ op = [p \in Callers |-> NoOp]
    /\ cancelled = [p \in Callers |-> FALSE] /\ joined = [p \in Callers |-> NoTask]
    /\ now = 0

-----------------------------------------------------------------------------
(* Helpers *)

Holds(t) == lock # <<>> /\ Head(lock) = t

\* _load drops an entry in the very second it expires, get only after it.
Expired(e) == e # Absent /\ e.until # 0 /\ now > e.until
Current(map) ==
    [k \in Keys |-> IF map[k] # Absent /\ map[k].until \notin {0} /\ map[k].until <= now
                    THEN Absent ELSE map[k]]

\* The next debounce task; its identity is that of one nobody refers to.
Fresh == CHOOSE s \in Savers \ {saveTask} : sv[s] = "done" /\ \A p \in Callers : joined[p] # s

\* Mutant of Saving: a task past its sleep does not count.
SavingAsleep == saveTask # NoTask /\ sv[saveTask] = "sleep"
Saving == saveTask # NoTask /\ sv[saveTask] # "done"

\* The caller returns or raises.
Leave(p, how) ==
    /\ pc' = [pc EXCEPT ![p] = how]
    /\ op' = [op EXCEPT ![p] = NoOp]
    /\ cancelled' = [cancelled EXCEPT ![p] = FALSE]
    /\ joined' = [joined EXCEPT ![p] = NoTask]

\* _persist_locked: a copy of the map goes to the writing thread.
StartWrite == writer' = "busy" /\ snap' = data'

\* A debounce task starts.
StartSaver ==
    /\ saveTask' = Fresh
    /\ sv' = [sv EXCEPT ![Fresh] = "sleep"]
    /\ failed' = [failed EXCEPT ![Fresh] = FALSE]

-----------------------------------------------------------------------------
(* get, exists, set and delete *)

Call(p) ==
    /\ pc[p] \in Resting
    /\ \E o \in Ops : op' = [op EXCEPT ![p] = o]
    /\ pc' = [pc EXCEPT ![p] = "want"]
    /\ lock' = Append(lock, p)
    /\ UNCHANGED <<data, disk, snap, writer, dirty, saverVars, cancelled, joined, envVars>>

Changes(o) ==
    \/ o.kind = "set"
    \/ o.kind = "delete" /\ data[o.key] # Absent
    \/ o.kind = "get" /\ Expired(data[o.key])

Applied(o) ==
    IF o.kind = "set"
    THEN [val |-> o.val, until |-> IF o.ttl = 0 THEN 0 ELSE now + o.ttl]
    ELSE Absent

\* Nothing to change: a read, or a delete of an absent key.
Lookup(p) ==
    /\ pc[p] = "want" /\ Holds(p) /\ ~Changes(op[p])
    /\ lock' = Tail(lock)
    /\ Leave(p, "out")
    /\ UNCHANGED <<data, disk, snap, writer, dirty, saverVars, envVars>>

\* The serialised map with the new value would be too large.
Reject(p) ==
    /\ "large" \in Events /\ pc[p] = "want" /\ Holds(p) /\ op[p].kind = "set"
    /\ lock' = Tail(lock)
    /\ Leave(p, "raised")
    /\ UNCHANGED <<data, disk, snap, writer, dirty, saverVars, envVars>>

\* With a debounce the caller returns at once, and a debounce task is started
\* unless one is not done yet; without it the caller waits for the write.
Mutate(p) ==
    /\ pc[p] = "want" /\ Holds(p) /\ Changes(op[p])
    /\ data' = [data EXCEPT ![op[p].key] = Applied(op[p])]
    /\ dirty' = TRUE
    /\ \/ /\ debounced
          /\ IF Saving THEN UNCHANGED saverVars ELSE StartSaver
          /\ lock' = Tail(lock)
          /\ Leave(p, "out")
          /\ UNCHANGED <<snap, writer>>
       \/ /\ ~debounced
          /\ StartWrite
          /\ pc' = [pc EXCEPT ![p] = "writing"]
          /\ UNCHANGED <<lock, saverVars, op, cancelled, joined>>
    /\ UNCHANGED <<disk, envVars>>

\* A caller cancelled in the queue, or before its mutation, lets the lock go;
\* one that waits for a write or a flush waits on and is cancelled afterwards.
Cancel(p) ==
    /\ "cancel" \in Events
    /\ \/ /\ pc[p] = "want"
          /\ lock' = RemoveFirst(lock, p)
          /\ Leave(p, "raised")
       \/ /\ pc[p] \in Flushing \cup {"writing"}
          /\ cancelled' = [cancelled EXCEPT ![p] = TRUE]
          /\ UNCHANGED <<lock, pc, op, joined>>
    /\ UNCHANGED <<data, disk, snap, writer, dirty, saverVars, envVars>>

-----------------------------------------------------------------------------
(* _save_snapshot, in its thread, and the end of _persist_locked *)

\* The temporary file replaces the old one as a whole.
Write ==
    /\ writer = "busy"
    /\ disk' = snap /\ writer' = "saved"
    /\ UNCHANGED <<data, snap, dirty, lock, saverVars, callerVars, envVars>>

WriteFail ==
    /\ "fail" \in Events /\ writer = "busy"
    /\ writer' = "failed"
    /\ UNCHANGED <<data, disk, snap, dirty, lock, saverVars, callerVars, envVars>>

\* Mutant of Settle: a failed write counts as done.
SettleAlways == writer \in {"saved", "failed"} /\ writer' = "idle" /\ dirty' = FALSE
Settle == writer \in {"saved", "failed"} /\ writer' = "idle" /\ dirty' = (writer = "failed")

\* Mutant of PersistEnd: a failed write is reported only to cancelled callers.
PersistEndQuiet(p) ==
    /\ pc[p] \in {"writing", "flushing"} /\ Settle
    /\ lock' = Tail(lock)
    /\ Leave(p, IF cancelled[p] THEN "raised" ELSE "out")
    /\ UNCHANGED <<data, disk, snap, saverVars, envVars>>
PersistEnd(p) ==
    /\ pc[p] \in {"writing", "flushing"} /\ Settle
    /\ lock' = Tail(lock)
    /\ Leave(p, IF writer = "failed" \/ cancelled[p] THEN "raised" ELSE "out")
    /\ UNCHANGED <<data, disk, snap, saverVars, envVars>>

-----------------------------------------------------------------------------
(* _debounced_save *)

SaverWake(s) ==
    /\ sv[s] = "sleep"
    /\ sv' = [sv EXCEPT ![s] = "want"]
    /\ lock' = Append(lock, s)
    /\ UNCHANGED <<data, disk, snap, writer, dirty, saveTask, failed, callerVars, envVars>>

\* Mutant of SaverWrite: the lock is released before the write.
SaverWriteUnlocked(s) ==
    /\ sv[s] = "want" /\ Holds(s) /\ dirty
    /\ sv' = [sv EXCEPT ![s] = "writing"]
    /\ lock' = Append(Tail(lock), s)
    /\ UNCHANGED data /\ StartWrite
    /\ UNCHANGED <<disk, dirty, saveTask, failed, callerVars, envVars>>
SaverWrite(s) ==
    /\ sv[s] = "want" /\ Holds(s) /\ dirty
    /\ sv' = [sv EXCEPT ![s] = "writing"]
    /\ UNCHANGED data /\ StartWrite
    /\ UNCHANGED <<disk, dirty, lock, saveTask, failed, callerVars, envVars>>

\* Somebody else wrote: straight to the finally clause, which locks again.
SaverClean(s) ==
    /\ sv[s] = "want" /\ Holds(s) /\ ~dirty
    /\ sv' = [sv EXCEPT ![s] = "fin"]
    /\ lock' = Append(Tail(lock), s)
    /\ UNCHANGED <<data, disk, snap, writer, dirty, saveTask, failed, callerVars, envVars>>

\* The lock is released between the write and the finally clause.
SaverWritten(s) ==
    /\ sv[s] = "writing" /\ Settle
    /\ failed' = [failed EXCEPT ![s] = @ \/ writer = "failed"]
    /\ sv' = [sv EXCEPT ![s] = "fin"]
    /\ lock' = Append(Tail(lock), s)
    /\ UNCHANGED <<data, disk, snap, saveTask, callerVars, envVars>>

\* A cancelled task reaches its finally clause.
SaverUnwind(s) ==
    /\ sv[s] = "unwinding"
    /\ sv' = [sv EXCEPT ![s] = "fin"]
    /\ lock' = Append(lock, s)
    /\ UNCHANGED <<data, disk, snap, writer, dirty, saveTask, failed, callerVars, envVars>>

\* A mutation made meanwhile starts the next task, unless this one failed.
\* Mutant: it never does.
SaverFinishQuiet(s) ==
    /\ sv[s] = "fin" /\ Holds(s)
    /\ lock' = Tail(lock)
    /\ saveTask' = (IF saveTask = s THEN NoTask ELSE saveTask)
    /\ sv' = [sv EXCEPT ![s] = "done"]
    /\ UNCHANGED <<data, disk, snap, writer, dirty, failed, callerVars, envVars>>
SaverFinish(s) ==
    /\ sv[s] = "fin" /\ Holds(s)
    /\ lock' = Tail(lock)
    /\ LET cleared == IF saveTask = s THEN NoTask ELSE saveTask IN
       IF dirty /\ ~failed[s] /\ cleared = NoTask
       THEN /\ saveTask' = Fresh
            /\ sv' = [sv EXCEPT ![s] = "done", ![Fresh] = "sleep"]
            /\ failed' = [failed EXCEPT ![Fresh] = FALSE]
       ELSE /\ saveTask' = cleared
            /\ sv' = [sv EXCEPT ![s] = "done"]
            /\ UNCHANGED failed
    /\ UNCHANGED <<data, disk, snap, writer, dirty, callerVars, envVars>>

-----------------------------------------------------------------------------
(* flush *)

Flush(p) ==
    /\ "flush" \in Events /\ pc[p] \in Resting
    /\ pc' = [pc EXCEPT ![p] = "flush"]
    /\ UNCHANGED <<data, disk, snap, writer, dirty, lock, saverVars, op, cancelled,
                   joined, envVars>>

\* task.cancel(): a task that writes finishes the write first, one that waits
\* for the lock leaves the queue, and one in its finally clause just ends.
\* Mutant: it keeps its place in the queue.
CancelSaverQueued(s) ==
    /\ sv' = [sv EXCEPT ![s] = IF @ = "writing" THEN "writing" ELSE "unwinding"]
    /\ failed' = [failed EXCEPT ![s] = TRUE]
    /\ UNCHANGED lock
CancelSaver(s) ==
    /\ sv' = [sv EXCEPT ![s] = CASE @ = "writing" -> "writing"
                                 [] @ = "fin" -> "done"
                                 [] OTHER -> "unwinding"]
    /\ failed' = [failed EXCEPT ![s] = TRUE]
    /\ lock' = IF sv[s] \in {"want", "fin"} THEN RemoveFirst(lock, s) ELSE lock

FlushCancels(p) ==
    /\ pc[p] = "flush" /\ Saving
    /\ CancelSaver(saveTask)
    /\ joined' = [joined EXCEPT ![p] = saveTask]
    /\ pc' = [pc EXCEPT ![p] = "joining"]
    /\ UNCHANGED <<data, disk, snap, writer, dirty, saveTask, op, cancelled, envVars>>

\* Mutant of FlushQueues: a new debounce task is cancelled as well, again and again.
FlushQueuesAlone(p) ==
    /\ \/ /\ pc[p] = "flush" /\ ~Saving
          /\ joined' = [joined EXCEPT ![p] = saveTask]
          /\ pc' = [pc EXCEPT ![p] = "flushwant"]
          /\ lock' = Append(lock, p)
       \/ /\ pc[p] = "joining" /\ sv[joined[p]] = "done"
          /\ pc' = [pc EXCEPT ![p] = "flush"]
          /\ UNCHANGED <<joined, lock>>
    /\ UNCHANGED <<data, disk, snap, writer, dirty, saverVars, op, cancelled, envVars>>
FlushQueues(p) ==
    /\ \/ pc[p] = "flush" /\ ~Saving /\ joined' = [joined EXCEPT ![p] = saveTask]
       \/ pc[p] = "joining" /\ sv[joined[p]] = "done" /\ UNCHANGED joined
    /\ pc' = [pc EXCEPT ![p] = "flushwant"]
    /\ lock' = Append(lock, p)
    /\ UNCHANGED <<data, disk, snap, writer, dirty, saverVars, op, cancelled, envVars>>

\* Mutant of FlushNeeded: the cancelled task is trusted to have written.
FlushNeededAlone(p) == dirty /\ joined[p] = NoTask
FlushNeeded(p) == dirty

FlushLocked(p) ==
    /\ pc[p] = "flushwant" /\ Holds(p)
    /\ saveTask' = IF saveTask = joined[p] THEN NoTask ELSE saveTask
    /\ IF FlushNeeded(p)
       THEN /\ UNCHANGED data /\ StartWrite
            /\ pc' = [pc EXCEPT ![p] = "flushing"]
            /\ UNCHANGED <<lock, op, cancelled, joined>>
       ELSE /\ UNCHANGED <<data, snap, writer>>
            /\ lock' = Tail(lock)
            /\ Leave(p, IF cancelled[p] THEN "raised" ELSE "out")
    /\ UNCHANGED <<disk, dirty, sv, failed, envVars>>

-----------------------------------------------------------------------------
(* The process and the clock *)

\* The process dies and a new one loads the file.
Crash ==
    /\ "crash" \in Events
    /\ data' = Current(disk) /\ snap' = Current(disk)
    /\ writer' = "idle" /\ dirty' = FALSE /\ lock' = <<>>
    /\ saveTask' = NoTask
    /\ sv' = [s \in Savers |-> "done"] /\ failed' = [s \in Savers |-> FALSE]
    /\ pc' = [p \in Callers |-> "out"] /\ op' = [p \in Callers |-> NoOp]
    /\ cancelled' = [p \in Callers |-> FALSE]
    /\ joined' = [p \in Callers |-> NoTask]
    /\ UNCHANGED <<disk, envVars>>

Tick ==
    /\ now < MaxTime /\ now' = now + 1
    /\ UNCHANGED <<debounced, data, disk, snap, writer, dirty, lock, saverVars, callerVars>>

Access(p) == Lookup(p) \/ Reject(p) \/ Mutate(p) \/ PersistEnd(p)
Flushes(p) == FlushCancels(p) \/ FlushQueues(p) \/ FlushLocked(p)
Save(s) == SaverWake(s) \/ SaverWrite(s) \/ SaverClean(s) \/ SaverWritten(s)
           \/ SaverUnwind(s) \/ SaverFinish(s)
WriterStep == Write \/ WriteFail

Next ==
    \/ \E p \in Callers : Call(p) \/ Access(p) \/ Cancel(p) \/ Flush(p) \/ Flushes(p)
    \/ \E s \in Savers : Save(s)
    \/ WriterStep \/ Crash \/ Tick

Spec == Init /\ [][Next]_vars

\* Every started task and write goes on.
Fairness ==
    /\ \A p \in Callers : WF_vars(Access(p)) /\ WF_vars(Flushes(p))
    /\ \A s \in Savers : WF_vars(Save(s))
    /\ WF_vars(WriterStep)

FairSpec == Spec /\ Fairness

-----------------------------------------------------------------------------
(* Properties *)

\* Whenever the cache believes there is nothing to save, a process that died
\* now would load exactly the map in memory.
CleanIsDurable == ~dirty => Current(disk) = Current(data)

\* There is at most one debounce task that is not done, and it is the one the
\* cache knows: flush() would otherwise miss the other.
OneSaver == \A s \in Savers : sv[s] # "done" => saveTask = s

\* A change that no write has contained yet will be written: a debounce task, a
\* write or a flush is under way (set(): "schedule durable persistence").
SaveOwed ==
    dirty /\ data # snap =>
        \/ Saving \/ writer # "idle"
        \/ \E p \in Callers : pc[p] \in Flushing

\* What flush(), or without a debounce a mutation, reports as done is on disk.
Reported == [][\A p \in Callers :
                  pc[p] \in {"flushwant", "flushing", "writing"} /\ pc'[p] = "out" =>
                   Current(disk)' = Current(data)']_vars

\* Changes reach the disk, and flushes end.
DirtySaved == dirty ~> ~dirty
FlushEnds == \A p \in Callers : pc[p] = "flush" ~> pc[p] \in Resting
=============================================================================
