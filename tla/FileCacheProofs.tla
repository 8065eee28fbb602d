-------------------------- MODULE FileCacheProofs ---------------------------
(***************************************************************************)
(* FileCache for any callers, keys, values, ttls and settings: whatever is *)
(* queued, cancelled, flushed, interrupted or lost in a crash, the cache   *)
(* knows its one debounce task, calls only a saved map clean, reports only *)
(* what is on disk, and implements DurableMap.                             *)
(***************************************************************************)
EXTENDS FileCacheMap, QueueLemmas, FiniteSetTheorems

-----------------------------------------------------------------------------
(* The invariant *)

\* Who is at a step that needs the lock.
LockCallers == {p \in Callers : pc[p] \in {"want", "writing", "flushwant", "flushing"}}
LockSavers == {s \in Savers : sv[s] \in {"want", "writing", "fin"}}

\* Who waits for the writing thread.
WriteCallers == {p \in Callers : pc[p] \in {"writing", "flushing"}}
WriteSavers == {s \in Savers : sv[s] = "writing"}
Writers == WriteCallers \cup WriteSavers

\* TypeOK without the order of the queue.
Types ==
    /\ debounced \in Modes
    /\ data \in Maps /\ disk \in Maps /\ snap \in Maps
    /\ writer \in {"idle", "busy", "saved", "failed"}
    /\ dirty \in BOOLEAN
    /\ lock \in Seq(Callers \cup Savers)
    /\ saveTask \in Savers \cup {NoTask}
    /\ sv \in [Savers -> {"sleep", "want", "writing", "unwinding", "fin", "done"}]
    /\ failed \in [Savers -> BOOLEAN]
    /\ pc \in [Callers -> Resting \cup Flushing \cup {"want", "writing"}]
    /\ op \in [Callers -> Ops \cup {NoOp}]
    /\ \A p \in Callers : pc[p] = "want" => op[p] \in Ops
    /\ cancelled \in [Callers -> BOOLEAN]
    /\ joined \in [Callers -> Savers \cup {NoTask}]
    /\ now \in Nat

\* The queue holds whoever needs the lock, once each.
QueueInv == Distinct(lock) /\ Range(lock) = LockCallers \cup LockSavers

\* The thread writes the map for the holder of the lock, and nobody changes the
\* map meanwhile.
WriteInv ==
    /\ writer = "idle" => Writers = {}
    /\ writer # "idle" => dirty /\ snap = data /\ lock # <<>> /\ Writers = {Head(lock)}
    /\ writer = "saved" => disk = snap

\* flush() knows which task it waits for, and forgets one only when it has ended.
JoinInv ==
    \A p \in Callers :
        /\ pc[p] = "joining" => joined[p] \in Savers
        /\ pc[p] \in {"flushwant", "flushing"} /\ joined[p] # NoTask => sv[joined[p]] = "done"

Inv == Types /\ QueueInv /\ WriteInv /\ CleanIsDurable /\ OneSaver /\ JoinInv

\* The invariant holds in a new cache.
LEMMA InvInit == Init => Inv
<1> SUFFICES ASSUME Init PROVE Inv
  OBVIOUS
<1>1. Types
  <2>1. Empty \in Maps
    BY DEF Empty, Maps
  <2>2. lock \in Seq(Callers \cup Savers)
    BY DEF Init
  <2> QED BY <2>1, <2>2 DEF Init, Types, Resting
<1>2. QueueInv
  BY DEF Init, QueueInv, Distinct, Range, LockCallers, LockSavers
<1>3. WriteInv
  BY DEF Init, WriteInv, Writers, WriteCallers, WriteSavers
<1>4. CleanIsDurable /\ OneSaver /\ JoinInv
  BY DEF Init, CleanIsDurable, OneSaver, JoinInv
<1> QED BY <1>1, <1>2, <1>3, <1>4 DEF Inv

-----------------------------------------------------------------------------
(* Identities and types *)

\* There is an identity for the next task, and it is nobody's.
LEMMA FreshIs ==
    ASSUME Types, OneSaver
    PROVE  Fresh \in Savers \ {saveTask} /\ sv[Fresh] = "done" /\ \A p \in Callers : joined[p] # Fresh
<1> DEFINE J == {joined[p] : p \in Callers}
<1>1. joined \in Surjection(Callers, J)
  BY DEF Types, Surjection
<1>2. IsFiniteSet(J) /\ Cardinality(J) <= Cardinality(Callers)
  <2> HIDE DEF J
  <2> QED BY <1>1, FS_Surjection, TaskAssumption
<1>3. /\ IsFiniteSet(J \cup {saveTask})
      /\ Cardinality(J \cup {saveTask}) <= Cardinality(Callers) + 1
  <2> HIDE DEF J
  <2>1. Cardinality(J) \in Nat /\ Cardinality(Callers) \in Nat
    BY <1>2, FS_CardinalityType, TaskAssumption
  <2>2. Cardinality(J \cup {saveTask}) =
            IF saveTask \in J THEN Cardinality(J) ELSE Cardinality(J) + 1
    BY <1>2, FS_AddElement
  <2>3. IsFiniteSet(J \cup {saveTask})
    BY <1>2, FS_AddElement
  <2> QED BY <1>2, <2>1, <2>2, <2>3
<1>4. ~(Savers \subseteq J \cup {saveTask})
  <2> HIDE DEF J
  <2>1. SUFFICES ASSUME Savers \subseteq J \cup {saveTask} PROVE FALSE
    OBVIOUS
  <2>2. Cardinality(Savers) <= Cardinality(J \cup {saveTask})
    BY <1>3, <2>1, FS_Subset
  <2>3. /\ Cardinality(Savers) \in Nat /\ Cardinality(Callers) \in Nat
        /\ Cardinality(J \cup {saveTask}) \in Nat
    BY <1>3, FS_CardinalityType, TaskAssumption
  <2> QED BY <1>3, <2>2, <2>3, SaversAssumption
<1>5. PICK s \in Savers : s \notin J \cup {saveTask}
  BY <1>4
<1>6. s \in Savers \ {saveTask} /\ sv[s] = "done" /\ \A p \in Callers : joined[p] # s
  BY <1>5 DEF OneSaver
<1> QED BY <1>6, Zenon DEF Fresh

\* An operation changes the map to a map.
LEMMA ChangedMap ==
    ASSUME Types, NEW o \in Ops, Changes(o)
    PROVE  o.key \in Keys /\ [data EXCEPT ![o.key] = Applied(o)] \in Maps
<1>1. o.key \in Keys
  BY DEF Ops
<1>2. Applied(o) \in Entries \cup {Absent}
  <2>1. CASE o.kind = "set"
    <3>1. o.val \in Values /\ o.ttl \in Nat
      BY <2>1, TimeAssumption DEF Ops
    <3>2. now \in Nat
      BY DEF Types
    <3> QED BY <2>1, <3>1, <3>2 DEF Applied, Entries
  <2>2. CASE o.kind # "set"
    BY <2>2 DEF Applied
  <2> QED BY <2>1, <2>2
<1> QED BY <1>1, <1>2 DEF Types, Maps

\* What a process loads is a map.
LEMMA LoadedMap ==
    ASSUME NEW map \in Maps
    PROVE  Current(map) \in Maps
BY DEF Current, Maps

\* The queue without its head.
LEMMA TailKeeps ==
    ASSUME NEW S, NEW s \in Seq(S), s # <<>>, Distinct(s)
    PROVE  /\ Tail(s) \in Seq(S) /\ Distinct(Tail(s))
           /\ Head(s) \in Range(s) /\ Range(Tail(s)) = Range(s) \ {Head(s)}
<1> DEFINE r == Tail(s)
<1>1. /\ r \in Seq(S) /\ Len(s) \in Nat /\ Len(s) > 0 /\ Len(r) = Len(s) - 1
      /\ \A i \in 1 .. Len(s) - 1 : r[i] = s[i + 1]
  OBVIOUS
<1>2. Head(s) = s[1]
  OBVIOUS
<1> HIDE DEF r
<1>3. Distinct(r)
  BY <1>1 DEF Distinct
<1>4. Range(r) \subseteq Range(s) \ {s[1]}
  BY <1>1 DEF Range, Distinct
<1>5. ASSUME NEW i \in 1 .. Len(s), s[i] # s[1] PROVE s[i] \in Range(r)
  <2>1. i - 1 \in 1 .. Len(r) /\ r[i - 1] = s[i]
    BY <1>1, <1>5
  <2> QED BY <1>1, <2>1 DEF Range
<1>6. s[1] \in Range(s) /\ \A v \in Range(s) : \E i \in 1 .. Len(s) : v = s[i]
  BY <1>1 DEF Range
<1> QED BY <1>1, <1>2, <1>3, <1>4, <1>5, <1>6 DEF r

\* The queue after its head has left.
LEMMA HeadLeaves ==
    ASSUME Types, QueueInv, lock # <<>>
    PROVE  /\ Tail(lock) \in Seq(Callers \cup Savers) /\ Distinct(Tail(lock))
           /\ Head(lock) \in Range(lock) /\ Range(Tail(lock)) = Range(lock) \ {Head(lock)}
BY TailKeeps DEF Types, QueueInv

\* Every step keeps the types.
LEMMA TypesKept ==
    ASSUME Inv, Next
    PROVE  Types'
<1> USE DEF Inv, Types, Resting, Flushing, saverVars, callerVars, envVars
<1>1. ASSUME NEW p \in Callers, Call(p) PROVE Types'
  BY <1>1 DEF Call
<1>2. ASSUME NEW p \in Callers, Lookup(p) \/ Reject(p) PROVE Types'
  <2>1. lock' \in Seq(Callers \cup Savers)
    BY <1>2, HeadLeaves DEF Lookup, Reject, Holds
  <2> QED BY <1>2, <2>1 DEF Lookup, Reject, Leave
<1>3. ASSUME NEW p \in Callers, Mutate(p) PROVE Types'
  <2>1. data' \in Maps /\ dirty' = TRUE /\ disk' \in Maps
    BY <1>3, ChangedMap DEF Mutate
  <2>2. CASE debounced /\ Saving
    <3>1. lock' \in Seq(Callers \cup Savers)
      BY <1>3, HeadLeaves DEF Mutate, Holds
    <3> QED BY <1>3, <2>1, <2>2, <3>1 DEF Mutate, Leave
  <2>3. CASE debounced /\ ~Saving
    <3>1. lock' \in Seq(Callers \cup Savers)
      BY <1>3, HeadLeaves DEF Mutate, Holds
    <3>2. saveTask' \in Savers /\ sv' \in [Savers -> {"sleep", "want", "writing", "unwinding", "fin", "done"}]
          /\ failed' \in [Savers -> BOOLEAN]
      BY <1>3, <2>3, FreshIs DEF Mutate, StartSaver
    <3> QED BY <1>3, <2>1, <2>3, <3>1, <3>2 DEF Mutate, Leave
  <2>4. CASE ~debounced
    BY <1>3, <2>1, <2>4 DEF Mutate, StartWrite
  <2> QED BY <2>2, <2>3, <2>4
<1>4. ASSUME NEW p \in Callers, PersistEnd(p) PROVE Types'
  <2>1. lock # <<>>
    BY <1>4 DEF PersistEnd, Settle, WriteInv
  <2>2. lock' \in Seq(Callers \cup Savers)
    BY <1>4, <2>1, HeadLeaves DEF PersistEnd
  <2> QED BY <1>4, <2>2 DEF PersistEnd, Settle, Leave
<1>5. ASSUME NEW p \in Callers, Cancel(p) PROVE Types'
  <2>1. lock' \in Seq(Callers \cup Savers)
    BY <1>5, RemoveFirstType DEF Cancel
  <2> QED BY <1>5, <2>1 DEF Cancel, Leave
<1>6. ASSUME NEW p \in Callers, Flush(p) PROVE Types'
  BY <1>6 DEF Flush
<1>7. ASSUME NEW p \in Callers, FlushCancels(p) PROVE Types'
  <2>1. lock' \in Seq(Callers \cup Savers)
    BY <1>7, RemoveFirstType DEF FlushCancels, CancelSaver
  <2>2. sv' \in [Savers -> {"sleep", "want", "writing", "unwinding", "fin", "done"}]
        /\ failed' \in [Savers -> BOOLEAN]
    BY <1>7 DEF FlushCancels, CancelSaver
  <2> QED BY <1>7, <2>1, <2>2 DEF FlushCancels
<1>8. ASSUME NEW p \in Callers, FlushQueues(p) PROVE Types'
  BY <1>8 DEF FlushQueues
<1>9. ASSUME NEW p \in Callers, FlushLocked(p) PROVE Types'
  <2>1. CASE dirty
    BY <1>9, <2>1 DEF FlushLocked, FlushNeeded, StartWrite
  <2>2. CASE ~dirty
    <3>1. lock' \in Seq(Callers \cup Savers)
      BY <1>9, <2>2, HeadLeaves DEF FlushLocked, FlushNeeded, Holds
    <3> QED BY <1>9, <2>2, <3>1 DEF FlushLocked, FlushNeeded, Leave
  <2> QED BY <2>1, <2>2
<1>10. ASSUME NEW s \in Savers, SaverWake(s) \/ SaverUnwind(s) PROVE Types'
  <2>1. CASE SaverWake(s)
    BY <2>1 DEF SaverWake
  <2>2. CASE SaverUnwind(s)
    BY <2>2 DEF SaverUnwind
  <2> QED BY <1>10, <2>1, <2>2
<1>11. ASSUME NEW s \in Savers, SaverWrite(s) PROVE Types'
  BY <1>11 DEF SaverWrite, StartWrite
<1>12. ASSUME NEW s \in Savers, SaverClean(s) PROVE Types'
  <2>1. lock' \in Seq(Callers \cup Savers)
    BY <1>12, HeadLeaves DEF SaverClean, Holds
  <2> QED BY <1>12, <2>1 DEF SaverClean
<1>13. ASSUME NEW s \in Savers, SaverWritten(s) PROVE Types'
  <2>1. lock # <<>>
    BY <1>13 DEF SaverWritten, Settle, WriteInv
  <2>2. lock' \in Seq(Callers \cup Savers)
    BY <1>13, <2>1, HeadLeaves DEF SaverWritten
  <2> QED BY <1>13, <2>2 DEF SaverWritten, Settle
<1>14. ASSUME NEW s \in Savers, SaverFinish(s) PROVE Types'
  <2>1. lock' \in Seq(Callers \cup Savers)
    BY <1>14, HeadLeaves DEF SaverFinish, Holds
  <2>2. /\ saveTask' \in Savers \cup {NoTask}
        /\ sv' \in [Savers -> {"sleep", "want", "writing", "unwinding", "fin", "done"}]
        /\ failed' \in [Savers -> BOOLEAN]
    BY <1>14, FreshIs DEF SaverFinish
  <2> QED BY <1>14, <2>1, <2>2 DEF SaverFinish
<1>15. CASE WriterStep
  BY <1>15 DEF WriterStep, Write, WriteFail
<1>16. CASE Crash
  <2>1. data' \in Maps /\ snap' \in Maps /\ disk' \in Maps
    BY <1>16, LoadedMap DEF Crash
  <2>2. lock' \in Seq(Callers \cup Savers)
    BY <1>16 DEF Crash
  <2> QED BY <1>16, <2>1, <2>2 DEF Crash
<1>17. CASE Tick
  BY <1>17 DEF Tick
<1> QED BY <1>1, <1>2, <1>3, <1>4, <1>5, <1>6, <1>7, <1>8, <1>9, <1>10, <1>11, <1>12, <1>13, <1>14,
           <1>15, <1>16, <1>17
        DEF Next, Access, Flushes, Save
-----------------------------------------------------------------------------
(* The lock *)

\* The queue after it was joined, left by its head, or left from anywhere.
LEMMA Joins ==
    ASSUME Types, QueueInv, NEW t \in Callers \cup Savers, t \notin Range(lock)
    PROVE  LET q == Append(lock, t) IN Distinct(q) /\ Range(q) = Range(lock) \cup {t}
BY AppendKeeps DEF Types, QueueInv

\* A holder that lets the lock go and queues for it again.
LEMMA Rejoins ==
    ASSUME Types, QueueInv, NEW t \in Callers \cup Savers, Holds(t)
    PROVE  LET q == Append(Tail(lock), t) IN Distinct(q) /\ Range(q) = Range(lock)
<1> DEFINE r == Tail(lock)
<1>1. /\ r \in Seq(Callers \cup Savers) /\ Distinct(r)
      /\ t \in Range(lock) /\ Range(r) = Range(lock) \ {t}
  BY HeadLeaves DEF Holds
<1> HIDE DEF r
<1>2. Distinct(Append(r, t)) /\ Range(Append(r, t)) = Range(r) \cup {t}
  BY <1>1, AppendKeeps
<1> QED BY <1>1, <1>2 DEF r

\* Whoever leaves the queue leaves the others in it.
LEMMA Withdraws ==
    ASSUME Types, QueueInv, NEW t
    PROVE  LET q == RemoveFirst(lock, t) IN Distinct(q) /\ Range(q) = Range(lock) \ {t}
BY RemoveFirstKeeps DEF Types, QueueInv

\* Who waits for the thread holds the lock.
LEMMA WriterHolds ==
    ASSUME WriteInv, NEW t \in Writers
    PROVE  writer # "idle" /\ Holds(t)
BY DEF WriteInv, Holds

\* While the holder does not wait for the thread, nobody does.
LEMMA HolderIdle ==
    ASSUME WriteInv, NEW t, Holds(t), t \notin Writers
    PROVE  writer = "idle"
BY DEF WriteInv, Holds

\* A step leaves the queue and those who need the lock alone, or changes both
\* for the one that it is a step of.
QueueMoves ==
    \/ lock' = lock /\ (LockCallers \cup LockSavers)' = LockCallers \cup LockSavers
    \/ \E t \in Callers \cup Savers :
        \/ /\ t \notin LockCallers \cup LockSavers
           /\ lock' = Append(lock, t) /\ (LockCallers \cup LockSavers)' = LockCallers \cup LockSavers \cup {t}
        \/ /\ Holds(t) /\ lock' = Append(Tail(lock), t)
           /\ (LockCallers \cup LockSavers)' = LockCallers \cup LockSavers
        \/ /\ Holds(t) /\ lock' = Tail(lock)
           /\ (LockCallers \cup LockSavers)' = (LockCallers \cup LockSavers) \ {t}
        \/ /\ lock' = RemoveFirst(lock, t)
           /\ (LockCallers \cup LockSavers)' = (LockCallers \cup LockSavers) \ {t}
    \/ lock' = <<>> /\ (LockCallers \cup LockSavers)' = {}

\* What the steps do to the queue.
LEMMA QueueStep ==
    ASSUME Inv, Next
    PROVE  QueueMoves
<1> USE TaskAssumption
    DEF Inv, Types, Resting, Flushing, saverVars, callerVars, envVars, LockCallers, LockSavers
<1>1. ASSUME NEW p \in Callers, Call(p) PROVE QueueMoves
  <2>1. p \notin LockCallers \cup LockSavers /\ lock' = Append(lock, p)
    BY <1>1 DEF Call
  <2>2. (LockCallers \cup LockSavers)' = LockCallers \cup LockSavers \cup {p}
    BY <1>1 DEF Call
  <2> QED BY <2>1, <2>2 DEF QueueMoves
<1>2. ASSUME NEW p \in Callers, Lookup(p) \/ Reject(p) PROVE QueueMoves
  <2>1. Holds(p) /\ lock' = Tail(lock)
    BY <1>2 DEF Lookup, Reject
  <2>2. (LockCallers \cup LockSavers)' = (LockCallers \cup LockSavers) \ {p}
    BY <1>2 DEF Lookup, Reject, Leave
  <2> QED BY <2>1, <2>2 DEF QueueMoves
<1>3. ASSUME NEW p \in Callers, Mutate(p), debounced PROVE QueueMoves
  <2>1. Holds(p) /\ lock' = Tail(lock)
    BY <1>3 DEF Mutate
  <2>2. LockSavers' = LockSavers
    BY <1>3, FreshIs DEF Mutate, StartSaver
  <2>3. LockCallers' = LockCallers \ {p}
    BY <1>3 DEF Mutate, Leave
  <2>4. p \notin LockSavers
    OBVIOUS
  <2>5. (LockCallers \cup LockSavers)' = (LockCallers \cup LockSavers) \ {p}
    <3> HIDE DEF LockCallers, LockSavers
    <3> QED BY <2>2, <2>3, <2>4
  <2> QED BY <2>1, <2>5 DEF QueueMoves
<1>4. ASSUME NEW p \in Callers, Mutate(p), ~debounced PROVE QueueMoves
  <2>1. lock' = lock /\ (LockCallers \cup LockSavers)' = LockCallers \cup LockSavers
    BY <1>4 DEF Mutate, StartWrite
  <2> QED BY <2>1 DEF QueueMoves
<1>5. ASSUME NEW p \in Callers, PersistEnd(p) PROVE QueueMoves
  <2>1. p \in Writers
    BY <1>5 DEF PersistEnd, Writers, WriteCallers
  <2>2. Holds(p) /\ lock' = Tail(lock)
    BY <1>5, <2>1, WriterHolds DEF PersistEnd
  <2>3. (LockCallers \cup LockSavers)' = (LockCallers \cup LockSavers) \ {p}
    BY <1>5 DEF PersistEnd, Leave
  <2> QED BY <2>2, <2>3 DEF QueueMoves
<1>6. ASSUME NEW p \in Callers, Cancel(p) PROVE QueueMoves
  <2>1. CASE pc[p] = "want"
    <3>1. lock' = RemoveFirst(lock, p)
      BY <1>6, <2>1 DEF Cancel
    <3>2. (LockCallers \cup LockSavers)' = (LockCallers \cup LockSavers) \ {p}
      BY <1>6, <2>1 DEF Cancel, Leave
    <3> QED BY <3>1, <3>2 DEF QueueMoves
  <2>2. CASE pc[p] # "want"
    <3>1. lock' = lock /\ (LockCallers \cup LockSavers)' = LockCallers \cup LockSavers
      BY <1>6, <2>2 DEF Cancel
    <3> QED BY <3>1 DEF QueueMoves
  <2> QED BY <2>1, <2>2
<1>7. ASSUME NEW p \in Callers, Flush(p) PROVE QueueMoves
  <2>1. lock' = lock /\ (LockCallers \cup LockSavers)' = LockCallers \cup LockSavers
    BY <1>7 DEF Flush
  <2> QED BY <2>1 DEF QueueMoves
<1>8. ASSUME NEW p \in Callers, FlushCancels(p) PROVE QueueMoves
  <2>1. saveTask \in Savers
    BY <1>8 DEF FlushCancels, Saving
  <2>2. LockCallers' = LockCallers
    BY <1>8 DEF FlushCancels
  <2>3. CASE sv[saveTask] \in {"want", "fin"}
    <3>1. lock' = RemoveFirst(lock, saveTask)
      BY <1>8, <2>3 DEF FlushCancels, CancelSaver
    <3>2. LockSavers' = LockSavers \ {saveTask}
      BY <1>8, <2>1, <2>3 DEF FlushCancels, CancelSaver
    <3>3. saveTask \notin LockCallers
      BY <2>1
    <3>4. (LockCallers \cup LockSavers)' = (LockCallers \cup LockSavers) \ {saveTask}
      <4> HIDE DEF LockCallers, LockSavers
      <4> QED BY <2>2, <3>2, <3>3
    <3> QED BY <2>1, <3>1, <3>4 DEF QueueMoves
  <2>4. CASE sv[saveTask] \notin {"want", "fin"}
    <3>1. lock' = lock
      BY <1>8, <2>4 DEF FlushCancels, CancelSaver
    <3>2. LockSavers' = LockSavers
      BY <1>8, <2>1, <2>4 DEF FlushCancels, CancelSaver
    <3> QED BY <2>2, <3>1, <3>2 DEF QueueMoves
  <2> QED BY <2>3, <2>4
<1>9. ASSUME NEW p \in Callers, FlushQueues(p) PROVE QueueMoves
  <2>1. p \notin LockCallers \cup LockSavers /\ lock' = Append(lock, p)
    BY <1>9 DEF FlushQueues
  <2>2. (LockCallers \cup LockSavers)' = LockCallers \cup LockSavers \cup {p}
    BY <1>9 DEF FlushQueues
  <2> QED BY <2>1, <2>2 DEF QueueMoves
<1>10. ASSUME NEW p \in Callers, FlushLocked(p) PROVE QueueMoves
  <2>1. CASE dirty
    <3>1. lock' = lock /\ (LockCallers \cup LockSavers)' = LockCallers \cup LockSavers
      BY <1>10, <2>1 DEF FlushLocked, FlushNeeded
    <3> QED BY <3>1 DEF QueueMoves
  <2>2. CASE ~dirty
    <3>1. Holds(p) /\ lock' = Tail(lock)
      BY <1>10, <2>2 DEF FlushLocked, FlushNeeded
    <3>2. (LockCallers \cup LockSavers)' = (LockCallers \cup LockSavers) \ {p}
      BY <1>10, <2>2 DEF FlushLocked, FlushNeeded, Leave
    <3> QED BY <3>1, <3>2 DEF QueueMoves
  <2> QED BY <2>1, <2>2
<1>11. ASSUME NEW s \in Savers, SaverWake(s) PROVE QueueMoves
  <2>1. s \notin LockCallers \cup LockSavers /\ lock' = Append(lock, s)
    BY <1>11 DEF SaverWake
  <2>2. (LockCallers \cup LockSavers)' = LockCallers \cup LockSavers \cup {s}
    BY <1>11 DEF SaverWake
  <2> QED BY <2>1, <2>2 DEF QueueMoves
<1>12. ASSUME NEW s \in Savers, SaverUnwind(s) PROVE QueueMoves
  <2>1. s \notin LockCallers \cup LockSavers /\ lock' = Append(lock, s)
    BY <1>12 DEF SaverUnwind
  <2>2. (LockCallers \cup LockSavers)' = LockCallers \cup LockSavers \cup {s}
    BY <1>12 DEF SaverUnwind
  <2> QED BY <2>1, <2>2 DEF QueueMoves
<1>13. ASSUME NEW s \in Savers, SaverWrite(s) PROVE QueueMoves
  <2>1. lock' = lock /\ (LockCallers \cup LockSavers)' = LockCallers \cup LockSavers
    BY <1>13 DEF SaverWrite
  <2> QED BY <2>1 DEF QueueMoves
<1>14. ASSUME NEW s \in Savers, SaverClean(s) PROVE QueueMoves
  <2>1. Holds(s) /\ lock' = Append(Tail(lock), s)
    BY <1>14 DEF SaverClean
  <2>2. (LockCallers \cup LockSavers)' = LockCallers \cup LockSavers
    BY <1>14 DEF SaverClean
  <2> QED BY <2>1, <2>2 DEF QueueMoves
<1>15. ASSUME NEW s \in Savers, SaverWritten(s) PROVE QueueMoves
  <2>1. s \in Writers
    BY <1>15 DEF SaverWritten, Writers, WriteSavers
  <2>2. Holds(s) /\ lock' = Append(Tail(lock), s)
    BY <1>15, <2>1, WriterHolds DEF SaverWritten
  <2>3. (LockCallers \cup LockSavers)' = LockCallers \cup LockSavers
    BY <1>15 DEF SaverWritten
  <2> QED BY <2>2, <2>3 DEF QueueMoves
<1>16. ASSUME NEW s \in Savers, SaverFinish(s) PROVE QueueMoves
  <2>1. Holds(s) /\ lock' = Tail(lock)
    BY <1>16 DEF SaverFinish
  <2>2. LockSavers' = LockSavers \ {s}
    BY <1>16, FreshIs DEF SaverFinish
  <2>3. LockCallers' = LockCallers /\ s \notin LockCallers
    BY <1>16 DEF SaverFinish
  <2>4. (LockCallers \cup LockSavers)' = (LockCallers \cup LockSavers) \ {s}
    <3> HIDE DEF LockCallers, LockSavers
    <3> QED BY <2>2, <2>3
  <2> QED BY <2>1, <2>4 DEF QueueMoves
<1>17. CASE WriterStep \/ Tick
  <2>1. lock' = lock /\ (LockCallers \cup LockSavers)' = LockCallers \cup LockSavers
    BY <1>17 DEF WriterStep, Write, WriteFail, Tick
  <2> QED BY <2>1 DEF QueueMoves
<1>18. CASE Crash
  <2>1. lock' = <<>> /\ (LockCallers \cup LockSavers)' = {}
    BY <1>18 DEF Crash
  <2> QED BY <2>1 DEF QueueMoves
<1> QED BY <1>1, <1>2, <1>3, <1>4, <1>5, <1>6, <1>7, <1>8, <1>9, <1>10, <1>11, <1>12, <1>13, <1>14,
           <1>15, <1>16, <1>17, <1>18
        DEF Next, Access, Flushes, Save

\* The queue goes on holding those who need the lock.
LEMMA QueueKept ==
    ASSUME Inv, Next
    PROVE  QueueInv'
<1> DEFINE L == LockCallers \cup LockSavers
<1>1. Types /\ QueueInv /\ Distinct(lock) /\ Range(lock) = L
  BY DEF Inv, QueueInv
<1>2. Distinct(lock') /\ Range(lock') = L' => QueueInv'
  BY DEF QueueInv
<1>3. ASSUME NEW t \in Callers \cup Savers, Holds(t), lock' = Tail(lock), L' = L \ {t}
      PROVE  QueueInv'
  BY <1>1, <1>2, <1>3, HeadLeaves DEF Holds
<1> HIDE DEF L
<1>4. ASSUME NEW t \in Callers \cup Savers, t \notin L, lock' = Append(lock, t), L' = L \cup {t}
      PROVE  QueueInv'
  BY <1>1, <1>2, <1>4, Joins
<1>5. ASSUME NEW t \in Callers \cup Savers, Holds(t), lock' = Append(Tail(lock), t), L' = L
      PROVE  QueueInv'
  BY <1>1, <1>2, <1>5, Rejoins
<1>6. ASSUME NEW t \in Callers \cup Savers, lock' = RemoveFirst(lock, t), L' = L \ {t}
      PROVE  QueueInv'
  BY <1>1, <1>2, <1>6, Withdraws
<1>7. ASSUME lock' = <<>>, L' = {}
      PROVE  QueueInv'
  BY <1>2, <1>7 DEF Distinct, Range
<1>8. ASSUME lock' = lock, L' = L
      PROVE  QueueInv'
  BY <1>1, <1>2, <1>8
<1> USE DEF L
<1> QED BY <1>3, <1>4, <1>5, <1>6, <1>7, <1>8, QueueStep DEF QueueMoves
-----------------------------------------------------------------------------
(* The writing thread *)

\* A step that leaves the thread and its holder alone.
LEMMA WriteQuiet ==
    ASSUME WriteInv, UNCHANGED <<data, disk, snap, writer, dirty>>, Writers' = Writers,
           writer # "idle" => lock' # <<>> /\ Head(lock') = Head(lock)
    PROVE  WriteInv'
<1> HIDE DEF Writers
<1> QED BY DEF WriteInv

\* A step that leaves no write under way.
LEMMA WriteOver ==
    ASSUME writer' = "idle", Writers' = {}
    PROVE  WriteInv'
BY DEF WriteInv

\* The holder hands a copy of the map to the thread.
LEMMA WriteBegins ==
    ASSUME Types, WriteInv, NEW t, Holds(t), t \notin Writers, Writers' = Writers \cup {t},
           lock' = lock, StartWrite, dirty'
    PROVE  WriteInv'
<1>1. Writers' = {t}
  BY HolderIdle DEF WriteInv
<1> QED BY <1>1 DEF WriteInv, StartWrite, Holds

\* Whoever joins the queue leaves its head where it is, and so does whoever
\* leaves it and does not wait for the thread.
LEMMA HeadStays ==
    ASSUME Types, QueueInv, WriteInv, writer # "idle", NEW t \in (Callers \cup Savers) \ Writers,
           lock' = Append(lock, t) \/ lock' = RemoveFirst(lock, t)
    PROVE  lock' # <<>> /\ Head(lock') = Head(lock)
<1>1. lock # <<>> /\ Head(lock) # t /\ lock \in Seq(Callers \cup Savers)
  BY DEF WriteInv, Types
<1>2. CASE lock' = Append(lock, t)
  BY <1>1, <1>2
<1>3. CASE lock' = RemoveFirst(lock, t)
  BY <1>1, <1>3, RemoveFirstHead
<1> QED BY <1>2, <1>3

\* The thread goes on writing for the holder, and for nobody else.
LEMMA WriteKept ==
    ASSUME Inv, Next
    PROVE  WriteInv'
<1> USE TaskAssumption
    DEF Inv, Types, Resting, Flushing, saverVars, callerVars, envVars, WriteCallers, WriteSavers, Writers
<1>1. ASSUME NEW p \in Callers, Call(p) \/ FlushQueues(p) PROVE WriteInv'
  <2>1. UNCHANGED <<data, disk, snap, writer, dirty>> /\ lock' = Append(lock, p) /\ p \notin Writers
    BY <1>1 DEF Call, FlushQueues
  <2>2. Writers' = Writers
    BY <1>1 DEF Call, FlushQueues
  <2> QED BY <2>1, <2>2, HeadStays, WriteQuiet
<1>2. ASSUME NEW p \in Callers, Lookup(p) \/ Reject(p) PROVE WriteInv'
  <2>1. Holds(p) /\ p \notin Writers /\ writer' = writer
    BY <1>2 DEF Lookup, Reject
  <2>2. Writers' = Writers
    BY <1>2 DEF Lookup, Reject, Leave
  <2> QED BY <2>1, <2>2, HolderIdle, WriteOver DEF WriteInv
<1>3. ASSUME NEW p \in Callers, Mutate(p), debounced PROVE WriteInv'
  <2>1. Holds(p) /\ p \notin Writers /\ writer' = writer
    BY <1>3 DEF Mutate
  <2>2. WriteCallers' = WriteCallers
    BY <1>3 DEF Mutate, Leave
  <2>3. WriteSavers' = WriteSavers
    BY <1>3, FreshIs DEF Mutate, StartSaver
  <2> QED BY <2>1, <2>2, <2>3, HolderIdle, WriteOver DEF WriteInv
<1>4. ASSUME NEW p \in Callers, Mutate(p), ~debounced PROVE WriteInv'
  <2>1. Holds(p) /\ p \notin Writers /\ StartWrite /\ lock' = lock /\ dirty'
    BY <1>4 DEF Mutate
  <2>2. Writers' = Writers \cup {p}
    BY <1>4 DEF Mutate
  <2> QED BY <2>1, <2>2, WriteBegins
<1>5. ASSUME NEW p \in Callers, PersistEnd(p) PROVE WriteInv'
  <2>1. Writers = {p} /\ writer' = "idle"
    BY <1>5 DEF PersistEnd, Settle, WriteInv
  <2>2. Writers' = Writers \ {p}
    BY <1>5 DEF PersistEnd, Leave
  <2> QED BY <2>1, <2>2, WriteOver
<1>6. ASSUME NEW p \in Callers, Cancel(p) PROVE WriteInv'
  <2>1. UNCHANGED <<data, disk, snap, writer, dirty>>
    BY <1>6 DEF Cancel
  <2>2. Writers' = Writers
    BY <1>6 DEF Cancel, Leave
  <2>3. \/ lock' = RemoveFirst(lock, p) /\ p \notin Writers
        \/ lock' = lock
    BY <1>6 DEF Cancel
  <2>4. writer # "idle" => lock' # <<>> /\ Head(lock') = Head(lock)
    BY <2>3, HeadStays DEF WriteInv
  <2> QED BY <2>1, <2>2, <2>4, WriteQuiet
<1>7. ASSUME NEW p \in Callers, Flush(p) PROVE WriteInv'
  <2>1. UNCHANGED <<data, disk, snap, writer, dirty, lock>>
    BY <1>7 DEF Flush
  <2>2. Writers' = Writers
    BY <1>7 DEF Flush
  <2> QED BY <2>1, <2>2, WriteQuiet DEF WriteInv
<1>8. ASSUME NEW p \in Callers, FlushCancels(p) PROVE WriteInv'
  <2>1. saveTask \in Savers /\ UNCHANGED <<data, disk, snap, writer, dirty>>
    BY <1>8 DEF FlushCancels, Saving
  <2>2. WriteCallers' = WriteCallers
    BY <1>8 DEF FlushCancels
  <2>3. WriteSavers' = WriteSavers
    BY <1>8, <2>1 DEF FlushCancels, CancelSaver
  <2>4. \/ lock' = RemoveFirst(lock, saveTask) /\ saveTask \notin Writers
        \/ lock' = lock
    BY <1>8, <2>1 DEF FlushCancels, CancelSaver
  <2>5. writer # "idle" => lock' # <<>> /\ Head(lock') = Head(lock)
    BY <2>1, <2>4, HeadStays DEF WriteInv
  <2> QED BY <2>1, <2>2, <2>3, <2>5, WriteQuiet
<1>9. ASSUME NEW p \in Callers, FlushLocked(p), dirty PROVE WriteInv'
  <2>1. Holds(p) /\ p \notin Writers /\ StartWrite /\ lock' = lock /\ dirty'
    BY <1>9 DEF FlushLocked, FlushNeeded
  <2>2. Writers' = Writers \cup {p}
    BY <1>9 DEF FlushLocked, FlushNeeded
  <2> QED BY <2>1, <2>2, WriteBegins
<1>10. ASSUME NEW p \in Callers, FlushLocked(p), ~dirty PROVE WriteInv'
  <2>1. Holds(p) /\ p \notin Writers /\ writer' = writer
    BY <1>10 DEF FlushLocked, FlushNeeded
  <2>2. Writers' = Writers
    BY <1>10 DEF FlushLocked, FlushNeeded, Leave
  <2> QED BY <2>1, <2>2, HolderIdle, WriteOver DEF WriteInv
<1>11. ASSUME NEW s \in Savers, SaverWake(s) \/ SaverUnwind(s) PROVE WriteInv'
  <2>1. UNCHANGED <<data, disk, snap, writer, dirty>> /\ lock' = Append(lock, s) /\ s \notin Writers
    BY <1>11 DEF SaverWake, SaverUnwind
  <2>2. Writers' = Writers
    BY <1>11 DEF SaverWake, SaverUnwind
  <2> QED BY <2>1, <2>2, HeadStays, WriteQuiet
<1>12. ASSUME NEW s \in Savers, SaverWrite(s) PROVE WriteInv'
  <2>1. Holds(s) /\ s \notin Writers /\ StartWrite /\ lock' = lock /\ dirty'
    BY <1>12 DEF SaverWrite
  <2>2. Writers' = Writers \cup {s}
    BY <1>12 DEF SaverWrite
  <2> QED BY <2>1, <2>2, WriteBegins
<1>13. ASSUME NEW s \in Savers, SaverClean(s) PROVE WriteInv'
  <2>1. Holds(s) /\ s \notin Writers /\ writer' = writer
    BY <1>13 DEF SaverClean
  <2>2. Writers' = Writers
    BY <1>13 DEF SaverClean
  <2> QED BY <2>1, <2>2, HolderIdle, WriteOver DEF WriteInv
<1>14. ASSUME NEW s \in Savers, SaverWritten(s) PROVE WriteInv'
  <2>1. Writers = {s} /\ writer' = "idle"
    BY <1>14 DEF SaverWritten, Settle, WriteInv
  <2>2. Writers' = Writers \ {s}
    BY <1>14 DEF SaverWritten
  <2> QED BY <2>1, <2>2, WriteOver
<1>15. ASSUME NEW s \in Savers, SaverFinish(s) PROVE WriteInv'
  <2>1. Holds(s) /\ s \notin Writers /\ writer' = writer
    BY <1>15 DEF SaverFinish
  <2>2. WriteCallers' = WriteCallers
    BY <1>15 DEF SaverFinish
  <2>3. WriteSavers' = WriteSavers
    BY <1>15, FreshIs DEF SaverFinish
  <2> QED BY <2>1, <2>2, <2>3, HolderIdle, WriteOver DEF WriteInv
<1>16. CASE WriterStep
  <2>1. Writers' = Writers
    BY <1>16 DEF WriterStep, Write, WriteFail
  <2> HIDE DEF Writers
  <2> QED BY <1>16, <2>1 DEF WriterStep, Write, WriteFail, WriteInv
<1>17. CASE Crash
  <2>1. writer' = "idle" /\ Writers' = {}
    BY <1>17 DEF Crash
  <2> QED BY <2>1, WriteOver
<1>18. CASE Tick
  <2>1. Writers' = Writers /\ UNCHANGED <<data, disk, snap, writer, dirty, lock>>
    BY <1>18 DEF Tick
  <2> QED BY <2>1, WriteQuiet DEF WriteInv
<1> QED BY <1>1, <1>2, <1>3, <1>4, <1>5, <1>6, <1>7, <1>8, <1>9, <1>10, <1>11, <1>12, <1>13, <1>14,
           <1>15, <1>16, <1>17, <1>18
        DEF Next, Access, Flushes, Save
-----------------------------------------------------------------------------
(* The file *)

\* What a process has loaded it would load again.
LEMMA CurrentTwice ==
    ASSUME NEW map
    PROVE  Current(Current(map)) = Current(map)
BY DEF Current

\* What the thread has written for a step that ends is the map.
LEMMA SettledMap ==
    ASSUME WriteInv, Settle, UNCHANGED <<data, disk>>
    PROVE  dirty /\ (dirty' \/ disk' = data')
BY DEF WriteInv, Settle

\* Only a mutation changes the map and only a write the file, and both leave the
\* cache dirty; but for a crash, only the end of a write makes it clean.
FileMoves ==
    \/ UNCHANGED <<data, disk, dirty, now>>
    \/ \E p \in Callers : Mutate(p)
    \/ Settle /\ UNCHANGED <<data, disk, now>>
    \/ Write \/ Crash \/ Tick

\* What the steps do to the map and the file.
LEMMA FileStep ==
    ASSUME Next
    PROVE  FileMoves
<1> USE DEF FileMoves, envVars
<1>1. ASSUME NEW p \in Callers, Call(p) \/ Cancel(p) \/ Flush(p) PROVE FileMoves
  BY <1>1 DEF Call, Cancel, Flush
<1>2. ASSUME NEW p \in Callers, Access(p) PROVE FileMoves
  BY <1>2 DEF Access, Lookup, Reject, PersistEnd
<1>3. ASSUME NEW p \in Callers, Flushes(p) PROVE FileMoves
  BY <1>3 DEF Flushes, FlushCancels, FlushQueues, FlushLocked
<1>4. ASSUME NEW s \in Savers, Save(s) PROVE FileMoves
  BY <1>4 DEF Save, SaverWake, SaverWrite, SaverClean, SaverWritten, SaverUnwind, SaverFinish
<1>5. CASE WriterStep
  BY <1>5 DEF WriterStep, Write, WriteFail
<1> QED BY <1>1, <1>2, <1>3, <1>4, <1>5 DEF Next

\* A clean cache is durable after every step.
LEMMA DurableKept ==
    ASSUME Inv, Next
    PROVE  CleanIsDurable'
<1>1. CASE UNCHANGED <<data, disk, dirty, now>>
  BY <1>1 DEF Inv, CleanIsDurable, Current
<1>2. ASSUME NEW p \in Callers, Mutate(p) PROVE CleanIsDurable'
  BY <1>2 DEF Mutate, CleanIsDurable
<1>3. CASE Settle /\ UNCHANGED <<data, disk, now>>
  BY <1>3, SettledMap DEF Inv, CleanIsDurable
<1>4. CASE Write
  BY <1>4 DEF Write, Inv, WriteInv, CleanIsDurable
<1>5. CASE Crash
  <2>1. data' = Current(disk) /\ disk' = disk /\ now' = now
    BY <1>5 DEF Crash, envVars
  <2>2. Current(data)' = Current(Current(disk)) /\ Current(disk)' = Current(disk)
    BY <2>1 DEF Current
  <2> QED BY <2>2, CurrentTwice DEF CleanIsDurable
<1>6. CASE Tick
  <2>1. UNCHANGED <<data, disk, dirty>> /\ now' = now + 1 /\ now \in Nat /\ data \in Maps /\ disk \in Maps
    BY <1>6 DEF Tick, Inv, Types
  <2>2. CASE dirty
    BY <2>1, <2>2 DEF CleanIsDurable
  <2>3. CASE ~dirty
    <3>1. Current(disk) = Current(data)
      BY <2>3 DEF Inv, CleanIsDurable
    <3>2. now' \in Nat /\ now <= now'
      BY <2>1
    \* What has expired stays expired.
    <3>3. [k \in Keys |-> IF disk[k] # Absent /\ disk[k].until \notin {0} /\ disk[k].until <= now'
                          THEN Absent ELSE disk[k]]
          = [k \in Keys |-> IF data[k] # Absent /\ data[k].until \notin {0} /\ data[k].until <= now'
                            THEN Absent ELSE data[k]]
      <4> SUFFICES ASSUME NEW k \in Keys
                   PROVE  (IF disk[k] # Absent /\ disk[k].until \notin {0} /\ disk[k].until <= now'
                           THEN Absent ELSE disk[k])
                          = (IF data[k] # Absent /\ data[k].until \notin {0} /\ data[k].until <= now'
                             THEN Absent ELSE data[k])
        OBVIOUS
      <4>1. Current(disk)[k] = Current(data)[k]
        BY <3>1
      <4>2. /\ disk[k] # Absent => disk[k].until \in Nat
            /\ data[k] # Absent => data[k].until \in Nat
        BY <2>1 DEF Maps, Entries
      <4> QED BY <2>1, <3>2, <4>1, <4>2 DEF Current
    <3> QED BY <2>1, <3>3 DEF Current, CleanIsDurable
  <2> QED BY <2>2, <2>3
<1> QED BY <1>1, <1>2, <1>3, <1>4, <1>5, <1>6, FileStep DEF FileMoves

-----------------------------------------------------------------------------
(* The debounce task *)

\* The cache knows the one debounce task, and a flush the one it waits for.
LEMMA SaverKept ==
    ASSUME Inv, Next
    PROVE  OneSaver' /\ JoinInv'
<1> USE TaskAssumption
    DEF Inv, Types, Resting, Flushing, saverVars, callerVars, envVars, OneSaver, JoinInv
<1>1. ASSUME NEW p \in Callers, Call(p) \/ Flush(p) PROVE OneSaver' /\ JoinInv'
  BY <1>1 DEF Call, Flush
<1>2. ASSUME NEW p \in Callers, Lookup(p) \/ Reject(p) \/ PersistEnd(p) PROVE OneSaver' /\ JoinInv'
  BY <1>2 DEF Lookup, Reject, PersistEnd, Leave
<1>3. ASSUME NEW p \in Callers, Mutate(p) PROVE OneSaver' /\ JoinInv'
  <2>1. CASE debounced /\ Saving
    BY <1>3, <2>1 DEF Mutate, Leave
  <2>2. CASE debounced /\ ~Saving
    <3>1. \A s \in Savers : sv[s] = "done"
      BY <2>2 DEF Saving
    <3>2. saveTask' = Fresh /\ sv' = [sv EXCEPT ![Fresh] = "sleep"]
      BY <1>3, <2>2 DEF Mutate, StartSaver
    <3>3. OneSaver'
      BY <3>1, <3>2
    <3>4. \A q \in Callers : joined'[q] = joined[q] \/ joined'[q] = NoTask
      BY <1>3, <2>2 DEF Mutate, Leave
    <3>5. \A q \in Callers : pc'[q] = pc[q] \/ pc'[q] = "out"
      BY <1>3, <2>2 DEF Mutate, Leave
    <3>6. \A q \in Callers : pc'[q] = "joining" => joined'[q] = joined[q]
      BY <1>3, <2>2 DEF Mutate, Leave
    <3>7. JoinInv'
      BY <3>2, <3>4, <3>5, <3>6, FreshIs
    <3> QED BY <3>3, <3>7
  <2>3. CASE ~debounced
    BY <1>3, <2>3 DEF Mutate
  <2> QED BY <2>1, <2>2, <2>3
<1>4. ASSUME NEW p \in Callers, Cancel(p) PROVE OneSaver' /\ JoinInv'
  BY <1>4 DEF Cancel, Leave
<1>5. ASSUME NEW p \in Callers, FlushCancels(p) PROVE OneSaver' /\ JoinInv'
  BY <1>5 DEF FlushCancels, CancelSaver, Saving
<1>6. ASSUME NEW p \in Callers, FlushQueues(p) PROVE OneSaver' /\ JoinInv'
  BY <1>6 DEF FlushQueues, Saving
<1>7. ASSUME NEW p \in Callers, FlushLocked(p) PROVE OneSaver' /\ JoinInv'
  BY <1>7 DEF FlushLocked, Leave
<1>8. ASSUME NEW s \in Savers, SaverWake(s) \/ SaverWrite(s) \/ SaverClean(s) \/ SaverWritten(s) \/ SaverUnwind(s)
      PROVE  OneSaver' /\ JoinInv'
  BY <1>8 DEF SaverWake, SaverWrite, SaverClean, SaverWritten, SaverUnwind
<1>9. ASSUME NEW s \in Savers, SaverFinish(s) PROVE OneSaver' /\ JoinInv'
  <2>1. saveTask = s /\ UNCHANGED <<pc, joined>>
    BY <1>9 DEF SaverFinish
  <2>2. CASE dirty /\ ~failed[s]
    <3>1. saveTask' = Fresh /\ sv' = [sv EXCEPT ![s] = "done", ![Fresh] = "sleep"]
      BY <1>9, <2>1, <2>2 DEF SaverFinish
    <3>2. OneSaver'
      BY <2>1, <3>1, FreshIs
    <3>3. JoinInv'
      BY <2>1, <3>1, FreshIs
    <3> QED BY <3>2, <3>3
  <2>3. CASE ~(dirty /\ ~failed[s])
    <3>1. saveTask' = NoTask /\ sv' = [sv EXCEPT ![s] = "done"]
      BY <1>9, <2>1, <2>3 DEF SaverFinish
    <3> QED BY <2>1, <3>1
  <2> QED BY <2>2, <2>3
<1>10. CASE WriterStep \/ Tick
  BY <1>10 DEF WriterStep, Write, WriteFail, Tick
<1>11. CASE Crash
  BY <1>11 DEF Crash
<1> QED BY <1>1, <1>2, <1>3, <1>4, <1>5, <1>6, <1>7, <1>8, <1>9, <1>10, <1>11
        DEF Next, Access, Flushes, Save

-----------------------------------------------------------------------------
(* What is shown *)

\* Every step keeps the invariant.
LEMMA InvStep == Inv /\ [Next]_vars => Inv'
<1> SUFFICES ASSUME Inv, [Next]_vars PROVE Inv'
  OBVIOUS
<1>1. CASE Next
  BY <1>1, TypesKept, QueueKept, WriteKept, DurableKept, SaverKept DEF Inv
<1>2. CASE UNCHANGED vars
  <2> USE <1>2 DEF Inv, vars, saverVars, callerVars, envVars
  <2>1. Types'
    BY DEF Types
  <2>2. QueueInv' /\ WriteInv'
    BY DEF QueueInv, WriteInv, LockCallers, LockSavers, Writers, WriteCallers, WriteSavers
  <2>3. CleanIsDurable' /\ OneSaver' /\ JoinInv'
    BY DEF CleanIsDurable, Current, OneSaver, JoinInv
  <2> QED BY <2>1, <2>2, <2>3
<1> QED BY <1>1, <1>2

\* The invariant holds always.
LEMMA Invariance == Spec => []Inv
BY InvInit, InvStep, PTL DEF Spec

\* Every variable has its type, and nobody queues twice for the lock.
THEOREM CacheTypes == Spec => []TypeOK
<1>1. Inv => TypeOK
  BY DEF Inv, Types, TypeOK, QueueInv, Distinct, IsInjective
<1> QED BY <1>1, Invariance, PTL

\* Whenever the cache believes that there is nothing to save, a process that died
\* now would load exactly the map in memory: after every flush, failure,
\* cancellation and crash.
THEOREM CleanSaved == Spec => []CleanIsDurable
<1>1. Inv => CleanIsDurable
  BY DEF Inv
<1> QED BY <1>1, Invariance, PTL

\* There is one debounce task at most, and it is the one the cache knows.
THEOREM SaverKnown == Spec => []OneSaver
<1>1. Inv => OneSaver
  BY DEF Inv
<1> QED BY <1>1, Invariance, PTL

\* A flush() or a mutation without a debounce that returns has its data on disk.
THEOREM ReportsHold == Spec => Reported
<1> DEFINE Done(p) == pc[p] \in {"flushwant", "flushing", "writing"} /\ pc'[p] = "out"
<1>1. ASSUME Inv, Next, NEW p \in Callers, Done(p)
      PROVE  ~dirty'
  <2> USE <1>1 DEF Inv, Types, Resting, Flushing, saverVars, callerVars, envVars
  <2>1. ASSUME NEW q \in Callers, Call(q) \/ Flush(q) PROVE FALSE
    BY <2>1 DEF Call, Flush
  <2>2. ASSUME NEW q \in Callers, Lookup(q) \/ Reject(q) PROVE FALSE
    BY <2>2 DEF Lookup, Reject, Leave
  <2>3. ASSUME NEW q \in Callers, Mutate(q) PROVE FALSE
    BY <2>3 DEF Mutate, Leave
  <2>4. ASSUME NEW q \in Callers, PersistEnd(q) PROVE ~dirty'
    BY <2>4 DEF PersistEnd, Settle, Leave
  <2>5. ASSUME NEW q \in Callers, Cancel(q) PROVE FALSE
    BY <2>5 DEF Cancel, Leave
  <2>6. ASSUME NEW q \in Callers, FlushCancels(q) \/ FlushQueues(q) PROVE FALSE
    BY <2>6 DEF FlushCancels, FlushQueues
  <2>7. ASSUME NEW q \in Callers, FlushLocked(q) PROVE ~dirty'
    BY <2>7 DEF FlushLocked, FlushNeeded, Leave
  <2>8. ASSUME NEW s \in Savers, Save(s) PROVE FALSE
    BY <2>8 DEF Save, SaverWake, SaverWrite, SaverClean, SaverWritten, SaverUnwind, SaverFinish
  <2>9. CASE WriterStep \/ Tick
    BY <2>9 DEF WriterStep, Write, WriteFail, Tick
  <2>10. CASE Crash
    BY <2>10 DEF Crash
  <2> QED BY <2>1, <2>2, <2>3, <2>4, <2>5, <2>6, <2>7, <2>8, <2>9, <2>10 DEF Next, Access, Flushes
<1>2. Inv /\ Inv' /\ [Next]_vars =>
        [\A p \in Callers :
            pc[p] \in {"flushwant", "flushing", "writing"} /\ pc'[p] = "out" =>
                Current(disk)' = Current(data)']_vars
  BY <1>1 DEF Inv, CleanIsDurable
<1> QED BY <1>2, Invariance, PTL DEF Spec, Reported

-----------------------------------------------------------------------------
(* FileCache implements DurableMap *)

\* Every step is one of the map's, or none.
LEMMA MapStep ==
    ASSUME Inv, Next
    PROVE  DM!Next \/ UNCHANGED <<data, disk, dirty, now>>
<1>1. ASSUME NEW p \in Callers, Mutate(p) PROVE DM!Change(op[p].key) /\ op[p].key \in Keys
  <2>1. op[p] \in Ops /\ Changes(op[p]) /\ data \in Maps
    BY <1>1 DEF Mutate, Inv, Types
  <2>2. /\ op[p].key \in Keys /\ data' = [data EXCEPT ![op[p].key] = Applied(op[p])]
        /\ data' \in Maps /\ dirty' = TRUE /\ disk' = disk /\ now' = now
    BY <1>1, <2>1, ChangedMap DEF Mutate, Inv, envVars
  <2>3. \A j \in Keys \ {op[p].key} : data'[j] = data[j]
    BY <2>1, <2>2 DEF Maps
  <2> QED BY <2>2, <2>3 DEF DM!Change, DM!Entries, Maps, Entries
<1>2. CASE Settle /\ UNCHANGED <<data, disk, now>>
  <2>1. dirty /\ (dirty' \/ disk = data) /\ dirty' \in BOOLEAN
    BY <1>2 DEF Settle, Inv, WriteInv
  <2>2. dirty \in BOOLEAN
    BY DEF Inv, Types
  <2> QED BY <1>2, <2>1, <2>2 DEF DM!Next, DM!Acknowledge
<1>3. CASE Write
  BY <1>3 DEF Write, Inv, WriteInv, DM!Next, DM!SaveFile, envVars
<1>4. CASE Crash
  BY <1>4 DEF Crash, Current, DM!Next, DM!Crash, DM!Alive, envVars
<1>5. CASE Tick
  BY <1>5 DEF Tick, Inv, Types, DM!Next, DM!Tick
<1> QED BY <1>1, <1>2, <1>3, <1>4, <1>5, FileStep DEF FileMoves, DM!Next

\* Whatever debounce tasks, writes, flushes, failures and crashes do, the file
\* becomes the current map as a whole, and only a saved map is called clean.
THEOREM MapRefined == Spec => RefinesDurableMap
<1>1. Init => DM!Init
  BY DEF Init, Empty, DM!Init
<1>2. Inv /\ [Next]_vars => [DM!Next]_(DM!vars)
  <2> SUFFICES ASSUME Inv, [Next]_vars PROVE [DM!Next]_(DM!vars)
    OBVIOUS
  <2>1. CASE Next
    BY <2>1, MapStep DEF DM!vars
  <2>2. CASE UNCHANGED vars
    BY <2>2 DEF vars, envVars, DM!vars
  <2> QED BY <2>1, <2>2
<1> QED BY <1>1, <1>2, Invariance, PTL DEF Spec, RefinesDurableMap, DM!Spec
=============================================================================
