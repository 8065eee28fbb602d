---------------------------- MODULE SessionStore ----------------------------
(***************************************************************************)
(* ProviderSessionStore (src/src/soulacp/session_store.py): the mapping    *)
(* from a user and a provider to a provider session, kept in a cache under *)
(* a versioned key, with the migration of mappings that older releases     *)
(* kept under another key.  Every operation holds the store lock over      *)
(* several cache operations, any of which may raise or be cancelled.       *)
(*                                                                         *)
(* A session is the number of the set() that stored it, so that older and  *)
(* newer mappings can be told apart, and its owner, the user it was stored *)
(* for.  Different users may share a legacy key: that is what makes some   *)
(* user ids ambiguous.  Whatever else is under a key of the store, such as  *)
(* something another program put there, is a malformed entry.              *)
(***************************************************************************)
EXTENDS Naturals, FiniteSets

CONSTANTS
    Tasks, Users, Providers,
    LegacyKeys, LegacyOf,    \* _legacy_key of each user
    Ambiguous,               \* users whose legacy key proves no ownership
    Absent,                  \* no entry
    NoTask,
    TTL,                     \* ttl of the store; 0 is no expiry
    MaxSets, MaxTime,        \* bounds on the calls of set() and on the clock
    Events                   \* "fail": cache operations may raise

VARIABLES
    v2, legacy,    \* the cache: entries under the two kinds of keys
    pc,            \* where each task is
    arg,           \* the user and the providers of its operation still to do
    val,           \* the session it writes, has read or has returned
    owner,         \* the holder of the store lock
    sets, now,
    floor, torn    \* history: the oldest session that may still be read, and
                   \* whether the last set() of a mapping, and then a clear(),
                   \* ended half way

cacheVars == <<v2, legacy>>
history == <<floor, torn>>
vars == <<cacheVars, pc, arg, val, owner, sets, now, history>>

Session == [owner : Users, number : Nat]
Missing == [owner |-> Absent, number |-> 0]
\* A malformed entry holds no session.
Entry == [session : Session \cup {Missing}, until : Nat]
Idle == [user |-> Absent, providers |-> {}]
Steps == {"out", "read", "scrub", "legacy", "scrub_legacy", "migrate", "unlink",
          "write", "erase", "erase_legacy"}

\* Every variable keeps its type, and the task inside an operation holds the lock.
TypeOK ==
    /\ v2 \in [Users \X Providers -> Entry \cup {Absent}]
    /\ legacy \in [LegacyKeys \X Providers -> Entry \cup {Absent}]
    /\ pc \in [Tasks -> Steps]
    /\ arg \in [Tasks -> [user : Users \cup {Absent}, providers : SUBSET Providers]]
    /\ val \in [Tasks -> Session \cup {Missing}]
    /\ owner \in Tasks \cup {NoTask}
    /\ sets \in 0 .. MaxSets /\ now \in 0 .. MaxTime
    /\ floor \in [Users \X Providers -> Nat]
    /\ torn \in [Users \X Providers -> {"no", "set", "clear"}]
    /\ \A t \in Tasks : owner = t <=> pc[t] # "out"

\* Older releases stored with the same ttl, and not later than now.
Init ==
    /\ v2 \in [Users \X Providers -> {Absent, [session |-> Missing, until |-> 0]}]
    /\ legacy \in [LegacyKeys \X Providers ->
                     {Absent} \cup [session : [owner : Users, number : {0}] \cup {Missing},
                                    until : IF TTL = 0 THEN {0} ELSE 1 .. TTL]]
    /\ \A k \in LegacyKeys, p \in Providers :
          legacy[k, p] # Absent /\ legacy[k, p].session # Missing =>
             LegacyOf[legacy[k, p].session.owner] = k
    /\ pc = [t \in Tasks |-> "out"]
    /\ arg = [t \in Tasks |-> Idle]
    /\ val = [t \in Tasks |-> Missing]
    /\ owner = NoTask /\ sets = 0 /\ now = 0
    /\ floor = [k \in Users \X Providers |-> 0]
    /\ torn = [k \in Users \X Providers |-> "no"]

-----------------------------------------------------------------------------
(* Helpers *)

\* What the cache answers.
Alive(e) == IF e # Absent /\ e.until # 0 /\ now > e.until THEN Absent ELSE e

\* The session in what it answers.
Found(e) == IF Alive(e) = Absent THEN Missing ELSE e.session

Provider(t) == CHOOSE p \in Providers : p \in arg[t].providers
Key(t) == <<arg[t].user, Provider(t)>>
LegacyKey(t) == <<LegacyOf[arg[t].user], Provider(t)>>

\* Mutant of HasLegacy: every user's legacy key is trusted.
HasLegacyAlways(t) == TRUE
HasLegacy(t) == arg[t].user \notin Ambiguous

Stored(session) == [session |-> session, until |-> IF TTL = 0 THEN 0 ELSE now + TTL]

Goto(t, step) == pc' = [pc EXCEPT ![t] = step]
Return(t) ==
    /\ Goto(t, "out") /\ owner' = NoTask
    /\ arg' = [arg EXCEPT ![t] = Idle]
    /\ val' = [val EXCEPT ![t] = Missing]

-----------------------------------------------------------------------------
(* get_session_id, set_session_id and clear *)

\* Mutant of Unlocked: the lock does not cover the whole operation.
UnlockedAlways == TRUE
Unlocked == owner = NoTask

\* An operation starts when it is given the lock.
Enter(t) ==
    /\ pc[t] = "out" /\ Unlocked
    /\ owner' = t
    /\ \E u \in Users, ps \in (SUBSET Providers) \ {{}} :
         /\ arg' = [arg EXCEPT ![t] = [user |-> u, providers |-> ps]]
         /\ \/ Cardinality(ps) = 1 /\ Goto(t, "read") /\ UNCHANGED <<sets, val>>
            \/ /\ Cardinality(ps) = 1 /\ sets < MaxSets
               /\ sets' = sets + 1
               /\ val' = [val EXCEPT ![t] = [owner |-> u, number |-> sets + 1]]
               /\ Goto(t, "write")
            \/ Goto(t, "erase") /\ UNCHANGED <<sets, val>>
    /\ UNCHANGED <<cacheVars, now, history>>

\* Without a session under its own key a read turns to the legacy one.
LooksBack(t) ==
    IF HasLegacy(t) THEN Goto(t, "legacy") /\ UNCHANGED <<arg, val, owner>> ELSE Return(t)

Read(t) ==
    /\ pc[t] = "read"
    /\ LET e == Alive(v2[Key(t)]) IN
       \/ Found(e) # Missing /\ Return(t)
       \/ /\ e # Absent /\ Found(e) = Missing
          /\ Goto(t, "scrub") /\ UNCHANGED <<arg, val, owner>>
       \/ e = Absent /\ LooksBack(t)
    /\ UNCHANGED <<cacheVars, sets, now, history>>

\* Mutant of ReadLegacy: the legacy mapping is deleted as it is read.
ReadLegacyOnce(t) ==
    /\ pc[t] = "legacy"
    /\ LET e == Alive(legacy[LegacyKey(t)]) IN
       /\ legacy' = [legacy EXCEPT ![LegacyKey(t)] = Absent]
       /\ IF Found(e) = Missing THEN Return(t)
          ELSE val' = [val EXCEPT ![t] = e.session] /\ Goto(t, "migrate") /\ UNCHANGED <<arg, owner>>
    /\ UNCHANGED <<v2, sets, now, history>>
ReadLegacy(t) ==
    /\ pc[t] = "legacy"
    /\ LET e == Alive(legacy[LegacyKey(t)]) IN
       \/ e = Absent /\ Return(t)
       \/ /\ e # Absent /\ Found(e) = Missing
          /\ Goto(t, "scrub_legacy") /\ UNCHANGED <<arg, val, owner>>
       \/ /\ Found(e) # Missing
          /\ val' = [val EXCEPT ![t] = e.session] /\ Goto(t, "migrate") /\ UNCHANGED <<arg, owner>>
    /\ UNCHANGED <<cacheVars, sets, now, history>>

\* What the cache operation of a step changes.  A set() has ended half way until
\* the legacy entry is deleted, and a clear() that then deletes the new entry has
\* ended half way until it has deleted the legacy one as well.
Effect(t) ==
    /\ v2' = CASE pc[t] \in {"migrate", "write"} -> [v2 EXCEPT ![Key(t)] = Stored(val[t])]
               [] pc[t] \in {"erase", "scrub"} -> [v2 EXCEPT ![Key(t)] = Absent]
               [] OTHER -> v2
    /\ legacy' = IF pc[t] \in {"unlink", "erase_legacy", "scrub_legacy"}
                 THEN [legacy EXCEPT ![LegacyKey(t)] = Absent] ELSE legacy
    /\ torn' = CASE pc[t] = "write" -> [torn EXCEPT ![Key(t)] = IF HasLegacy(t) THEN "set" ELSE "no"]
                 [] pc[t] = "unlink" /\ torn[Key(t)] = "set" -> [torn EXCEPT ![Key(t)] = "no"]
                 [] pc[t] = "erase" /\ torn[Key(t)] = "set" -> [torn EXCEPT ![Key(t)] = "clear"]
                 [] pc[t] = "erase_legacy" -> [torn EXCEPT ![Key(t)] = "no"]
                 [] OTHER -> torn

\* Once a session is in the cache, an older one is not to be read.
Promises(t) == floor' = IF pc[t] = "write" THEN [floor EXCEPT ![Key(t)] = val[t].number] ELSE floor

\* A malformed entry is deleted.
Scrub(t) ==
    /\ pc[t] = "scrub" /\ Effect(t) /\ LooksBack(t)
    /\ UNCHANGED <<sets, now, floor>>
ScrubLegacy(t) ==
    /\ pc[t] = "scrub_legacy" /\ Effect(t) /\ Return(t)
    /\ UNCHANGED <<sets, now, floor>>

\* The new mapping is written first, then the legacy one is deleted.
Write(t) ==
    /\ pc[t] \in {"migrate", "write"} /\ Effect(t) /\ Promises(t)
    /\ IF HasLegacy(t) THEN Goto(t, "unlink") /\ UNCHANGED <<arg, val, owner>> ELSE Return(t)
    /\ UNCHANGED <<sets, now>>

Unlink(t) ==
    /\ pc[t] = "unlink" /\ Effect(t)
    /\ Return(t)
    /\ UNCHANGED <<sets, now, floor>>

\* One provider is cleared: nothing stored before is to be read again.
Cleared(t) ==
    /\ floor' = [floor EXCEPT ![Key(t)] = sets + 1]
    /\ IF arg[t].providers = {Provider(t)} THEN Return(t)
       ELSE /\ Goto(t, "erase")
            /\ arg' = [arg EXCEPT ![t].providers = @ \ {Provider(t)}]
            /\ UNCHANGED <<val, owner>>

\* Mutant of Erase: the legacy mapping is forgotten.
EraseAlone(t) ==
    /\ pc[t] = "erase" /\ Effect(t) /\ Cleared(t)
    /\ UNCHANGED <<sets, now>>
Erase(t) ==
    /\ pc[t] = "erase" /\ Effect(t)
    /\ IF HasLegacy(t) THEN Goto(t, "erase_legacy") /\ UNCHANGED <<arg, val, owner, floor>>
       ELSE Cleared(t)
    /\ UNCHANGED <<sets, now>>

EraseLegacy(t) ==
    /\ pc[t] = "erase_legacy" /\ Effect(t) /\ Cleared(t)
    /\ UNCHANGED <<sets, now>>

\* A cache operation raises or is cancelled, with its effect or without it.  What
\* was promised before still holds; of a clear() that did not delete both entries
\* of a provider nothing more is.
Interrupt(t) ==
    /\ "fail" \in Events /\ owner = t
    /\ \/ Effect(t) /\ Promises(t)
       \/ UNCHANGED <<cacheVars, history>>
    /\ Return(t)
    /\ UNCHANGED <<sets, now>>

Tick ==
    /\ now < MaxTime /\ now' = now + 1
    /\ UNCHANGED <<cacheVars, pc, arg, val, owner, sets, history>>

Get(t) == Read(t) \/ Scrub(t) \/ ReadLegacy(t) \/ ScrubLegacy(t)
Set(t) == Write(t) \/ Unlink(t)
Clear(t) == Erase(t) \/ EraseLegacy(t)

Next == (\E t \in Tasks : Enter(t) \/ Get(t) \/ Set(t) \/ Clear(t) \/ Interrupt(t))
        \/ Tick

Spec == Init /\ [][Next]_vars

-----------------------------------------------------------------------------
(* Properties *)

\* What a task that ends its operation returns to its caller.
Ends(t) == pc[t] \in {"read", "unlink"} /\ pc'[t] = "out"
Result(t) ==
    IF pc[t] = "unlink" THEN val[t]
    ELSE Found(v2[Key(t)])

\* A read never returns a mapping older than one that was stored, or cleared,
\* before: not through the legacy key, not when the newer mapping has expired,
\* and not when the operation that replaced it was interrupted half way.  The one
\* exception is two of them in a row: a set() that could not delete the legacy
\* entry and then a clear() that could delete the new one alone.  Until the next
\* set() or clear(), the mapping of the older release is there again.
ReadsNewest == [][\A t \in Tasks : Ends(t) /\ Result(t) # Missing =>
                     Result(t).number >= floor[Key(t)] \/ torn[Key(t)] = "clear"]_vars

\* The same without the exception does not hold.
NeverOlder == [][\A t \in Tasks : Ends(t) /\ Result(t) # Missing =>
                                     Result(t).number >= floor[Key(t)]]_vars

\* No user is ever given a session that was stored for somebody else.
OwnSession == [][\A t \in Tasks : Ends(t) /\ Result(t) # Missing =>
                                     Result(t).owner = arg[t].user]_vars

\* get_session_id: what it returns is the user's own mapping and the newest.
ReadsTrue == ReadsNewest /\ OwnSession

\* What get_session_id would return for a user and a provider.
Mapping(u, p) ==
    IF Found(v2[u, p]) # Missing THEN Found(v2[u, p])
    ELSE IF u \notin Ambiguous THEN Found(legacy[LegacyOf[u], p]) ELSE Missing

\* A migration loses no mapping, whatever step of it fails: a mapping goes away
\* by set(), clear() and the clock alone.
MigrationKeeps ==
    [][\A u \in Users, p \in Providers :
          Mapping(u, p) # Missing /\ Mapping(u, p)' # Mapping(u, p) =>
             \/ now' # now
             \/ owner # NoTask /\ pc[owner] \in {"write", "erase", "erase_legacy"}]_vars
=============================================================================
