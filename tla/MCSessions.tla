----------------------------- MODULE MCSessions -----------------------------
(***************************************************************************)
(* ManagedSession, whose own runs instantiate it, and beside it            *)
(* SessionStore: what is proved of both is stated here.  In the small      *)
(* instance of the store for TLC the ids of two users, a numeric one and   *)
(* the hash-shaped string that it was hashed to, share a legacy key.       *)
(***************************************************************************)
EXTENDS ManagedSession, TLC

CONSTANTS
    Vendors, LegacyKeys, LegacyOf, Ambiguous, Absent, NoTask, TTL, MaxSets, MaxTime, Events,
    alice, num, hex, aliceKey, hashKey

VARIABLES v2, legacy, at, arg, val, owner, sets, now, floor, torn

SharedKeys == (alice :> aliceKey) @@ (num :> hashKey) @@ (hex :> hashKey)
Symmetric == Permutations(Tasks)

Store == INSTANCE SessionStore WITH Providers <- Vendors, pc <- at

ASSUME LegacyAssumption == LegacyOf \in [Users -> LegacyKeys] /\ Ambiguous \subseteq Users
\* _legacy_key_if_unambiguous trusts the legacy key of a user only if no other
\* user id can have been given it.
ASSUME OwnersAssumption ==
    \A u \in Users \ Ambiguous, v \in Users : LegacyOf[u] = LegacyOf[v] => u = v
ASSUME AbsentAssumption == Absent \notin Store!Entry /\ Absent \notin Users
ASSUME HolderAssumption == NoTask \notin Tasks
ASSUME ClockAssumption == TTL \in Nat /\ MaxSets \in Nat /\ MaxTime \in Nat

\* The store runs alone.
StoreInit == Init /\ Store!Init
StoreNext == Store!Next /\ UNCHANGED vars
StoreSpec == StoreInit /\ [][StoreNext]_<<vars, Store!vars>>

ReadsTrue == Store!ReadsTrue
NeverOlder == Store!NeverOlder
MigrationKeeps == Store!MigrationKeeps
=============================================================================
