---------------------------- MODULE MCPoolLease -----------------------------
(* A small instance of PoolLease for TLC. *)
EXTENDS PoolLease

Symmetric == Permutations(Clients) \cup Permutations(Callers)

LeaseRequests == [session : Sessions \cup {NoSession}, fresh : BOOLEAN]
\* Every kind of request but one that is fresh and anonymous.
SomeRequests == LeaseRequests \ {[session |-> NoSession, fresh |-> TRUE]}
AnyProvider == Sessions \cup {NoSession}
=============================================================================
