------------------------------- MODULE MCPool -------------------------------
(* Small instances of Pool for TLC. *)
EXTENDS Pool

Symmetric == Permutations(Clients) \cup Permutations(Callers)

Plain(s) == [session |-> s, fresh |-> FALSE]
Fresh(s) == [session |-> s, fresh |-> TRUE]

AllSessions == {Plain(s) : s \in Sessions}
AllRequests == AllSessions \cup {Plain(NoSession)}
FreshRequests == AllRequests \cup {Fresh(s) : s \in Sessions \cup {NoSession}}

AnySession == Sessions
NoSessionYet == {NoSession}
SessionOrNone == Sessions \cup {NoSession}
=============================================================================
