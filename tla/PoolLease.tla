----------------------------- MODULE PoolLease ------------------------------
(* Pool implements SessionLease: the refinement mapping. *)
EXTENDS Pool

\* The entry that claimed s, when one did.
EntryOf(s) == {c \in Tracked : claim[c] = s}
CreatorsOf(s) == {p \in Creators : req[p].session = s}
HoldersOf(s) == UNION {{p \in Holders(c) : st[c] = "leased" /\ pc[p] \notin RetirePcs}
                         : c \in EntryOf(s)}

\* Draining is what is claimed and held by nobody who could still use it.
LeasePhase ==
    [s \in Sessions |->
        IF s \notin claims THEN "free"
        ELSE IF CreatorsOf(s) # {} THEN "reserved"
        ELSE IF HoldersOf(s) = {} THEN "draining"
        ELSE IF \E p \in HoldersOf(s) : pc[p] \in PreparePcs THEN "reserved"
        ELSE "leased"]

LeaseHolder ==
    [s \in Sessions |->
        IF s \in claims /\ CreatorsOf(s) \cup HoldersOf(s) # {}
        THEN CHOOSE p \in Callers : p \in CreatorsOf(s) \cup HoldersOf(s)
        ELSE NoClient]

SL == INSTANCE SessionLease
           WITH Nobody <- NoClient, phase <- LeasePhase, holder <- LeaseHolder, open <- ~closed

\* Whatever the pool does is a reservation, grant, drain or release of one
\* session, its closing, or nothing: sessions are leased one holder at a time,
\* never while their transport drains and never after the pool closed.
RefinesLease == SL!Spec
=============================================================================
