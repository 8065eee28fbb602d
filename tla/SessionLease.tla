---------------------------- MODULE SessionLease ----------------------------
(***************************************************************************)
(* What the pool promises about one logical session at a time, whatever it *)
(* does with subprocesses, queues and checks: a session is free, reserved  *)
(* for a caller, leased to that caller, or draining while its transport is *)
(* being closed, and nobody gets it while it drains or after the pool is   *)
(* closed (README "A requested session ID can have only one live lease at  *)
(* a time"; CHANGELOG 0.2.0 "A logical session can have only one live      *)
(* lease").                                                                *)
(***************************************************************************)
CONSTANTS Callers, Sessions, Nobody

VARIABLES phase, holder, open
vars == <<phase, holder, open>>

Phases == {"free", "reserved", "leased", "draining"}

TypeOK ==
    /\ phase \in [Sessions -> Phases]
    /\ holder \in [Sessions -> Callers \cup {Nobody}]
    /\ open \in BOOLEAN

Init ==
    /\ phase = [s \in Sessions |-> "free"]
    /\ holder = [s \in Sessions |-> Nobody]
    /\ open = TRUE

Move(s, to, by) ==
    /\ phase' = [phase EXCEPT ![s] = to]
    /\ holder' = [holder EXCEPT ![s] = by]
    /\ UNCHANGED open

\* Caller p asked for the free session s.
Reserve(p, s) == open /\ phase[s] = "free" /\ Move(s, "reserved", p)

\* It is given a client bound to s; an anonymous caller may be given any
\* session that was free.
Grant(p, s) ==
    /\ open
    /\ phase[s] = "free" \/ (phase[s] = "reserved" /\ holder[s] = p)
    /\ Move(s, "leased", p)

\* The lease, or the attempt to prepare it, ends in a close.
Drain(s) == phase[s] \in {"reserved", "leased"} /\ Move(s, "draining", Nobody)

\* The transport is idle again, is gone, or was never started.
Free(s) == phase[s] # "free" /\ Move(s, "free", Nobody)

\* The pool closes, once, and takes any of the sessions back.
Close ==
    /\ open /\ open' = FALSE
    /\ \E S \in SUBSET {s \in Sessions : phase[s] # "free"} :
         /\ phase' = [s \in Sessions |-> IF s \in S THEN "draining" ELSE phase[s]]
         /\ holder' = [s \in Sessions |-> IF s \in S THEN Nobody ELSE holder[s]]

Next ==
    \/ \E p \in Callers, s \in Sessions : Reserve(p, s) \/ Grant(p, s)
    \/ \E s \in Sessions : Drain(s) \/ Free(s)
    \/ Close

Spec == Init /\ [][Next]_vars
=============================================================================
