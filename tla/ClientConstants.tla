-------------------------- MODULE ClientConstants --------------------------
(* The constants that the models of the three kinds of clients share. *)

CONSTANTS
    Callers,     \* tasks that call a client
    Procs,       \* child processes
    None,        \* nobody, nothing
    MayFail      \* whether processes and terminals may survive clean-up

ASSUME NoneAssumption == None \notin Callers \cup Procs
ASSUME NamesAssumption == {"claim", "disconnect", "cleanup", "host"} \cap (Callers \cup {None}) = {}
ASSUME MayFailAssumption == MayFail \in BOOLEAN
=============================================================================
