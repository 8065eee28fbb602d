----------------------------- MODULE DurableMap -----------------------------
(***************************************************************************)
(* What FileCache promises: a map in memory and its copy in a file.  The   *)
(* file only ever becomes the whole map as it is at that moment, the owner *)
(* may call the map saved only while the file is up to date, and a crash   *)
(* brings back what the file holds, without the entries that have expired. *)
(***************************************************************************)
EXTENDS Naturals

CONSTANTS Keys, Values, Absent

VARIABLES mem, file, unsaved, time
vars == <<mem, file, unsaved, time>>

Entries == [val : Values, until : Nat]

Alive(map) ==
    [k \in Keys |-> IF map[k] # Absent /\ map[k].until \notin {0} /\ map[k].until <= time
                    THEN Absent ELSE map[k]]

Init ==
    /\ mem = [k \in Keys |-> Absent] /\ file = mem
    /\ unsaved = FALSE /\ time = 0

Change(k) ==
    /\ mem' \in [Keys -> Entries \cup {Absent}]
    /\ \A j \in Keys \ {k} : mem'[j] = mem[j]
    /\ unsaved' = TRUE
    /\ UNCHANGED <<file, time>>

SaveFile == file' = mem /\ UNCHANGED <<mem, unsaved, time>>

Acknowledge == file = mem /\ unsaved' = FALSE /\ UNCHANGED <<mem, file, time>>

Crash == mem' = Alive(file) /\ unsaved' = FALSE /\ UNCHANGED <<file, time>>

Tick == time' > time /\ UNCHANGED <<mem, file, unsaved>>

Next == (\E k \in Keys : Change(k)) \/ SaveFile \/ Acknowledge \/ Crash \/ Tick

Spec == Init /\ [][Next]_vars
=============================================================================
