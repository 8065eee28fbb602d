----------------------------- MODULE OwnedAwait -----------------------------
(***************************************************************************)
(* How the library waits for work of its own: wait_for_owned of            *)
(* src/src/soulacp/_async.py, which has a deadline and cancels the work,   *)
(* and the loops around asyncio.shield (_await_owned_cleanup and           *)
(* _await_owned_thread), which let it finish.  The caller of either may be *)
(* cancelled at any time, any number of times, also between the end of the *)
(* work and the moment at which the event loop lets the caller see it.     *)
(***************************************************************************)
VARIABLES
    helper,      \* "timed", with a deadline, or "shielded"
    work,        \* the awaited task: it runs, or how it ended
    asked,       \* whether it was asked to cancel
    at,          \* where the caller is
    woken,       \* whether the loop is about to run the caller
    thrown,      \* whether CancelledError is to be raised in it then
    expired,     \* whether the deadline passed
    cancelled,   \* the variable of that name, or "cancellation"
    outcome,     \* what the caller ends with
    cut          \* history: whether somebody cancelled the caller

awaitVars == <<helper, work, asked, at, woken, thrown, expired, cancelled, outcome, cut>>

Endings == {"ok", "error", "cancelled"}

\* Every variable keeps its type.
AwaitTypeOK ==
    /\ helper \in {"timed", "shielded"} /\ work \in Endings \cup {"runs"}
    /\ at \in {"waits", "retrieves", "over"} /\ outcome \in Endings \cup {"none", "timeout"}
    /\ {asked, woken, thrown, expired, cancelled, cut} \subseteq BOOLEAN

AwaitInit ==
    /\ helper \in {"timed", "shielded"} /\ work = "runs" /\ at = "waits" /\ outcome = "none"
    /\ asked = FALSE /\ woken = FALSE /\ thrown = FALSE /\ expired = FALSE
    /\ cancelled = FALSE /\ cut = FALSE

-----------------------------------------------------------------------------
(* What happens to the caller and to the work *)

\* Work that was asked to cancel may still end in any way.
WorkEnds(how) ==
    /\ work = "runs" /\ (how = "cancelled" => asked)
    /\ work' = how
    /\ UNCHANGED <<helper, asked, at, woken, thrown, expired, cancelled, outcome, cut>>

\* Somebody else cancels the work.
WorkCancelled ==
    /\ work = "runs" /\ asked' = TRUE
    /\ UNCHANGED <<helper, work, at, woken, thrown, expired, cancelled, outcome, cut>>

\* The callbacks of the work that is done wake the caller.
Notices ==
    /\ at # "over" /\ work # "runs" /\ woken' = TRUE
    /\ UNCHANGED <<helper, work, asked, at, thrown, expired, cancelled, outcome, cut>>

Expires ==
    /\ helper = "timed" /\ at = "waits" /\ ~woken
    /\ expired' = TRUE /\ woken' = TRUE
    /\ UNCHANGED <<helper, work, asked, at, thrown, cancelled, outcome, cut>>

Cancels ==
    /\ at # "over" /\ woken' = TRUE /\ thrown' = TRUE /\ cut' = TRUE
    /\ UNCHANGED <<helper, work, asked, at, expired, cancelled, outcome>>

-----------------------------------------------------------------------------
(* The caller *)

Runs(where) ==
    /\ woken /\ at' = where /\ woken' = FALSE /\ thrown' = FALSE
    /\ UNCHANGED <<helper, work, expired, cut>>
Returns(how) == Runs("over") /\ outcome' = how /\ UNCHANGED <<asked, cancelled>>

\* wait_for_owned after asyncio.wait.
TimedReturns ==
    /\ helper = "timed" /\ at = "waits" /\ ~thrown /\ work # "runs"
    /\ Returns(work)
TimedGivesUp ==
    /\ helper = "timed" /\ at = "waits" /\ (thrown \/ work = "runs")
    /\ Runs("retrieves") /\ asked' = (asked \/ work = "runs")
    /\ cancelled' = thrown /\ UNCHANGED outcome

\* Mutant of Kept: a cancellation during the clean-up after a timeout is dropped.
KeptFirst == cancelled
Kept == cancelled \/ thrown

\* _cancel_and_retrieve: cancelled once more, it waits on unless its task has
\* retrieved the outcome.
Retrieves ==
    /\ helper = "timed" /\ at = "retrieves"
    /\ \/ thrown /\ Runs("retrieves") /\ cancelled' = Kept /\ UNCHANGED <<asked, outcome>>
       \/ work # "runs" /\ Runs("over") /\ cancelled' = Kept /\ UNCHANGED asked
          /\ outcome' = IF Kept THEN "cancelled" ELSE "timeout"

\* A turn of the loop around asyncio.shield.
ShieldReturns ==
    /\ helper = "shielded" /\ at = "waits" /\ work # "runs"
    /\ Runs("over") /\ cancelled' = Kept /\ UNCHANGED asked
    /\ outcome' = IF Kept THEN "cancelled" ELSE work
ShieldAgain ==
    /\ helper = "shielded" /\ at = "waits" /\ work = "runs" /\ thrown
    /\ Runs("waits") /\ cancelled' = TRUE /\ UNCHANGED <<asked, outcome>>

CallerStep == TimedReturns \/ TimedGivesUp \/ Retrieves \/ ShieldReturns \/ ShieldAgain
AwaitStep == Notices \/ Expires \/ Cancels \/ CallerStep

AwaitNext == WorkCancelled \/ AwaitStep \/ \E how \in Endings : WorkEnds(how)

AwaitSpec == AwaitInit /\ [][AwaitNext]_awaitVars

-----------------------------------------------------------------------------
(* Properties *)

\* Nothing runs on after the wait for it, no cancellation of the caller is lost,
\* and none is made up; a result is the work's own (tests/test_async.py).
OwnedToTheEnd ==
    outcome # "none" =>
        /\ work # "runs"
        /\ cut => outcome = "cancelled"
        /\ outcome = "cancelled" => cut \/ work = "cancelled"
        /\ outcome \in {"ok", "error"} => outcome = work
        /\ outcome = "timeout" => expired
=============================================================================
