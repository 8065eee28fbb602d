------------------------ MODULE ManagedSessionProofs ------------------------
(***************************************************************************)
(* Turns, resets and close() of a managed session, for any number of tasks *)
(* and users, any attempt budget and any number of calls: a prompt is sent *)
(* once, a conversation continues, a reset stays a reset, and a close that *)
(* succeeds is the end.  And the session store, for any users, providers   *)
(* and times to live: a read is the user's own mapping and the newest, and *)
(* a migration loses none.                                                 *)
(***************************************************************************)
EXTENDS MCSessions, QueueLemmas

-----------------------------------------------------------------------------
(* The invariant *)

Early == {"out", "lock", "reset", "lookup", "acquire", "clear", "backoff", "fallback", "close"}
Between == {"out", "lock", "close"}

\* What a turn has used of its attempts; a stale session costs one more.
Spent(r) == IF r.fresh THEN r.attempt + 1 ELSE r.attempt

\* What a turn r in step says of itself, whatever the others do.
TurnOk(step, r) ==
    /\ step = "out" => r = NoTurn
    /\ step = "close" => r.user = Nobody
    /\ step = "reset" => r.op = "reset"
    /\ r.op = "reset" => r.user # Nobody
    /\ r.prompts <= 1 /\ (step \in Early => r.prompts = 0)
    /\ step \in {"lock", "lookup"} /\ r.provider = "primary" =>
          ~r.fresh /\ r.tries = 0 /\ r.attempt = 1
    /\ step \in {"acquire", "clear", "backoff", "prompt"} /\ r.looked # NoSession =>
          r.session = r.looked \/ r.fresh
    /\ step \in {"acquire", "clear", "backoff"} /\ r.fresh => r.session = NoSession
    /\ step = "clear" => r.fresh
    /\ r.user = Nobody => r.looked = NoSession
    /\ step \in {"lock", "backoff", "fallback"} => r.provider = "primary"
    /\ step = "backoff" => r.attempt < MaxAttempts

\* The attempts a turn has made, against its budget.
BudgetOk(step, r) ==
    IF r.provider = "primary"
    THEN /\ r.tries <= Spent(r)
         /\ step \in {"lock", "lookup", "acquire", "clear"} => r.tries < Spent(r)
    ELSE /\ r.tries <= MaxAttempts + 3
         /\ step \in {"acquire", "clear"} =>
                r.tries <= MaxAttempts + (IF r.fresh THEN 2 ELSE 1)
         /\ step = "lookup" => r.tries <= MaxAttempts + 1

\* The line of a user holds that user's calls, and only its head goes on.
LineInv ==
    /\ \A u \in Users : Distinct(line[u])
    /\ \A u \in Users : Range(line[u]) = {t \in Tasks : turn[t].user = u}
    /\ \A t \in Tasks : pc[t] \notin Between => HasLock(t)

\* Once the session is closed its pools only go, and what was due stays due
\* until the store is flushed.
CloseInv ==
    /\ closing.phase # "none" \/ flushed => closed
    /\ closing.phase \in {"flush", "done"} /\ ~closing.failed => \A p \in Providers : ~InPools(p)
    /\ closing.phase = "gather" => \A p \in Providers : pool[p] # "open"
    /\ flushed => due = {}
    /\ closing.phase = "done" /\ ~closing.failed => due = {}

Types ==
    /\ pc \in [Tasks -> Steps] /\ turn \in [Tasks -> Turns]
    /\ line \in [Users -> Seq(Tasks)]
    /\ mapping \in [Users \X Providers -> Sessions \cup {NoSession}]
    /\ pool \in [Providers -> {"absent", "open", "closed", "gone"}]
    /\ closed \in BOOLEAN /\ flushed \in BOOLEAN
    /\ closing \in [phase : {"none", "pools", "gather", "flush", "done"}, failed : BOOLEAN]
    /\ unsaved \subseteq Users \X Providers /\ due \subseteq unsaved
    /\ stale \subseteq Tasks /\ calls \in 0 .. MaxCalls

TurnsInv == \A t \in Tasks : TurnOk(pc[t], turn[t]) /\ BudgetOk(pc[t], turn[t])

Inv == Types /\ TurnsInv /\ LineInv /\ TurnOwnsMapping /\ stale = {} /\ CloseInv

\* The invariant holds in a new session.
LEMMA InvInit == Init => Inv
<1> SUFFICES ASSUME Init PROVE Inv
  OBVIOUS
<1> USE BudgetAssumption, NamesAssumption, BoundAssumption DEF Init
<1>1. Types
  <2>1. NoTurn \in Turns
    BY DEF NoTurn, Turns, Providers
  <2>2. line \in [Users -> Seq(Tasks)]
    BY DEF Providers
  <2>3. closing \in [phase : {"none", "pools", "gather", "flush", "done"}, failed : BOOLEAN]
    BY Zenon
  <2>4. closed \in BOOLEAN /\ flushed \in BOOLEAN
    BY Zenon
  <2> QED BY <2>1, <2>2, <2>3, <2>4 DEF Types, Steps
<1>2. TurnsInv
  BY DEF TurnsInv, TurnOk, BudgetOk, Spent, NoTurn
<1>3. LineInv
  BY DEF LineInv, Distinct, Range, NoTurn, Between
<1>4. TurnOwnsMapping /\ stale = {} /\ CloseInv
  BY DEF TurnOwnsMapping, CloseInv, InPools
<1> QED BY <1>1, <1>2, <1>3, <1>4 DEF Inv

-----------------------------------------------------------------------------
(* The steps of a call *)

\* A call goes on: with the lock, with a turn that may have made an attempt.
Advances(t) ==
    \E to \in Steps \ Between, r \in Turns :
        /\ pc[t] \notin {"out", "close"} /\ HasLock(t)
        /\ Goto(t, to) /\ turn' = [turn EXCEPT ![t] = r]
        /\ r.user = turn[t].user
        /\ TurnOk(to, r) /\ BudgetOk(to, r)
        /\ UNCHANGED <<line, stale>>

\* A call ends.
Ends(t) ==
    /\ pc[t] \notin {"out", "close"}
    /\ Goto(t, "out") /\ turn' = [turn EXCEPT ![t] = NoTurn]
    /\ line' = [u \in Users |-> RemoveFirst(line[u], t)]
    /\ stale' = stale

\* What a turn t that may go on has: a record of the type, and the lock.
LEMMA TurnFacts ==
    ASSUME Inv, NEW t \in Tasks
    PROVE  /\ turn[t] \in Turns /\ TurnOk(pc[t], turn[t]) /\ BudgetOk(pc[t], turn[t])
           /\ pc[t] \notin Between => HasLock(t)
           /\ stale = {} /\ pc \in [Tasks -> Steps]
BY DEF Inv, Types, TurnsInv, LineInv

\* A call that gives its lock or its place up has ended.
LEMMA Returned ==
    ASSUME Inv, NEW t \in Tasks, pc[t] \notin {"out", "close"}, Return(t)
    PROVE  Ends(t)
BY TurnFacts DEF Return, Ends

\* Resets overtake nobody: a turn that is past the line has the lock.
LEMMA NobodyOvertaken ==
    ASSUME Inv, NEW t \in Tasks, Reset(t)
    PROVE  Overtaken(turn[t].user) = {}
<1> SUFFICES ASSUME NEW w \in Tasks, turn[w].user = turn[t].user, turn[w].op = "query", pc[w] # "lock"
             PROVE  FALSE
  BY DEF Overtaken
<1>1. TurnOk("reset", turn[t]) /\ TurnOk(pc[w], turn[w]) /\ HasLock(t)
  BY TurnFacts DEF Reset, Between
<1>2. turn[t].op = "reset" /\ w # t
  BY <1>1 DEF TurnOk
<1>3. turn[w].user # Nobody /\ pc[w] \notin Between
  BY <1>1, <1>2, NamesAssumption DEF TurnOk, NoTurn, Between
<1>4. HasLock(w) /\ turn[w].user \in Users
  BY <1>3, TurnFacts DEF Turns
<1> QED BY <1>1, <1>2, <1>4 DEF HasLock

\* How a step of a turn is shown to be one.
LEMMA AdvanceBy ==
    ASSUME Inv, NEW t \in Tasks, pc[t] \notin Between \/ (pc[t] = "lock" /\ HasLock(t)),
           NEW to \in Steps \ Between, NEW r \in Turns,
           Goto(t, to), turn' = [turn EXCEPT ![t] = r], UNCHANGED <<line, stale>>,
           r.user = turn[t].user, TurnOk(to, r), BudgetOk(to, r)
    PROVE  Advances(t)
BY TurnFacts DEF Advances, Between

\* The head of the line begins its turn, or is told that the session is closed.
LEMMA StartMoves ==
    ASSUME Inv, NEW t \in Tasks, Start(t)
    PROVE  Advances(t) \/ Ends(t)
<1>1. CASE turn[t].op = "reset"
  <2>1. turn' = [turn EXCEPT ![t] = turn[t]] /\ TurnOk("reset", turn[t]) /\ BudgetOk("reset", turn[t])
    BY <1>1, TurnFacts DEF Start, Inv, Types, TurnOk, BudgetOk, Early
  <2> QED BY <1>1, <2>1, AdvanceBy, TurnFacts DEF Start, Steps, Between
<1>2. CASE turn[t].op # "reset" /\ closed
  BY <1>2, Returned DEF Start
<1>3. CASE turn[t].op # "reset" /\ ~closed
  <2>1. turn' = [turn EXCEPT ![t] = turn[t]] /\ TurnOk("lookup", turn[t]) /\ BudgetOk("lookup", turn[t])
    BY <1>3, TurnFacts DEF Start, Inv, Types, TurnOk, BudgetOk, Early, Spent
  <2> QED BY <1>3, <2>1, AdvanceBy, TurnFacts DEF Start, Steps, Between
<1> QED BY <1>1, <1>2, <1>3

\* A reset overtakes nobody and ends.
LEMMA ResetMoves ==
    ASSUME Inv, NEW t \in Tasks, Reset(t)
    PROVE  Ends(t)
BY NobodyOvertaken, TurnFacts DEF Reset, Ends

\* A turn finds the stored session, or none.
LEMMA LookupMoves ==
    ASSUME Inv, NEW t \in Tasks, Lookup(t)
    PROVE  Advances(t)
<1>1. PICK s \in {NoSession} \cup (IF turn[t].user = Nobody THEN {} ELSE {mapping[Key(t)]}) :
         turn' = [turn EXCEPT ![t].looked = s, ![t].session = s, ![t].fresh = FALSE]
  BY DEF Lookup
<1> DEFINE r == [turn[t] EXCEPT !.looked = s, !.session = s, !.fresh = FALSE]
<1>2. s \in Sessions \cup {NoSession} /\ (turn[t].user = Nobody => s = NoSession)
  BY <1>1, TurnFacts DEF Inv, Types, Key, Turns
<1>3. r \in Turns /\ turn' = [turn EXCEPT ![t] = r] /\ r.user = turn[t].user
  BY ZenonT(40), <1>1, <1>2, TurnFacts DEF Turns, Inv, Types
<1>4. TurnOk("acquire", r) /\ BudgetOk("acquire", r)
  BY <1>2, TurnFacts, BudgetAssumption DEF Lookup, TurnOk, BudgetOk, Turns, Early, Spent
<1> QED BY <1>3, <1>4, AdvanceBy, TurnFacts DEF Lookup, Steps, Between

\* An attempt at a lease is made.
LEMMA TriedFacts ==
    ASSUME Inv, NEW t \in Tasks, pc[t] = "acquire"
    PROVE  /\ Tried(t) \in Turns
           /\ Tried(t) = [turn[t] EXCEPT !.tries = turn[t].tries + 1]
           /\ turn[t].provider = "primary" => Tried(t).tries <= Spent(turn[t])
           /\ turn[t].provider # "primary" =>
                Tried(t).tries <= MaxAttempts + (IF turn[t].fresh THEN 3 ELSE 2)
BY TurnFacts, BudgetAssumption DEF Tried, Turns, BudgetOk, Spent

\* A turn gets its lease, in the session it asked for if it did.
LEMMA LeasedMoves ==
    ASSUME Inv, NEW t \in Tasks, Leased(t)
    PROVE  Advances(t)
<1>1. PICK s \in (IF turn[t].session # NoSession THEN {turn[t].session} ELSE Sessions \cup {NoSession}) :
         turn' = [turn EXCEPT ![t] = [Tried(t) EXCEPT !.session = s, !.prompts = @ + 1]]
  BY DEF Leased
<1> DEFINE r == [turn[t] EXCEPT !.tries = turn[t].tries + 1, !.session = s, !.prompts = turn[t].prompts + 1]
<1>2. s \in Sessions \cup {NoSession} /\ pc[t] = "acquire"
  BY <1>1, TurnFacts DEF Turns, Leased
<1>3. r \in Turns /\ turn' = [turn EXCEPT ![t] = r] /\ r.user = turn[t].user
  <2>1. r = [Tried(t) EXCEPT !.session = s, !.prompts = @ + 1]
    BY <1>2, TurnFacts, TriedFacts DEF Turns
  <2>2. Tried(t) \in Turns /\ Tried(t).user = turn[t].user
    BY <1>2, TurnFacts, TriedFacts DEF Turns
  <2> HIDE DEF r
  <2>3. r \in Turns /\ r.user = turn[t].user
    <3>1. ASSUME NEW q \in Turns
          PROVE  /\ [q EXCEPT !.session = s, !.prompts = @ + 1] \in Turns
                 /\ [q EXCEPT !.session = s, !.prompts = @ + 1].user = q.user
      <4> DEFINE a == [q EXCEPT !.session = s]
                 b == [a EXCEPT !.prompts = q.prompts + 1]
      <4>1. a \in Turns /\ a.user = q.user /\ q.prompts \in Nat
        BY <1>2 DEF Turns
      <4> HIDE DEF a
      <4>2. b \in Turns /\ b.user = a.user
        BY <4>1 DEF Turns
      <4>3. [q EXCEPT !.session = s, !.prompts = @ + 1] = b
        BY DEF a, Turns
      <4> QED BY <4>1, <4>2, <4>3
    <3> QED BY <2>1, <2>2, <3>1
  <2> QED BY <1>1, <2>1, <2>3
<1>4. TurnOk("prompt", r)
  BY <1>1, <1>2, TurnFacts DEF TurnOk, Turns, Early
<1>5. BudgetOk("prompt", r)
  BY <1>2, TurnFacts, BudgetAssumption DEF BudgetOk, Turns, Spent
<1> QED BY <1>2, <1>3, <1>4, <1>5, AdvanceBy, TurnFacts DEF Leased, Steps, Between

\* A stale session is given up and costs one more attempt.
LEMMA NotResumedMoves ==
    ASSUME Inv, NEW t \in Tasks, NotResumed(t)
    PROVE  Advances(t)
<1> DEFINE r == [turn[t] EXCEPT !.tries = turn[t].tries + 1, !.session = NoSession, !.fresh = TRUE]
<1>1. r \in Turns /\ turn' = [turn EXCEPT ![t] = r] /\ r.user = turn[t].user
  <2>1. r = [Tried(t) EXCEPT !.session = NoSession, !.fresh = TRUE]
    BY TurnFacts, TriedFacts DEF NotResumed, Turns
  <2>2. Tried(t) \in Turns /\ Tried(t).user = turn[t].user
    BY TurnFacts, TriedFacts DEF NotResumed, Turns
  <2> HIDE DEF r
  <2>3. r \in Turns /\ r.user = turn[t].user
    BY <2>1, <2>2 DEF Turns
  <2> QED BY <2>1, <2>3 DEF NotResumed
<1>2. TurnOk("clear", r)
  BY TurnFacts DEF NotResumed, TurnOk, Turns, Early
<1>3. BudgetOk("clear", r)
  <2>1. ~turn[t].fresh
    BY TurnFacts DEF NotResumed, TurnOk
  <2> QED BY <2>1, TurnFacts, BudgetAssumption DEF NotResumed, BudgetOk, Turns, Spent
<1> QED BY <1>1, <1>2, <1>3, AdvanceBy, TurnFacts DEF NotResumed, Steps, Between

\* An attempt failed, and there are more.
LEMMA TransientMoves ==
    ASSUME Inv, NEW t \in Tasks, Transient(t)
    PROVE  Advances(t)
<1> DEFINE r == [turn[t] EXCEPT !.tries = turn[t].tries + 1]
<1>1. r \in Turns /\ turn' = [turn EXCEPT ![t] = r] /\ r.user = turn[t].user
  BY TurnFacts DEF Transient, Turns, Tried
<1>2. TurnOk("backoff", r)
  BY TurnFacts DEF Transient, TurnOk, Turns, Early
<1>3. BudgetOk("backoff", r)
  BY TurnFacts, BudgetAssumption DEF Transient, BudgetOk, Turns, Spent
<1> QED BY <1>1, <1>2, <1>3, AdvanceBy, TurnFacts DEF Transient, Steps, Between

\* The primary provider is given up.
LEMMA GiveUpMoves ==
    ASSUME Inv, NEW t \in Tasks, GiveUp(t)
    PROVE  Advances(t)
<1> DEFINE r == [turn[t] EXCEPT !.tries = turn[t].tries + 1]
<1>1. r \in Turns /\ turn' = [turn EXCEPT ![t] = r] /\ r.user = turn[t].user
  BY TurnFacts DEF GiveUp, Turns, Tried
<1>2. TurnOk("fallback", r)
  BY TurnFacts DEF GiveUp, TurnOk, Turns, Early
<1>3. BudgetOk("fallback", r)
  BY TurnFacts, BudgetAssumption DEF GiveUp, BudgetOk, Turns, Spent
<1> QED BY <1>1, <1>2, <1>3, AdvanceBy, TurnFacts DEF GiveUp, Steps, Between

\* The stale mapping is cleared.
LEMMA ClearMoves ==
    ASSUME Inv, NEW t \in Tasks, Clear(t)
    PROVE  Advances(t)
<1>1. turn' = [turn EXCEPT ![t] = turn[t]] /\ TurnOk("acquire", turn[t]) /\ BudgetOk("acquire", turn[t])
  BY TurnFacts DEF Clear, Inv, Types, TurnOk, BudgetOk, Early, Spent
<1> QED BY <1>1, AdvanceBy, TurnFacts DEF Clear, Steps, Between

\* The next attempt begins.
LEMMA BackoffMoves ==
    ASSUME Inv, NEW t \in Tasks, Backoff(t)
    PROVE  Advances(t)
<1> DEFINE r == [turn[t] EXCEPT !.attempt = turn[t].attempt + 1]
<1>1. turn[t].attempt < MaxAttempts /\ turn[t].attempt \in 1 .. MaxAttempts
  BY TurnFacts DEF Backoff, TurnOk, Turns
<1>2. r \in Turns /\ turn' = [turn EXCEPT ![t] = r] /\ r.user = turn[t].user
  BY <1>1, TurnFacts, BudgetAssumption DEF Backoff, Turns
<1>3. TurnOk("acquire", r)
  BY TurnFacts DEF Backoff, TurnOk, Turns, Early
<1>4. BudgetOk("acquire", r)
  BY <1>1, TurnFacts, BudgetAssumption DEF Backoff, BudgetOk, TurnOk, Turns, Spent
<1> QED BY <1>2, <1>3, <1>4, AdvanceBy, TurnFacts DEF Backoff, Steps, Between

\* The fallback is tried, unless the session is closed.
LEMMA FallBackMoves ==
    ASSUME Inv, NEW t \in Tasks, FallBack(t)
    PROVE  Advances(t) \/ Ends(t)
<1>1. CASE closed
  BY <1>1, Returned DEF FallBack
<1>2. CASE ~closed
  <2> DEFINE r == [turn[t] EXCEPT !.provider = "fallback", !.session = NoSession]
  <2>1. r \in Turns /\ turn' = [turn EXCEPT ![t] = r] /\ r.user = turn[t].user
    BY <1>2, TurnFacts DEF FallBack, Turns, Providers
  <2>2. TurnOk("lookup", r)
    BY TurnFacts DEF FallBack, TurnOk, Turns, Early
  <2>3. BudgetOk("lookup", r)
    BY TurnFacts, BudgetAssumption DEF FallBack, TurnOk, BudgetOk, Turns, Spent
  <2> QED BY <1>2, <2>1, <2>2, <2>3, AdvanceBy, TurnFacts DEF FallBack, Steps, Between
<1> QED BY <1>1, <1>2

\* The answer names any session.
LEMMA AnsweredMoves ==
    ASSUME Inv, NEW t \in Tasks, Answered(t)
    PROVE  Advances(t)
<1>1. PICK s \in Sessions \cup {NoSession} : turn' = [turn EXCEPT ![t].session = s]
  BY DEF Answered
<1> DEFINE r == [turn[t] EXCEPT !.session = s]
<1>2. r \in Turns /\ turn' = [turn EXCEPT ![t] = r] /\ r.user = turn[t].user
  BY <1>1, TurnFacts DEF Turns
<1>3. TurnOk("release", r) /\ BudgetOk("release", r)
  BY TurnFacts DEF Answered, TurnOk, BudgetOk, Turns, Early, Spent
<1> QED BY <1>2, <1>3, AdvanceBy, TurnFacts DEF Answered, Steps, Between

\* A lease ends, and with it the call if the release raised.
LEMMA ReleaseMoves ==
    ASSUME Inv, NEW t \in Tasks, Release(t)
    PROVE  Advances(t) \/ Ends(t)
<1>1. CASE Return(t)
  BY <1>1, Returned DEF Release
<1>2. CASE Goto(t, "save") /\ UNCHANGED <<turn, line, stale>>
  <2>1. turn' = [turn EXCEPT ![t] = turn[t]] /\ TurnOk("save", turn[t]) /\ BudgetOk("save", turn[t])
    BY <1>2, TurnFacts DEF Release, Inv, Types, TurnOk, BudgetOk, Early, Spent
  <2> QED BY <1>2, <2>1, AdvanceBy, TurnFacts DEF Release, Steps, Between
<1> QED BY <1>1, <1>2 DEF Release

\* A step of a call that has begun moves it on, or ends it.
LEMMA TurnMoves ==
    ASSUME Inv, NEW t \in Tasks, Turn(t) \/ Cancel(t)
    PROVE  Advances(t) \/ Ends(t)
<1>1. CASE Refused(t) \/ Failed(t) \/ Save(t) \/ Cancel(t)
  BY <1>1, Returned DEF Refused, Failed, Save, Cancel
<1> QED BY <1>1, StartMoves, ResetMoves, LookupMoves, LeasedMoves, NotResumedMoves, TransientMoves,
           GiveUpMoves, ClearMoves, BackoffMoves, FallBackMoves, AnsweredMoves, ReleaseMoves
        DEF Turn, Acquire, Prompt

-----------------------------------------------------------------------------
(* Turns and lines *)

\* The parts of the invariant that the calls' own variables are about.
CallTypes ==
    /\ pc \in [Tasks -> Steps] /\ turn \in [Tasks -> Turns]
    /\ line \in [Users -> Seq(Tasks)] /\ stale = {}
CallInv == CallTypes /\ TurnsInv /\ LineInv

\* A call that goes on stays the head of its line.
LEMMA AdvanceKeeps ==
    ASSUME Inv, NEW t \in Tasks, Advances(t)
    PROVE  CallInv'
<1> USE DEF Inv, Types
<1>1. PICK to \in Steps \ Between, r \in Turns :
        /\ pc[t] \notin {"out", "close"} /\ HasLock(t)
        /\ Goto(t, to) /\ turn' = [turn EXCEPT ![t] = r]
        /\ r.user = turn[t].user
        /\ TurnOk(to, r) /\ BudgetOk(to, r)
        /\ UNCHANGED <<line, stale>>
  BY DEF Advances
<1>2. CallTypes'
  BY <1>1 DEF CallTypes, Goto
<1>3. TurnsInv'
  BY <1>1 DEF TurnsInv, Goto
<1>4. \A w \in Tasks : turn'[w].user = turn[w].user
  BY <1>1
<1>5. \A w \in Tasks : HasLock(w) => HasLock(w)'
  BY <1>1, <1>4 DEF HasLock
<1>6. \A w \in Tasks : pc'[w] \notin Between => HasLock(w)
  BY <1>1 DEF LineInv, Goto
<1>7. LineInv'
  BY <1>1, <1>4, <1>5, <1>6 DEF LineInv
<1> QED BY <1>2, <1>3, <1>7 DEF CallInv

\* A call that ends leaves its line, whatever its place there.
LEMMA EndKeeps ==
    ASSUME Inv, NEW t \in Tasks, Ends(t)
    PROVE  CallInv'
<1> USE DEF Inv, Types, Ends
<1>1. NoTurn \in Turns /\ TurnOk("out", NoTurn) /\ BudgetOk("out", NoTurn) /\ NoTurn.user = Nobody
  BY BudgetAssumption DEF NoTurn, Turns, Providers, TurnOk, BudgetOk, Spent
<1>2. CallTypes'
  <2>1. line' \in [Users -> Seq(Tasks)]
    BY RemoveFirstType
  <2> QED BY <1>1, <2>1 DEF CallTypes, Goto, Steps
<1>3. TurnsInv'
  BY <1>1 DEF TurnsInv, Goto
<1>4. ASSUME NEW u \in Users
      PROVE  Distinct(line'[u]) /\ Range(line'[u]) = {w \in Tasks : turn'[w].user = u}
  <2>1. Distinct(line'[u]) /\ Range(line'[u]) = Range(line[u]) \ {t}
    BY RemoveFirstKeeps DEF LineInv
  <2>2. {w \in Tasks : turn'[w].user = u} = {w \in Tasks : turn[w].user = u} \ {t}
    BY <1>1, NamesAssumption
  <2> QED BY <2>1, <2>2 DEF LineInv
<1>5. ASSUME NEW w \in Tasks, pc'[w] \notin Between
      PROVE  HasLock(w)'
  <2>1. w # t /\ pc[w] \notin Between /\ turn'[w] = turn[w]
    BY <1>5 DEF Goto, Between
  <2>2. ASSUME turn[w].user \in Users
        PROVE  Head(line'[turn[w].user]) = w
    <3> DEFINE u == turn[w].user
    <3>1. line[u] \in Seq(Tasks) /\ Head(line[u]) = w
      BY <2>1, <2>2 DEF LineInv, HasLock
    <3>2. w \in Range(line[u])
      BY <2>2 DEF LineInv
    <3>3. line[u] # <<>>
      BY <3>1, <3>2 DEF Range
    <3>4. Head(RemoveFirst(line[u], t)) = Head(line[u])
      BY <2>1, <3>1, <3>3, RemoveFirstHead
    <3> QED BY <2>2, <3>1, <3>4
  <2> QED BY <2>1, <2>2 DEF HasLock
<1> QED BY <1>2, <1>3, <1>4, <1>5 DEF CallInv, LineInv

\* A call that begins goes to the end of its line.
LEMMA CallKeeps ==
    ASSUME Inv, NEW t \in Tasks, Call(t)
    PROVE  CallInv'
<1> USE DEF Inv, Types
<1>1. PICK u \in Users \cup {Nobody}, op \in {"query", "reset"} :
         /\ op = "reset" => u # Nobody /\ ~closed
         /\ turn' = [turn EXCEPT ![t] = [NoTurn EXCEPT !.user = u, !.op = op]]
         /\ line' = IF u = Nobody THEN line ELSE [line EXCEPT ![u] = Append(@, t)]
  BY DEF Call
<1> DEFINE r == [NoTurn EXCEPT !.user = u, !.op = op]
<1>2. r \in Turns /\ r.user = u /\ TurnOk("lock", r) /\ BudgetOk("lock", r)
  <2>1. /\ r.user = u /\ r.op = op /\ r.provider = "primary" /\ r.looked = NoSession
        /\ r.session = NoSession /\ r.attempt = 1 /\ r.tries = 0 /\ r.fresh = FALSE
        /\ r.prompts = 0
    BY DEF NoTurn
  <2>2. r \in Turns
    <3>1. NoTurn \in Turns
      BY BudgetAssumption DEF NoTurn, Turns, Providers
    <3>2. ASSUME NEW q \in Turns PROVE [q EXCEPT !.user = u, !.op = op] \in Turns
      BY <1>1 DEF Turns
    <3> QED BY <3>1, <3>2
  <2> HIDE DEF r
  <2>3. TurnOk("lock", r)
    BY <1>1, <2>1 DEF TurnOk, Early
  <2>4. BudgetOk("lock", r)
    BY <2>1 DEF BudgetOk, Spent
  <2> QED BY <2>1, <2>2, <2>3, <2>4
<1> HIDE DEF r
<1>3. turn' = [turn EXCEPT ![t] = r] /\ pc' = [pc EXCEPT ![t] = "lock"] /\ stale' = stale
  BY <1>1 DEF r, Call, Goto
<1>4. turn[t].user = Nobody
  BY DEF Call, TurnsInv, TurnOk, NoTurn
<1>5. CallTypes'
  BY <1>1, <1>2, <1>3 DEF CallTypes, Steps
<1>6. TurnsInv'
  BY <1>2, <1>3 DEF TurnsInv
<1>7. ASSUME NEW v \in Users
      PROVE  /\ Distinct(line'[v]) /\ Range(line'[v]) = {w \in Tasks : turn'[w].user = v}
             /\ line[v] # <<>> => Head(line'[v]) = Head(line[v])
  <2>1. t \notin Range(line[v])
    BY <1>4, NamesAssumption DEF LineInv
  <2>2. CASE v = u
    <3>1. /\ Distinct(line'[v]) /\ Range(line'[v]) = Range(line[v]) \cup {t}
          /\ line[v] # <<>> => Head(line'[v]) = Head(line[v])
      <4>1. line'[v] = Append(line[v], t) /\ Distinct(line[v]) /\ line[v] \in Seq(Tasks)
        BY <1>1, <2>2, NamesAssumption DEF LineInv
      <4> QED BY <2>1, <4>1, AppendKeeps
    <3>2. {w \in Tasks : turn'[w].user = v} = {w \in Tasks : turn[w].user = v} \cup {t}
      BY <1>2, <1>3, <2>2
    <3> QED BY <3>1, <3>2 DEF LineInv
  <2>3. CASE v # u
    <3>1. line'[v] = line[v]
      BY <1>1, <2>3
    <3>2. {w \in Tasks : turn'[w].user = v} = {w \in Tasks : turn[w].user = v}
      BY <1>2, <1>3, <1>4, <2>3, NamesAssumption
    <3> QED BY <3>1, <3>2 DEF LineInv
  <2> QED BY <2>2, <2>3
<1>8. ASSUME NEW w \in Tasks, pc'[w] \notin Between
      PROVE  HasLock(w)'
  <2>1. w # t /\ pc[w] \notin Between /\ turn'[w] = turn[w] /\ HasLock(w)
    BY <1>3, <1>8 DEF LineInv, Between
  <2>2. ASSUME turn[w].user \in Users
        PROVE  Head(line'[turn[w].user]) = w
    <3>1. line[turn[w].user] # <<>>
      BY <2>2 DEF LineInv, Range
    <3> QED BY <1>7, <2>1, <2>2, <3>1 DEF HasLock
  <2> QED BY <2>1, <2>2 DEF HasLock
<1> QED BY <1>5, <1>6, <1>7, <1>8 DEF CallInv, LineInv

\* Calls of close(), and the end of the close task, leave the lines alone.
LEMMA ClosersKeep ==
    ASSUME Inv, (\E t \in Tasks : Close(t)) \/ CloseStep
    PROVE  CallInv'
<1> USE DEF Inv, Types
<1>1. NoTurn \in Turns /\ TurnOk("out", NoTurn) /\ BudgetOk("out", NoTurn) /\ NoTurn.user = Nobody
  BY BudgetAssumption DEF NoTurn, Turns, Providers, TurnOk, BudgetOk, Spent
<1>2. UNCHANGED <<line, stale>>
  BY DEF Close, CloseStep, ClosePools, PoolsClosed, Flush, CloseEnd
<1>3. ASSUME /\ pc' \in [Tasks -> Steps] /\ turn' \in [Tasks -> Turns] /\ TurnsInv'
             /\ \A w \in Tasks : turn'[w].user = turn[w].user
             /\ \A w \in Tasks : pc'[w] \notin Between => pc[w] \notin Between
      PROVE  CallInv'
  <2>1. \A w \in Tasks : HasLock(w) => HasLock(w)'
    BY <1>2, <1>3 DEF HasLock
  <2>2. LineInv'
    BY <1>2, <1>3, <2>1 DEF LineInv
  <2> QED BY <1>2, <1>3, <2>2 DEF CallInv, CallTypes
<1>4. ASSUME NEW t \in Tasks, Close(t) PROVE CallInv'
  <2>1. CASE UNCHANGED <<pc, turn>>
    BY <1>3, <2>1 DEF TurnsInv
  <2>2. CASE pc' = [pc EXCEPT ![t] = "close"] /\ turn' = [turn EXCEPT ![t].op = "close"]
    <3> DEFINE r == [NoTurn EXCEPT !.op = "close"]
    <3>1. r \in Turns /\ TurnOk("close", r) /\ BudgetOk("close", r) /\ r.user = Nobody
      <4>1. /\ r.user = Nobody /\ r.op = "close" /\ r.provider = "primary" /\ r.looked = NoSession
            /\ r.session = NoSession /\ r.attempt = 1 /\ r.tries = 0 /\ r.fresh = FALSE
            /\ r.prompts = 0
        BY DEF NoTurn
      <4>2. r \in Turns
        BY <1>1 DEF Turns
      <4> HIDE DEF r
      <4>3. TurnOk("close", r)
        BY <4>1 DEF TurnOk, Early
      <4>4. BudgetOk("close", r)
        BY <4>1 DEF BudgetOk, Spent
      <4> QED BY <4>1, <4>2, <4>3, <4>4
    <3>2. turn[t] = NoTurn
      BY <1>4 DEF Close, TurnsInv, TurnOk
    <3>3. turn' = [turn EXCEPT ![t] = r]
      BY <2>2, <3>2
    <3> HIDE DEF r
    <3>4. TurnsInv'
      BY <2>2, <3>1, <3>3 DEF TurnsInv
    <3> QED BY <1>1, <1>3, <2>2, <3>1, <3>2, <3>3, <3>4 DEF Steps, Between
  <2> QED BY <1>4, <2>1, <2>2 DEF Close, Goto
<1>5. CASE ClosePools \/ PoolsClosed
  BY <1>3, <1>5 DEF ClosePools, PoolsClosed, TurnsInv
<1>6. CASE Flush
  <2>1. /\ pc' = [t \in Tasks |-> IF pc[t] = "close" THEN "out" ELSE pc[t]]
        /\ turn' = [t \in Tasks |-> IF pc[t] = "close" THEN NoTurn ELSE turn[t]]
    BY <1>6 DEF Flush, CloseEnd
  <2>2. \A w \in Tasks : turn'[w].user = turn[w].user
    BY <1>1, <2>1 DEF TurnsInv, TurnOk
  <2>3. TurnsInv'
    BY <1>1, <2>1 DEF TurnsInv
  <2> QED BY <1>1, <1>3, <2>1, <2>2, <2>3 DEF Steps, Between
<1> QED BY <1>4, <1>5, <1>6 DEF CloseStep

\* The types, the turns and the lines are kept by every step.
LEMMA CallInvKept ==
    ASSUME Inv, Next
    PROVE  CallInv'
BY TurnMoves, AdvanceKeeps, EndKeeps, CallKeeps, ClosersKeep DEF Next

-----------------------------------------------------------------------------
(* Mappings *)

\* Where a turn relies on the mapping it looked up.
Relying == {"acquire", "backoff", "prompt", "release", "save"}
Relies(t) == pc[t] \in Relying /\ turn[t].looked # NoSession /\ ~turn[t].fresh

\* A store operation touches the mapping of its own user alone.
LEMMA StoresOwn ==
    ASSUME Inv, NEW t \in Tasks, NEW s \in Sessions \cup {NoSession}, Stores(t, s),
           pc[t] \notin Between
    PROVE  /\ mapping' \in [Users \X Providers -> Sessions \cup {NoSession}]
           /\ unsaved' \subseteq Users \X Providers /\ due' \subseteq unsaved' /\ due' = due
           /\ \A w \in Tasks \ {t} : Relies(w) => mapping'[Key(w)] = mapping[Key(w)]
<1> USE DEF Inv, Types
<1>1. CASE UNCHANGED storeVars
  BY <1>1 DEF storeVars
<1>2. CASE /\ turn[t].user # Nobody
           /\ mapping' = [mapping EXCEPT ![Key(t)] = s]
           /\ unsaved' = (IF mapping' = mapping THEN unsaved ELSE unsaved \cup {Key(t)})
           /\ UNCHANGED due
  <2>1. turn[t].user \in Users /\ Key(t) \in Users \X Providers
    BY <1>2 DEF Turns, Key
  <2>2. ASSUME NEW w \in Tasks \ {t}, Relies(w)
        PROVE  mapping'[Key(w)] = mapping[Key(w)]
    <3>1. turn[w].user \in Users /\ HasLock(w) /\ HasLock(t)
      BY <2>2, TurnFacts DEF Relies, Relying, Between, TurnOk, Turns
    <3>2. turn[w].user # turn[t].user
      BY <2>1, <3>1 DEF HasLock
    <3>3. Key(w) # Key(t) /\ Key(w) \in Users \X Providers
      BY <2>2, <3>1, <3>2 DEF Key, Turns
    <3> QED BY <1>2, <3>3
  <2> QED BY <1>2, <2>1, <2>2
<1> QED BY <1>1, <1>2 DEF Stores

\* A turn relies on the mapping it found, and changes it when it has ended only.
LEMMA OwnMappingKept ==
    ASSUME Inv, Next
    PROVE  TurnOwnsMapping'
<1> USE DEF Inv, Types
<1>1. \A w \in Tasks : Relies(w) => mapping[Key(w)] = turn[w].looked
  BY DEF TurnOwnsMapping, Relies, Relying
<1>2. SUFFICES ASSUME NEW w \in Tasks, Relies(w)' PROVE mapping'[Key(w)'] = turn'[w].looked
  BY DEF TurnOwnsMapping, Relies, Relying
<1>3. CASE pc'[w] = pc[w] /\ turn'[w] = turn[w] /\ UNCHANGED mapping
  <2>1. Key(w)' = Key(w)
    BY <1>3 DEF Key
  <2> QED BY <1>1, <1>2, <1>3, <2>1 DEF Relies
<1>4. ASSUME NEW t \in Tasks, Reset(t) \/ Clear(t) \/ Save(t) PROVE mapping'[Key(w)'] = turn'[w].looked
  <2>1. w # t
    BY <1>2, <1>4, TurnFacts DEF Reset, Clear, Save, Return, Goto, Relies, Relying, TurnOk
  <2>2. pc'[w] = pc[w] /\ turn'[w] = turn[w] /\ Key(w)' = Key(w)
    BY <1>4, <2>1 DEF Reset, Clear, Save, Return, Goto, Key
  <2>3. mapping'[Key(w)] = mapping[Key(w)]
    <3>1. PICK s \in Sessions \cup {NoSession} : Stores(t, s)
      BY <1>4 DEF Reset, Clear, Save, Turns
    <3> QED BY ZenonT(40), <1>2, <1>4, <2>1, <2>2, <3>1, StoresOwn DEF Reset, Clear, Save, Between, Relies
  <2> QED BY <1>1, <1>2, <2>2, <2>3 DEF Relies
<1>5. ASSUME NEW t \in Tasks, Lookup(t) PROVE mapping'[Key(w)'] = turn'[w].looked
  <2>1. CASE w # t
    BY <1>3, <1>5, <2>1 DEF Lookup, Goto, storeVars
  <2>2. CASE w = t
    <3>1. PICK s \in {NoSession} \cup (IF turn[t].user = Nobody THEN {} ELSE {mapping[Key(t)]}) :
             turn' = [turn EXCEPT ![t].looked = s, ![t].session = s, ![t].fresh = FALSE]
      BY <1>5 DEF Lookup
    <3>2. turn'[t].looked = s /\ turn'[t].user = turn[t].user /\ turn'[t].provider = turn[t].provider
      BY <3>1 DEF Turns
    <3>3. s = mapping[Key(t)] /\ Key(t)' = Key(t)
      BY <1>2, <2>2, <3>1, <3>2 DEF Relies, Key
    <3> QED BY <1>5, <2>2, <3>2, <3>3 DEF Lookup, storeVars
  <2> QED BY <2>1, <2>2
<1>6. ASSUME NEW t \in Tasks, Leased(t) \/ Transient(t) \/ Backoff(t) \/ Answered(t)
      PROVE  mapping'[Key(w)'] = turn'[w].looked
  <2>1. CASE w # t
    BY <1>3, <1>6, <2>1 DEF Leased, Transient, Backoff, Answered, Goto, storeVars
  <2>2. CASE w = t
    <3>1. /\ turn'[t].looked = turn[t].looked /\ turn'[t].fresh = turn[t].fresh
          /\ turn'[t].user = turn[t].user /\ turn'[t].provider = turn[t].provider
      <4>1. CASE Leased(t)
        <5>1. PICK s \in IF turn[t].session # NoSession THEN {turn[t].session} ELSE Sessions \cup {NoSession} :
                 turn' = [turn EXCEPT ![t] = [Tried(t) EXCEPT !.session = s, !.prompts = @ + 1]]
          BY <4>1 DEF Leased
        <5>2. turn'[t] = [Tried(t) EXCEPT !.session = s, !.prompts = @ + 1]
          BY <5>1
        <5> QED BY <5>2 DEF Tried, Turns
      <4>2. CASE Transient(t)
        BY <4>2 DEF Transient, Tried, Turns
      <4>3. CASE Backoff(t)
        BY <4>3 DEF Backoff, Turns
      <4>4. CASE Answered(t)
        BY <4>4 DEF Answered, Turns
      <4> QED BY <1>6, <4>1, <4>2, <4>3, <4>4
    <3>2. pc[t] \in Relying /\ mapping' = mapping
      BY <1>6 DEF Leased, Transient, Backoff, Answered, Relying, storeVars
    <3>3. Key(t)' = Key(t)
      BY <3>1 DEF Key
    <3> QED BY <1>1, <1>2, <2>2, <3>1, <3>2, <3>3 DEF Relies
  <2> QED BY <2>1, <2>2
<1>7. ASSUME NEW t \in Tasks, Release(t) PROVE mapping'[Key(w)'] = turn'[w].looked
  <2>1. CASE w # t \/ pc'[w] = "save"
    <3>1. mapping' = mapping /\ turn'[w] = turn[w] /\ Relies(w)
      BY <1>2, <1>7, <2>1 DEF Release, Return, Goto, Relies, Relying, storeVars
    <3>2. Key(w)' = Key(w)
      BY <3>1 DEF Key
    <3> QED BY <1>1, <3>1, <3>2
  <2> QED BY <1>2, <1>7, <2>1 DEF Release, Return, Goto, Relies, Relying
<1>8. ASSUME NEW t \in Tasks, NotResumed(t) \/ GiveUp(t) \/ FallBack(t) \/ Start(t) \/ Refused(t)
                              \/ Failed(t) \/ Cancel(t) \/ Call(t) \/ Close(t)
      PROVE  mapping'[Key(w)'] = turn'[w].looked
  <2>1. CASE w # t
    BY ZenonT(30), <1>3, <1>8, <2>1 DEF NotResumed, GiveUp, FallBack, Start, Refused, Failed, Cancel, Call, Close,
                            Return, Goto, storeVars
  <2>2. ASSUME w = t, NotResumed(t) PROVE FALSE
    BY <1>2, <2>2 DEF NotResumed, Goto, Relies, Relying
  <2>3. CASE w = t /\ ~NotResumed(t)
    BY ZenonT(30), <1>2, <1>3, <1>8, <2>3 DEF GiveUp, FallBack, Start, Refused, Failed, Cancel, Call, Close,
                                  Return, Goto, storeVars, Relies, Relying
  <2> QED BY SMTT(30), <2>1, <2>2, <2>3
<1>9. CASE ClosePools \/ PoolsClosed
  BY <1>3, <1>9 DEF ClosePools, PoolsClosed, storeVars
<1>10. CASE Flush
  BY SMTT(30), <1>2, <1>3, <1>10 DEF Flush, CloseEnd, Relies, Relying
<1> QED BY <1>4, <1>5, <1>6, <1>7, <1>8, <1>9, <1>10 DEF Next, Turn, Acquire, Prompt, CloseStep

-----------------------------------------------------------------------------
(* close() *)

\* Pools are made only while the session is open.
LEMMA PoolMade ==
    ASSUME Inv, NEW t \in Tasks, Turn(t)
    PROVE  \/ UNCHANGED pool
           \/ ~closed /\ \E p \in Providers : GetPool(p)
BY DEF Turn, Start, Reset, Lookup, Acquire, Leased, NotResumed, Transient, GiveUp, Refused, Clear,
       Backoff, FallBack, Prompt, Answered, Failed, Release, Save, Providers

\* What a turn stores is not due: due is what was there when close() was called.
LEMMA TurnStores ==
    ASSUME Inv, NEW t \in Tasks, Turn(t)
    PROVE  /\ mapping' \in [Users \X Providers -> Sessions \cup {NoSession}]
           /\ unsaved' \subseteq Users \X Providers /\ due' \subseteq unsaved' /\ due' = due
           /\ UNCHANGED <<closeVars, calls>>
<1> USE DEF Inv, Types
<1>1. CASE Reset(t) \/ Clear(t) \/ Save(t)
  <2>1. PICK s \in Sessions \cup {NoSession} : Stores(t, s)
    BY <1>1 DEF Reset, Clear, Save, Turns
  <2>2. pc[t] \notin Between
    BY <1>1 DEF Reset, Clear, Save, Between
  <2>3. UNCHANGED <<closeVars, calls>>
    BY <1>1 DEF Reset, Clear, Save
  <2> QED BY <2>1, <2>2, <2>3, StoresOwn
<1>2. CASE UNCHANGED <<storeVars, closeVars, calls>>
  BY <1>2 DEF storeVars
<1> QED BY <1>1, <1>2 DEF Turn, Start, Lookup, Acquire, Leased, NotResumed, Transient, GiveUp,
           Refused, Backoff, FallBack, Prompt, Answered, Failed, Release

\* The parts of the invariant that are not about the calls themselves.
RestTypes ==
    /\ mapping \in [Users \X Providers -> Sessions \cup {NoSession}]
    /\ pool \in [Providers -> {"absent", "open", "closed", "gone"}]
    /\ closed \in BOOLEAN /\ flushed \in BOOLEAN
    /\ closing \in [phase : {"none", "pools", "gather", "flush", "done"}, failed : BOOLEAN]
    /\ unsaved \subseteq Users \X Providers /\ due \subseteq unsaved
    /\ calls \in 0 .. MaxCalls

\* The end stays the end: nothing opens a pool, or makes a mapping due, once the
\* session is closed.
LEMMA CloseKept ==
    ASSUME Inv, Next
    PROVE  RestTypes' /\ CloseInv'
<1> USE DEF Inv, Types, RestTypes
<1>1. ASSUME NEW t \in Tasks, Turn(t) PROVE RestTypes' /\ CloseInv'
  <2>1. pool' \in [Providers -> {"absent", "open", "closed", "gone"}]
    BY <1>1, PoolMade DEF GetPool
  <2>2. closed => pool' = pool
    BY <1>1, PoolMade
  <2>3. UNCHANGED <<closed, closing, flushed, calls, due>>
    BY <1>1, TurnStores DEF closeVars
  <2>4. RestTypes'
    BY <1>1, <2>1, <2>3, TurnStores
  <2>5. CloseInv'
    BY <2>2, <2>3 DEF CloseInv, InPools
  <2> QED BY <2>4, <2>5
<1>2. ASSUME NEW t \in Tasks, Call(t) \/ Cancel(t) PROVE RestTypes' /\ CloseInv'
  <2>1. CASE Cancel(t)
    <3>1. UNCHANGED <<mapping, unsaved, due, pool, closed, closing, flushed, calls>>
      BY <2>1 DEF Cancel, storeVars, closeVars
    <3> QED BY <3>1 DEF CloseInv, InPools
  <2>2. CASE Call(t)
    <3>1. UNCHANGED <<mapping, unsaved, due, pool, closed, closing, flushed>>
      BY <2>2 DEF Call, storeVars, closeVars
    <3>2. calls' \in 0 .. MaxCalls
      BY <2>2, BoundAssumption DEF Call
    <3> QED BY <3>1, <3>2 DEF CloseInv, InPools
  <2> QED BY <1>2, <2>1, <2>2
<1>3. ASSUME NEW t \in Tasks, Close(t) PROVE RestTypes' /\ CloseInv'
  <2>1. UNCHANGED <<mapping, unsaved, pool, flushed>> /\ closed' = TRUE /\ calls' \in 0 .. MaxCalls
        /\ due' = IF closed THEN due ELSE unsaved
    BY <1>3, BoundAssumption DEF Close
  <2>2. closing' = closing \/ closing' = [phase |-> "pools", failed |-> FALSE]
    BY <1>3 DEF Close
  <2>3. closing'.phase \notin {"none", "pools"} => closed /\ closing' = closing
    BY <2>2 DEF CloseInv
  <2>4. closing' \in [phase : {"none", "pools", "gather", "flush", "done"}, failed : BOOLEAN]
    <3>1. closing \in [phase : {"none", "pools", "gather", "flush", "done"}, failed : BOOLEAN]
      OBVIOUS
    <3>2. [phase |-> "pools", failed |-> FALSE] \in
             [phase : {"none", "pools", "gather", "flush", "done"}, failed : BOOLEAN]
      OBVIOUS
    <3> QED BY <2>2, <3>1, <3>2, Zenon
  <2>5. due' \subseteq unsaved'
    BY <2>1
  <2>6. RestTypes'
    BY <2>1, <2>4, <2>5
  <2>7. CloseInv'
    BY <2>1, <2>2, <2>3 DEF CloseInv, InPools
  <2> QED BY <2>6, <2>7
<1>4. CASE ClosePools
  <2>1. UNCHANGED <<mapping, unsaved, due, closed, flushed, calls>> /\ closed
    BY <1>4 DEF ClosePools, storeVars, CloseInv
  <2>2. closing'.phase = "gather" /\ closing' = [closing EXCEPT !.phase = "gather"]
    BY <1>4 DEF ClosePools
  <2>3. closing' \in [phase : {"none", "pools", "gather", "flush", "done"}, failed : BOOLEAN]
    <3>1. closing \in [phase : {"none", "pools", "gather", "flush", "done"}, failed : BOOLEAN]
      OBVIOUS
    <3>2. ASSUME NEW c \in [phase : {"none", "pools", "gather", "flush", "done"}, failed : BOOLEAN]
          PROVE  [c EXCEPT !.phase = "gather"] \in
                    [phase : {"none", "pools", "gather", "flush", "done"}, failed : BOOLEAN]
      OBVIOUS
    <3> QED BY <2>2, <3>1, <3>2, Zenon
  <2>4. pool' \in [Providers -> {"absent", "open", "closed", "gone"}]
    BY <1>4 DEF ClosePools
  <2>5. RestTypes'
    BY <2>1, <2>3, <2>4
  <2>6. CloseInv'
    BY <1>4, <2>1, <2>2, <2>4 DEF ClosePools, CloseInv
  <2> QED BY <2>5, <2>6
<1>5. CASE PoolsClosed
  <2>1. UNCHANGED <<mapping, unsaved, due, closed, flushed, calls>> /\ closed
    BY <1>5 DEF PoolsClosed, storeVars, closeVars, CloseInv
  <2>2. PICK bad \in SUBSET {p \in Providers : InPools(p)} :
         /\ pool' = [p \in Providers |-> IF InPools(p) /\ p \notin bad THEN "gone" ELSE pool[p]]
         /\ closing' = [phase |-> "flush", failed |-> bad # {}]
    BY <1>5 DEF PoolsClosed
  <2>3. ~closing'.failed => \A p \in Providers : ~(pool'[p] \in {"open", "closed"})
    BY <2>2 DEF InPools
  <2>4. RestTypes'
    BY <2>1, <2>2
  <2> QED BY <2>1, <2>2, <2>3, <2>4 DEF CloseInv, InPools
<1>6. CASE Flush
  <2>1. UNCHANGED <<mapping, pool, closed, calls>> /\ closing.phase = "flush" /\ closed
    BY <1>6 DEF Flush, CloseInv
  <2>2. \/ flushed' = TRUE /\ unsaved' = {} /\ due' = {} /\ closing' = [phase |-> "done", failed |-> closing.failed]
        \/ closing' = [phase |-> "done", failed |-> TRUE] /\ UNCHANGED <<flushed, unsaved, due>>
        \/ flushed /\ closing' = [phase |-> "done", failed |-> closing.failed]
           /\ UNCHANGED <<flushed, unsaved, due>>
    BY <1>6 DEF Flush, CloseEnd
  <2>3. closing' \in [phase : {"none", "pools", "gather", "flush", "done"}, failed : BOOLEAN]
    <3>1. closing.failed \in BOOLEAN
      OBVIOUS
    <3>2. ASSUME NEW b \in BOOLEAN
          PROVE  [phase |-> "done", failed |-> b] \in
                    [phase : {"none", "pools", "gather", "flush", "done"}, failed : BOOLEAN]
      OBVIOUS
    <3> QED BY <2>2, <3>1, <3>2, Zenon
  <2>4. unsaved' \subseteq Users \X Providers /\ due' \subseteq unsaved' /\ flushed' \in BOOLEAN
    BY <2>2
  <2>5. RestTypes'
    BY <2>1, <2>3, <2>4
  <2>6. CloseInv'
    BY <2>1, <2>2 DEF CloseInv, InPools
  <2> QED BY <2>5, <2>6
<1> QED BY <1>1, <1>2, <1>3, <1>4, <1>5, <1>6 DEF Next, CloseStep

-----------------------------------------------------------------------------
(* What is shown *)

\* The invariant is kept by every step.
LEMMA InvStep == Inv /\ [Next]_vars => Inv'
<1> SUFFICES ASSUME Inv, [Next]_vars PROVE Inv'
  OBVIOUS
<1>1. CASE Next
  <2>1. CallInv' /\ RestTypes' /\ CloseInv' /\ TurnOwnsMapping'
    BY <1>1, CallInvKept, CloseKept, OwnMappingKept
  <2>2. Types'
    BY <2>1 DEF CallInv, CallTypes, RestTypes, Types
  <2> QED BY <2>1, <2>2 DEF CallInv, CallTypes, Inv
<1>2. CASE UNCHANGED vars
  BY <1>2 DEF vars, storeVars, closeVars, Inv, Types, TurnsInv, LineInv, HasLock, TurnOwnsMapping,
              Key, CloseInv, InPools
<1> QED BY <1>1, <1>2

\* The invariant holds always.
LEMMA Invariance == Spec => []Inv
BY InvInit, InvStep, PTL DEF Spec

\* Every variable has its type, and nobody is twice in the line for a lock.
THEOREM SessionTypes == Spec => []TypeOK
<1>1. Inv => TypeOK
  BY DEF Inv, Types, LineInv, Distinct, TypeOK
<1> QED BY <1>1, Invariance, PTL

\* Whatever was retried, resumed or handed to the fallback, no turn prompts an
\* agent twice.
THEOREM PromptedOnce == Spec => []PromptOnce
<1>1. Inv => PromptOnce
  BY DEF Inv, TurnsInv, TurnOk, PromptOnce
<1> QED BY <1>1, Invariance, PTL

\* A prompt is sent in the stored session, unless the provider said it is gone.
THEOREM Continues == Spec => []ContinuesConversation
<1>1. Inv => ContinuesConversation
  BY DEF Inv, TurnsInv, TurnOk, ContinuesConversation
<1> QED BY <1>1, Invariance, PTL

\* The attempts of a turn keep to max_retries, one more for a stale session, and
\* two of the fallback.
THEOREM BudgetKept == Spec => []AttemptBudget
<1>1. ASSUME Inv PROVE AttemptBudget
  <2>1. ASSUME NEW t \in Tasks
        PROVE  turn[t].tries <= MaxAttempts + (IF turn[t].provider = "primary" THEN 1 ELSE 3)
    <3>1. turn[t] \in Turns /\ BudgetOk(pc[t], turn[t])
      BY <1>1, TurnFacts
    <3> QED BY <3>1, BudgetAssumption DEF Turns, BudgetOk, Spent
  <2> QED BY <2>1 DEF AttemptBudget
<1>2. Inv => AttemptBudget
  BY <1>1
<1> QED BY <1>2, Invariance, PTL

\* The turns and resets of one user exclude each other: a turn finds in the store
\* what it looked up, until it changes that itself.
THEOREM MappingOwned == Spec => []TurnOwnsMapping
<1>1. Inv => TurnOwnsMapping
  BY DEF Inv
<1> QED BY <1>1, Invariance, PTL

\* A close() that succeeds leaves no pool, and has flushed what was stored before
\* it was first called.
THEOREM ClosedIsTheEnd == Spec => []ClosedForGood
<1>1. Inv => ClosedForGood
  BY DEF Inv, CloseInv, ClosedForGood
<1> QED BY <1>1, Invariance, PTL

\* No turn is under way when a reset clears the session of its user, so none
\* brings the mapping back.
THEOREM ResetHolds == Spec => ResetSticks
<1>1. Inv /\ [Next]_vars =>
        [\A t \in stale : pc[t] = "save" /\ pc'[t] = "out" => mapping' = mapping]_vars
  BY DEF Inv
<1> QED BY <1>1, Invariance, PTL DEF Spec, ResetSticks

-----------------------------------------------------------------------------
(* The session store: its invariant *)

\* A task inside an operation knows its user and what is left to do.
Busy == \A t \in Tasks : at[t] # "out" => arg[t].user \in Users /\ arg[t].providers # {}

\* Every entry is its owner's or malformed, and one of the older releases expires
\* no later than any that was stored since.
Owned ==
    /\ \A u \in Users, p \in Vendors : v2[<<u, p>>] # Absent =>
          IF v2[<<u, p>>].session = Store!Missing THEN v2[<<u, p>>].until = 0
          ELSE /\ v2[<<u, p>>].session.owner = u
               /\ v2[<<u, p>>].until >= TTL /\ (TTL = 0 => v2[<<u, p>>].until = 0)
    /\ \A k \in LegacyKeys, p \in Vendors : legacy[<<k, p>>] # Absent =>
          /\ legacy[<<k, p>>].until <= TTL /\ (TTL > 0 => legacy[<<k, p>>].until > 0)
          /\ legacy[<<k, p>>].session # Store!Missing =>
                /\ legacy[<<k, p>>].session.number = 0
                /\ LegacyOf[legacy[<<k, p>>].session.owner] = k

\* No mapping is older than what was promised, but after two operations that
\* ended half way; an older one under the legacy key was left by the first of
\* them and is hidden by the new one.
Newest(u, p) ==
    \/ floor[<<u, p>>] = 0
    \/ torn[<<u, p>>] = "clear"
    \/ /\ v2[<<u, p>>] # Absent => v2[<<u, p>>].session.number >= floor[<<u, p>>]
       /\ u \notin Ambiguous /\ legacy[<<LegacyOf[u], p>>] # Absent =>
             v2[<<u, p>>] # Absent /\ torn[<<u, p>>] = "set"

\* What a task has found out at each step of its operation.
Knows(t) ==
    /\ at[t] = "scrub" =>
          v2[Store!Key(t)] # Absent /\ v2[Store!Key(t)].session = Store!Missing
    /\ at[t] \in {"legacy", "scrub_legacy", "migrate"} =>
          Store!HasLegacy(t) /\ Store!Alive(v2[Store!Key(t)]) = Absent
    /\ at[t] = "scrub_legacy" => legacy[Store!LegacyKey(t)].session = Store!Missing
    /\ at[t] = "migrate" =>
          /\ floor[Store!Key(t)] = 0 \/ torn[Store!Key(t)] = "clear"
          /\ legacy[Store!LegacyKey(t)] # Absent /\ legacy[Store!LegacyKey(t)].session = val[t]
    /\ at[t] \in {"migrate", "write", "unlink"} => val[t] \in Store!Session /\ val[t].owner = arg[t].user
    /\ at[t] = "unlink" =>
          /\ Store!HasLegacy(t) /\ v2[Store!Key(t)] # Absent
          /\ v2[Store!Key(t)].session # Store!Missing
          /\ val[t].number >= floor[Store!Key(t)] \/ torn[Store!Key(t)] = "clear"
    /\ at[t] = "erase_legacy" => Store!HasLegacy(t) /\ v2[Store!Key(t)] = Absent

StoreInv ==
    /\ Store!TypeOK /\ Busy /\ Owned
    /\ \A u \in Users, p \in Vendors : Newest(u, p)
    /\ \A t \in Tasks : Knows(t)

-----------------------------------------------------------------------------
(* The holder of the lock *)

\* Only one task is inside an operation, and it knows the keys it works on.
LEMMA KeysAre ==
  ASSUME StoreInv, NEW t \in Tasks, at[t] # "out"
  PROVE  /\ owner = t /\ \A s \in Tasks : s # t => at[s] = "out"
         /\ arg[t].user \in Users /\ arg[t].providers # {} /\ arg[t].providers \subseteq Vendors
         /\ Store!Provider(t) \in arg[t].providers /\ Store!Provider(t) \in Vendors
         /\ Store!Key(t) \in Users \X Vendors /\ Store!LegacyKey(t) \in LegacyKeys \X Vendors
<1>1. owner = t /\ \A s \in Tasks : s # t => at[s] = "out"
  BY DEF StoreInv, Store!TypeOK
<1>2. arg[t].user \in Users /\ arg[t].providers # {} /\ arg[t].providers \subseteq Vendors
  BY DEF StoreInv, Store!TypeOK, Busy
<1>3. Store!Provider(t) \in arg[t].providers
  <2>1. \E p \in Vendors : p \in arg[t].providers
    BY <1>2
  <2> QED BY <2>1 DEF Store!Provider
<1>4. LegacyOf[arg[t].user] \in LegacyKeys
  BY <1>2, LegacyAssumption
<1> QED BY <1>1, <1>2, <1>3, <1>4 DEF Store!Key, Store!LegacyKey

\* What the two caches have under a key.
LEMMA Entries ==
  ASSUME StoreInv, NEW u \in Users, NEW p \in Vendors
  PROVE  /\ v2[<<u, p>>] \in Store!Entry \cup {Absent}
         /\ LegacyOf[u] \in LegacyKeys
         /\ legacy[<<LegacyOf[u], p>>] \in Store!Entry \cup {Absent}
         /\ floor[<<u, p>>] \in Nat /\ torn[<<u, p>>] \in {"no", "set", "clear"}
         /\ now \in Nat /\ TTL \in Nat
BY LegacyAssumption, ClockAssumption DEF StoreInv, Store!TypeOK

\* A malformed entry has no session of anybody.
LEMMA MissingIs ==
  /\ Store!Missing.number = 0
  /\ \A session \in Store!Session : session # Store!Missing
BY AbsentAssumption DEF Store!Missing, Store!Session

\* A new entry is alive, and outlives those of the older releases.
LEMMA StoredIs ==
  ASSUME now \in Nat, NEW session \in Store!Session, NEW e, e = Store!Stored(session)
  PROVE  /\ e \in Store!Entry /\ e.session = session /\ e # Absent /\ Store!Alive(e) = e
         /\ e.session # Store!Missing
         /\ e.until >= TTL /\ (TTL = 0 => e.until = 0)
<1>1. e \in Store!Entry /\ e.session = session /\ e.until = (IF TTL = 0 THEN 0 ELSE now + TTL)
  <2> HIDE DEF Store!Missing
  <2>1. PICK i \in Nat : i = IF TTL = 0 THEN 0 ELSE now + TTL
    BY ClockAssumption
  <2>2. e = [session |-> session, until |-> i]
    BY <2>1 DEF Store!Stored
  <2> QED BY <2>1, <2>2 DEF Store!Entry
<1> QED BY <1>1, AbsentAssumption, ClockAssumption, MissingIs DEF Store!Alive

\* What a step makes of the half-way mark of its mapping, and of no other.
LEMMA TornIs ==
  ASSUME StoreInv, NEW t \in Tasks, at[t] # "out", Store!Effect(t)
  PROVE  /\ torn' \in [Users \X Vendors -> {"no", "set", "clear"}]
         /\ \A k \in Users \X Vendors : k # Store!Key(t) => torn'[k] = torn[k]
         /\ at[t] = "write" => torn'[Store!Key(t)] = IF Store!HasLegacy(t) THEN "set" ELSE "no"
         /\ at[t] = "unlink" =>
               torn'[Store!Key(t)] = IF torn[Store!Key(t)] = "set" THEN "no" ELSE torn[Store!Key(t)]
         /\ at[t] = "erase" =>
               torn'[Store!Key(t)] = IF torn[Store!Key(t)] = "set" THEN "clear" ELSE torn[Store!Key(t)]
         /\ at[t] = "erase_legacy" => torn'[Store!Key(t)] = "no"
         /\ at[t] \notin {"write", "unlink", "erase", "erase_legacy"} => torn' = torn
<1>1. Store!Key(t) \in Users \X Vendors
  BY KeysAre
<1>2. torn \in [Users \X Vendors -> {"no", "set", "clear"}]
  BY DEF StoreInv, Store!TypeOK
<1>3. PICK k, m : k = Store!Key(t) /\ m = IF Store!HasLegacy(t) THEN "set" ELSE "no"
  OBVIOUS
<1>4. torn' = CASE at[t] = "write" -> [torn EXCEPT ![k] = m]
                [] at[t] = "unlink" /\ torn[k] = "set" -> [torn EXCEPT ![k] = "no"]
                [] at[t] = "erase" /\ torn[k] = "set" -> [torn EXCEPT ![k] = "clear"]
                [] at[t] = "erase_legacy" -> [torn EXCEPT ![k] = "no"]
                [] OTHER -> torn
  BY <1>3 DEF Store!Effect
<1> QED BY <1>1, <1>2, <1>3, <1>4

\* The effect of a step is on the keys of its task alone.
LEMMA EffectIs ==
  ASSUME StoreInv, NEW t \in Tasks, at[t] # "out", Store!Effect(t)
  PROVE  /\ v2' \in [Users \X Vendors -> Store!Entry \cup {Absent}]
         /\ legacy' \in [LegacyKeys \X Vendors -> Store!Entry \cup {Absent}]
         /\ Owned'
         /\ \A k \in Users \X Vendors : k # Store!Key(t) => v2'[k] = v2[k]
         /\ \A k \in LegacyKeys \X Vendors : legacy'[k] = legacy[k] \/ legacy'[k] = Absent
         /\ at[t] \in {"migrate", "write"} => v2'[Store!Key(t)] = Store!Stored(val[t])
         /\ at[t] \in {"erase", "scrub"} => v2'[Store!Key(t)] = Absent
         /\ at[t] \notin {"migrate", "write", "erase", "scrub"} => v2' = v2
         /\ at[t] \in {"unlink", "erase_legacy", "scrub_legacy"} => legacy'[Store!LegacyKey(t)] = Absent
         /\ \A k \in LegacyKeys \X Vendors : k # Store!LegacyKey(t) => legacy'[k] = legacy[k]
         /\ at[t] \notin {"unlink", "erase_legacy", "scrub_legacy"} => legacy' = legacy
<1>1. /\ Store!Key(t) \in Users \X Vendors /\ Store!LegacyKey(t) \in LegacyKeys \X Vendors
      /\ Store!Key(t) = <<arg[t].user, Store!Provider(t)>>
  BY KeysAre DEF Store!Key
<1>2. /\ v2 \in [Users \X Vendors -> Store!Entry \cup {Absent}]
      /\ legacy \in [LegacyKeys \X Vendors -> Store!Entry \cup {Absent}]
      /\ now \in Nat /\ Owned
  BY ClockAssumption DEF StoreInv, Store!TypeOK
<1>3. PICK e : e = IF at[t] \in {"erase", "scrub"} THEN Absent ELSE Store!Stored(val[t])
  OBVIOUS
<1>4. at[t] \in {"migrate", "write"} =>
        /\ e = Store!Stored(val[t]) /\ e \in Store!Entry /\ e.session.owner = arg[t].user
        /\ e.session # Store!Missing /\ e.until >= TTL /\ (TTL = 0 => e.until = 0)
  <2> SUFFICES ASSUME at[t] \in {"migrate", "write"}
               PROVE  /\ e = Store!Stored(val[t]) /\ e \in Store!Entry /\ e.session.owner = arg[t].user
                      /\ e.session # Store!Missing /\ e.until >= TTL /\ (TTL = 0 => e.until = 0)
    OBVIOUS
  <2>1. val[t] \in Store!Session /\ val[t].owner = arg[t].user
    BY DEF StoreInv, Knows
  <2>2. e = Store!Stored(val[t])
    BY <1>3
  <2> QED BY <1>2, <2>1, <2>2, StoredIs
<1>5. at[t] \in {"erase", "scrub"} => e = Absent
  BY <1>3
<1>6. v2' = IF at[t] \in {"migrate", "write", "erase", "scrub"} THEN [v2 EXCEPT ![Store!Key(t)] = e] ELSE v2
  BY <1>3 DEF Store!Effect
<1>7. legacy' = IF at[t] \in {"unlink", "erase_legacy", "scrub_legacy"}
                THEN [legacy EXCEPT ![Store!LegacyKey(t)] = Absent] ELSE legacy
  BY DEF Store!Effect
<1>8. /\ \A k \in Users \X Vendors : k # Store!Key(t) => v2'[k] = v2[k]
      /\ at[t] \in {"migrate", "write", "erase", "scrub"} => v2'[Store!Key(t)] = e
      /\ v2' \in [Users \X Vendors -> Store!Entry \cup {Absent}]
  BY <1>1, <1>2, <1>4, <1>5, <1>6
<1>9. /\ \A k \in LegacyKeys \X Vendors : k # Store!LegacyKey(t) => legacy'[k] = legacy[k]
      /\ at[t] \in {"unlink", "erase_legacy", "scrub_legacy"} => legacy'[Store!LegacyKey(t)] = Absent
      /\ at[t] \notin {"unlink", "erase_legacy", "scrub_legacy"} => legacy' = legacy
      /\ legacy' \in [LegacyKeys \X Vendors -> Store!Entry \cup {Absent}]
  BY <1>1, <1>2, <1>7
<1>10. Owned'
  <2>1. ASSUME NEW u \in Users, NEW p \in Vendors, v2'[<<u, p>>] # Absent
        PROVE  IF v2'[<<u, p>>].session = Store!Missing THEN v2'[<<u, p>>].until = 0
               ELSE /\ v2'[<<u, p>>].session.owner = u
                    /\ v2'[<<u, p>>].until >= TTL /\ (TTL = 0 => v2'[<<u, p>>].until = 0)
    <3>1. CASE v2'[<<u, p>>] = v2[<<u, p>>]
      BY <1>2, <2>1, <3>1 DEF Owned
    <3>2. CASE <<u, p>> = Store!Key(t) /\ v2'[<<u, p>>] # v2[<<u, p>>]
      <4>1. u = arg[t].user
        BY <1>1, <3>2
      <4>2. at[t] \in {"migrate", "write", "erase", "scrub"}
        BY <1>6, <3>2
      <4>3. v2'[<<u, p>>] = e /\ at[t] \in {"migrate", "write"}
        BY <1>5, <1>8, <2>1, <3>2, <4>2
      <4> QED BY <1>4, <4>1, <4>2, <4>3
    <3>3. <<u, p>> \in Users \X Vendors
      OBVIOUS
    <3> QED BY <1>8, <3>1, <3>2, <3>3
  <2>2. ASSUME NEW k \in LegacyKeys, NEW p \in Vendors, legacy'[<<k, p>>] # Absent
        PROVE  legacy'[<<k, p>>] = legacy[<<k, p>>]
    <3>1. <<k, p>> \in LegacyKeys \X Vendors
      OBVIOUS
    <3> QED BY <1>9, <2>2, <3>1
  <2>3. ASSUME NEW k \in LegacyKeys, NEW p \in Vendors, legacy'[<<k, p>>] # Absent
        PROVE  /\ legacy'[<<k, p>>].until <= TTL /\ (TTL > 0 => legacy'[<<k, p>>].until > 0)
               /\ legacy'[<<k, p>>].session # Store!Missing =>
                     /\ legacy'[<<k, p>>].session.number = 0
                     /\ LegacyOf[legacy'[<<k, p>>].session.owner] = k
    BY <1>2, <2>2, <2>3 DEF Owned
  <2>4. Store!Missing' = Store!Missing
    BY DEF Store!Missing
  <2> QED BY <2>1, <2>3, <2>4 DEF Owned
<1>11. \A k \in LegacyKeys \X Vendors : legacy'[k] = legacy[k] \/ legacy'[k] = Absent
  BY <1>1, <1>9
<1>12. at[t] \notin {"migrate", "write", "erase", "scrub"} => v2' = v2
  BY <1>6
<1>13. at[t] \in {"migrate", "write"} => v2'[Store!Key(t)] = Store!Stored(val[t])
  BY <1>4, <1>8
<1>14. at[t] \in {"erase", "scrub"} => v2'[Store!Key(t)] = Absent
  BY <1>5, <1>8
<1> QED BY <1>8, <1>9, <1>10, <1>11, <1>12, <1>13, <1>14

\* What is true of a mapping stays true when its own entry and promise do not
\* change, whatever becomes of the legacy one.
LEMMA NewestKept ==
  ASSUME NEW u \in Users, NEW p \in Vendors, Newest(u, p),
         floor'[<<u, p>>] = floor[<<u, p>>], torn'[<<u, p>>] = torn[<<u, p>>],
         v2'[<<u, p>>] = v2[<<u, p>>],
         legacy'[<<LegacyOf[u], p>>] = legacy[<<LegacyOf[u], p>>] \/ legacy'[<<LegacyOf[u], p>>] = Absent
  PROVE  Newest(u, p)'
BY DEF Newest

\* A promise is the number of a session.
LEMMA FloorTyped ==
  ASSUME StoreInv, NEW t \in Tasks, Store!Promises(t)
  PROVE  floor' \in [Users \X Vendors -> Nat]
<1>1. at[t] = "write" => val[t].number \in Nat
  BY DEF StoreInv, Knows, Store!Session
<1> QED BY <1>1 DEF StoreInv, Store!TypeOK, Store!Promises

\* No step of an operation leaves a mapping older than it promises.  A stale
\* entry is uncovered only when a clear() deletes the new one, and then the
\* mapping is marked.
LEMMA EffectNewest ==
  ASSUME StoreInv, NEW t \in Tasks, at[t] # "out", Store!Effect(t), Store!Promises(t), UNCHANGED now,
         NEW u \in Users, NEW p \in Vendors
  PROVE  Newest(u, p)'
<1>1. Newest(u, p)
  BY DEF StoreInv
<1>2. /\ <<u, p>> \in Users \X Vendors /\ Store!Key(t) \in Users \X Vendors
      /\ <<LegacyOf[u], p>> \in LegacyKeys \X Vendors
      /\ floor[<<u, p>>] \in Nat
  BY KeysAre, Entries
<1>3. legacy'[<<LegacyOf[u], p>>] = legacy[<<LegacyOf[u], p>>] \/ legacy'[<<LegacyOf[u], p>>] = Absent
  BY <1>2, EffectIs
<1>4. floor' = IF at[t] = "write" THEN [floor EXCEPT ![Store!Key(t)] = val[t].number] ELSE floor
  BY DEF Store!Promises
<1>5. CASE <<u, p>> # Store!Key(t)
  <2>1. v2'[<<u, p>>] = v2[<<u, p>>] /\ torn'[<<u, p>>] = torn[<<u, p>>]
    BY <1>2, <1>5, EffectIs, TornIs
  <2>2. floor'[<<u, p>>] = floor[<<u, p>>]
    BY <1>2, <1>4, <1>5 DEF StoreInv, Store!TypeOK
  <2> QED BY <1>1, <1>3, <2>1, <2>2, NewestKept
<1>6. CASE <<u, p>> = Store!Key(t)
  <2>1. Store!LegacyKey(t) = <<LegacyOf[u], p>> /\ (Store!HasLegacy(t) <=> u \notin Ambiguous)
    BY <1>6 DEF Store!Key, Store!LegacyKey, Store!HasLegacy
  <2>2. CASE at[t] = "write"
    <3>1. PICK session, e : session = val[t] /\ e = Store!Stored(session)
      OBVIOUS
    <3>2. session \in Store!Session /\ now \in Nat /\ session.number \in Nat
      BY <2>2, <3>1, ClockAssumption DEF StoreInv, Knows, Store!TypeOK, Store!Session
    <3>3. e.session = session /\ e # Absent
      BY <3>1, <3>2, StoredIs
    <3>4. v2'[<<u, p>>] = e
      BY <1>6, <2>2, <3>1, EffectIs
    <3>5. floor'[<<u, p>>] = session.number
      BY <1>2, <1>4, <1>6, <2>2, <3>1 DEF StoreInv, Store!TypeOK
    <3>6. u \notin Ambiguous => torn'[<<u, p>>] = "set"
      BY <1>6, <2>1, <2>2, TornIs
    <3> QED BY <3>2, <3>3, <3>4, <3>5, <3>6 DEF Newest
  <2>3. ASSUME at[t] # "write" PROVE floor'[<<u, p>>] = floor[<<u, p>>]
    BY <1>4, <2>3
  <2>4. CASE at[t] = "migrate"
    <3>1. floor[<<u, p>>] = 0 \/ torn[<<u, p>>] = "clear"
      BY <1>6, <2>4 DEF StoreInv, Knows
    <3>2. torn' = torn
      BY <2>4, TornIs
    <3> QED BY <2>3, <2>4, <3>1, <3>2 DEF Newest
  <2>5. CASE at[t] = "unlink"
    <3>1. v2' = v2 /\ legacy'[<<LegacyOf[u], p>>] = Absent
      BY <2>1, <2>5, EffectIs
    <3>2. torn[<<u, p>>] = "clear" => torn'[<<u, p>>] = "clear"
      BY <1>6, <2>5, TornIs
    <3> QED BY <1>1, <2>3, <2>5, <3>1, <3>2 DEF Newest
  <2>6. CASE at[t] = "erase"
    <3>1. v2'[<<u, p>>] = Absent /\ legacy' = legacy
      BY <1>6, <2>6, EffectIs
    <3>2. torn'[<<u, p>>] = IF torn[<<u, p>>] = "set" THEN "clear" ELSE torn[<<u, p>>]
      BY <1>6, <2>6, TornIs
    <3> QED BY <1>1, <2>3, <2>6, <3>1, <3>2 DEF Newest
  <2>7. CASE at[t] = "erase_legacy"
    <3>1. v2'[<<u, p>>] = Absent /\ legacy'[<<LegacyOf[u], p>>] = Absent
      BY <1>6, <2>1, <2>7, EffectIs DEF StoreInv, Knows
    <3> QED BY <3>1 DEF Newest
  <2>8. CASE at[t] = "scrub"
    <3>1. v2[<<u, p>>] # Absent /\ v2[<<u, p>>].session.number = 0
      BY <1>6, <2>8, MissingIs DEF StoreInv, Knows
    <3>2. floor[<<u, p>>] = 0 \/ torn[<<u, p>>] = "clear"
      BY <1>1, <1>2, <3>1 DEF Newest
    <3>3. torn' = torn
      BY <2>8, TornIs
    <3> QED BY <2>3, <2>8, <3>2, <3>3 DEF Newest
  <2>9. CASE at[t] \in {"read", "legacy", "scrub_legacy"}
    <3>1. v2' = v2 /\ torn' = torn
      BY <2>9, EffectIs, TornIs
    <3> QED BY <1>1, <1>3, <2>3, <2>9, <3>1, NewestKept
  <2>10. at[t] \in Store!Steps \ {"out"}
    BY DEF StoreInv, Store!TypeOK
  <2> QED BY <2>2, <2>4, <2>5, <2>6, <2>7, <2>8, <2>9, <2>10 DEF Store!Steps
<1> QED BY <1>5, <1>6

\* An operation that returns leaves no task inside one.
LEMMA ReturnKeeps ==
  ASSUME StoreInv, NEW t \in Tasks, at[t] # "out", Store!Return(t), UNCHANGED <<sets, now>>,
         v2' \in [Users \X Vendors -> Store!Entry \cup {Absent}],
         legacy' \in [LegacyKeys \X Vendors -> Store!Entry \cup {Absent}],
         floor' \in [Users \X Vendors -> Nat],
         torn' \in [Users \X Vendors -> {"no", "set", "clear"}], Owned',
         \A u \in Users, p \in Vendors : Newest(u, p)'
  PROVE  StoreInv'
<1>1. \A s \in Tasks : at'[s] = "out"
  BY KeysAre DEF Store!Return, Store!Goto, StoreInv, Store!TypeOK
<1>2. /\ at' \in [Tasks -> Store!Steps]
      /\ arg' \in [Tasks -> [user : Users \cup {Absent}, providers : SUBSET Vendors]]
      /\ val' \in [Tasks -> Store!Session \cup {Store!Missing}]
  <2>1. Store!Idle \in [user : Users \cup {Absent}, providers : SUBSET Vendors]
    BY DEF Store!Idle
  <2> HIDE DEF Store!Idle, Store!Missing
  <2>2. /\ at' = [at EXCEPT ![t] = "out"] /\ arg' = [arg EXCEPT ![t] = Store!Idle]
        /\ val' = [val EXCEPT ![t] = Store!Missing]
    BY DEF Store!Return, Store!Goto
  <2> QED BY <2>1, <2>2 DEF StoreInv, Store!TypeOK, Store!Steps
<1>3. Store!TypeOK'
  BY <1>1, <1>2, HolderAssumption DEF StoreInv, Store!TypeOK, Store!Return
<1>4. Busy' /\ \A s \in Tasks : Knows(s)'
  BY <1>1 DEF Busy, Knows
<1> QED BY <1>3, <1>4 DEF StoreInv

-----------------------------------------------------------------------------
(* The steps *)

\* A task goes on to another step of its operation.
LEMMA GoesOnKeeps ==
  ASSUME StoreInv, NEW t \in Tasks, at[t] # "out", NEW step \in Store!Steps \ {"out"}, Store!Goto(t, step),
         UNCHANGED <<owner, sets, now>>,
         v2' \in [Users \X Vendors -> Store!Entry \cup {Absent}],
         legacy' \in [LegacyKeys \X Vendors -> Store!Entry \cup {Absent}],
         floor' \in [Users \X Vendors -> Nat],
         torn' \in [Users \X Vendors -> {"no", "set", "clear"}], Owned',
         arg'[t].user = arg[t].user, arg'[t].providers # {},
         arg' \in [Tasks -> [user : Users \cup {Absent}, providers : SUBSET Vendors]],
         val' \in [Tasks -> Store!Session \cup {Store!Missing}],
         \A u \in Users, p \in Vendors : Newest(u, p)', Knows(t)'
  PROVE  StoreInv'
<1>1. /\ owner = t /\ \A s \in Tasks : s # t => at[s] = "out"
      /\ arg[t].user \in Users
  BY KeysAre
<1>2. at \in [Tasks -> Store!Steps] /\ at' = [at EXCEPT ![t] = step]
  BY DEF StoreInv, Store!TypeOK, Store!Goto
<1>3. /\ at' \in [Tasks -> Store!Steps] /\ at'[t] = step
      /\ \A s \in Tasks : s # t => at'[s] = "out"
  BY <1>1, <1>2
<1>4. Store!TypeOK'
  BY <1>1, <1>3 DEF StoreInv, Store!TypeOK
<1>5. Busy'
  BY <1>1, <1>3 DEF Busy
<1>6. \A s \in Tasks : Knows(s)'
  <2>1. ASSUME NEW s \in Tasks, s # t PROVE Knows(s)'
    BY <1>3, <2>1 DEF Knows
  <2> QED BY <2>1
<1> QED BY <1>4, <1>5, <1>6 DEF StoreInv

\* A cache operation is done, and its task goes on or returns.
LEMMA EffectKeeps ==
  ASSUME StoreInv, NEW t \in Tasks, at[t] # "out", Store!Effect(t), Store!Promises(t),
         UNCHANGED <<sets, now>>,
         \/ Store!Return(t)
         \/ \E step \in Store!Steps \ {"out"} :
               Store!Goto(t, step) /\ UNCHANGED <<arg, val, owner>> /\ Knows(t)'
  PROVE  StoreInv'
<1>1. /\ v2' \in [Users \X Vendors -> Store!Entry \cup {Absent}]
      /\ legacy' \in [LegacyKeys \X Vendors -> Store!Entry \cup {Absent}] /\ Owned'
      /\ torn' \in [Users \X Vendors -> {"no", "set", "clear"}]
  BY EffectIs, TornIs
<1>2. floor' \in [Users \X Vendors -> Nat]
  BY FloorTyped
<1>3. \A u \in Users, p \in Vendors : Newest(u, p)'
  BY EffectNewest
<1>4. CASE Store!Return(t)
  BY <1>1, <1>2, <1>3, <1>4, ReturnKeeps
<1>5. ASSUME NEW step \in Store!Steps \ {"out"}, Store!Goto(t, step),
             UNCHANGED <<arg, val, owner>>, Knows(t)'
      PROVE  StoreInv'
  <2>1. /\ arg[t].providers # {}
        /\ arg' \in [Tasks -> [user : Users \cup {Absent}, providers : SUBSET Vendors]]
        /\ val' \in [Tasks -> Store!Session \cup {Store!Missing}]
    BY <1>5, KeysAre DEF StoreInv, Store!TypeOK
  <2> QED BY <1>1, <1>2, <1>3, <1>5, <2>1, GoesOnKeeps
<1> QED BY <1>4, <1>5

\* A read changes nothing that a mapping depends on.
LEMMA QuietKeeps ==
  ASSUME StoreInv, NEW t \in Tasks, at[t] # "out", UNCHANGED <<v2, legacy, floor, torn, sets, now>>,
         \/ Store!Return(t)
         \/ \E step \in Store!Steps \ {"out"} :
               /\ Store!Goto(t, step) /\ UNCHANGED <<arg, owner>> /\ Knows(t)'
               /\ val' \in [Tasks -> Store!Session \cup {Store!Missing}]
  PROVE  StoreInv'
<1>1. /\ v2' \in [Users \X Vendors -> Store!Entry \cup {Absent}]
      /\ legacy' \in [LegacyKeys \X Vendors -> Store!Entry \cup {Absent}]
      /\ floor' \in [Users \X Vendors -> Nat]
      /\ torn' \in [Users \X Vendors -> {"no", "set", "clear"}]
  BY DEF StoreInv, Store!TypeOK
<1>2. Owned' /\ \A u \in Users, p \in Vendors : Newest(u, p)'
  <2>1. Owned /\ \A u \in Users, p \in Vendors : Newest(u, p)
    BY DEF StoreInv
  <2>2. Store!Missing' = Store!Missing
    BY DEF Store!Missing
  <2> QED BY <2>1, <2>2 DEF Owned, Newest
<1>3. CASE Store!Return(t)
  BY <1>1, <1>2, <1>3, ReturnKeeps
<1>4. ASSUME NEW step \in Store!Steps \ {"out"}, Store!Goto(t, step),
             UNCHANGED <<arg, owner>>, Knows(t)', val' \in [Tasks -> Store!Session \cup {Store!Missing}]
      PROVE  StoreInv'
  <2>1. /\ arg[t].providers # {}
        /\ arg' \in [Tasks -> [user : Users \cup {Absent}, providers : SUBSET Vendors]]
    BY <1>4, KeysAre DEF StoreInv, Store!TypeOK
  <2> QED BY <1>1, <1>2, <1>4, <2>1, GoesOnKeeps
<1> QED BY <1>3, <1>4

\* An operation starts.
LEMMA EnterKeeps == ASSUME StoreInv, NEW t \in Tasks, Store!Enter(t) PROVE StoreInv'
<1>1. PICK u \in Users, ps \in (SUBSET Vendors) \ {{}} :
        /\ arg' = [arg EXCEPT ![t] = [user |-> u, providers |-> ps]]
        /\ \/ Store!Goto(t, "read") /\ UNCHANGED <<sets, val>>
           \/ /\ sets < MaxSets /\ sets' = sets + 1
              /\ val' = [val EXCEPT ![t] = [owner |-> u, number |-> sets + 1]]
              /\ Store!Goto(t, "write")
           \/ Store!Goto(t, "erase") /\ UNCHANGED <<sets, val>>
  BY Zenon DEF Store!Enter
<1>2. /\ at[t] = "out" /\ owner = NoTask /\ owner' = t /\ UNCHANGED <<v2, legacy, now, floor, torn>>
  BY DEF Store!Enter, Store!Unlocked, Store!cacheVars, Store!history
<1>3. \A s \in Tasks : at[s] = "out"
  BY <1>2, HolderAssumption DEF StoreInv, Store!TypeOK
<1>4. PICK step \in {"read", "write", "erase"} : Store!Goto(t, step)
  BY <1>1
<1>5. /\ at' \in [Tasks -> Store!Steps] /\ at'[t] = step
      /\ \A s \in Tasks : s # t => at'[s] = "out"
  BY <1>3, <1>4 DEF Store!Goto, StoreInv, Store!TypeOK, Store!Steps
<1>6. arg'[t] = [user |-> u, providers |-> ps]
      /\ arg' \in [Tasks -> [user : Users \cup {Absent}, providers : SUBSET Vendors]]
  BY <1>1 DEF StoreInv, Store!TypeOK
<1>7. sets \in Nat /\ sets' \in 0 .. MaxSets /\ val' \in [Tasks -> Store!Session \cup {Store!Missing}]
  <2> HIDE DEF Store!Missing
  <2>1. sets \in 0 .. MaxSets /\ sets + 1 \in Nat /\ (sets < MaxSets => sets + 1 \in 0 .. MaxSets)
    BY ClockAssumption DEF StoreInv, Store!TypeOK
  <2>2. [owner |-> u, number |-> sets + 1] \in Store!Session
    BY <2>1 DEF Store!Session
  <2>3. PICK w \in Store!Session : w = [owner |-> u, number |-> sets + 1]
    BY <2>2
  <2>4. val' = val \/ val' = [val EXCEPT ![t] = w]
    BY <1>1, <2>3
  <2>5. val' \in [Tasks -> Store!Session \cup {Store!Missing}]
    BY <2>4 DEF StoreInv, Store!TypeOK
  <2> QED BY <1>1, <2>1, <2>5
<1>8. Store!TypeOK'
  BY <1>2, <1>5, <1>6, <1>7 DEF StoreInv, Store!TypeOK
<1>9. Busy'
  BY <1>5, <1>6 DEF Busy
<1>10. Owned' /\ \A v \in Users, q \in Vendors : Newest(v, q)'
  <2>1. Owned /\ \A v \in Users, q \in Vendors : Newest(v, q)
    BY DEF StoreInv
  <2>2. Store!Missing' = Store!Missing
    BY DEF Store!Missing
  <2> QED BY <1>2, <2>1, <2>2 DEF Owned, Newest
<1>11. ASSUME NEW s \in Tasks PROVE Knows(s)'
  <2>1. CASE at'[s] = "write"
    <3>1. s = t /\ step = "write"
      BY <1>5, <2>1
    <3>2. val' = [val EXCEPT ![t] = [owner |-> u, number |-> sets + 1]]
      <4>1. at'[t] = "write"
        BY <1>5, <3>1
      <4>2. at' # [at EXCEPT ![t] = "read"] /\ at' # [at EXCEPT ![t] = "erase"]
        BY <4>1 DEF StoreInv, Store!TypeOK
      <4> QED BY <1>1, <4>2 DEF Store!Goto
    <3>3. val'[t] = [owner |-> u, number |-> sets + 1]
      BY <3>2 DEF StoreInv, Store!TypeOK
    <3>4. val'[t] \in Store!Session /\ val'[t].owner = u /\ arg'[t].user = u
      BY <1>6, <1>7, <3>3 DEF Store!Session
    <3> QED BY <2>1, <3>1, <3>4 DEF Knows
  <2>2. CASE at'[s] # "write"
    BY <1>5, <2>2 DEF Knows
  <2> QED BY <2>1, <2>2
<1> QED BY <1>8, <1>9, <1>10, <1>11 DEF StoreInv

\* A read that turns to the legacy key has found nothing alive under its own.
LEMMA LooksBackKnows ==
  ASSUME StoreInv, NEW t \in Tasks, at[t] # "out", Store!HasLegacy(t), Store!Goto(t, "legacy"),
         UNCHANGED <<arg, now>>, Store!Alive(v2'[Store!Key(t)]) = Absent
  PROVE  Knows(t)'
<1>1. at'[t] = "legacy"
  BY DEF Store!Goto, StoreInv, Store!TypeOK
<1>2. Store!Key(t)' = Store!Key(t) /\ Store!HasLegacy(t)'
  BY DEF Store!Key, Store!HasLegacy, Store!Provider
<1> QED BY <1>1, <1>2 DEF Knows, Store!Alive

\* get_session_id reads its own entry, then that of the older releases.
LEMMA ReadKeeps == ASSUME StoreInv, NEW t \in Tasks, Store!Read(t) PROVE StoreInv'
<1>1. at[t] = "read" /\ UNCHANGED <<v2, legacy, sets, now, floor, torn>>
  BY DEF Store!Read, Store!cacheVars, Store!history
<1>2. val' = val => val' \in [Tasks -> Store!Session \cup {Store!Missing}]
  BY DEF StoreInv, Store!TypeOK
<1>3. CASE Store!Return(t)
  BY <1>1, <1>3, QuietKeeps
<1>4. CASE /\ Store!Alive(v2[Store!Key(t)]) = Absent /\ Store!HasLegacy(t)
           /\ Store!Goto(t, "legacy") /\ UNCHANGED <<arg, val, owner>>
  <2>1. Store!Alive(v2'[Store!Key(t)]) = Absent
    BY <1>1, <1>4
  <2>2. Knows(t)'
    BY <1>1, <1>4, <2>1, LooksBackKnows
  <2> QED BY <1>1, <1>2, <1>4, <2>2, QuietKeeps DEF Store!Steps
<1>5. CASE /\ Store!Alive(v2[Store!Key(t)]) # Absent
           /\ Store!Found(Store!Alive(v2[Store!Key(t)])) = Store!Missing
           /\ Store!Goto(t, "scrub") /\ UNCHANGED <<arg, val, owner>>
  <2>1. at'[t] = "scrub"
    BY <1>5 DEF Store!Goto, StoreInv, Store!TypeOK
  <2>2. Store!Key(t)' = Store!Key(t)
    BY <1>5 DEF Store!Key, Store!Provider
  <2>3. v2[Store!Key(t)] # Absent /\ v2[Store!Key(t)].session = Store!Missing
    BY <1>5 DEF Store!Found, Store!Alive
  <2>4. Knows(t)'
    BY <1>1, <2>1, <2>2, <2>3 DEF Knows, Store!Missing
  <2> QED BY <1>1, <1>2, <1>5, <2>4, QuietKeeps DEF Store!Steps
<1> QED BY <1>3, <1>4, <1>5 DEF Store!Read, Store!LooksBack

\* A malformed entry is deleted before the read goes on,
LEMMA ScrubKeeps == ASSUME StoreInv, NEW t \in Tasks, Store!Scrub(t) PROVE StoreInv'
<1>1. at[t] = "scrub" /\ Store!Effect(t) /\ Store!Promises(t) /\ UNCHANGED <<sets, now>>
  BY DEF Store!Scrub, Store!Promises
<1>2. CASE Store!Return(t)
  BY <1>1, <1>2, EffectKeeps
<1>3. CASE Store!HasLegacy(t) /\ Store!Goto(t, "legacy") /\ UNCHANGED <<arg, val, owner>>
  <2>1. v2'[Store!Key(t)] = Absent
    BY <1>1, EffectIs
  <2>2. Store!Alive(v2'[Store!Key(t)]) = Absent
    BY <2>1 DEF Store!Alive
  <2>3. Knows(t)'
    BY <1>1, <1>3, <2>2, LooksBackKnows
  <2> QED BY <1>1, <1>3, <2>3, EffectKeeps DEF Store!Steps
<1> QED BY <1>2, <1>3 DEF Store!Scrub, Store!LooksBack

\* and one of the older releases before it ends.
LEMMA ScrubLegacyKeeps == ASSUME StoreInv, NEW t \in Tasks, Store!ScrubLegacy(t) PROVE StoreInv'
<1>1. /\ at[t] = "scrub_legacy" /\ Store!Effect(t) /\ Store!Promises(t) /\ Store!Return(t)
      /\ UNCHANGED <<sets, now>>
  BY DEF Store!ScrubLegacy, Store!Promises
<1> QED BY <1>1, EffectKeeps

\* What an older release stored is dead when a newer entry is.
LEMMA DeadHides ==
  ASSUME StoreInv, NEW u \in Users, NEW p \in Vendors, v2[<<u, p>>] # Absent,
         Store!Alive(v2[<<u, p>>]) = Absent
  PROVE  Store!Alive(legacy[<<LegacyOf[u], p>>]) = Absent
<1>1. PICK e, f, k : k = LegacyOf[u] /\ e = legacy[<<k, p>>] /\ f = v2[<<u, p>>]
  OBVIOUS
<1>2. /\ e \in Store!Entry \cup {Absent} /\ f \in Store!Entry /\ Store!Alive(f) = Absent
      /\ now \in Nat /\ TTL \in Nat /\ k \in LegacyKeys
  BY <1>1, Entries
<1>3. CASE e = Absent
  BY <1>1, <1>3 DEF Store!Alive
<1>4. CASE e # Absent
  <2>1. f.until # 0 /\ now > f.until
    BY <1>1, <1>2, AbsentAssumption DEF Store!Alive
  <2>2. /\ e.until <= TTL /\ (TTL > 0 => e.until > 0)
        /\ f.until >= TTL /\ (TTL = 0 => f.until = 0)
    BY <1>1, <1>2, <1>4, <2>1 DEF StoreInv, Owned
  <2>3. f.until \in Nat /\ e.until \in Nat
    BY <1>2, <1>4 DEF Store!Entry
  <2>4. now > e.until /\ e.until # 0
    BY <1>2, <2>1, <2>2, <2>3
  <2> QED BY <1>1, <2>4 DEF Store!Alive
<1> QED BY <1>3, <1>4

\* What an older release stored is found only if nothing was stored or cleared
\* since, or after two operations that ended half way: a newer entry would have
\* to be dead, and it outlives the older one.
LEMMA ReadLegacyKeeps == ASSUME StoreInv, NEW t \in Tasks, Store!ReadLegacy(t) PROVE StoreInv'
<1>1. at[t] = "legacy" /\ UNCHANGED <<v2, legacy, sets, now, floor, torn>>
  BY DEF Store!ReadLegacy, Store!cacheVars, Store!history
<1>2. PICK u, p, k, e, f : /\ u = arg[t].user /\ p = Store!Provider(t) /\ k = LegacyOf[u]
                           /\ e = legacy[<<k, p>>] /\ f = v2[<<u, p>>]
  OBVIOUS
<1>3. /\ u \in Users /\ p \in Vendors /\ k \in LegacyKeys
      /\ Store!Key(t) = <<u, p>> /\ Store!LegacyKey(t) = <<k, p>>
  BY <1>1, <1>2, KeysAre, LegacyAssumption DEF Store!Key, Store!LegacyKey
<1>4. /\ e \in Store!Entry \cup {Absent} /\ f \in Store!Entry \cup {Absent} /\ now \in Nat /\ TTL \in Nat
      /\ u \notin Ambiguous /\ Store!Alive(f) = Absent
  BY <1>1, <1>2, <1>3, Entries DEF StoreInv, Knows, Store!HasLegacy
<1>5. CASE Store!Return(t)
  BY <1>1, <1>5, QuietKeeps
<1>6. CASE /\ Store!Alive(legacy[Store!LegacyKey(t)]) # Absent
           /\ Store!Found(Store!Alive(legacy[Store!LegacyKey(t)])) = Store!Missing
           /\ Store!Goto(t, "scrub_legacy") /\ UNCHANGED <<arg, val, owner>>
  <2>1. at'[t] = "scrub_legacy"
    BY <1>6 DEF Store!Goto, StoreInv, Store!TypeOK
  <2>2. Store!Key(t)' = <<u, p>> /\ Store!LegacyKey(t)' = <<k, p>> /\ Store!HasLegacy(t)'
    BY <1>2, <1>3, <1>4, <1>6 DEF Store!Key, Store!LegacyKey, Store!HasLegacy, Store!Provider
  <2>3. e.session = Store!Missing
    BY <1>2, <1>3, <1>6 DEF Store!Found, Store!Alive
  <2>4. v2'[<<u, p>>] = f /\ legacy'[<<k, p>>] = e
    BY <1>1, <1>2
  <2>5. Store!Alive(f)' = Absent
    BY <1>1, <1>4 DEF Store!Alive
  <2>6. Knows(t)'
    BY <2>1, <2>2, <2>3, <2>4, <2>5 DEF Knows, Store!Alive, Store!Missing
  <2>7. val' \in [Tasks -> Store!Session \cup {Store!Missing}]
    BY <1>6 DEF StoreInv, Store!TypeOK
  <2> QED BY <1>1, <1>6, <2>6, <2>7, QuietKeeps DEF Store!Steps
<1>7. CASE /\ Store!Found(Store!Alive(legacy[Store!LegacyKey(t)])) # Store!Missing
           /\ val' = [val EXCEPT ![t] = Store!Alive(legacy[Store!LegacyKey(t)]).session]
           /\ Store!Goto(t, "migrate") /\ UNCHANGED <<arg, owner>>
  <2>1. Store!Alive(e) # Absent /\ Store!Found(Store!Alive(e)) # Store!Missing
    BY <1>2, <1>3, <1>7 DEF Store!Found, Store!Alive
  <2>2. /\ e # Absent /\ Store!Alive(e) = e /\ e \in Store!Entry /\ e.session # Store!Missing
    BY <1>4, <2>1 DEF Store!Found, Store!Alive
  <2>3. e.session.number = 0 /\ LegacyOf[e.session.owner] = k
    BY <1>2, <1>3, <2>2 DEF StoreInv, Owned
  <2>4. f = Absent
    BY <1>2, <1>3, <1>4, <2>2, DeadHides
  <2>5. floor[<<u, p>>] = 0 \/ torn[<<u, p>>] = "clear"
    <3>1. Newest(u, p)
      BY <1>3 DEF StoreInv
    <3> QED BY <1>2, <1>3, <1>4, <2>2, <2>4, <3>1 DEF Newest
  <2>6. e.session \in Store!Session /\ e.session.owner = u
    <3>1. e.session \in Store!Session /\ e.session.owner \in Users
      BY <2>2 DEF Store!Entry, Store!Session
    <3> QED BY <1>2, <1>3, <1>4, <2>3, <3>1, OwnersAssumption
  <2>7. PICK w \in Store!Session : w = e.session
    BY <2>6
  <2>8. val' = [val EXCEPT ![t] = w]
    BY <1>2, <1>3, <1>7, <2>2, <2>7
  <2>9. val' \in [Tasks -> Store!Session \cup {Store!Missing}] /\ val'[t] = w
    <3> HIDE DEF Store!Missing
    <3> QED BY <2>8 DEF StoreInv, Store!TypeOK
  <2>10. at'[t] = "migrate"
    BY <1>7 DEF Store!Goto, StoreInv, Store!TypeOK
  <2>11. Store!Key(t)' = <<u, p>> /\ Store!LegacyKey(t)' = <<k, p>> /\ Store!HasLegacy(t)' /\ arg'[t].user = u
    BY <1>2, <1>3, <1>4, <1>7 DEF Store!Key, Store!LegacyKey, Store!HasLegacy, Store!Provider
  <2>12. /\ v2'[<<u, p>>] = f /\ legacy'[<<k, p>>] = e
         /\ floor'[<<u, p>>] = 0 \/ torn'[<<u, p>>] = "clear"
    BY <1>1, <1>2, <2>5
  <2>13. Store!Alive(f)' = Absent
    BY <2>4 DEF Store!Alive
  <2>14. Knows(t)'
    BY <2>2, <2>4, <2>6, <2>7, <2>9, <2>10, <2>11, <2>12, <2>13 DEF Knows, Store!Alive
  <2> QED BY <1>1, <1>7, <2>9, <2>14, QuietKeeps DEF Store!Steps
<1> QED BY <1>5, <1>6, <1>7 DEF Store!ReadLegacy

\* set_session_id and a migration store the new entry.
LEMMA WriteKeeps == ASSUME StoreInv, NEW t \in Tasks, Store!Write(t) PROVE StoreInv'
<1>1. at[t] \in {"migrate", "write"} /\ Store!Effect(t) /\ Store!Promises(t) /\ UNCHANGED <<sets, now>>
  BY DEF Store!Write
<1>2. CASE Store!Return(t)
  BY <1>1, <1>2, EffectKeeps
<1>3. CASE Store!HasLegacy(t) /\ Store!Goto(t, "unlink") /\ UNCHANGED <<arg, val, owner>>
  <2>1. at'[t] = "unlink"
    BY <1>3 DEF Store!Goto, StoreInv, Store!TypeOK
  <2>2. Store!Key(t)' = Store!Key(t) /\ Store!HasLegacy(t)' /\ Store!Key(t) \in Users \X Vendors
    BY <1>1, <1>3, KeysAre DEF Store!Key, Store!HasLegacy, Store!Provider
  <2>3. val[t] \in Store!Session /\ val[t].owner = arg[t].user /\ val[t].number \in Nat /\ now \in Nat
    BY <1>1, ClockAssumption DEF StoreInv, Knows, Store!Session, Store!TypeOK
  <2>4. v2'[Store!Key(t)] # Absent /\ v2'[Store!Key(t)].session # Store!Missing
    <3>1. PICK session, e : session = val[t] /\ e = Store!Stored(session)
      OBVIOUS
    <3>2. e # Absent /\ e.session # Store!Missing
      BY <2>3, <3>1, StoredIs
    <3>3. v2'[Store!Key(t)] = e
      BY <1>1, <3>1, EffectIs
    <3> QED BY <3>2, <3>3
  <2>5. val[t].number >= floor'[Store!Key(t)] \/ torn'[Store!Key(t)] = "clear"
    <3>1. CASE at[t] = "write"
      BY <1>1, <2>2, <2>3, <3>1 DEF StoreInv, Store!TypeOK, Store!Promises
    <3>2. CASE at[t] = "migrate"
      <4>1. floor[Store!Key(t)] = 0 \/ torn[Store!Key(t)] = "clear"
        BY <3>2 DEF StoreInv, Knows
      <4>2. floor' = floor /\ torn' = torn
        BY <1>1, <3>2, TornIs DEF Store!Promises
      <4> QED BY <2>3, <4>1, <4>2
    <3> QED BY <1>1, <3>1, <3>2
  <2>6. Knows(t)'
    BY <1>3, <2>1, <2>2, <2>3, <2>4, <2>5 DEF Knows, Store!Missing
  <2> QED BY <1>1, <1>3, <2>6, EffectKeeps DEF Store!Steps
<1> QED BY <1>2, <1>3 DEF Store!Write

\* The older entry is deleted when the new one is stored: it hid it already.
LEMMA UnlinkKeeps == ASSUME StoreInv, NEW t \in Tasks, Store!Unlink(t) PROVE StoreInv'
<1>1. /\ at[t] = "unlink" /\ Store!Effect(t) /\ Store!Promises(t) /\ Store!Return(t)
      /\ UNCHANGED <<sets, now>>
  BY DEF Store!Unlink, Store!Promises
<1> QED BY <1>1, EffectKeeps

\* One provider is cleared: nothing is left of its mapping.
LEMMA ClearedKeeps ==
  ASSUME StoreInv, NEW t \in Tasks, at[t] \in {"erase", "erase_legacy"}, Store!Effect(t), Store!Cleared(t),
         UNCHANGED <<sets, now>>, v2'[Store!Key(t)] = Absent,
         Store!HasLegacy(t) => legacy'[Store!LegacyKey(t)] = Absent
  PROVE  StoreInv'
<1>1. /\ v2' \in [Users \X Vendors -> Store!Entry \cup {Absent}]
      /\ legacy' \in [LegacyKeys \X Vendors -> Store!Entry \cup {Absent}] /\ Owned'
      /\ torn' \in [Users \X Vendors -> {"no", "set", "clear"}]
  BY EffectIs, TornIs
<1>2. PICK u, q : u = arg[t].user /\ q = Store!Provider(t)
  OBVIOUS
<1>3. /\ u \in Users /\ q \in Vendors /\ q \in arg[t].providers /\ arg[t].providers \subseteq Vendors
      /\ Store!Key(t) = <<u, q>> /\ Store!LegacyKey(t) = <<LegacyOf[u], q>>
  BY <1>2, KeysAre DEF Store!Key, Store!LegacyKey
<1>4. floor' = [floor EXCEPT ![<<u, q>>] = sets + 1] /\ sets + 1 \in Nat
  BY <1>3, ClockAssumption DEF Store!Cleared, StoreInv, Store!TypeOK
<1>5. floor' \in [Users \X Vendors -> Nat]
  BY <1>4 DEF StoreInv, Store!TypeOK
<1>6. ASSUME NEW v \in Users, NEW p \in Vendors PROVE Newest(v, p)'
  <2>1. CASE v = u /\ p = q
    BY <1>2, <1>3, <2>1 DEF Newest, Store!HasLegacy
  <2>2. CASE v # u \/ p # q
    <3>1. /\ <<v, p>> \in Users \X Vendors /\ <<v, p>> # Store!Key(t)
          /\ <<LegacyOf[v], p>> \in LegacyKeys \X Vendors /\ Newest(v, p)
      BY <1>3, <2>2, Entries DEF StoreInv
    <3>2. floor'[<<v, p>>] = floor[<<v, p>>]
      BY <1>3, <1>4, <3>1 DEF StoreInv, Store!TypeOK
    <3> QED BY <3>1, <3>2, EffectIs, TornIs, NewestKept
  <2> QED BY <2>1, <2>2
<1>7. CASE arg[t].providers = {q}
  <2>1. Store!Return(t)
    BY <1>2, <1>7 DEF Store!Cleared
  <2> QED BY <1>1, <1>5, <1>6, <2>1, ReturnKeeps
<1>8. CASE arg[t].providers # {q}
  <2>1. /\ Store!Goto(t, "erase") /\ arg' = [arg EXCEPT ![t].providers = @ \ {q}]
        /\ UNCHANGED <<val, owner>>
    BY <1>2, <1>8 DEF Store!Cleared
  <2>2. at'[t] = "erase"
    BY <2>1 DEF Store!Goto, StoreInv, Store!TypeOK
  <2>3. /\ arg' \in [Tasks -> [user : Users \cup {Absent}, providers : SUBSET Vendors]]
        /\ arg'[t].user = u /\ arg'[t].providers = arg[t].providers \ {q}
    <3>1. arg \in [Tasks -> [user : Users \cup {Absent}, providers : SUBSET Vendors]]
      BY DEF StoreInv, Store!TypeOK
    <3>2. PICK r \in SUBSET Vendors : r = arg[t].providers \ {q}
      BY <1>3
    <3>3. arg' = [arg EXCEPT ![t].providers = r]
      BY <2>1, <3>1, <3>2
    <3> QED BY <1>2, <3>1, <3>2, <3>3
  <2>4. Knows(t)'
    BY <2>2 DEF Knows
  <2>5. arg'[t].providers # {}
    BY <1>3, <1>8, <2>3
  <2>6. val' \in [Tasks -> Store!Session \cup {Store!Missing}]
    BY <2>1 DEF StoreInv, Store!TypeOK
  <2> QED BY <1>1, <1>2, <1>5, <1>6, <2>1, <2>3, <2>4, <2>5, <2>6, GoesOnKeeps DEF Store!Steps
<1> QED BY <1>7, <1>8

\* clear() deletes the new entry.
LEMMA EraseKeeps == ASSUME StoreInv, NEW t \in Tasks, Store!Erase(t) PROVE StoreInv'
<1>1. at[t] = "erase" /\ Store!Effect(t) /\ UNCHANGED <<sets, now>>
  BY DEF Store!Erase
<1>2. v2'[Store!Key(t)] = Absent
  BY <1>1, EffectIs
<1>3. CASE ~Store!HasLegacy(t) /\ Store!Cleared(t)
  BY <1>1, <1>2, <1>3, ClearedKeeps
<1>4. CASE Store!HasLegacy(t) /\ Store!Goto(t, "erase_legacy") /\ UNCHANGED <<arg, val, owner, floor>>
  <2>1. at'[t] = "erase_legacy" /\ Store!Promises(t)
    BY <1>1, <1>4 DEF Store!Goto, StoreInv, Store!TypeOK, Store!Promises
  <2>2. Knows(t)'
    BY <1>2, <1>4, <2>1 DEF Knows, Store!HasLegacy, Store!Key, Store!Provider
  <2> QED BY <1>1, <1>4, <2>1, <2>2, EffectKeeps DEF Store!Steps
<1> QED BY <1>3, <1>4 DEF Store!Erase

\* And that of the older releases.
LEMMA EraseLegacyKeeps == ASSUME StoreInv, NEW t \in Tasks, Store!EraseLegacy(t) PROVE StoreInv'
<1>1. at[t] = "erase_legacy" /\ Store!Effect(t) /\ Store!Cleared(t) /\ UNCHANGED <<sets, now>>
  BY DEF Store!EraseLegacy
<1>2. v2' = v2 /\ legacy'[Store!LegacyKey(t)] = Absent
  BY <1>1, EffectIs
<1>3. v2[Store!Key(t)] = Absent
  BY <1>1 DEF StoreInv, Knows
<1> QED BY <1>1, <1>2, <1>3, ClearedKeeps

\* A cache operation that raises has had its effect or none.
LEMMA InterruptKeeps == ASSUME StoreInv, NEW t \in Tasks, Store!Interrupt(t) PROVE StoreInv'
<1>1. /\ \/ Store!Effect(t) /\ Store!Promises(t)
         \/ UNCHANGED <<v2, legacy, floor, torn>>
      /\ Store!Return(t) /\ UNCHANGED <<sets, now>> /\ at[t] # "out"
  BY DEF Store!Interrupt, Store!cacheVars, Store!history, StoreInv, Store!TypeOK
<1> QED BY <1>1, EffectKeeps, QuietKeeps

\* Time passes: what is dead stays dead.
LEMMA TickKeeps == ASSUME StoreInv, Store!Tick PROVE StoreInv'
<1>1. now' = now + 1 /\ now < MaxTime /\ UNCHANGED <<v2, legacy, at, arg, val, owner, sets, floor, torn>>
  BY DEF Store!Tick, Store!cacheVars, Store!history
<1>2. now \in Nat /\ now' \in 0 .. MaxTime
  BY <1>1, ClockAssumption DEF StoreInv, Store!TypeOK
<1>3. Store!TypeOK'
  BY <1>1, <1>2 DEF StoreInv, Store!TypeOK
<1>4. ASSUME NEW t \in Tasks PROVE Knows(t)'
  <2>1. ASSUME at[t] \in {"legacy", "scrub_legacy", "migrate"}
        PROVE  (Store!Alive(v2[Store!Key(t)]) = Absent)'
    <3>1. PICK u, p : u = arg[t].user /\ p = Store!Provider(t)
      OBVIOUS
    <3>2. u \in Users /\ p \in Vendors /\ Store!Key(t) = <<u, p>>
      BY <2>1, <3>1, KeysAre DEF Store!Key
    <3>3. PICK e : e = v2[<<u, p>>]
      OBVIOUS
    <3>4. e \in Store!Entry \cup {Absent} /\ Store!Alive(e) = Absent
      BY <2>1, <3>2, <3>3, Entries DEF StoreInv, Knows
    <3>5. (Store!Alive(e) = Absent)'
      BY <1>1, <1>2, <3>4 DEF Store!Alive, Store!Entry
    <3>6. Store!Key(t)' = <<u, p>> /\ v2'[<<u, p>>] = e
      BY <1>1, <3>2, <3>3 DEF Store!Key, Store!Provider
    <3> QED BY <3>5, <3>6 DEF Store!Alive
  <2>2. /\ Store!Key(t)' = Store!Key(t) /\ Store!LegacyKey(t)' = Store!LegacyKey(t)
        /\ Store!HasLegacy(t)' = Store!HasLegacy(t) /\ Store!Missing' = Store!Missing
    BY <1>1 DEF Store!Key, Store!LegacyKey, Store!HasLegacy, Store!Provider, Store!Missing
  <2>3. Knows(t)
    BY DEF StoreInv
  <2> QED BY <1>1, <2>1, <2>2, <2>3 DEF Knows
<1>5. Busy' /\ Owned' /\ \A u \in Users, p \in Vendors : Newest(u, p)'
  <2>1. Store!Missing' = Store!Missing
    BY DEF Store!Missing
  <2> QED BY <1>1, <2>1 DEF StoreInv, Busy, Owned, Newest
<1> QED BY <1>3, <1>4, <1>5 DEF StoreInv

\* Every step keeps the invariant,
LEMMA StoreInvNext == StoreInv /\ [Store!Next]_(Store!vars) => StoreInv'
<1> SUFFICES ASSUME StoreInv, [Store!Next]_(Store!vars) PROVE StoreInv'
  OBVIOUS
<1>1. CASE UNCHANGED Store!vars
  BY <1>1 DEF Store!vars, Store!cacheVars, Store!history, StoreInv, Store!TypeOK, Busy, Owned, Newest, Knows,
     Store!HasLegacy, Store!Alive, Store!Missing, Store!Key, Store!LegacyKey, Store!Provider
<1>2. ASSUME NEW t \in Tasks, Store!Enter(t) PROVE StoreInv'
  BY <1>2, EnterKeeps
<1>3. ASSUME NEW t \in Tasks, Store!Get(t) PROVE StoreInv'
  BY <1>3, ReadKeeps, ScrubKeeps, ReadLegacyKeeps, ScrubLegacyKeeps DEF Store!Get
<1>4. ASSUME NEW t \in Tasks, Store!Set(t) PROVE StoreInv'
  BY <1>4, WriteKeeps, UnlinkKeeps DEF Store!Set
<1>5. ASSUME NEW t \in Tasks, Store!Clear(t) PROVE StoreInv'
  BY <1>5, EraseKeeps, EraseLegacyKeeps DEF Store!Clear
<1>6. ASSUME NEW t \in Tasks, Store!Interrupt(t) PROVE StoreInv'
  BY <1>6, InterruptKeeps
<1>7. CASE Store!Tick
  BY <1>7, TickKeeps
<1> QED BY <1>1, <1>2, <1>3, <1>4, <1>5, <1>6, <1>7 DEF Store!Next

\* which holds of what older releases and others have left behind.
LEMMA StoreInvInit == Store!Init => StoreInv
<1> SUFFICES ASSUME Store!Init PROVE StoreInv
  OBVIOUS
<1>1. PICK times : times = IF TTL = 0 THEN {0} ELSE 1 .. TTL
  OBVIOUS
<1>2. times \subseteq Nat /\ \A i \in times : i <= TTL /\ (TTL > 0 => i > 0)
  BY <1>1, ClockAssumption
<1>3. PICK old, bad : /\ old = [session : [owner : Users, number : {0}] \cup {Store!Missing}, until : times]
                      /\ bad = [session |-> Store!Missing, until |-> 0]
  OBVIOUS
<1>4. /\ legacy \in [LegacyKeys \X Vendors -> {Absent} \cup old]
      /\ \A k \in LegacyKeys, p \in Vendors :
            legacy[<<k, p>>] # Absent /\ legacy[<<k, p>>].session # Store!Missing =>
               LegacyOf[legacy[<<k, p>>].session.owner] = k
      /\ v2 \in [Users \X Vendors -> {Absent, bad}]
  BY <1>1, <1>3, Zenon DEF Store!Init
<1>5. /\ old \subseteq Store!Entry /\ bad \in Store!Entry
      /\ bad.session = Store!Missing /\ bad.until = 0
      /\ \A e \in old : /\ e.until \in times
                        /\ e.session # Store!Missing => e.session.number = 0
  <2>1. PICK S, m : S = [owner : Users, number : {0}] /\ m = Store!Missing
    OBVIOUS
  <2>2. S \subseteq Store!Session /\ \A w \in S : w.number = 0
    BY <2>1 DEF Store!Session
  <2>3. Store!Entry = [session : Store!Session \cup {m}, until : Nat]
    BY <2>1 DEF Store!Entry
  <2>4. old = [session : S \cup {m}, until : times] /\ bad = [session |-> m, until |-> 0]
    BY <1>3, <2>1
  <2> QED BY <1>2, <2>1, <2>2, <2>3, <2>4
<1>6. /\ at = [t \in Tasks |-> "out"]
      /\ arg = [t \in Tasks |-> Store!Idle] /\ val = [t \in Tasks |-> Store!Missing]
      /\ owner = NoTask /\ sets = 0 /\ now = 0
      /\ floor = [k \in Users \X Vendors |-> 0] /\ torn = [k \in Users \X Vendors |-> "no"]
  BY Zenon DEF Store!Init
<1>7. Store!TypeOK
  <2>1. val \in [Tasks -> Store!Session \cup {Store!Missing}]
    <3> HIDE DEF Store!Missing
    <3> QED BY <1>6
  <2>2. arg \in [Tasks -> [user : Users \cup {Absent}, providers : SUBSET Vendors]]
    <3>1. Store!Idle \in [user : Users \cup {Absent}, providers : SUBSET Vendors]
      BY DEF Store!Idle
    <3> QED BY <1>6, <3>1
  <2>3. /\ v2 \in [Users \X Vendors -> Store!Entry \cup {Absent}]
        /\ legacy \in [LegacyKeys \X Vendors -> Store!Entry \cup {Absent}]
    BY <1>4, <1>5
  <2> QED BY <1>6, <2>1, <2>2, <2>3, HolderAssumption, ClockAssumption DEF Store!TypeOK, Store!Steps
<1>8. Busy /\ \A t \in Tasks : Knows(t)
  BY <1>6 DEF Busy, Knows
<1>9. Owned
  <2>1. ASSUME NEW k \in LegacyKeys, NEW p \in Vendors, legacy[<<k, p>>] # Absent
        PROVE  /\ legacy[<<k, p>>].until <= TTL /\ (TTL > 0 => legacy[<<k, p>>].until > 0)
               /\ legacy[<<k, p>>].session # Store!Missing =>
                     /\ legacy[<<k, p>>].session.number = 0
                     /\ LegacyOf[legacy[<<k, p>>].session.owner] = k
    <3>1. legacy[<<k, p>>] \in old
      BY <1>4, <2>1
    <3> QED BY <1>2, <1>4, <1>5, <2>1, <3>1
  <2>2. ASSUME NEW u \in Users, NEW p \in Vendors, v2[<<u, p>>] # Absent
        PROVE  v2[<<u, p>>].session = Store!Missing /\ v2[<<u, p>>].until = 0
    BY <1>4, <1>5, <2>2
  <2> QED BY <2>1, <2>2 DEF Owned
<1>10. \A u \in Users, p \in Vendors : Newest(u, p)
  BY <1>6 DEF Newest
<1> QED BY <1>7, <1>8, <1>9, <1>10 DEF StoreInv

-----------------------------------------------------------------------------
(* What the operations do *)

\* A read, or a migration that ends, returns what is the user's own and newest.
LEMMA ReadsAre ==
  ASSUME StoreInv, NEW t \in Tasks, Store!Ends(t), Store!Result(t) # Store!Missing
  PROVE  /\ Store!Result(t).number >= floor[Store!Key(t)] \/ torn[Store!Key(t)] = "clear"
         /\ Store!Result(t).owner = arg[t].user
<1>1. PICK u, p : u = arg[t].user /\ p = Store!Provider(t)
  OBVIOUS
<1>2. u \in Users /\ p \in Vendors /\ Store!Key(t) = <<u, p>>
  BY <1>1, KeysAre DEF Store!Ends, Store!Key
<1>3. CASE at[t] = "unlink"
  BY <1>3 DEF Store!Result, StoreInv, Knows
<1>4. CASE at[t] = "read"
  <2>1. Newest(u, p) /\ floor[<<u, p>>] \in Nat
    BY <1>2, Entries DEF StoreInv
  <2>2. /\ v2[<<u, p>>] \in Store!Entry /\ v2[<<u, p>>] # Absent
        /\ Store!Result(t) = v2[<<u, p>>].session
    BY <1>2, <1>4, Entries DEF Store!Result, Store!Found, Store!Alive
  <2>3. Store!Result(t).owner = u
    BY <1>2, <2>2 DEF StoreInv, Owned
  <2>4. Store!Result(t).number >= floor[<<u, p>>] \/ torn[<<u, p>>] = "clear"
    <3>1. Store!Result(t).number \in Nat
      BY <2>2 DEF Store!Entry, Store!Session
    <3> QED BY <2>1, <2>2, <3>1 DEF Newest
  <2> QED BY <1>1, <1>2, <2>3, <2>4
<1> QED BY <1>3, <1>4 DEF Store!Ends

\* A mapping depends on what is found under its own two keys.
LEMMA MappingSame ==
  ASSUME NEW u \in Users, NEW p \in Vendors,
         Store!Found(v2[<<u, p>>])' = Store!Found(v2[<<u, p>>]),
         Store!Found(legacy[<<LegacyOf[u], p>>])' = Store!Found(legacy[<<LegacyOf[u], p>>])
  PROVE  Store!Mapping(u, p)' = Store!Mapping(u, p)
BY DEF Store!Mapping, Store!Missing

\* And that is the entry, and the clock.
LEMMA FoundSame ==
  ASSUME UNCHANGED now
  PROVE  /\ \A k : v2'[k] = v2[k] => Store!Found(v2[k])' = Store!Found(v2[k])
         /\ \A k : legacy'[k] = legacy[k] => Store!Found(legacy[k])' = Store!Found(legacy[k])
BY DEF Store!Found, Store!Alive, Store!Missing

\* A migration changes no mapping: what it stores is what was found, what it
\* deletes was hidden, and a malformed entry was none.
LEMMA MigrationIs ==
  ASSUME StoreInv, NEW t \in Tasks, at[t] \in {"scrub", "scrub_legacy", "migrate", "unlink"}, Store!Effect(t),
         UNCHANGED now,
         NEW u \in Users, NEW p \in Vendors, Store!Mapping(u, p) # Store!Missing
  PROVE  Store!Mapping(u, p)' = Store!Mapping(u, p)
<1>1. PICK v, q : v = arg[t].user /\ q = Store!Provider(t)
  OBVIOUS
<1>2. /\ v \in Users /\ q \in Vendors /\ Store!Key(t) = <<v, q>> /\ Store!LegacyKey(t) = <<LegacyOf[v], q>>
      /\ <<u, p>> \in Users \X Vendors /\ <<LegacyOf[u], p>> \in LegacyKeys \X Vendors
  BY <1>1, KeysAre, Entries DEF Store!Key, Store!LegacyKey
<1>3. at[t] # "scrub" => v \notin Ambiguous
  BY <1>1 DEF StoreInv, Knows, Store!HasLegacy
<1>4. CASE at[t] = "migrate"
  <2>1. legacy' = legacy
    BY <1>4, EffectIs
  <2>2. CASE <<u, p>> # Store!Key(t)
    <3>1. v2'[<<u, p>>] = v2[<<u, p>>]
      BY <1>2, <2>2, EffectIs
    <3> QED BY <2>1, <3>1, FoundSame, MappingSame
  <2>3. CASE <<u, p>> = Store!Key(t)
    <3>1. u = v /\ p = q
      BY <1>2, <2>3
    <3>2. /\ Store!Alive(v2[<<u, p>>]) = Absent
          /\ legacy[<<LegacyOf[u], p>>] # Absent /\ legacy[<<LegacyOf[u], p>>].session = val[t]
      BY <1>2, <1>4, <3>1 DEF StoreInv, Knows
    <3>3. Store!Mapping(u, p) = val[t]
      BY <3>2 DEF Store!Mapping, Store!Found, Store!Alive
    <3>4. PICK session, e : session = val[t] /\ e = Store!Stored(session)
      OBVIOUS
    <3>5. session \in Store!Session /\ now \in Nat
      BY <1>4, <3>4, ClockAssumption DEF StoreInv, Knows, Store!TypeOK
    <3>6. e # Absent /\ e.session = session /\ Store!Alive(e) = e /\ session # Store!Missing
      BY <3>4, <3>5, StoredIs
    <3>7. v2'[<<u, p>>] = e
      BY <1>4, <2>3, <3>4, EffectIs
    <3>8. Store!Mapping(u, p)' = session
      BY <3>6, <3>7 DEF Store!Mapping, Store!Found, Store!Alive, Store!Missing
    <3> QED BY <3>3, <3>4, <3>8
  <2> QED BY <2>2, <2>3
<1>5. CASE at[t] = "unlink"
  <2>1. v2' = v2
    BY <1>5, EffectIs
  <2>2. CASE <<LegacyOf[u], p>> # Store!LegacyKey(t)
    <3>1. legacy'[<<LegacyOf[u], p>>] = legacy[<<LegacyOf[u], p>>]
      BY <1>2, <2>2, EffectIs
    <3> QED BY <2>1, <3>1, FoundSame, MappingSame
  <2>3. CASE Store!Found(v2[<<u, p>>]) # Store!Missing
    BY <2>1, <2>3 DEF Store!Mapping, Store!Found, Store!Alive, Store!Missing
  <2>4. CASE u \in Ambiguous
    BY <2>1, <2>4 DEF Store!Mapping, Store!Found, Store!Alive, Store!Missing
  <2>5. CASE /\ <<LegacyOf[u], p>> = Store!LegacyKey(t) /\ u \notin Ambiguous
             /\ Store!Found(v2[<<u, p>>]) = Store!Missing
    <3>1. u = v /\ p = q
      BY <1>2, <2>5, OwnersAssumption
    <3>2. v2[<<u, p>>] # Absent /\ v2[<<u, p>>].session # Store!Missing
      BY <1>2, <1>5, <3>1 DEF StoreInv, Knows
    <3>3. Store!Alive(v2[<<u, p>>]) = Absent
      BY <2>5, <3>2 DEF Store!Found, Store!Alive
    <3>4. Store!Alive(legacy[<<LegacyOf[u], p>>]) = Absent
      BY <3>2, <3>3, DeadHides
    <3>5. Store!Found(legacy[<<LegacyOf[u], p>>]) = Store!Missing
      BY <3>4 DEF Store!Found
    <3> QED BY <2>5, <3>5 DEF Store!Mapping
  <2> QED BY <2>2, <2>3, <2>4, <2>5
<1>6. CASE at[t] = "scrub"
  <2>1. legacy' = legacy /\ v2'[Store!Key(t)] = Absent
    BY <1>6, EffectIs
  <2>2. CASE <<u, p>> # Store!Key(t)
    <3>1. v2'[<<u, p>>] = v2[<<u, p>>]
      BY <1>2, <2>2, EffectIs
    <3> QED BY <2>1, <3>1, FoundSame, MappingSame
  <2>3. CASE <<u, p>> = Store!Key(t)
    <3>1. v2[<<u, p>>].session = Store!Missing
      BY <1>6, <2>3 DEF StoreInv, Knows
    <3>2. Store!Found(v2[<<u, p>>])' = Store!Found(v2[<<u, p>>])
      BY <2>1, <2>3, <3>1 DEF Store!Found, Store!Alive, Store!Missing
    <3> QED BY <2>1, <3>2, FoundSame, MappingSame
  <2> QED BY <2>2, <2>3
<1>7. CASE at[t] = "scrub_legacy"
  <2>1. v2' = v2 /\ legacy'[Store!LegacyKey(t)] = Absent
    BY <1>7, EffectIs
  <2>2. CASE <<LegacyOf[u], p>> # Store!LegacyKey(t)
    <3>1. legacy'[<<LegacyOf[u], p>>] = legacy[<<LegacyOf[u], p>>]
      BY <1>2, <2>2, EffectIs
    <3> QED BY <2>1, <3>1, FoundSame, MappingSame
  <2>3. CASE <<LegacyOf[u], p>> = Store!LegacyKey(t)
    <3>1. legacy[<<LegacyOf[u], p>>].session = Store!Missing
      BY <1>7, <2>3 DEF StoreInv, Knows
    <3>2. Store!Found(legacy[<<LegacyOf[u], p>>])' = Store!Found(legacy[<<LegacyOf[u], p>>])
      BY <2>1, <2>3, <3>1 DEF Store!Found, Store!Alive, Store!Missing
    <3> QED BY <2>1, <3>2, FoundSame, MappingSame
  <2> QED BY <2>2, <2>3
<1> QED BY <1>4, <1>5, <1>6, <1>7

\* So a mapping that changes was stored, cleared or has expired.
LEMMA MappingsChange ==
  ASSUME StoreInv, [Store!Next]_(Store!vars), NEW u \in Users, NEW p \in Vendors,
         Store!Mapping(u, p) # Store!Missing, Store!Mapping(u, p)' # Store!Mapping(u, p)
  PROVE  \/ now' # now
         \/ owner # NoTask /\ at[owner] \in {"write", "erase", "erase_legacy"}
<1>1. SUFFICES ASSUME now' = now
               PROVE  owner # NoTask /\ at[owner] \in {"write", "erase", "erase_legacy"}
  OBVIOUS
<1>2. Store!cacheVars' # Store!cacheVars
  <2> SUFFICES ASSUME UNCHANGED Store!cacheVars PROVE FALSE
    OBVIOUS
  <2> QED BY <1>1, FoundSame, MappingSame DEF Store!cacheVars
<1>3. PICK t \in Tasks : at[t] # "out" /\ Store!Effect(t)
  <2>1. ASSUME NEW t \in Tasks,
               \/ Store!Scrub(t) \/ Store!ScrubLegacy(t) \/ Store!Write(t)
               \/ Store!Unlink(t) \/ Store!Erase(t) \/ Store!EraseLegacy(t)
        PROVE  at[t] # "out" /\ Store!Effect(t)
    BY <2>1 DEF Store!Scrub, Store!ScrubLegacy, Store!Write, Store!Unlink, Store!Erase, Store!EraseLegacy
  <2>2. ASSUME NEW t \in Tasks, Store!Interrupt(t) PROVE at[t] # "out" /\ Store!Effect(t)
    BY <1>2, <2>2 DEF Store!Interrupt, StoreInv, Store!TypeOK
  <2>3. ASSUME NEW t \in Tasks, Store!Enter(t) \/ Store!Read(t) \/ Store!ReadLegacy(t) PROVE FALSE
    BY <1>2, <2>3 DEF Store!Enter, Store!Read, Store!ReadLegacy
  <2>4. ~Store!Tick /\ ~UNCHANGED Store!vars
    BY <1>2 DEF Store!Tick, Store!vars
  <2> QED BY <2>1, <2>2, <2>3, <2>4 DEF Store!Next, Store!Get, Store!Set, Store!Clear
<1>4. owner = t /\ owner # NoTask
  BY <1>3, KeysAre, HolderAssumption
<1>5. at[t] \notin {"scrub", "scrub_legacy", "migrate", "unlink"}
  BY <1>1, <1>3, MigrationIs
<1>6. at[t] \notin {"read", "legacy"}
  BY <1>2, <1>3 DEF Store!Effect, Store!cacheVars
<1>7. at[t] \in Store!Steps
  BY DEF StoreInv, Store!TypeOK
<1> QED BY <1>3, <1>4, <1>5, <1>6, <1>7 DEF Store!Steps

\* The invariant of the store, over the steps of the whole.
LEMMA StoreInvariance == StoreSpec => []StoreInv
<1>1. StoreInit => StoreInv
  BY StoreInvInit DEF StoreInit
<1>2. StoreInv /\ [StoreNext]_<<vars, Store!vars>> => StoreInv'
  BY StoreInvNext DEF StoreNext
<1> QED BY <1>1, <1>2, PTL DEF StoreSpec

\* get_session_id returns the user's own mapping, and never one that is older
\* than what was stored or cleared before, whatever fails half way; unless a set()
\* that did is followed by a clear() that did.
THEOREM ReadsHold == StoreSpec => ReadsTrue
<1>1. StoreInv /\ [StoreNext]_<<vars, Store!vars>> =>
        [\A t \in Tasks : Store!Ends(t) /\ Store!Result(t) # Store!Missing =>
            Store!Result(t).number >= floor[Store!Key(t)] \/ torn[Store!Key(t)] = "clear"]_(Store!vars)
  BY ReadsAre
<1>2. StoreInv /\ [StoreNext]_<<vars, Store!vars>> =>
        [\A t \in Tasks : Store!Ends(t) /\ Store!Result(t) # Store!Missing =>
                             Store!Result(t).owner = arg[t].user]_(Store!vars)
  BY ReadsAre
<1> QED BY <1>1, <1>2, StoreInvariance, PTL
        DEF StoreSpec, ReadsTrue, Store!ReadsTrue, Store!ReadsNewest, Store!OwnSession

\* A migration loses no mapping, whichever step of it fails.
THEOREM MigrationHolds == StoreSpec => MigrationKeeps
<1>1. StoreInv /\ [StoreNext]_<<vars, Store!vars>> =>
        [\A u \in Users, p \in Vendors :
          Store!Mapping(u, p) # Store!Missing /\ Store!Mapping(u, p)' # Store!Mapping(u, p) =>
             \/ now' # now
             \/ owner # NoTask /\ at[owner] \in {"write", "erase", "erase_legacy"}]_(Store!vars)
  BY MappingsChange DEF StoreNext
<1> QED BY <1>1, StoreInvariance, PTL DEF StoreSpec, MigrationKeeps, Store!MigrationKeeps
=============================================================================
