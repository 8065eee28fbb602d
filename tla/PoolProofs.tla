----------------------------- MODULE PoolProofs -----------------------------
(***************************************************************************)
(* Pool for every value of its constants.  First its types, its counters   *)
(* and its capacity; then who has what: which caller holds which client,   *)
(* which entry owns which session, in which order callers are served, what *)
(* a shutdown that succeeded has left; and that the pool implements        *)
(* SessionLease.                                                           *)
(***************************************************************************)
EXTENDS PoolLease, QueueLemmas, FiniteSetTheorems

-----------------------------------------------------------------------------
(* The queue *)

\* Waking the head keeps the set of woken callers.
LEMMA WakeHeadType ==
    ASSUME NEW s \in Seq(Callers), NEW woken \in SUBSET Callers
    PROVE WakeHead(s, woken) \in SUBSET Callers
BY DEF WakeHead

\* Leaving the queue, waking its head and joining it keep its types.
LEMMA LeaveQueueType ==
    ASSUME QueueTypes, NEW p, LeaveQueue(p)
    PROVE QueueTypes'
<1>1. waiters' \in Seq(Callers)
  BY RemoveFirstType DEF QueueTypes, LeaveQueue
<1>2. event' \in SUBSET Callers
  BY <1>1, WakeHeadType DEF QueueTypes, LeaveQueue
<1> QED BY <1>1, <1>2 DEF QueueTypes

\* Waking the head keeps the queue's types.
LEMMA HeadWokenType ==
    ASSUME QueueTypes, HeadWoken, UNCHANGED waiters
    PROVE QueueTypes'
BY WakeHeadType DEF QueueTypes, HeadWoken

\* Joining the queue keeps its types.
LEMMA EnqueueType ==
    ASSUME QueueTypes, NEW p \in Callers, Enqueue(p), event' \subseteq event
    PROVE QueueTypes'
BY DEF QueueTypes, Enqueue

-----------------------------------------------------------------------------
(* Creation slots *)

\* The creators can be counted.
LEMMA CreatorsFinite == IsFiniteSet(Creators) /\ Cardinality(Creators) \in Nat
<1>1. Creators \in SUBSET Callers
  BY DEF Creators
<1> QED BY <1>1, FiniteAssumption, FS_Subset, FS_CardinalityType

\* _creating stays exact when nobody becomes or ceases to be a creator,
LEMMA CreatorsSame ==
    ASSUME CreatingExact, Creators' = Creators, creating' = creating
    PROVE creating' \in Nat /\ CreatingExact'
BY CreatorsFinite DEF CreatingExact

\* when a caller becomes one and takes a slot,
LEMMA CreatorsAdd ==
    ASSUME CreatingExact, NEW p \in Callers \ Creators,
           Creators' = Creators \cup {p}, creating' = creating + 1
    PROVE creating' \in Nat /\ CreatingExact'
BY CreatorsFinite, FS_AddElement DEF CreatingExact

\* and when one ceases to be and gives its slot back.
LEMMA CreatorsDrop ==
    ASSUME CreatingExact, NEW p \in Creators,
           Creators' = Creators \ {p}, creating' = creating - 1
    PROVE creating' \in Nat /\ CreatingExact'
<1>1. Cardinality(Creators \ {p}) = Cardinality(Creators) - 1 /\ IsFiniteSet(Creators \ {p})
  BY CreatorsFinite, FS_RemoveElement
<1>2. Cardinality(Creators \ {p}) \in Nat
  BY <1>1, FS_CardinalityType
<1> QED BY <1>1, <1>2, CreatorsFinite DEF CreatingExact

-----------------------------------------------------------------------------
(* Callers *)

HoldingPcs == {"connecting", "cleaning", "leased", "releasing"}
              \cup PreparePcs \cup RetirePcs \cup ClosePcs

\* Who starts, prepares, uses or closes a client has one, and who waits for
\* the next attempt has one left.
CallerInv ==
    /\ CallerTypes
    /\ \A p \in Callers : pc[p] \in HoldingPcs => lease[p] \in Clients
    /\ \A p \in Callers : pc[p] = "backoff" => tries[p] < StartupAttempts

\* Returning from acquire() keeps the types of the callers.
LEMMA ReturnType ==
    ASSUME CallerInv, NEW P, Return(P)
    PROVE CallerInv'
<1>1. CallerTypes'
  BY LimitAssumption DEF CallerInv, CallerTypes, Return, CallerPcs
<1>2. ASSUME NEW p \in Callers, pc'[p] \in HoldingPcs
      PROVE lease'[p] \in Clients
  BY <1>2 DEF CallerInv, Return, HoldingPcs, PreparePcs, RetirePcs, ClosePcs
<1>3. ASSUME NEW p \in Callers, pc'[p] = "backoff"
      PROVE tries'[p] < StartupAttempts
  BY <1>3 DEF CallerInv, Return
<1> QED BY <1>1, <1>2, <1>3 DEF CallerInv

\* Who returns is no creator any more.
LEMMA ReturnCreators ==
    ASSUME CallerInv, NEW P, Return(P)
    PROVE Creators' = Creators \ P
BY DEF CallerInv, CallerTypes, Return, Creators, CreatorPcs

\* A caller asks for a session or for none.
LEMMA ReqType ==
    ASSUME CallerInv, NEW p \in Callers
    PROVE req[p].session \in Sessions \cup {NoSession}
<1>1. req[p] \in Requests \cup {NoReq}
  BY DEF CallerInv, CallerTypes
<1>2. \A r \in Requests : r.session \in Sessions \cup {NoSession}
  BY RequestAssumption
<1> QED BY <1>1, <1>2 DEF NoReq

\* A step of one caller that neither starts nor ends a lease.
LEMMA StepType ==
    ASSUME CallerInv, NEW p \in Callers, NEW to \in CallerPcs,
           pc' = [pc EXCEPT ![p] = to],
           to \in HoldingPcs => pc[p] \in HoldingPcs, to # "backoff",
           UNCHANGED <<req, lease, tries>>
    PROVE CallerInv'
BY DEF CallerInv, CallerTypes

\* A caller is a creator after a step when the step leads into _create_client.
LEMMA StepCreators ==
    ASSUME CallerInv, NEW p \in Callers, NEW to,
           pc' = [pc EXCEPT ![p] = to]
    PROVE Creators' = IF to \in CreatorPcs THEN Creators \cup {p} ELSE Creators \ {p}
BY DEF CallerInv, CallerTypes, Creators

-----------------------------------------------------------------------------
(* Entries *)

SessionIds == Sessions \cup {NoSession}

\* The sweep of a checkout keeps the types of the entries.
LEMMA SweepType ==
    ASSUME ClientTypes, NEW victims, NEW chosen, Sweep(victims, chosen)
    PROVE /\ st' \in [Clients -> EntryStates]
          /\ task' \in [Clients -> {"none", "running", "failed"}]
BY DEF ClientTypes, Sweep, EntryStates

\* Marking entries closing keeps their types.
LEMMA ClosingType ==
    ASSUME ClientTypes, NEW C, Closing(C)
    PROVE /\ st' \in [Clients -> EntryStates]
          /\ task' \in [Clients -> {"none", "running", "failed"}]
BY DEF ClientTypes, Closing, EntryStates

\* A candidate is idle and has a use left.
LEMMA CandidatesFit ==
    ASSUME ClientTypes, NEW p
    PROVE /\ Candidates(p) \subseteq FitIdle
          /\ \A c \in FitIdle : st[c] = "idle" /\ uses[c] + 1 \in 0 .. MaxUses
BY LimitAssumption DEF ClientTypes, Candidates, FitIdle, Retirable

\* _finalize_prepared_entry keeps the types of claims and callers.
LEMMA FinalizeType ==
    ASSUME ClientTypes, claims \subseteq Sessions, NEW p \in Callers, NEW c \in Clients,
           NEW s \in SessionIds, NEW entry, NEW claimed \in SessionIds,
           Finalize(p, c, s, entry, claimed)
    PROVE /\ claim' \in [Clients -> SessionIds] /\ claims' \subseteq Sessions
          /\ \E to \in {"retire", "leased"} : pc' = [pc EXCEPT ![p] = to]
BY DEF ClientTypes, Finalize, SessionIds, ToClaim

\* _prepare_entry keeps the types of claims and callers.
LEMMA PrepareType ==
    ASSUME ClientTypes, claims \subseteq Sessions, NEW p \in Callers, NEW c \in Clients,
           NEW s \in SessionIds, NEW entry, NEW claimed \in SessionIds,
           Prepare(p, c, s, entry, claimed)
    PROVE /\ claim' \in [Clients -> SessionIds] /\ claims' \subseteq Sessions
          /\ \E to \in {"retire", "leased", "resuming", "ensuring"} :
               pc' = [pc EXCEPT ![p] = to]
<1>1. CASE Finalize(p, c, s, entry, claimed)
  BY <1>1, FinalizeType
<1>2. CASE /\ \E to \in {"resuming", "ensuring"} : pc' = [pc EXCEPT ![p] = to]
           /\ claim' = [claim EXCEPT ![c] = claimed] /\ UNCHANGED claims
  BY <1>2 DEF ClientTypes, SessionIds
<1> QED BY <1>1, <1>2 DEF Prepare

-----------------------------------------------------------------------------
(* Types *)

TypeInv == ClientTypes /\ PoolTypes /\ QueueTypes /\ CallerInv /\ CreatingExact

\* The types hold at first.
LEMMA TypeInit == Init => TypeInv
<1> SUFFICES ASSUME Init PROVE TypeInv
  OBVIOUS
<1>1. ClientTypes
  BY LimitAssumption DEF Init, ClientTypes, EntryStates
<1>2. PoolTypes /\ QueueTypes
  <2>1. closed \in BOOLEAN
    BY Zenon DEF Init
  <2>2. QueueTypes
    BY DEF Init, QueueTypes
  <2> QED BY <2>1, <2>2 DEF Init, PoolTypes, ClosePhases
<1>3. CallerInv
  BY LimitAssumption
  DEF Init, CallerInv, CallerTypes, CallerPcs, HoldingPcs, PreparePcs, RetirePcs, ClosePcs
<1>4. CreatingExact
  <2>1. Creators = {}
    BY DEF Init, Creators, CreatorPcs
  <2> QED BY <2>1, FS_EmptySet DEF Init, CreatingExact
<1> QED BY <1>1, <1>2, <1>3, <1>4 DEF TypeInv

\* Every step keeps the types and the count of creators.
LEMMA TypeStep == TypeInv /\ [Next]_vars => TypeInv'
<1> SUFFICES ASSUME TypeInv, [Next]_vars PROVE TypeInv'
  OBVIOUS
<1> USE DEF TypeInv
<1>1. ASSUME NEW p \in Callers, Acquire(p) PROVE TypeInv'
  <2>1. CallerInv'
    BY <1>1 DEF Acquire, CallerInv, CallerTypes, CallerPcs, HoldingPcs, CreatorPcs,
      PreparePcs, RetirePcs, ClosePcs
  <2>2. creating' \in Nat /\ CreatingExact'
    BY <1>1, CreatorsSame DEF Acquire, CallerInv, CallerTypes, Creators, CreatorPcs,
      PreparePcs, RetirePcs, ClosePcs
  <2> QED BY <1>1, <2>1, <2>2 DEF Acquire, ClientTypes, QueueTypes, PoolTypes, clientVars,
    processVars, queueVars, callerVars, closeVars
<1>2. ASSUME NEW p \in Callers, CheckoutClosed(p) PROVE TypeInv'
  <2>1. QueueTypes'
    BY <1>2, RemoveFirstType DEF CheckoutClosed, QueueTypes
  <2>2. CallerInv'
    BY <1>2, ReturnType DEF CheckoutClosed, CallerInv, CallerTypes, CallerPcs, HoldingPcs,
      CreatorPcs, PreparePcs, RetirePcs, ClosePcs
  <2>3. creating' \in Nat /\ CreatingExact'
    BY <1>2, ReturnCreators, CreatorsSame DEF CheckoutClosed, CallerInv, CallerTypes,
      Creators, CreatorPcs, PreparePcs, RetirePcs, ClosePcs, Runnable
  <2> QED BY <1>2, <2>1, <2>2, <2>3 DEF CheckoutClosed, ClientTypes, PoolTypes, clientVars,
    processVars, queueVars, callerVars, closeVars
<1>3. ASSUME NEW p \in Callers, CheckoutBehind(p) PROVE TypeInv'
  <2>1. ClientTypes'
    BY <1>3, SweepType DEF CheckoutBehind, ClientTypes, EntryStates
  <2>2. QueueTypes'
    BY <1>3, EnqueueType DEF CheckoutBehind, QueueTypes
  <2>3. CallerInv'
    BY <1>3 DEF CheckoutBehind, CallerInv, CallerTypes, CallerPcs, HoldingPcs, CreatorPcs,
      PreparePcs, RetirePcs, ClosePcs, Enqueue
  <2>4. creating' \in Nat /\ CreatingExact'
    BY <1>3, CreatorsSame DEF CheckoutBehind, CallerInv, CallerTypes, Creators, CreatorPcs,
      PreparePcs, RetirePcs, ClosePcs, Enqueue, Runnable
  <2> QED BY <1>3, <2>1, <2>2, <2>3, <2>4 DEF CheckoutBehind, PoolTypes, clientVars,
    processVars, queueVars, callerVars, closeVars
<1>4. ASSUME NEW p \in Callers, CheckoutClaimed(p) PROVE TypeInv'
  <2>1. ClientTypes'
    BY <1>4, SweepType DEF CheckoutClaimed, ClientTypes, EntryStates
  <2>2. QueueTypes'
    BY <1>4, EnqueueType DEF CheckoutClaimed, QueueTypes
  <2>3. CallerInv'
    BY <1>4 DEF CheckoutClaimed, CallerInv, CallerTypes, CallerPcs, HoldingPcs, CreatorPcs,
      PreparePcs, RetirePcs, ClosePcs, Enqueue
  <2>4. creating' \in Nat /\ CreatingExact'
    BY <1>4, CreatorsSame DEF CheckoutClaimed, CallerInv, CallerTypes, Creators, CreatorPcs,
      PreparePcs, RetirePcs, ClosePcs, Enqueue, Runnable
  <2> QED BY <1>4, <2>1, <2>2, <2>3, <2>4 DEF CheckoutClaimed, PoolTypes, clientVars,
    processVars, queueVars, callerVars, closeVars
<1>5. ASSUME NEW p \in Callers, CheckoutRebalance(p) PROVE TypeInv'
  <2>1. ClientTypes'
    BY <1>5, SweepType DEF CheckoutRebalance, ClientTypes, EntryStates
  <2>2. QueueTypes'
    BY <1>5, EnqueueType DEF CheckoutRebalance, QueueTypes
  <2>3. CallerInv'
    BY <1>5 DEF CheckoutRebalance, CallerInv, CallerTypes, CallerPcs, HoldingPcs,
      CreatorPcs, PreparePcs, RetirePcs, ClosePcs, Enqueue
  <2>4. creating' \in Nat /\ CreatingExact'
    BY <1>5, CreatorsSame DEF CheckoutRebalance, CallerInv, CallerTypes, Creators,
      CreatorPcs, PreparePcs, RetirePcs, ClosePcs, Enqueue, Runnable, Served
  <2> QED BY <1>5, <2>1, <2>2, <2>3, <2>4 DEF CheckoutRebalance, PoolTypes, clientVars,
    processVars, queueVars, callerVars, closeVars
<1>6. ASSUME NEW p \in Callers, CheckoutReuse(p) PROVE TypeInv'
  <2>1. ClientTypes'
    <3>1. PICK c \in Candidates(p) :
           /\ Sweep({}, {c}) /\ uses' = [uses EXCEPT ![c] = @ + 1]
           /\ claim' = [claim EXCEPT ![c] = req[p].session]
      BY <1>6 DEF CheckoutReuse
    <3>2. c \in FitIdle /\ c \in Clients
      BY <3>1, CandidatesFit DEF FitIdle
    <3> QED BY <1>6, <3>1, <3>2, CandidatesFit, SweepType, ReqType DEF CheckoutReuse, ClientTypes
  <2>2. QueueTypes'
    BY <1>6, LeaveQueueType DEF CheckoutReuse, QueueTypes
  <2>3. CallerInv'
    BY <1>6 DEF CheckoutReuse, CallerInv, CallerTypes, CallerPcs, HoldingPcs, CreatorPcs,
      PreparePcs, RetirePcs, ClosePcs, Candidates, FitIdle
  <2>4. creating' \in Nat /\ CreatingExact'
    BY <1>6, CreatorsSame DEF CheckoutReuse, CallerInv, CallerTypes, Creators, CreatorPcs,
      PreparePcs, RetirePcs, ClosePcs, Served, Runnable
  <2>5. PoolTypes'
    BY <1>6, ReqType, <2>4 DEF CheckoutReuse, PoolTypes, ClosePhases, processVars, closeVars
  <2> QED BY <1>6, <2>1, <2>2, <2>3, <2>4, <2>5 DEF CheckoutReuse, clientVars, processVars,
    queueVars, callerVars, closeVars
<1>7. ASSUME NEW p \in Callers, CheckoutCreate(p) PROVE TypeInv'
  <2>1. ClientTypes'
    BY <1>7, SweepType DEF CheckoutCreate, ClientTypes, EntryStates
  <2>2. QueueTypes'
    BY <1>7, LeaveQueueType DEF CheckoutCreate, QueueTypes
  <2>3. CallerInv'
    BY <1>7, LimitAssumption DEF CheckoutCreate, CallerInv, CallerTypes, CallerPcs,
      HoldingPcs, CreatorPcs, PreparePcs, RetirePcs, ClosePcs, Unused
  <2>4. creating' \in Nat /\ CreatingExact'
    BY <1>7, CreatorsAdd DEF CheckoutCreate, CallerInv, CallerTypes, Creators, CreatorPcs,
      PreparePcs, RetirePcs, ClosePcs, Served, Runnable
  <2>5. PoolTypes'
    BY <1>7, ReqType, <2>4 DEF CheckoutCreate, PoolTypes, ClosePhases, processVars,
      closeVars, Unused
  <2> QED BY <1>7, <2>1, <2>2, <2>3, <2>4, <2>5 DEF CheckoutCreate, clientVars, processVars,
    queueVars, callerVars, closeVars
<1>8. ASSUME NEW p \in Callers, AbandonWait(p) PROVE TypeInv'
  <2>1. QueueTypes'
    BY <1>8, LeaveQueueType DEF AbandonWait, QueueTypes
  <2>2. CallerInv'
    BY <1>8, ReturnType DEF AbandonWait, CallerInv, CallerTypes, CallerPcs, HoldingPcs,
      CreatorPcs, PreparePcs, RetirePcs, ClosePcs
  <2>3. creating' \in Nat /\ CreatingExact'
    BY <1>8, ReturnCreators, CreatorsSame DEF AbandonWait, CallerInv, CallerTypes, Creators,
      CreatorPcs, PreparePcs, RetirePcs, ClosePcs
  <2> QED BY <1>8, <2>1, <2>2, <2>3 DEF AbandonWait, ClientTypes, PoolTypes, clientVars,
    processVars, queueVars, callerVars, closeVars
<1>9. ASSUME NEW p \in Callers, CancelCheckout(p) PROVE TypeInv'
  <2>1. CallerInv'
    BY <1>9, ReturnType DEF CancelCheckout, CallerInv, CallerTypes, CallerPcs, HoldingPcs,
      CreatorPcs, PreparePcs, RetirePcs, ClosePcs
  <2>2. creating' \in Nat /\ CreatingExact'
    BY <1>9, ReturnCreators, CreatorsSame DEF CancelCheckout, CallerInv, CallerTypes,
      Creators, CreatorPcs, PreparePcs, RetirePcs, ClosePcs
  <2> QED BY <1>9, <2>1, <2>2 DEF CancelCheckout, ClientTypes, QueueTypes, PoolTypes,
    clientVars, processVars, queueVars, callerVars, closeVars
<1>10. ASSUME NEW p \in Callers, ConnectOk(p) PROVE TypeInv'
  <2>1. lease[p] \in Clients
    BY <1>10 DEF ConnectOk, CallerInv, HoldingPcs
  <2>2. PICK s \in SessionIds :
           /\ sess' = [sess EXCEPT ![lease[p]] = s]
           /\ Prepare(p, lease[p], s, "leased", req[p].session)
    BY <1>10, ProviderAssumption DEF ConnectOk, SessionIds
  <2>3. /\ claim' \in [Clients -> SessionIds] /\ claims' \subseteq Sessions
       /\ \E to \in {"retire", "leased", "resuming", "ensuring"} :
            pc' = [pc EXCEPT ![p] = to]
    BY <2>1, <2>2, ReqType, PrepareType DEF PoolTypes, SessionIds
  <2>4. ClientTypes'
    <3>1. sess' \in [Clients -> Sessions \cup {NoSession}]
      BY <2>1, <2>2 DEF ClientTypes, SessionIds
    <3>2. uses' \in [Clients -> 0 .. MaxUses]
      BY <1>10, <2>1, LimitAssumption DEF ConnectOk, ClientTypes
    <3>3. st' \in [Clients -> EntryStates]
      BY <1>10, <2>1 DEF ConnectOk, ClientTypes, EntryStates
    <3> QED BY <1>10, <2>3, <3>1, <3>2, <3>3 DEF ConnectOk, ClientTypes, SessionIds
  <2>5. QueueTypes'
    BY <1>10, HeadWokenType DEF ConnectOk
  <2>6. CallerInv'
    BY <1>10, <2>3, StepType DEF ConnectOk, CallerPcs, HoldingPcs, CreatorPcs, PreparePcs,
      RetirePcs, ClosePcs
  <2>7. creating' \in Nat /\ CreatingExact'
    BY <1>10, <2>3, StepCreators, CreatorsDrop DEF ConnectOk, SlotReturned, Creators,
      CreatorPcs
  <2> QED BY <1>10, <2>1, <2>2, <2>3, <2>4, <2>5, <2>6, <2>7 DEF ConnectOk, PoolTypes,
    clientVars, processVars, queueVars, callerVars, closeVars
<1>11. ASSUME NEW p \in Callers, ConnectLate(p) PROVE TypeInv'
  <2>1. lease[p] \in Clients
    BY <1>11 DEF ConnectLate, CallerInv, HoldingPcs
  <2>2. ClientTypes'
    BY <1>11, <2>1, ClosingType, ReqType, ProviderAssumption, LimitAssumption DEF
      ConnectLate, ClientTypes
  <2>3. QueueTypes'
    BY <1>11, HeadWokenType DEF ConnectLate
  <2>4. CallerInv'
    BY <1>11, StepType DEF ConnectLate, CallerPcs, HoldingPcs, CreatorPcs, PreparePcs,
      RetirePcs, ClosePcs
  <2>5. creating' \in Nat /\ CreatingExact'
    <3>1. p \in Creators /\ Creators' = Creators \ {p}
      BY ZenonT(40), <1>11, StepCreators DEF ConnectLate, Creators, CreatorPcs
    <3> QED BY <1>11, <3>1, CreatorsDrop DEF ConnectLate, SlotReturned
  <2> QED BY <1>11, <2>1, <2>2, <2>3, <2>4, <2>5 DEF ConnectLate, PoolTypes, clientVars,
    processVars, queueVars, callerVars, closeVars
<1>12. ASSUME NEW p \in Callers, ConnectFail(p) PROVE TypeInv'
  <2>1. CallerInv'
    BY <1>12, LimitAssumption DEF ConnectFail, CallerInv, CallerTypes, CallerPcs,
      HoldingPcs, CreatorPcs, PreparePcs, RetirePcs, ClosePcs
  <2>2. creating' \in Nat /\ CreatingExact'
    BY <1>12, StepCreators, CreatorsSame DEF ConnectFail, Creators, CreatorPcs
  <2> QED BY <1>12, <2>1, <2>2 DEF ConnectFail, ClientTypes, QueueTypes, PoolTypes,
    clientVars, processVars, queueVars, callerVars, closeVars
<1>13. ASSUME NEW p \in Callers, CleanOk(p) PROVE TypeInv'
  <2>1. CallerInv'
    BY <1>13 DEF CleanOk, CallerInv, CallerTypes, CallerPcs, HoldingPcs, CreatorPcs,
      PreparePcs, RetirePcs, ClosePcs
  <2>2. creating' \in Nat /\ CreatingExact'
    BY <1>13, StepCreators, CreatorsSame DEF CleanOk, Creators, CreatorPcs
  <2> QED BY <1>13, <2>1, <2>2 DEF CleanOk, ClientTypes, QueueTypes, PoolTypes, clientVars,
    processVars, queueVars, callerVars, closeVars
<1>14. ASSUME NEW p \in Callers, CleanFail(p) PROVE TypeInv'
  <2>1. lease[p] \in Clients
    BY <1>14 DEF CleanFail, CallerInv, HoldingPcs
  <2>2. CallerInv'
    BY <1>14, StepType DEF CleanFail, CallerPcs, HoldingPcs, CreatorPcs, PreparePcs,
      RetirePcs, ClosePcs
  <2>3. creating' \in Nat /\ CreatingExact'
    BY <1>14, StepCreators, CreatorsSame DEF CleanFail, Creators, CreatorPcs
  <2> QED BY <1>14, <2>1, <2>2, <2>3 DEF CleanFail, ClientTypes, QueueTypes, PoolTypes,
    clientVars, processVars, queueVars, callerVars, closeVars
<1>15. ASSUME NEW p \in Callers, Backoff(p) PROVE TypeInv'
  <2>1. CallerInv'
    BY <1>15, LimitAssumption DEF Backoff, Unused, CallerInv, CallerTypes, CallerPcs,
      HoldingPcs, CreatorPcs, PreparePcs, RetirePcs, ClosePcs
  <2>2. creating' \in Nat /\ CreatingExact'
    BY <1>15, StepCreators, CreatorsSame DEF Backoff, Creators, CreatorPcs
  <2>3. live' \subseteq Clients
    BY <1>15 DEF Backoff, Unused, PoolTypes
  <2> QED BY <1>15, <2>1, <2>2, <2>3 DEF Backoff, ClientTypes, QueueTypes, PoolTypes,
    clientVars, processVars, queueVars, callerVars, closeVars
<1>16. ASSUME NEW p \in Callers, CreateFailed(p) PROVE TypeInv'
  <2>1. QueueTypes'
    BY <1>16, HeadWokenType DEF CreateFailed
  <2>2. CallerInv'
    BY <1>16, ReturnType DEF CreateFailed
  <2>3. creating' \in Nat /\ CreatingExact'
    BY <1>16, ReturnCreators, CreatorsDrop DEF CreateFailed, SlotReturned, Creators,
      CreatorPcs
  <2> QED BY <1>16, <2>1, <2>2, <2>3 DEF CreateFailed, ClientTypes, PoolTypes, clientVars,
    processVars, queueVars, callerVars, closeVars
<1>17. ASSUME NEW p \in Callers, PingOk(p) PROVE TypeInv'
  <2>1. lease[p] \in Clients
    BY <1>17 DEF PingOk, CallerInv, HoldingPcs, PreparePcs
  <2>2. /\ claim' \in [Clients -> SessionIds] /\ claims' \subseteq Sessions
       /\ \E to \in {"retire", "leased", "resuming", "ensuring"} : pc' = [pc EXCEPT ![p] = to]
    BY <1>17, <2>1, PrepareType DEF PingOk, ClientTypes, PoolTypes, SessionIds
  <2>3. ClientTypes'
    BY <1>17, <2>2 DEF PingOk, ClientTypes, SessionIds
  <2>4. CallerInv'
    BY <1>17, <2>2, StepType DEF PingOk, CallerPcs, HoldingPcs, CreatorPcs, PreparePcs,
      RetirePcs, ClosePcs
  <2>5. creating' \in Nat /\ CreatingExact'
    BY <1>17, <2>2, StepCreators, CreatorsSame DEF PingOk, Creators, CreatorPcs
  <2> QED BY <1>17, <2>1, <2>2, <2>3, <2>4, <2>5 DEF PingOk, QueueTypes, PoolTypes,
    clientVars, processVars, queueVars, callerVars, closeVars
<1>18. ASSUME NEW p \in Callers, ResumeOk(p) PROVE TypeInv'
  <2>1. lease[p] \in Clients
    BY <1>18 DEF ResumeOk, CallerInv, HoldingPcs, PreparePcs
  <2>2. /\ claim' \in [Clients -> SessionIds] /\ claims' \subseteq Sessions
       /\ \E to \in {"retire", "leased"} : pc' = [pc EXCEPT ![p] = to]
    BY <1>18, <2>1, ReqType, FinalizeType DEF ResumeOk, ClientTypes, PoolTypes, SessionIds
  <2>3. ClientTypes'
    BY <1>18, <2>1, <2>2, ReqType DEF ResumeOk, ClientTypes, SessionIds
  <2>4. CallerInv'
    BY <1>18, <2>2, StepType DEF ResumeOk, CallerPcs, HoldingPcs, CreatorPcs, PreparePcs,
      RetirePcs, ClosePcs
  <2>5. creating' \in Nat /\ CreatingExact'
    BY <1>18, <2>2, StepCreators, CreatorsSame DEF ResumeOk, Creators, CreatorPcs
  <2> QED BY <1>18, <2>1, <2>2, <2>3, <2>4, <2>5 DEF ResumeOk, QueueTypes, PoolTypes,
    clientVars, processVars, queueVars, callerVars, closeVars
<1>19. ASSUME NEW p \in Callers, EnsureOk(p) PROVE TypeInv'
  <2>1. lease[p] \in Clients
    BY <1>19 DEF EnsureOk, CallerInv, HoldingPcs, PreparePcs
  <2>2. PICK s \in SessionIds :
           /\ sess' = [sess EXCEPT ![lease[p]] = s]
           /\ Finalize(p, lease[p], s, st[lease[p]], claim[lease[p]])
    BY <1>19, ProviderAssumption DEF EnsureOk, SessionIds
  <2>3. /\ claim' \in [Clients -> SessionIds] /\ claims' \subseteq Sessions
       /\ \E to \in {"retire", "leased"} : pc' = [pc EXCEPT ![p] = to]
    BY <2>1, <2>2, FinalizeType DEF ClientTypes, PoolTypes, SessionIds
  <2>4. ClientTypes'
    BY <1>19, <2>1, <2>2, <2>3 DEF EnsureOk, ClientTypes, SessionIds
  <2>5. CallerInv'
    BY <1>19, <2>3, StepType DEF EnsureOk, CallerPcs, HoldingPcs, CreatorPcs, PreparePcs,
      RetirePcs, ClosePcs
  <2>6. creating' \in Nat /\ CreatingExact'
    BY <1>19, <2>3, StepCreators, CreatorsSame DEF EnsureOk, Creators, CreatorPcs
  <2> QED BY <1>19, <2>1, <2>2, <2>3, <2>4, <2>5, <2>6 DEF EnsureOk, QueueTypes, PoolTypes,
    clientVars, processVars, queueVars, callerVars, closeVars
<1>20. ASSUME NEW p \in Callers, PingFail(p) PROVE TypeInv'
  <2>1. CallerInv'
    BY <1>20, StepType DEF PingFail, CallerPcs, HoldingPcs, CreatorPcs, PreparePcs,
      RetirePcs, ClosePcs
  <2>2. creating' \in Nat /\ CreatingExact'
    BY <1>20, StepCreators, CreatorsSame DEF PingFail, Creators, CreatorPcs, PreparePcs
  <2> QED BY <1>20, <2>1, <2>2 DEF PingFail, ClientTypes, QueueTypes, PoolTypes, clientVars,
    processVars, queueVars, callerVars, closeVars
<1>21. ASSUME NEW p \in Callers, PrepareFail(p) PROVE TypeInv'
  <2>1. CallerInv'
    BY <1>21, StepType DEF PrepareFail, CallerPcs, HoldingPcs, CreatorPcs, PreparePcs,
      RetirePcs, ClosePcs
  <2>2. creating' \in Nat /\ CreatingExact'
    BY <1>21, StepCreators, CreatorsSame DEF PrepareFail, Creators, CreatorPcs, PreparePcs
  <2> QED BY <1>21, <2>1, <2>2 DEF PrepareFail, ClientTypes, QueueTypes, PoolTypes,
    clientVars, processVars, queueVars, callerVars, closeVars
<1>22. ASSUME NEW p \in Callers, EndLease(p) PROVE TypeInv'
  <2>1. CallerInv'
    BY <1>22, StepType DEF EndLease, CallerPcs, HoldingPcs, CreatorPcs, PreparePcs,
      RetirePcs, ClosePcs
  <2>2. creating' \in Nat /\ CreatingExact'
    BY <1>22, StepCreators, CreatorsSame DEF EndLease, Creators, CreatorPcs, PreparePcs
  <2> QED BY <1>22, <2>1, <2>2 DEF EndLease, ClientTypes, QueueTypes, PoolTypes, clientVars,
    processVars, queueVars, callerVars, closeVars
<1>23. ASSUME NEW p \in Callers, SwitchSession(p) PROVE TypeInv'
  <2>1. ClientTypes'
    BY <1>23 DEF SwitchSession, ClientTypes
  <2> QED BY <1>23, <2>1 DEF SwitchSession, QueueTypes, PoolTypes, CallerInv, CallerTypes,
    CreatingExact, Creators, clientVars, processVars, queueVars, callerVars, closeVars
<1>24. ASSUME NEW c \in Clients, BecomeUnfit(c) PROVE TypeInv'
  <2>1. ClientTypes'
    BY <1>24 DEF BecomeUnfit, ClientTypes
  <2> QED BY <1>24, <2>1 DEF BecomeUnfit, QueueTypes, PoolTypes, CallerInv, CallerTypes,
    CreatingExact, Creators, clientVars, processVars, queueVars, callerVars, closeVars
<1>25. ASSUME NEW p \in Callers, ReleaseGone(p) PROVE TypeInv'
  <2>1. CallerInv'
    BY <1>25, ReturnType DEF ReleaseGone
  <2>2. creating' \in Nat /\ CreatingExact'
    BY <1>25, ReturnCreators, CreatorsSame DEF ReleaseGone, Creators, CreatorPcs
  <2> QED BY <1>25, <2>1, <2>2 DEF ReleaseGone, ClientTypes, QueueTypes, PoolTypes,
    clientVars, processVars, queueVars, callerVars, closeVars
<1>26. ASSUME NEW p \in Callers, ReleaseClose(p) PROVE TypeInv'
  <2>1. ClientTypes'
    BY <1>26, ClosingType DEF ReleaseClose, ClientTypes
  <2>2. CallerInv'
    BY <1>26, StepType DEF ReleaseClose, CallerPcs, HoldingPcs, CreatorPcs, PreparePcs,
      RetirePcs, ClosePcs
  <2>3. creating' \in Nat /\ CreatingExact'
    BY <1>26, StepCreators, CreatorsSame DEF ReleaseClose, Creators, CreatorPcs
  <2> QED BY <1>26, <2>1, <2>2, <2>3 DEF ReleaseClose, QueueTypes, PoolTypes, clientVars,
    processVars, queueVars, callerVars, closeVars
<1>27. ASSUME NEW p \in Callers, ReleaseIdle(p) PROVE TypeInv'
  <2>1. st' \in [Clients -> EntryStates] /\ task' \in [Clients -> {"none", "running", "failed"}]
    BY <1>27 DEF ReleaseIdle, ClientTypes, EntryStates
  <2>2. claim' \in [Clients -> Sessions \cup {NoSession}]
    BY <1>27 DEF ReleaseIdle, ClientTypes
  <2>3. ClientTypes'
    BY <1>27, <2>1, <2>2 DEF ReleaseIdle, ClientTypes
  <2>4. QueueTypes'
    BY <1>27, HeadWokenType DEF ReleaseIdle
  <2>5. CallerInv'
    BY <1>27, ReturnType DEF ReleaseIdle
  <2>6. creating' \in Nat /\ CreatingExact'
    BY <1>27, ReturnCreators, CreatorsSame DEF ReleaseIdle, Creators, CreatorPcs
  <2> QED BY <1>27, <2>1, <2>2, <2>3, <2>4, <2>5, <2>6 DEF ReleaseIdle, PoolTypes,
    clientVars, processVars, queueVars, callerVars, closeVars
<1>28. ASSUME NEW p \in Callers, Retire(p) PROVE TypeInv'
  <2>1. PICK to \in ClosePcs : pc' = [pc EXCEPT ![p] = to]
    BY <1>28 DEF Retire, ClosePcs
  <2>2. ClientTypes'
    BY <1>28, ClosingType DEF Retire, ClientTypes
  <2>3. CallerInv'
    BY <1>28, <2>1, StepType DEF Retire, CallerPcs, HoldingPcs, CreatorPcs, PreparePcs,
      RetirePcs, ClosePcs
  <2>4. creating' \in Nat /\ CreatingExact'
    BY <1>28, <2>1, StepCreators, CreatorsSame DEF Retire, Creators, CreatorPcs, RetirePcs,
      ClosePcs
  <2> QED BY <1>28, <2>1, <2>2, <2>3, <2>4 DEF Retire, QueueTypes, PoolTypes, clientVars,
    processVars, queueVars, callerVars, closeVars
<1>29. ASSUME NEW p \in Callers, RetireGone(p) PROVE TypeInv'
  <2>1. CallerInv'
    BY <1>29, ReturnType DEF RetireGone, CallerInv, CallerTypes, CallerPcs, HoldingPcs,
      CreatorPcs, PreparePcs, RetirePcs, ClosePcs
  <2>2. creating' \in Nat /\ CreatingExact'
    BY <1>29, ReturnCreators, CreatorsSame DEF RetireGone, CallerInv, CallerTypes, Creators,
      CreatorPcs, RetirePcs
  <2> QED BY <1>29, <2>1, <2>2 DEF RetireGone, ClientTypes, QueueTypes, PoolTypes,
    clientVars, processVars, queueVars, callerVars, closeVars
<1>30. ASSUME NEW c \in Clients, CloseOk(c) PROVE TypeInv'
  <2>1. ClientTypes'
    BY <1>30, LimitAssumption DEF CloseOk, ClientTypes, EntryStates
  <2>2. QueueTypes'
    BY <1>30, HeadWokenType DEF CloseOk
  <2>3. CallerInv'
    BY <1>30, LimitAssumption DEF CloseOk, Closers, Returning, CallerInv, CallerTypes,
      CallerPcs, HoldingPcs, CreatorPcs, PreparePcs, RetirePcs, ClosePcs
  <2>4. creating' \in Nat /\ CreatingExact'
    BY <1>30, CreatorsSame DEF CloseOk, Closers, Returning, CallerInv, CallerTypes,
      Creators, CreatorPcs, ClosePcs
  <2> QED BY <1>30, <2>1, <2>2, <2>3, <2>4 DEF CloseOk, PoolTypes, clientVars, processVars,
    queueVars, callerVars, closeVars
<1>31. ASSUME NEW c \in Clients, CloseFail(c) PROVE TypeInv'
  <2>1. ClientTypes'
    BY <1>31, LimitAssumption DEF CloseFail, ClientTypes, EntryStates
  <2>2. CallerInv'
    BY <1>31, LimitAssumption DEF CloseFail, Closers, Returning, CallerInv, CallerTypes,
      CallerPcs, HoldingPcs, CreatorPcs, PreparePcs, RetirePcs, ClosePcs
  <2>3. creating' \in Nat /\ CreatingExact'
    BY <1>31, CreatorsSame DEF CloseFail, Closers, Returning, CallerInv, CallerTypes,
      Creators, CreatorPcs, ClosePcs
  <2> QED BY <1>31, <2>1, <2>2, <2>3 DEF CloseFail, PoolTypes, QueueTypes, clientVars,
    processVars, queueVars, callerVars, closeVars
<1>32. ASSUME NEW p \in Callers, CancelLate(p) PROVE TypeInv'
  <2>1. ClientTypes'
    BY <1>32 DEF CancelLate, ClientTypes
  <2>2. CallerInv'
    BY <1>32, ReturnType DEF CancelLate
  <2>3. creating' \in Nat /\ CreatingExact'
    BY <1>32, ReturnCreators, CreatorsSame DEF CancelLate, Creators, CreatorPcs
  <2> QED BY <1>32, <2>1, <2>2, <2>3 DEF CancelLate, QueueTypes, PoolTypes, clientVars,
    processVars, queueVars, callerVars, closeVars
<1>33. ASSUME KeepaliveStart PROVE TypeInv'
  <2>1. ClientTypes'
    BY <1>33 DEF KeepaliveStart, ClientTypes, EntryStates
  <2> QED BY <1>33, <2>1 DEF KeepaliveStart, QueueTypes, PoolTypes, CallerInv, CallerTypes,
    CreatingExact, Creators, clientVars, processVars, queueVars, callerVars, closeVars
<1>34. ASSUME KeepaliveFinish PROVE TypeInv'
  <2>1. ClientTypes'
    BY <1>34 DEF KeepaliveFinish, ClientTypes, EntryStates
  <2>2. QueueTypes'
    BY <1>34, HeadWokenType DEF KeepaliveFinish
  <2> QED BY <1>34, <2>1, <2>2 DEF KeepaliveFinish, PoolTypes, CallerInv, CallerTypes,
    CreatingExact, Creators, clientVars, processVars, queueVars, callerVars, closeVars
<1>35. ASSUME CloseAll PROVE TypeInv'
  <2>1. ClientTypes'
    BY <1>35 DEF CloseAll, ClientTypes, EntryStates
  <2>2. QueueTypes'
    BY <1>35 DEF CloseAll, QueueTypes, Range
  <2>3. caWait' \subseteq Clients
    BY <1>35 DEF CloseAll, Tracked
  <2> QED BY <1>35, <2>1, <2>2, <2>3 DEF CloseAll, PoolTypes, ClosePhases, CallerInv,
    CallerTypes, CreatingExact, Creators, clientVars, processVars, queueVars, callerVars,
    closeVars
<1>36. ASSUME CloseAllStart PROVE TypeInv'
  <2>1. ClientTypes'
    BY <1>36, ClosingType DEF CloseAllStart, ClientTypes
  <2> QED BY <1>36, <2>1 DEF CloseAllStart, QueueTypes, PoolTypes, ClosePhases, CallerInv,
    CallerTypes, CreatingExact, Creators, clientVars, processVars, queueVars, callerVars,
    closeVars
<1>37. ASSUME CloseAllGathered PROVE TypeInv'
  <2> QED BY <1>37 DEF CloseAllGathered, ClientTypes, QueueTypes, PoolTypes, ClosePhases,
    CallerInv, CallerTypes, CreatingExact, Creators, clientVars, processVars, queueVars,
    callerVars, closeVars
<1>38. ASSUME CloseAllRetry PROVE TypeInv'
  <2>1. ClientTypes'
    BY <1>38, ClosingType DEF CloseAllRetry, ClientTypes
  <2>2. caWait' \subseteq Clients
    BY <1>38 DEF CloseAllRetry, Tracked
  <2> QED BY <1>38, <2>1, <2>2 DEF CloseAllRetry, QueueTypes, PoolTypes, ClosePhases,
    CallerInv, CallerTypes, CreatingExact, Creators, clientVars, processVars, queueVars,
    callerVars, closeVars
<1>39. ASSUME CloseAllReap PROVE TypeInv'
  <2>1. ClientTypes'
    BY <1>39 DEF CloseAllReap, ClientTypes
  <2> QED BY <1>39, <2>1 DEF CloseAllReap, QueueTypes, PoolTypes, ClosePhases, CallerInv,
    CallerTypes, CreatingExact, Creators, clientVars, processVars, queueVars, callerVars,
    closeVars
<1>40. ASSUME CloseAllFinish PROVE TypeInv'
  <2> QED BY <1>40 DEF CloseAllFinish, ClientTypes, QueueTypes, PoolTypes, ClosePhases,
    CallerInv, CallerTypes, CreatingExact, Creators, clientVars, processVars, queueVars,
    callerVars, closeVars
<1>41. CASE UNCHANGED vars
  BY <1>41 DEF vars, ClientTypes, PoolTypes, QueueTypes, CallerInv, CallerTypes,
    CreatingExact, Creators, clientVars, processVars, queueVars, callerVars, closeVars
<1> QED BY <1>1, <1>2, <1>3, <1>4, <1>5, <1>6, <1>7, <1>8, <1>9, <1>10, <1>11, <1>12, <1>13,
  <1>14, <1>15, <1>16, <1>17, <1>18, <1>19, <1>20, <1>21, <1>22, <1>23, <1>24, <1>25, <1>26,
  <1>27, <1>28, <1>29, <1>30, <1>31, <1>32, <1>33, <1>34, <1>35, <1>36, <1>37, <1>38, <1>39,
  <1>40, <1>41 DEF Next, Checkout, Create, Lease, Release, CloseClient, KeepaliveStep,
  CloseAllStep

\* The type invariant: among it that the creation counter never goes below
\* zero, that no client is used more often than pool_max_uses, and that no
\* startup makes more than its budget of attempts.
THEOREM TypeCorrect == Spec => []TypeOK
<1>1. TypeInv => TypeOK
  BY DEF TypeInv, TypeOK, CallerInv
<1> QED BY <1>1, TypeInit, TypeStep, PTL DEF Spec

\* _creating counts exactly the callers inside _create_client.
THEOREM CreatingCorrect == Spec => []CreatingExact
<1>1. TypeInv => CreatingExact
  BY DEF TypeInv
<1> QED BY <1>1, TypeInit, TypeStep, PTL DEF Spec

-----------------------------------------------------------------------------
(* Capacity *)

Occupied == Tracked \cup unreaped
Starters == {p \in Callers : pc[p] \in {"connecting", "cleaning"}}
CreatorClients == {lease[p] : p \in Creators}

\* Reserved is not bounded by the limit: a creator whose startup could not be
\* cleaned up is counted twice, by its slot and by the transport it left in
\* _unreaped_clients, until the slot is given back.  What never exceeds the
\* limit is the slots with the transports that belong to no slot.
CapacityInv ==
    /\ TypeInv
    /\ live \subseteq Occupied \cup {lease[p] : p \in Starters}
    /\ \A p \in Starters : /\ lease[p] \notin Occupied
                           /\ \A q \in Callers \ {p} : lease[q] # lease[p]
    /\ \A c \in Clients : task[c] = "running" => c \in Occupied
    /\ \A p \in Callers : pc[p] = "backoff" => lease[p] = NoClient
    /\ Cardinality(Occupied \ CreatorClients) + Cardinality(Creators) <= MaxConnections

\* A step that neither starts nor ends a creation and that neither occupies
\* nor frees capacity.
Quiet ==
    /\ Occupied' = Occupied /\ live' = live
    /\ Starters' = Starters /\ Creators' = Creators
    /\ \A p \in Creators : lease'[p] = lease[p]
    /\ \A p \in Callers : pc'[p] = "backoff" => pc[p] = "backoff"
    /\ \A p \in Callers : \/ lease'[p] \in {lease[p], NoClient}
                          \/ lease'[p] \in Occupied
    /\ \A c \in Clients : task'[c] = "running" => c \in Occupied

\* A quiet step keeps the capacity.
LEMMA QuietCapacity == CapacityInv /\ TypeInv' /\ Quiet => CapacityInv'
<1> SUFFICES ASSUME CapacityInv, TypeInv', Quiet PROVE CapacityInv'
  OBVIOUS
<1> USE DEF CapacityInv, Quiet
<1>1. \A p \in Starters : p \in Creators /\ lease[p] \in Clients
  BY DEF Starters, Creators, CreatorPcs, TypeInv, CallerInv, HoldingPcs
<1>2. CreatorClients' = CreatorClients
  BY DEF CreatorClients
<1>3. ASSUME NEW p \in Starters'
      PROVE /\ lease'[p] \notin Occupied'
            /\ \A q \in Callers \ {p} : lease'[q] # lease'[p]
  BY <1>1, <1>3, ClientAssumption
<1>4. live' \subseteq Occupied' \cup {lease'[p] : p \in Starters'}
  BY <1>1
<1>5. ASSUME NEW p \in Callers, pc'[p] = "backoff"
      PROVE lease'[p] = NoClient
  BY <1>5 DEF Creators, CreatorPcs
<1> QED BY <1>2, <1>3, <1>4, <1>5

\* Only creation and a successful close are not quiet.
LEMMA QuietSteps ==
    ASSUME CapacityInv, Next
    PROVE \/ Quiet
          \/ \E p \in Callers : CheckoutCreate(p) \/ (Create(p) /\ ~ConnectFail(p))
          \/ \E c \in Clients : CloseOk(c)
<1> USE DEF CapacityInv, TypeInv
<1>1. ASSUME NEW p \in Callers, Acquire(p) PROVE Quiet
  BY <1>1 DEF Acquire, Quiet, Occupied, Tracked, Starters, Creators, CreatorPcs, CallerInv,
    CallerTypes, ClientTypes, PoolTypes, clientVars, processVars, queueVars, callerVars,
    closeVars
<1>2. ASSUME NEW p \in Callers, CheckoutClosed(p) PROVE Quiet
  BY <1>2 DEF CheckoutClosed, Runnable, Return, Quiet, Occupied, Tracked, Starters,
    Creators, CreatorPcs, CallerInv, CallerTypes, ClientTypes, PoolTypes, clientVars,
    processVars, queueVars, callerVars, closeVars
<1>3. ASSUME NEW p \in Callers, CheckoutBehind(p) PROVE Quiet
  BY <1>3 DEF CheckoutBehind, Runnable, Enqueue, Sweep, Expired, Stalled, Quiet, Occupied,
    Tracked, Starters, Creators, CreatorPcs, CallerInv, CallerTypes, ClientTypes, PoolTypes,
    clientVars, processVars, queueVars, callerVars, closeVars
<1>4. ASSUME NEW p \in Callers, CheckoutClaimed(p) PROVE Quiet
  BY <1>4 DEF CheckoutClaimed, Runnable, Enqueue, Sweep, Expired, Stalled, Quiet, Occupied,
    Tracked, Starters, Creators, CreatorPcs, CallerInv, CallerTypes, ClientTypes, PoolTypes,
    clientVars, processVars, queueVars, callerVars, closeVars
<1>5. ASSUME NEW p \in Callers, CheckoutRebalance(p) PROVE Quiet
  BY <1>5 DEF CheckoutRebalance, Served, Runnable, Enqueue, Sweep, Expired, Stalled,
    FitIdle, Quiet, Occupied, Tracked, Starters, Creators, CreatorPcs, CallerInv,
    CallerTypes, ClientTypes, PoolTypes, clientVars, processVars, queueVars, callerVars,
    closeVars
<1>6. ASSUME NEW p \in Callers, CheckoutReuse(p) PROVE Quiet
  BY <1>6 DEF CheckoutReuse, Served, Runnable, Sweep, Expired, Stalled, FitIdle, Candidates,
    Quiet, Occupied, Tracked, Starters, Creators, CreatorPcs, CallerInv, CallerTypes,
    ClientTypes, PoolTypes, clientVars, processVars, queueVars, callerVars, closeVars
<1>7. ASSUME NEW p \in Callers, AbandonWait(p) PROVE Quiet
  BY <1>7 DEF AbandonWait, Return, Quiet, Occupied, Tracked, Starters, Creators, CreatorPcs,
    CallerInv, CallerTypes, ClientTypes, PoolTypes, clientVars, processVars, queueVars,
    callerVars, closeVars
<1>8. ASSUME NEW p \in Callers, CancelCheckout(p) PROVE Quiet
  BY <1>8 DEF CancelCheckout, Return, Quiet, Occupied, Tracked, Starters, Creators,
    CreatorPcs, CallerInv, CallerTypes, ClientTypes, PoolTypes, clientVars, processVars,
    queueVars, callerVars, closeVars
<1>9. ASSUME NEW p \in Callers, ConnectFail(p) PROVE Quiet
  BY <1>9 DEF ConnectFail, Quiet, Occupied, Tracked, Starters, Creators, CreatorPcs,
    CallerInv, CallerTypes, ClientTypes, PoolTypes, clientVars, processVars, queueVars,
    callerVars, closeVars
<1>10. ASSUME NEW p \in Callers, PingOk(p) PROVE Quiet
  BY <1>10 DEF PingOk, Prepare, Finalize, Quiet, Occupied, Tracked, Starters, Creators,
    CreatorPcs, CallerInv, CallerTypes, ClientTypes, PoolTypes, clientVars, processVars,
    queueVars, callerVars, closeVars
<1>11. ASSUME NEW p \in Callers, ResumeOk(p) PROVE Quiet
  BY <1>11 DEF ResumeOk, Finalize, Quiet, Occupied, Tracked, Starters, Creators, CreatorPcs,
    CallerInv, CallerTypes, ClientTypes, PoolTypes, clientVars, processVars, queueVars,
    callerVars, closeVars
<1>12. ASSUME NEW p \in Callers, EnsureOk(p) PROVE Quiet
  BY <1>12 DEF EnsureOk, Finalize, Quiet, Occupied, Tracked, Starters, Creators, CreatorPcs,
    CallerInv, CallerTypes, ClientTypes, PoolTypes, clientVars, processVars, queueVars,
    callerVars, closeVars
<1>13. ASSUME NEW p \in Callers, PingFail(p) PROVE Quiet
  BY <1>13 DEF PingFail, Quiet, Occupied, Tracked, Starters, Creators, CreatorPcs,
    CallerInv, CallerTypes, ClientTypes, PoolTypes, clientVars, processVars, queueVars,
    callerVars, closeVars
<1>14. ASSUME NEW p \in Callers, PrepareFail(p) PROVE Quiet
  BY <1>14 DEF PrepareFail, PreparePcs, Quiet, Occupied, Tracked, Starters, Creators,
    CreatorPcs, CallerInv, CallerTypes, ClientTypes, PoolTypes, clientVars, processVars,
    queueVars, callerVars, closeVars
<1>15. ASSUME NEW p \in Callers, EndLease(p) PROVE Quiet
  BY <1>15 DEF EndLease, Quiet, Occupied, Tracked, Starters, Creators, CreatorPcs,
    CallerInv, CallerTypes, ClientTypes, PoolTypes, clientVars, processVars, queueVars,
    callerVars, closeVars
<1>16. ASSUME NEW p \in Callers, SwitchSession(p) PROVE Quiet
  BY <1>16 DEF SwitchSession, Quiet, Occupied, Tracked, Starters, Creators, CreatorPcs,
    CallerInv, CallerTypes, ClientTypes, PoolTypes, clientVars, processVars, queueVars,
    callerVars, closeVars
<1>17. ASSUME NEW c \in Clients, BecomeUnfit(c) PROVE Quiet
  BY <1>17 DEF BecomeUnfit, Quiet, Occupied, Tracked, Starters, Creators, CreatorPcs,
    CallerInv, CallerTypes, ClientTypes, PoolTypes, clientVars, processVars, queueVars,
    callerVars, closeVars
<1>18. ASSUME NEW p \in Callers, ReleaseGone(p) PROVE Quiet
  BY <1>18 DEF ReleaseGone, Return, Quiet, Occupied, Tracked, Starters, Creators,
    CreatorPcs, CallerInv, CallerTypes, ClientTypes, PoolTypes, clientVars, processVars,
    queueVars, callerVars, closeVars
<1>19. ASSUME NEW p \in Callers, ReleaseClose(p) PROVE Quiet
  BY <1>19 DEF ReleaseClose, Closing, Quiet, Occupied, Tracked, Starters, Creators,
    CreatorPcs, CallerInv, CallerTypes, ClientTypes, PoolTypes, clientVars, processVars,
    queueVars, callerVars, closeVars
<1>20. ASSUME NEW p \in Callers, ReleaseIdle(p) PROVE Quiet
  BY <1>20 DEF ReleaseIdle, Return, Quiet, Occupied, Tracked, Starters, Creators,
    CreatorPcs, CallerInv, CallerTypes, ClientTypes, PoolTypes, clientVars, processVars,
    queueVars, callerVars, closeVars
<1>21. ASSUME NEW p \in Callers, Retire(p) PROVE Quiet
  BY <1>21 DEF Retire, Closing, RetirePcs, Quiet, Occupied, Tracked, Starters, Creators,
    CreatorPcs, CallerInv, CallerTypes, ClientTypes, PoolTypes, clientVars, processVars,
    queueVars, callerVars, closeVars
<1>22. ASSUME NEW p \in Callers, RetireGone(p) PROVE Quiet
  BY <1>22 DEF RetireGone, Return, RetirePcs, Quiet, Occupied, Tracked, Starters, Creators,
    CreatorPcs, CallerInv, CallerTypes, ClientTypes, PoolTypes, clientVars, processVars,
    queueVars, callerVars, closeVars
<1>23. ASSUME NEW c \in Clients, CloseFail(c) PROVE Quiet
  BY <1>23 DEF CloseFail, Closers, Returning, ClosePcs, Quiet, Occupied, Tracked, Starters,
    Creators, CreatorPcs, CallerInv, CallerTypes, ClientTypes, PoolTypes, clientVars,
    processVars, queueVars, callerVars, closeVars
<1>24. ASSUME NEW p \in Callers, CancelLate(p) PROVE Quiet
  BY <1>24 DEF CancelLate, Return, Quiet, Occupied, Tracked, Starters, Creators, CreatorPcs,
    CallerInv, CallerTypes, ClientTypes, PoolTypes, clientVars, processVars, queueVars,
    callerVars, closeVars
<1>25. ASSUME KeepaliveStart PROVE Quiet
  BY <1>25 DEF KeepaliveStart, Expired, FitIdle, Quiet, Occupied, Tracked, Starters,
    Creators, CreatorPcs, CallerInv, CallerTypes, ClientTypes, PoolTypes, clientVars,
    processVars, queueVars, callerVars, closeVars
<1>26. ASSUME KeepaliveFinish PROVE Quiet
  BY <1>26 DEF KeepaliveFinish, Quiet, Occupied, Tracked, Starters, Creators, CreatorPcs,
    CallerInv, CallerTypes, ClientTypes, PoolTypes, clientVars, processVars, queueVars,
    callerVars, closeVars
<1>27. ASSUME CloseAll PROVE Quiet
  BY <1>27 DEF CloseAll, Quiet, Occupied, Tracked, Starters, Creators, CreatorPcs,
    CallerInv, CallerTypes, ClientTypes, PoolTypes, clientVars, processVars, queueVars,
    callerVars, closeVars
<1>28. ASSUME CloseAllStart PROVE Quiet
  BY <1>28 DEF CloseAllStart, Closing, Quiet, Occupied, Tracked, Starters, Creators,
    CreatorPcs, CallerInv, CallerTypes, ClientTypes, PoolTypes, clientVars, processVars,
    queueVars, callerVars, closeVars
<1>29. ASSUME CloseAllGathered PROVE Quiet
  BY <1>29 DEF CloseAllGathered, Quiet, Occupied, Tracked, Starters, Creators, CreatorPcs,
    CallerInv, CallerTypes, ClientTypes, PoolTypes, clientVars, processVars, queueVars,
    callerVars, closeVars
<1>30. ASSUME CloseAllRetry PROVE Quiet
  BY <1>30 DEF CloseAllRetry, Closing, Quiet, Occupied, Tracked, Starters, Creators,
    CreatorPcs, CallerInv, CallerTypes, ClientTypes, PoolTypes, clientVars, processVars,
    queueVars, callerVars, closeVars
<1>31. ASSUME CloseAllReap PROVE Quiet
  BY <1>31 DEF CloseAllReap, Quiet, Occupied, Tracked, Starters, Creators, CreatorPcs,
    CallerInv, CallerTypes, ClientTypes, PoolTypes, clientVars, processVars, queueVars,
    callerVars, closeVars
<1>32. ASSUME CloseAllFinish PROVE Quiet
  BY <1>32 DEF CloseAllFinish, Quiet, Occupied, Tracked, Starters, Creators, CreatorPcs,
    CallerInv, CallerTypes, ClientTypes, PoolTypes, clientVars, processVars, queueVars,
    callerVars, closeVars
<1> QED BY <1>1, <1>2, <1>3, <1>4, <1>5, <1>6, <1>7, <1>8, <1>9, <1>10, <1>11, <1>12, <1>13,
  <1>14, <1>15, <1>16, <1>17, <1>18, <1>19, <1>20, <1>21, <1>22, <1>23, <1>24, <1>25, <1>26,
  <1>27, <1>28, <1>29, <1>30, <1>31, <1>32 DEF Next, Checkout, Create, Lease, Release,
  CloseClient, KeepaliveStep, CloseAllStep

\* A subset has no more elements.
LEMMA Fewer ==
    ASSUME NEW T, IsFiniteSet(T), NEW S \in SUBSET T
    PROVE Cardinality(S) \in Nat /\ Cardinality(T) \in Nat /\ Cardinality(S) <= Cardinality(T)
BY FS_Subset, FS_CardinalityType

\* One more element adds one at most.
LEMMA AtMostOneMore ==
    ASSUME NEW T, IsFiniteSet(T), NEW x, NEW S \in SUBSET (T \cup {x})
    PROVE Cardinality(S) \in Nat /\ Cardinality(T) \in Nat /\ Cardinality(S) <= Cardinality(T) + 1
<1>1. Cardinality(T) \in Nat
  BY FS_CardinalityType
<1>2. /\ IsFiniteSet(T \cup {x})
      /\ Cardinality(T \cup {x}) = IF x \in T THEN Cardinality(T) ELSE Cardinality(T) + 1
  BY FS_AddElement
<1>3. Cardinality(S) \in Nat /\ Cardinality(S) <= Cardinality(T \cup {x})
  BY <1>2, Fewer
<1> QED BY <1>1, <1>2, <1>3

\* What occupies capacity can be counted.
LEMMA OccupiedFinite ==
    ASSUME TypeInv
    PROVE IsFiniteSet(Occupied) /\ IsFiniteSet(Occupied \ CreatorClients)
<1>1. Occupied \in SUBSET Clients /\ Occupied \ CreatorClients \in SUBSET Clients
  BY DEF TypeInv, PoolTypes, Occupied, Tracked
<1> QED BY <1>1, FiniteAssumption, FS_Subset

\* Who starts a client is a creator and has it.
LEMMA StartersHold ==
    ASSUME TypeInv, NEW p \in Starters
    PROVE p \in Creators /\ p \in Callers /\ lease[p] \in Clients
BY DEF TypeInv, Starters, Creators, CreatorPcs, CallerInv, HoldingPcs

\* A new creator fits: it was let in below pool_max_connections.
LEMMA CheckoutCreateCapacity ==
    ASSUME CapacityInv, TypeInv', NEW p \in Callers, CheckoutCreate(p)
    PROVE CapacityInv'
<1> USE DEF CapacityInv
<1>1. PICK c \in Unused : /\ lease' = [lease EXCEPT ![p] = c]
                         /\ live' = live \cup {c}
  BY DEF CheckoutCreate
<1>2. c \in Clients /\ c \notin Occupied /\ \A q \in Callers : lease[q] # c
  BY DEF Unused, Occupied
<1>3. Occupied' = Occupied
  BY DEF CheckoutCreate, Sweep, Expired, Tracked, Occupied
<1>4. /\ pc[p] \in {"checkout", "waiting"}
      /\ pc' = [pc EXCEPT ![p] = "connecting"] /\ pc \in [Callers -> CallerPcs]
      /\ lease \in [Callers -> Clients \cup {NoClient}]
  BY DEF CheckoutCreate, Served, Runnable, TypeInv, CallerInv, CallerTypes
<1>5. Starters' = Starters \cup {p}
  BY <1>4 DEF Starters
<1>6. live' \subseteq Occupied' \cup {lease'[q] : q \in Starters'}
  BY <1>1, <1>3, <1>4, <1>5 DEF Starters
<1>7. ASSUME NEW q \in Starters'
      PROVE /\ lease'[q] \notin Occupied'
            /\ \A r \in Callers \ {q} : lease'[r] # lease'[q]
  BY <1>1, <1>2, <1>3, <1>4, <1>5, <1>7, StartersHold
<1>8. \A d \in Clients : task'[d] = "running" => d \in Occupied'
  BY <1>3 DEF CheckoutCreate, Sweep, Expired, Stalled, Tracked, Occupied, TypeInv, ClientTypes
<1>9. \A q \in Callers : pc'[q] = "backoff" => lease'[q] = NoClient
  BY <1>1, <1>4
<1>10. Cardinality((Occupied \ CreatorClients)') + Cardinality(Creators') <= MaxConnections
  <2>1. (Occupied \ CreatorClients)' \in SUBSET Occupied
    BY <1>3
  <2>2. Cardinality(Occupied) + creating < MaxConnections
    BY DEF CheckoutCreate, Reserved, Occupied
  <2>3. Cardinality(Creators') = creating + 1
    BY DEF CheckoutCreate, TypeInv, CreatingExact
  <2>4. creating \in Nat
    BY DEF TypeInv, PoolTypes
  <2> QED BY <2>1, <2>2, <2>3, <2>4, Fewer, OccupiedFinite, LimitAssumption
<1> QED BY <1>6, <1>7, <1>8, <1>9, <1>10

\* The creation of p ends: its client, if it has one, is charged on its own.
LEMMA SlotGivenBack ==
    ASSUME CapacityInv, TypeInv', NEW p \in Creators, SlotReturned,
           Creators' = Creators \ {p}, \A q \in Creators \ {p} : lease'[q] = lease[q],
           Occupied' \subseteq Occupied \cup {lease[p]}
    PROVE Cardinality((Occupied \ CreatorClients)') + Cardinality(Creators') <= MaxConnections
<1>1. (Occupied \ CreatorClients)' \in SUBSET ((Occupied \ CreatorClients) \cup {lease[p]})
  BY DEF CreatorClients
<1>2. Cardinality(Creators') = Cardinality(Creators) - 1 /\ Cardinality(Creators) \in Nat
  BY CreatorsFinite DEF CapacityInv, TypeInv, CreatingExact, SlotReturned
<1>3. /\ Cardinality((Occupied \ CreatorClients)') \in Nat
      /\ Cardinality(Occupied \ CreatorClients) \in Nat
      /\ Cardinality((Occupied \ CreatorClients)') <= Cardinality(Occupied \ CreatorClients) + 1
  BY <1>1, AtMostOneMore, OccupiedFinite DEF CapacityInv
<1> QED BY <1>2, <1>3, LimitAssumption DEF CapacityInv

\* A connected client takes its creator's slot.
LEMMA ConnectedCapacity ==
    ASSUME CapacityInv, TypeInv', NEW p \in Callers, ConnectOk(p) \/ ConnectLate(p)
    PROVE CapacityInv'
<1> USE DEF CapacityInv
<1>1. /\ pc[p] = "connecting" /\ SlotReturned /\ UNCHANGED <<live, lease, unreaped>>
      /\ pc' = [pc EXCEPT ![p] = pc'[p]] /\ pc'[p] \notin CreatorPcs
      /\ pc \in [Callers -> CallerPcs]
  BY DEF ConnectOk, ConnectLate, Prepare, Finalize, processVars, TypeInv, CallerInv,
    CallerTypes, CreatorPcs
<1>2. p \in Starters /\ p \in Creators /\ lease[p] \in Clients
  BY <1>1, StartersHold DEF Starters
<1>3. /\ Occupied' = Occupied \cup {lease[p]}
      /\ \A c \in Clients : task'[c] = "running" => c \in Occupied'
  BY <1>2 DEF ConnectOk, ConnectLate, Closing, processVars, Occupied, Tracked, TypeInv,
    ClientTypes
<1>4. Starters' = Starters \ {p} /\ Creators' = Creators \ {p}
  BY <1>1 DEF Starters, Creators, CreatorPcs
<1>5. live' \subseteq Occupied' \cup {lease'[q] : q \in Starters'}
  BY <1>1, <1>3, <1>4
<1>6. ASSUME NEW q \in Starters'
      PROVE /\ lease'[q] \notin Occupied'
            /\ \A r \in Callers \ {q} : lease'[r] # lease'[q]
  BY <1>1, <1>2, <1>3, <1>4, <1>6
<1>7. \A q \in Callers : pc'[q] = "backoff" => lease'[q] = NoClient
  BY <1>1 DEF CreatorPcs
<1>8. Cardinality((Occupied \ CreatorClients)') + Cardinality(Creators') <= MaxConnections
  BY <1>1, <1>2, <1>3, <1>4, SlotGivenBack
<1> QED BY <1>3, <1>5, <1>6, <1>7, <1>8

\* A failed creation gives its slot back and leaves a leftover in its place.
LEMMA CreateFailedCapacity ==
    ASSUME CapacityInv, TypeInv', NEW p \in Callers, CreateFailed(p)
    PROVE CapacityInv'
<1> USE DEF CapacityInv
<1>1. /\ pc[p] = "failing" /\ SlotReturned /\ UNCHANGED <<live, task, unreaped, st>>
      /\ Return({p})
  BY DEF CreateFailed, processVars, clientVars
<1>2. p \in Creators /\ p \notin Starters
  BY <1>1 DEF Starters, Creators, CreatorPcs
<1>3. Occupied' = Occupied
  BY <1>1 DEF Occupied, Tracked
<1>4. /\ Starters' = Starters /\ Creators' = Creators \ {p}
      /\ \A q \in Callers : lease'[q] = IF q = p THEN NoClient ELSE lease[q]
      /\ \A q \in Callers : pc'[q] = "backoff" => q # p /\ pc[q] = "backoff"
  BY <1>1, ReturnCreators DEF Return, Starters, TypeInv
<1>5. live' \subseteq Occupied' \cup {lease'[q] : q \in Starters'}
  BY <1>1, <1>2, <1>3, <1>4, StartersHold
<1>6. ASSUME NEW q \in Starters'
      PROVE /\ lease'[q] \notin Occupied'
            /\ \A r \in Callers \ {q} : lease'[r] # lease'[q]
  BY <1>2, <1>3, <1>4, <1>6, StartersHold, ClientAssumption
<1>7. \A q \in Callers : pc'[q] = "backoff" => lease'[q] = NoClient
  BY <1>4
<1>8. Cardinality((Occupied \ CreatorClients)') + Cardinality(Creators') <= MaxConnections
  <2>1. \A q \in Creators \ {p} : lease'[q] = lease[q]
    BY <1>4 DEF Creators
  <2> QED BY <1>1, <1>2, <1>3, <1>4, <2>1, SlotGivenBack
<1> QED BY <1>1, <1>3, <1>5, <1>6, <1>7, <1>8

\* No slot is taken or given back, and no transport loses its slot's cover.
LEMMA SameSlots ==
    ASSUME CapacityInv, Creators' = Creators,
           (Occupied \ CreatorClients)' \subseteq Occupied \ CreatorClients
    PROVE Cardinality((Occupied \ CreatorClients)') + Cardinality(Creators') <= MaxConnections
<1>1. /\ Cardinality((Occupied \ CreatorClients)') \in Nat
      /\ Cardinality(Occupied \ CreatorClients) \in Nat
      /\ Cardinality((Occupied \ CreatorClients)') <= Cardinality(Occupied \ CreatorClients)
  BY Fewer, OccupiedFinite DEF CapacityInv
<1> QED BY <1>1, CreatorsFinite, LimitAssumption DEF CapacityInv

\* A startup that was cleaned up occupies nothing.
LEMMA CleanOkCapacity ==
    ASSUME CapacityInv, TypeInv', NEW p \in Callers, CleanOk(p)
    PROVE CapacityInv'
<1> USE DEF CapacityInv
<1>1. /\ pc[p] = "cleaning" /\ UNCHANGED <<task, st>>
      /\ live' = live \ {lease[p]} /\ unreaped' = unreaped \ {lease[p]}
      /\ lease' = [lease EXCEPT ![p] = NoClient]
      /\ lease \in [Callers -> Clients \cup {NoClient}] /\ pc \in [Callers -> CallerPcs]
  BY DEF CleanOk, clientVars, TypeInv, CallerInv, CallerTypes
<1>2. p \in Starters /\ p \in Creators /\ lease[p] \notin Occupied
  BY <1>1, StartersHold DEF Starters
<1>3. Occupied' = Occupied
  BY <1>1, <1>2 DEF Occupied, Tracked
<1>4. /\ Starters' = Starters \ {p} /\ Creators' = Creators
      /\ \A q \in Callers : pc'[q] = "backoff" => q = p \/ pc[q] = "backoff"
  BY <1>1 DEF CleanOk, Starters, Creators, CreatorPcs
<1>5. live' \subseteq Occupied' \cup {lease'[q] : q \in Starters'}
  BY <1>1, <1>3, <1>4, StartersHold
<1>6. ASSUME NEW q \in Starters'
      PROVE /\ lease'[q] \notin Occupied'
            /\ \A r \in Callers \ {q} : lease'[r] # lease'[q]
  BY <1>1, <1>3, <1>4, <1>6, StartersHold, ClientAssumption
<1>7. \A q \in Callers : pc'[q] = "backoff" => lease'[q] = NoClient
  BY <1>1, <1>4
<1>8. (Occupied \ CreatorClients)' \subseteq Occupied \ CreatorClients
  BY <1>1, <1>2, <1>3, <1>4 DEF CreatorClients, Creators
<1> QED BY <1>1, <1>3, <1>4, <1>5, <1>6, <1>7, <1>8, SameSlots

\* One that was not is charged to its creator until it gives up.
LEMMA CleanFailCapacity ==
    ASSUME CapacityInv, TypeInv', NEW p \in Callers, CleanFail(p)
    PROVE CapacityInv'
<1> USE DEF CapacityInv
<1>1. /\ pc[p] = "cleaning" /\ UNCHANGED <<task, st, live, lease>>
      /\ unreaped' = unreaped \cup {lease[p]} /\ pc' = [pc EXCEPT ![p] = "failing"]
      /\ pc \in [Callers -> CallerPcs]
  BY DEF CleanFail, clientVars, TypeInv, CallerInv, CallerTypes
<1>2. p \in Starters /\ p \in Creators /\ lease[p] \in CreatorClients
  BY <1>1, StartersHold DEF Starters, CreatorClients
<1>3. Occupied' = Occupied \cup {lease[p]}
  BY <1>1 DEF Occupied, Tracked
<1>4. Starters' = Starters \ {p} /\ Creators' = Creators
  BY <1>1 DEF Starters, Creators, CreatorPcs
<1>5. live' \subseteq Occupied' \cup {lease'[q] : q \in Starters'}
  BY <1>1, <1>3, <1>4
<1>6. ASSUME NEW q \in Starters'
      PROVE /\ lease'[q] \notin Occupied'
            /\ \A r \in Callers \ {q} : lease'[r] # lease'[q]
  BY <1>1, <1>3, <1>4, <1>6, StartersHold
<1>7. \A q \in Callers : pc'[q] = "backoff" => lease'[q] = NoClient
  BY <1>1
<1>8. (Occupied \ CreatorClients)' \subseteq Occupied \ CreatorClients
  BY <1>1, <1>2, <1>3, <1>4 DEF CreatorClients
<1> QED BY <1>1, <1>3, <1>4, <1>5, <1>6, <1>7, <1>8, SameSlots

\* The next attempt uses the creator's own slot.
LEMMA BackoffCapacity ==
    ASSUME CapacityInv, TypeInv', NEW p \in Callers, Backoff(p)
    PROVE CapacityInv'
<1> USE DEF CapacityInv
<1>1. /\ pc[p] = "backoff" /\ lease[p] = NoClient /\ UNCHANGED <<task, st, unreaped>>
      /\ pc \in [Callers -> CallerPcs] /\ lease \in [Callers -> Clients \cup {NoClient}]
  BY DEF Backoff, clientVars, TypeInv, CallerInv, CallerTypes
<1>2. Occupied' = Occupied
  BY <1>1 DEF Occupied, Tracked
<1>3. Creators' = Creators
  BY <1>1 DEF Backoff, Creators, CreatorPcs
<1>4. (Occupied \ CreatorClients)' \subseteq Occupied \ CreatorClients
  <2>1. NoClient \notin Occupied
    BY ClientAssumption DEF Occupied, Tracked, TypeInv, PoolTypes
  <2>2. \A q \in Creators : q # p => lease'[q] = lease[q]
    BY <1>1 DEF Backoff, Creators
  <2> QED BY <1>1, <1>2, <1>3, <2>1, <2>2 DEF CreatorClients
<1>5. CASE /\ pc' = [pc EXCEPT ![p] = "failing"] /\ UNCHANGED <<lease, live>>
  <2>1. Starters' = Starters
    BY <1>1, <1>5 DEF Starters
  <2>2. \A q \in Callers : pc'[q] = "backoff" => lease'[q] = NoClient
    BY <1>1, <1>5
  <2> QED BY <1>1, <1>2, <1>3, <1>4, <1>5, <2>1, <2>2, SameSlots
<1>6. CASE \E c \in Unused : /\ lease' = [lease EXCEPT ![p] = c] /\ live' = live \cup {c}
                             /\ pc' = [pc EXCEPT ![p] = "connecting"]
  <2>1. PICK c \in Unused : /\ lease' = [lease EXCEPT ![p] = c] /\ live' = live \cup {c}
                           /\ pc' = [pc EXCEPT ![p] = "connecting"]
    BY <1>6
  <2>2. c \in Clients /\ c \notin Occupied /\ \A q \in Callers : lease[q] # c
    BY DEF Unused, Occupied
  <2>3. Starters' = Starters \cup {p} /\ p \notin Starters
    BY <1>1, <2>1 DEF Starters
  <2>4. live' \subseteq Occupied' \cup {lease'[q] : q \in Starters'}
    BY <1>1, <1>2, <2>1, <2>3, StartersHold
  <2>5. ASSUME NEW q \in Starters'
        PROVE /\ lease'[q] \notin Occupied'
              /\ \A r \in Callers \ {q} : lease'[r] # lease'[q]
    BY <1>1, <1>2, <2>1, <2>2, <2>3, <2>5, StartersHold
  <2>6. \A q \in Callers : pc'[q] = "backoff" => lease'[q] = NoClient
    BY <1>1, <2>1
  <2> QED BY <1>1, <1>2, <1>3, <1>4, <2>4, <2>5, <2>6, SameSlots
<1> QED BY <1>5, <1>6 DEF Backoff

\* A successful close gives one place back.
LEMMA CloseOkCapacity ==
    ASSUME CapacityInv, TypeInv', NEW c \in Clients, CloseOk(c)
    PROVE CapacityInv'
<1> USE DEF CapacityInv
<1>1. /\ live' = live \ {c} /\ unreaped' = unreaped \ {c} /\ c \in Occupied
      /\ Occupied' = Occupied \ {c}
      /\ \A d \in Clients : task'[d] = "running" => task[d] = "running" /\ d # c
  BY DEF CloseOk, Occupied, Tracked, TypeInv, ClientTypes
<1>2. /\ Starters' = Starters /\ Creators' = Creators
      /\ \A q \in Creators : lease'[q] = lease[q]
      /\ \A q \in Callers : /\ lease'[q] \in {lease[q], NoClient}
                            /\ pc'[q] = "backoff" => pc[q] = "backoff"
  BY DEF CloseOk, Closers, Returning, ClosePcs, Starters, Creators, CreatorPcs
<1>3. live' \subseteq Occupied' \cup {lease'[q] : q \in Starters'}
  BY <1>1, <1>2, StartersHold
<1>4. ASSUME NEW q \in Starters'
      PROVE /\ lease'[q] \notin Occupied'
            /\ \A r \in Callers \ {q} : lease'[r] # lease'[q]
  BY <1>1, <1>2, <1>4, StartersHold, ClientAssumption
<1>5. \A q \in Callers : pc'[q] = "backoff" => lease'[q] = NoClient
  BY <1>2
<1>6. (Occupied \ CreatorClients)' \subseteq Occupied \ CreatorClients
  BY <1>1, <1>2 DEF CreatorClients
<1> QED BY <1>1, <1>2, <1>3, <1>4, <1>5, <1>6, SameSlots

\* The capacity is free at first.
LEMMA CapacityInit == Init => CapacityInv
<1> SUFFICES ASSUME Init PROVE CapacityInv
  OBVIOUS
<1>1. Occupied = {} /\ Starters = {} /\ Creators = {}
  BY DEF Init, Occupied, Tracked, Starters, Creators, CreatorPcs
<1>2. Cardinality(Occupied \ CreatorClients) = 0 /\ Cardinality(Creators) = 0
  <2>1. Occupied \ CreatorClients = {}
    BY <1>1
  <2> QED BY <1>1, <2>1, FS_EmptySet
<1>3. \A c \in Clients : task[c] # "running"
  BY DEF Init
<1>4. live = {} /\ \A p \in Callers : pc[p] # "backoff"
  BY DEF Init
<1> QED BY <1>1, <1>2, <1>3, <1>4, TypeInit, LimitAssumption DEF CapacityInv

\* Every step keeps the capacity.
LEMMA CapacityStep == CapacityInv /\ [Next]_vars => CapacityInv'
<1> SUFFICES ASSUME CapacityInv, [Next]_vars PROVE CapacityInv'
  OBVIOUS
<1>1. TypeInv'
  BY TypeStep DEF CapacityInv
<1>2. CASE Quiet
  BY <1>1, <1>2, QuietCapacity
<1>3. ASSUME NEW p \in Callers, CheckoutCreate(p) \/ (Create(p) /\ ~ConnectFail(p))
      PROVE CapacityInv'
  BY <1>1, <1>3, CheckoutCreateCapacity, ConnectedCapacity, CleanOkCapacity,
    CleanFailCapacity, BackoffCapacity, CreateFailedCapacity DEF Create
<1>4. ASSUME NEW c \in Clients, CloseOk(c)
      PROVE CapacityInv'
  BY <1>1, <1>4, CloseOkCapacity
<1>5. CASE UNCHANGED vars
  <2>1. Quiet
    BY <1>5 DEF vars, clientVars, processVars, callerVars, Quiet, CapacityInv, Occupied,
      Tracked, Starters, Creators
  <2> QED BY <1>1, <2>1, QuietCapacity
<1> QED BY <1>2, <1>3, <1>4, <1>5, QuietSteps

\* The hard limit holds for any number of callers and any limits: at most
\* pool_max_connections subprocesses exist, whatever fails in whatever order.
THEOREM CapacityCorrect == Spec => []PhysicalCapacity
<1>1. CapacityInv => PhysicalCapacity
  <2> SUFFICES ASSUME CapacityInv PROVE PhysicalCapacity
    OBVIOUS
  <2> USE DEF CapacityInv
  <2> DEFINE Own == Occupied \ CreatorClients
  <2>1. CreatorClients = {lease[p] : p \in Creators} /\ live \subseteq Own \cup CreatorClients
    BY StartersHold DEF CreatorClients
  <2>2. IsFiniteSet(CreatorClients) /\ Cardinality(CreatorClients) <= Cardinality(Creators)
    <3> DEFINE f == [p \in Creators |-> lease[p]]
    <3>1. f \in Surjection(Creators, CreatorClients)
      BY DEF Surjection, CreatorClients
    <3> QED BY <3>1, CreatorsFinite, FS_Surjection
  <2>3. IsFiniteSet(Own) /\ Own \cap CreatorClients = {}
    BY OccupiedFinite
  <2>4. /\ IsFiniteSet(Own \cup CreatorClients)
        /\ Cardinality(Own \cup CreatorClients) <= Cardinality(Own) + Cardinality(Creators)
    <3>1. /\ Cardinality(Own) \in Nat /\ Cardinality(CreatorClients) \in Nat
          /\ Cardinality(Own \cap CreatorClients) = 0
      BY <2>2, <2>3, FS_CardinalityType, FS_EmptySet
    <3>2. /\ IsFiniteSet(Own \cup CreatorClients)
          /\ Cardinality(Own \cup CreatorClients)
                = Cardinality(Own) + Cardinality(CreatorClients) - Cardinality(Own \cap CreatorClients)
      BY <2>2, <2>3, FS_Union
    <3> QED BY <2>2, <3>1, <3>2, CreatorsFinite
  <2>5. /\ Cardinality(live) \in Nat /\ Cardinality(Own \cup CreatorClients) \in Nat
        /\ Cardinality(live) <= Cardinality(Own \cup CreatorClients)
    BY <2>1, <2>4, Fewer
  <2>6. Cardinality(Own) \in Nat
    BY <2>3, FS_CardinalityType
  <2> QED BY <2>4, <2>5, <2>6, CreatorsFinite, LimitAssumption DEF PhysicalCapacity
<1> QED BY <1>1, CapacityInit, CapacityStep, PTL DEF Spec

\* No subprocess is forgotten: each is tracked, recorded as unreaped, or in the
\* hands of the creator that is starting or reaping it.
THEOREM OwnershipCorrect == Spec => []EveryTransportOwned
<1>1. CapacityInv => EveryTransportOwned
  BY StartersHold DEF CapacityInv, EveryTransportOwned, Occupied
<1> QED BY <1>1, CapacityInit, CapacityStep, PTL DEF Spec

-----------------------------------------------------------------------------
(* The invariant of ownership *)

\* A client is in one hand at most.
LeaseInv ==
    /\ \A p \in Callers : pc[p] \in {"out", "checkout", "waiting", "backoff"} => lease[p] = NoClient
    /\ \A p, q \in Callers : lease[p] = lease[q] /\ lease[p] # NoClient => p = q
    /\ \A p \in Callers : lease[p] # NoClient => st[lease[p]] \notin {"idle", "checking"}
    /\ \A p \in Callers : pc[p] \in ClosePcs =>
                             st[lease[p]] = "closing" /\ task[lease[p]] = "running"

\* An entry has the task, the claim and the attention that its state calls for.
EntryInv ==
    \A c \in Clients :
        /\ st[c] \in {"absent", "idle", "checking"} => claim[c] = NoSession
        /\ st[c] = "absent" => uses[c] = 0
        /\ task[c] # "none" => st[c] = "closing" \/ (st[c] = "absent" /\ c \in unreaped)
        /\ st[c] = "leased" => \E p \in Callers : lease[p] = c /\ pc[p] \in HolderPcs
        /\ st[c] = "checking" => ka = "checking"
        /\ st[c] = "closing" => task[c] # "none" \/ (ca = "marked" /\ c \in caWait)
        /\ closed => st[c] \in {"absent", "closing"}

Own == CapacityInv /\ LeaseInv /\ EntryInv /\ (closed <=> ca # "open")

\* The types, as the steps need them.
LEMMA Typed ==
    ASSUME Own
    PROVE  /\ st \in [Clients -> EntryStates] /\ task \in [Clients -> {"none", "running", "failed"}]
           /\ claim \in [Clients -> SessionIds] /\ sess \in [Clients -> SessionIds]
           /\ uses \in [Clients -> 0 .. MaxUses]
           /\ pc \in [Callers -> CallerPcs] /\ lease \in [Callers -> Clients \cup {NoClient}]
           /\ \A p \in Callers : pc[p] \in HoldingPcs => lease[p] \in Clients
           /\ NoClient \notin Clients
BY ClientAssumption DEF Own, CapacityInv, TypeInv, ClientTypes, CallerInv, CallerTypes, SessionIds

\* A client that is being started is no entry, and nobody else's.
LEMMA Starting ==
    ASSUME Own, NEW p \in Callers, pc[p] \in {"connecting", "cleaning"}
    PROVE  /\ lease[p] \in Clients /\ st[lease[p]] = "absent" /\ lease[p] \notin unreaped
           /\ task[lease[p]] = "none"
<1>1. p \in Starters /\ lease[p] \in Clients
  BY Typed DEF Starters, HoldingPcs
<1>2. lease[p] \notin Occupied
  BY <1>1 DEF Own, CapacityInv
<1> QED BY <1>1, <1>2 DEF Occupied, Tracked, Own, EntryInv

\* A client stays in one hand.
LEMMA LeaseKept ==
    ASSUME Own, Next
    PROVE  LeaseInv'
<1> USE Typed, Starting DEF Own, HoldingPcs, EntryStates, LeaseInv, HolderPcs, CreatorPcs,
      PreparePcs, RetirePcs, ClosePcs, clientVars, processVars, queueVars, callerVars, closeVars
<1>1. ASSUME NEW p \in Callers, Acquire(p) PROVE LeaseInv'
  BY <1>1 DEF Acquire
<1>2. ASSUME NEW p \in Callers, CheckoutClosed(p) PROVE LeaseInv'
  BY <1>2 DEF CheckoutClosed, Runnable, Return
<1>3. ASSUME NEW p \in Callers, CheckoutBehind(p) PROVE LeaseInv'
  BY <1>3 DEF CheckoutBehind, Runnable, Enqueue, Sweep, Expired, Stalled
<1>4. ASSUME NEW p \in Callers, CheckoutClaimed(p) PROVE LeaseInv'
  BY <1>4 DEF CheckoutClaimed, Runnable, Enqueue, Sweep, Expired, Stalled
<1>5. ASSUME NEW p \in Callers, CheckoutRebalance(p) PROVE LeaseInv'
  BY <1>5 DEF CheckoutRebalance, Served, Runnable, Enqueue, Sweep, Expired, Stalled, FitIdle
<1>6. ASSUME NEW p \in Callers, CheckoutReuse(p) PROVE LeaseInv'
  BY <1>6 DEF CheckoutReuse, Served, Runnable, Sweep, Expired, Stalled, FitIdle, Retirable,
     Candidates
<1>7. ASSUME NEW p \in Callers, CheckoutCreate(p) PROVE LeaseInv'
  <2>1. PICK c \in Unused : lease' = [lease EXCEPT ![p] = c]
    BY <1>7 DEF CheckoutCreate
  <2>2. c \in Clients /\ st[c] = "absent" /\ \A q \in Callers : lease[q] # c
    BY DEF Unused, Tracked
  <2>3. /\ pc' = [pc EXCEPT ![p] = "connecting"]
        /\ \A d \in Clients : /\ st[d] \notin {"idle", "checking"} => st'[d] = st[d]
                              /\ task[d] = "running" => task'[d] = "running"
    BY <1>7, Typed DEF CheckoutCreate, Sweep, Expired
  <2>4. \A q \in Callers : q # p => lease'[q] = lease[q] /\ pc'[q] = pc[q]
    BY <2>1, <2>3, Typed
  <2>5. lease'[p] = c /\ pc'[p] = "connecting"
    BY <2>1, <2>3, Typed
  <2>6. \A q \in Callers : pc'[q] \in ClosePcs => lease[q] \in Clients
    BY <2>4, <2>5, Typed DEF ClosePcs, HoldingPcs
  <2>7. \A q \in Callers : lease'[q] # NoClient => st'[lease'[q]] \notin {"idle", "checking"}
    BY <2>2, <2>3, <2>4, <2>5, Typed DEF LeaseInv
  <2>8. \A q \in Callers : pc'[q] \in ClosePcs => st'[lease'[q]] = "closing" /\ task'[lease'[q]] = "running"
    BY <2>3, <2>4, <2>5, <2>6, Typed DEF LeaseInv, ClosePcs
  <2> QED BY <2>2, <2>4, <2>5, <2>7, <2>8, Typed DEF LeaseInv
<1>8. ASSUME NEW p \in Callers, AbandonWait(p) PROVE LeaseInv'
  BY <1>8 DEF AbandonWait, Return
<1>9. ASSUME NEW p \in Callers, CancelCheckout(p) PROVE LeaseInv'
  BY <1>9 DEF CancelCheckout, Return
<1>10. ASSUME NEW p \in Callers, ConnectOk(p) PROVE LeaseInv'
  BY <1>10 DEF ConnectOk, Prepare, Finalize
<1>11. ASSUME NEW p \in Callers, ConnectLate(p) PROVE LeaseInv'
  BY <1>11 DEF ConnectLate, Closing
<1>12. ASSUME NEW p \in Callers, ConnectFail(p) PROVE LeaseInv'
  BY <1>12 DEF ConnectFail
<1>13. ASSUME NEW p \in Callers, CleanOk(p) PROVE LeaseInv'
  BY <1>13 DEF CleanOk
<1>14. ASSUME NEW p \in Callers, CleanFail(p) PROVE LeaseInv'
  BY <1>14 DEF CleanFail
<1>15. ASSUME NEW p \in Callers, Backoff(p) PROVE LeaseInv'
  <2>1. CASE pc' = [pc EXCEPT ![p] = "failing"] /\ UNCHANGED <<lease, clientVars>>
    BY <1>15, <2>1, Typed DEF LeaseInv, Backoff, ClosePcs, clientVars
  <2>2. ASSUME NEW c \in Unused, lease' = [lease EXCEPT ![p] = c],
               pc' = [pc EXCEPT ![p] = "connecting"], UNCHANGED clientVars
        PROVE  LeaseInv'
    <3>1. c \in Clients /\ st[c] = "absent" /\ \A q \in Callers : lease[q] # c
      BY DEF Unused, Tracked
    <3> QED BY <2>2, <3>1, Typed DEF LeaseInv, ClosePcs, clientVars
  <2> QED BY <1>15, <2>1, <2>2 DEF Backoff
<1>16. ASSUME NEW p \in Callers, CreateFailed(p) PROVE LeaseInv'
  BY <1>16 DEF CreateFailed, Return
<1>17. ASSUME NEW p \in Callers, PingOk(p) PROVE LeaseInv'
  BY <1>17 DEF PingOk, Prepare, Finalize
<1>18. ASSUME NEW p \in Callers, PingFail(p) PROVE LeaseInv'
  BY <1>18 DEF PingFail
<1>19. ASSUME NEW p \in Callers, ResumeOk(p) PROVE LeaseInv'
  BY <1>19 DEF ResumeOk, Finalize
<1>20. ASSUME NEW p \in Callers, EnsureOk(p) PROVE LeaseInv'
  BY <1>20 DEF EnsureOk, Finalize
<1>21. ASSUME NEW p \in Callers, PrepareFail(p) PROVE LeaseInv'
  BY <1>21 DEF PrepareFail
<1>22. ASSUME NEW p \in Callers, EndLease(p) PROVE LeaseInv'
  BY <1>22 DEF EndLease
<1>23. ASSUME NEW p \in Callers, SwitchSession(p) PROVE LeaseInv'
  BY <1>23 DEF SwitchSession
<1>24. ASSUME NEW p \in Callers, ReleaseGone(p) PROVE LeaseInv'
  BY <1>24 DEF ReleaseGone, Return
<1>25. ASSUME NEW p \in Callers, ReleaseClose(p) PROVE LeaseInv'
  BY <1>25 DEF ReleaseClose, Closing
<1>26. ASSUME NEW p \in Callers, ReleaseIdle(p) PROVE LeaseInv'
  BY <1>26 DEF ReleaseIdle, Return
<1>27. ASSUME NEW p \in Callers, Retire(p) PROVE LeaseInv'
  BY <1>27 DEF Retire, Closing
<1>28. ASSUME NEW p \in Callers, RetireGone(p) PROVE LeaseInv'
  BY <1>28 DEF RetireGone, Return
<1>29. ASSUME NEW p \in Callers, CancelLate(p) PROVE LeaseInv'
  BY <1>29 DEF CancelLate, Return
<1>30. ASSUME NEW c \in Clients, CloseOk(c) PROVE LeaseInv'
  BY <1>30 DEF CloseOk, Closers, Returning
<1>31. ASSUME NEW c \in Clients, CloseFail(c) PROVE LeaseInv'
  BY <1>31 DEF CloseFail, Closers, Returning
<1>32. ASSUME NEW c \in Clients, BecomeUnfit(c) PROVE LeaseInv'
  BY <1>32 DEF BecomeUnfit
<1>33. ASSUME KeepaliveStart PROVE LeaseInv'
  BY <1>33 DEF KeepaliveStart, Expired, FitIdle
<1>34. ASSUME KeepaliveFinish PROVE LeaseInv'
  BY <1>34 DEF KeepaliveFinish
<1>35. ASSUME CloseAll PROVE LeaseInv'
  BY <1>35 DEF CloseAll, Tracked
<1>36. ASSUME CloseAllStart PROVE LeaseInv'
  BY <1>36 DEF CloseAllStart, Closing, Tracked
<1>37. ASSUME CloseAllGathered PROVE LeaseInv'
  BY <1>37 DEF CloseAllGathered
<1>38. ASSUME CloseAllRetry PROVE LeaseInv'
  BY <1>38 DEF CloseAllRetry, Closing, Stalled, Tracked
<1>39. ASSUME CloseAllReap PROVE LeaseInv'
  BY <1>39 DEF CloseAllReap, Tracked
<1>40. ASSUME CloseAllFinish PROVE LeaseInv'
  BY <1>40 DEF CloseAllFinish
<1> QED BY <1>1, <1>2, <1>3, <1>4, <1>5, <1>6, <1>7, <1>8, <1>9, <1>10, <1>11, <1>12, <1>13,
   <1>14, <1>15, <1>16, <1>17, <1>18, <1>19, <1>20, <1>21, <1>22, <1>23, <1>24, <1>25, <1>26, <1>27,
   <1>28, <1>29, <1>30, <1>31, <1>32, <1>33, <1>34, <1>35, <1>36, <1>37, <1>38, <1>39, <1>40 DEF
   Next, Checkout, Create, Lease, Release, CloseClient, KeepaliveStep, CloseAllStep

\* Every entry keeps what its state calls for.
LEMMA EntryKept ==
    ASSUME Own, Next
    PROVE  EntryInv'
<1> USE Typed, Starting DEF Own, EntryInv, LeaseInv, HolderPcs, HoldingPcs, EntryStates,
      CreatorPcs, PreparePcs, RetirePcs, ClosePcs, clientVars, processVars, queueVars, callerVars,
      closeVars
<1>1. ASSUME NEW p \in Callers, Acquire(p) PROVE EntryInv'
  BY <1>1 DEF Acquire
<1>2. ASSUME NEW p \in Callers, CheckoutClosed(p) PROVE EntryInv'
  BY <1>2 DEF CheckoutClosed, Runnable, Return
<1>3. ASSUME NEW p \in Callers, CheckoutBehind(p) PROVE EntryInv'
  BY <1>3 DEF CheckoutBehind, Runnable, Enqueue, Sweep, Expired, Stalled
<1>4. ASSUME NEW p \in Callers, CheckoutClaimed(p) PROVE EntryInv'
  BY <1>4 DEF CheckoutClaimed, Runnable, Enqueue, Sweep, Expired, Stalled
<1>5. ASSUME NEW p \in Callers, CheckoutRebalance(p) PROVE EntryInv'
  BY <1>5 DEF CheckoutRebalance, Served, Runnable, Enqueue, Sweep, Expired, Stalled, FitIdle
<1>6. ASSUME NEW p \in Callers, CheckoutReuse(p) PROVE EntryInv'
  BY <1>6 DEF CheckoutReuse, Served, Runnable, Sweep, Expired, Stalled, FitIdle, Retirable,
     Candidates
<1>7. ASSUME NEW p \in Callers, CheckoutCreate(p) PROVE EntryInv'
  BY <1>7 DEF CheckoutCreate, Served, Runnable, Sweep, Expired, Stalled, Unused
<1>8. ASSUME NEW p \in Callers, AbandonWait(p) PROVE EntryInv'
  BY <1>8 DEF AbandonWait, Return
<1>9. ASSUME NEW p \in Callers, CancelCheckout(p) PROVE EntryInv'
  BY <1>9 DEF CancelCheckout, Return
<1>10. ASSUME NEW p \in Callers, ConnectOk(p) PROVE EntryInv'
  BY <1>10 DEF ConnectOk, Prepare, Finalize
<1>11. ASSUME NEW p \in Callers, ConnectLate(p) PROVE EntryInv'
  BY <1>11 DEF ConnectLate, Closing
<1>12. ASSUME NEW p \in Callers, ConnectFail(p) PROVE EntryInv'
  BY <1>12 DEF ConnectFail
<1>13. ASSUME NEW p \in Callers, CleanOk(p) PROVE EntryInv'
  BY <1>13 DEF CleanOk
<1>14. ASSUME NEW p \in Callers, CleanFail(p) PROVE EntryInv'
  BY <1>14 DEF CleanFail
<1>15. ASSUME NEW p \in Callers, Backoff(p) PROVE EntryInv'
  BY <1>15 DEF Backoff, Unused
<1>16. ASSUME NEW p \in Callers, CreateFailed(p) PROVE EntryInv'
  BY <1>16 DEF CreateFailed, Return
<1>17. ASSUME NEW p \in Callers, PingOk(p) PROVE EntryInv'
  <2>1. \A q \in Callers : /\ lease'[q] = lease[q]
                           /\ pc[q] \in HolderPcs => pc'[q] \in HolderPcs
    BY <1>17, Typed DEF PingOk, Prepare, Finalize, HolderPcs, PreparePcs, RetirePcs
  <2>2. \A c \in Clients : claim'[c] = claim[c] \/ (c = lease[p] /\ st[c] = "leased")
    BY <1>17, Typed DEF PingOk, Prepare, Finalize, Refused, HoldingPcs, PreparePcs
  <2> QED BY <1>17, <2>1, <2>2, Typed DEF PingOk, EntryInv, clientVars, processVars, closeVars
<1>18. ASSUME NEW p \in Callers, PingFail(p) PROVE EntryInv'
  BY <1>18 DEF PingFail
<1>19. ASSUME NEW p \in Callers, ResumeOk(p) PROVE EntryInv'
  <2>1. \A q \in Callers : /\ lease'[q] = lease[q]
                           /\ pc[q] \in HolderPcs => pc'[q] \in HolderPcs
    BY <1>19, Typed DEF ResumeOk, Finalize, HolderPcs, PreparePcs, RetirePcs
  <2>2. \A c \in Clients : claim'[c] = claim[c] \/ (c = lease[p] /\ st[c] = "leased")
    BY <1>19, Typed DEF ResumeOk, Finalize, Refused, HoldingPcs, PreparePcs
  <2> QED BY <1>19, <2>1, <2>2, Typed DEF ResumeOk, EntryInv, clientVars, processVars, closeVars
<1>20. ASSUME NEW p \in Callers, EnsureOk(p) PROVE EntryInv'
  <2>1. \A q \in Callers : /\ lease'[q] = lease[q]
                           /\ pc[q] \in HolderPcs => pc'[q] \in HolderPcs
    BY <1>20, Typed DEF EnsureOk, Finalize, HolderPcs, PreparePcs, RetirePcs
  <2>2. \A c \in Clients : claim'[c] = claim[c] \/ (c = lease[p] /\ st[c] = "leased")
    BY <1>20, Typed DEF EnsureOk, Finalize, Refused, HoldingPcs, PreparePcs
  <2> QED BY <1>20, <2>1, <2>2, Typed DEF EnsureOk, EntryInv, clientVars, processVars, closeVars
<1>21. ASSUME NEW p \in Callers, PrepareFail(p) PROVE EntryInv'
  BY <1>21 DEF PrepareFail
<1>22. ASSUME NEW p \in Callers, EndLease(p) PROVE EntryInv'
  BY <1>22 DEF EndLease
<1>23. ASSUME NEW p \in Callers, SwitchSession(p) PROVE EntryInv'
  BY <1>23 DEF SwitchSession
<1>24. ASSUME NEW p \in Callers, ReleaseGone(p) PROVE EntryInv'
  BY <1>24 DEF ReleaseGone, Return
<1>25. ASSUME NEW p \in Callers, ReleaseClose(p) PROVE EntryInv'
  BY <1>25 DEF ReleaseClose, Closing
<1>26. ASSUME NEW p \in Callers, ReleaseIdle(p) PROVE EntryInv'
  BY <1>26 DEF ReleaseIdle, Return
<1>27. ASSUME NEW p \in Callers, Retire(p) PROVE EntryInv'
  BY <1>27 DEF Retire, Closing
<1>28. ASSUME NEW p \in Callers, RetireGone(p) PROVE EntryInv'
  BY <1>28 DEF RetireGone, Return
<1>29. ASSUME NEW p \in Callers, CancelLate(p) PROVE EntryInv'
  BY <1>29 DEF CancelLate, Return
<1>30. ASSUME NEW c \in Clients, CloseOk(c) PROVE EntryInv'
  BY <1>30 DEF CloseOk, Closers, Returning
<1>31. ASSUME NEW c \in Clients, CloseFail(c) PROVE EntryInv'
  BY <1>31 DEF CloseFail, Closers, Returning
<1>32. ASSUME NEW c \in Clients, BecomeUnfit(c) PROVE EntryInv'
  BY <1>32 DEF BecomeUnfit
<1>33. ASSUME KeepaliveStart PROVE EntryInv'
  BY <1>33 DEF KeepaliveStart, Expired, FitIdle
<1>34. ASSUME KeepaliveFinish PROVE EntryInv'
  BY <1>34 DEF KeepaliveFinish
<1>35. ASSUME CloseAll PROVE EntryInv'
  BY <1>35 DEF CloseAll, Tracked
<1>36. ASSUME CloseAllStart PROVE EntryInv'
  BY <1>36 DEF CloseAllStart, Closing, Tracked
<1>37. ASSUME CloseAllGathered PROVE EntryInv'
  BY <1>37 DEF CloseAllGathered
<1>38. ASSUME CloseAllRetry PROVE EntryInv'
  BY <1>38 DEF CloseAllRetry, Closing, Stalled, Tracked
<1>39. ASSUME CloseAllReap PROVE EntryInv'
  BY <1>39 DEF CloseAllReap, Tracked
<1>40. ASSUME CloseAllFinish PROVE EntryInv'
  BY <1>40 DEF CloseAllFinish
<1> QED BY <1>1, <1>2, <1>3, <1>4, <1>5, <1>6, <1>7, <1>8, <1>9, <1>10, <1>11, <1>12, <1>13,
   <1>14, <1>15, <1>16, <1>17, <1>18, <1>19, <1>20, <1>21, <1>22, <1>23, <1>24, <1>25, <1>26, <1>27,
   <1>28, <1>29, <1>30, <1>31, <1>32, <1>33, <1>34, <1>35, <1>36, <1>37, <1>38, <1>39, <1>40 DEF
   Next, Checkout, Create, Lease, Release, CloseClient, KeepaliveStep, CloseAllStep

\* What callers ask for.
LEMMA Asked ==
    ASSUME Own
    PROVE  /\ \A p \in Callers : req[p].session \in SessionIds
           /\ claims \subseteq Sessions /\ NoSession \notin Sessions
           /\ ProviderSessions \subseteq SessionIds
           /\ req \in [Callers -> Requests \cup {NoReq}]
BY ReqType, SessionAssumption, ProviderAssumption
DEF Own, CapacityInv, TypeInv, PoolTypes, SessionIds, CallerInv, CallerTypes

-----------------------------------------------------------------------------
(* Sessions *)

\* Most steps leave owners and claims alone.
Still ==
    /\ Tracked' = Tracked /\ Creators' = Creators /\ claims' = claims
    /\ \A c \in Tracked : claim'[c] = claim[c]
    /\ \A p \in Creators : req'[p] = req[p]

\* Only ten kinds of steps touch an owner or a claim.
LEMMA StillSteps ==
    ASSUME Own, Next
    PROVE  \/ Still
           \/ \E p \in Callers :
                 \/ CheckoutReuse(p) \/ CheckoutCreate(p) \/ ConnectOk(p) \/ ConnectLate(p)
                 \/ CreateFailed(p) \/ PingOk(p) \/ ResumeOk(p) \/ EnsureOk(p) \/ ReleaseIdle(p)
           \/ \E c \in Clients : CloseOk(c)
<1> USE Typed, Asked DEF Still, Tracked, Creators, CreatorPcs, PreparePcs, RetirePcs,
      ClosePcs, clientVars, processVars, queueVars, callerVars, closeVars
<1>1. ASSUME NEW p \in Callers, Acquire(p) PROVE Still
  BY <1>1 DEF Acquire
<1>2. ASSUME NEW p \in Callers, CheckoutClosed(p) PROVE Still
  BY <1>2 DEF CheckoutClosed, Runnable, Return
<1>3. ASSUME NEW p \in Callers, CheckoutBehind(p) PROVE Still
  BY <1>3 DEF CheckoutBehind, Runnable, Enqueue, Sweep, Expired, Stalled
<1>4. ASSUME NEW p \in Callers, CheckoutClaimed(p) PROVE Still
  BY <1>4 DEF CheckoutClaimed, Runnable, Enqueue, Sweep, Expired, Stalled
<1>5. ASSUME NEW p \in Callers, CheckoutRebalance(p) PROVE Still
  BY <1>5 DEF CheckoutRebalance, Served, Runnable, Enqueue, Sweep, Expired, Stalled, FitIdle
<1>6. ASSUME NEW p \in Callers, AbandonWait(p) PROVE Still
  BY <1>6 DEF AbandonWait, Return
<1>7. ASSUME NEW p \in Callers, CancelCheckout(p) PROVE Still
  BY <1>7 DEF CancelCheckout, Return
<1>8. ASSUME NEW p \in Callers, ConnectFail(p) PROVE Still
  BY <1>8 DEF ConnectFail
<1>9. ASSUME NEW p \in Callers, CleanOk(p) PROVE Still
  BY <1>9 DEF CleanOk
<1>10. ASSUME NEW p \in Callers, CleanFail(p) PROVE Still
  BY <1>10 DEF CleanFail
<1>11. ASSUME NEW p \in Callers, Backoff(p) PROVE Still
  BY <1>11 DEF Backoff, Unused
<1>12. ASSUME NEW p \in Callers, PingFail(p) PROVE Still
  BY <1>12 DEF PingFail
<1>13. ASSUME NEW p \in Callers, PrepareFail(p) PROVE Still
  BY <1>13 DEF PrepareFail
<1>14. ASSUME NEW p \in Callers, EndLease(p) PROVE Still
  BY <1>14 DEF EndLease
<1>15. ASSUME NEW p \in Callers, SwitchSession(p) PROVE Still
  BY <1>15 DEF SwitchSession
<1>16. ASSUME NEW p \in Callers, ReleaseGone(p) PROVE Still
  BY <1>16 DEF ReleaseGone, Return
<1>17. ASSUME NEW p \in Callers, ReleaseClose(p) PROVE Still
  BY <1>17 DEF ReleaseClose, Closing
<1>18. ASSUME NEW p \in Callers, Retire(p) PROVE Still
  BY <1>18 DEF Retire, Closing
<1>19. ASSUME NEW p \in Callers, RetireGone(p) PROVE Still
  BY <1>19 DEF RetireGone, Return
<1>20. ASSUME NEW p \in Callers, CancelLate(p) PROVE Still
  BY <1>20 DEF CancelLate, Return
<1>21. ASSUME NEW c \in Clients, CloseFail(c) PROVE Still
  BY <1>21 DEF CloseFail, Closers, Returning
<1>22. ASSUME NEW c \in Clients, BecomeUnfit(c) PROVE Still
  BY <1>22 DEF BecomeUnfit
<1>23. ASSUME KeepaliveStart PROVE Still
  BY <1>23 DEF KeepaliveStart, Expired, FitIdle
<1>24. ASSUME KeepaliveFinish PROVE Still
  BY <1>24 DEF KeepaliveFinish
<1>25. ASSUME CloseAll PROVE Still
  BY <1>25 DEF CloseAll, Tracked
<1>26. ASSUME CloseAllStart PROVE Still
  BY <1>26 DEF CloseAllStart, Closing, Tracked
<1>27. ASSUME CloseAllGathered PROVE Still
  BY <1>27 DEF CloseAllGathered
<1>28. ASSUME CloseAllRetry PROVE Still
  BY <1>28 DEF CloseAllRetry, Closing, Stalled, Tracked
<1>29. ASSUME CloseAllReap PROVE Still
  BY <1>29 DEF CloseAllReap, Tracked
<1>30. ASSUME CloseAllFinish PROVE Still
  BY <1>30 DEF CloseAllFinish
<1> QED BY <1>1, <1>2, <1>3, <1>4, <1>5, <1>6, <1>7, <1>8, <1>9, <1>10, <1>11, <1>12, <1>13,
   <1>14, <1>15, <1>16, <1>17, <1>18, <1>19, <1>20, <1>21, <1>22, <1>23, <1>24, <1>25, <1>26, <1>27,
   <1>28, <1>29, <1>30 DEF Next, Checkout, Create, Lease, Release, CloseClient, KeepaliveStep,
   CloseAllStep

\* A still step keeps the owners.
LEMMA ClaimStill ==
    ASSUME SessionOwnedOnce, Still
    PROVE  SessionOwnedOnce'
BY DEF SessionOwnedOnce, Still

\* An entry without a claim gets a session that nobody has claimed.
LEMMA ClaimTaken ==
    ASSUME SessionOwnedOnce, NEW c \in Tracked, claim[c] = NoSession, NEW s \in SessionIds,
           s \notin claims, NoSession \notin claims, Tracked' = Tracked, Creators' = Creators,
           claims' = claims \cup ({s} \ {NoSession}),
           claim \in [Clients -> SessionIds], claim' = [claim EXCEPT ![c] = s],
           \A p \in Creators : req'[p] = req[p]
    PROVE  SessionOwnedOnce'
<1>1. c \in Clients /\ claim'[c] = s /\ \A d \in Tracked \ {c} : claim'[d] = claim[d]
  BY DEF Tracked
<1>2. ASSUME NEW t \in claims'
      PROVE  \/ \E d \in Tracked : claim'[d] = t
             \/ \E p \in Creators : req'[p].session = t
  <2>1. CASE t = s
    BY <1>1, <2>1
  <2>2. CASE t \in claims
    <3>1. t # NoSession
      BY <2>2
    <3> QED BY <1>1, <2>2, <3>1 DEF SessionOwnedOnce
  <2> QED BY <1>2, <2>1, <2>2
<1>3. ASSUME NEW d \in Tracked, claim'[d] # NoSession
      PROVE  /\ claim'[d] \in claims'
             /\ \A e \in Tracked : claim'[e] = claim'[d] => e = d
             /\ \A p \in Creators : req'[p].session # claim'[d]
  BY <1>1, <1>3 DEF SessionOwnedOnce
<1>4. ASSUME NEW p \in Creators, req'[p].session # NoSession
      PROVE  /\ req'[p].session \in claims'
             /\ \A q \in Creators : req'[q].session = req'[p].session => q = p
  BY <1>4 DEF SessionOwnedOnce
<1> QED BY <1>2, <1>3, <1>4 DEF SessionOwnedOnce

\* An entry gives its claim up, or is gone.
LEMMA ClaimDropped ==
    ASSUME SessionOwnedOnce, NEW c \in Tracked,
           Tracked' \in {Tracked, Tracked \ {c}}, Creators' = Creators,
           claims' = claims \ {claim[c]}, NoSession \notin claims,
           claim'[c] = NoSession, \A d \in Tracked \ {c} : claim'[d] = claim[d],
           \A p \in Creators : req'[p] = req[p]
    PROVE  SessionOwnedOnce'
BY DEF SessionOwnedOnce, Tracked

\* A creator reserves a session, and gives it back when it failed.
LEMMA ClaimReserved ==
    ASSUME SessionOwnedOnce, NEW p \in Callers \ Creators, ~Claimed(p),
           Tracked' = Tracked, Creators' = Creators \cup {p}, UNCHANGED <<claim, req>>,
           claims' = claims \cup ({req[p].session} \ {NoSession})
    PROVE  SessionOwnedOnce'
BY DEF SessionOwnedOnce, Claimed

\* A creator that failed gives its session back.
LEMMA ClaimReturned ==
    ASSUME SessionOwnedOnce, NEW p \in Creators, NoSession \notin claims,
           Tracked' = Tracked, Creators' = Creators \ {p}, UNCHANGED claim,
           claims' = claims \ {req[p].session}, \A q \in Creators \ {p} : req'[q] = req[q]
    PROVE  SessionOwnedOnce'
BY DEF SessionOwnedOnce

\* The creator hands its session to the entry it has made, which may have
\* claimed one of its own when the creator had none.
LEMMA ClaimPassed ==
    ASSUME SessionOwnedOnce, NEW p \in Creators, NEW c \in Clients \ Tracked, NEW s \in SessionIds,
           NoSession \notin claims, Tracked' = Tracked \cup {c}, Creators' = Creators \ {p},
           UNCHANGED req,
           claim \in [Clients -> SessionIds], claim' = [claim EXCEPT ![c] = s],
           \/ s = req[p].session /\ claims' = claims
           \/ req[p].session = NoSession /\ s \notin claims /\ claims' = claims \cup ({s} \ {NoSession})
    PROVE  SessionOwnedOnce'
<1>0. Tracked \subseteq Clients
  BY DEF Tracked
<1>1. /\ claim'[c] = s /\ \A d \in Tracked : claim'[d] = claim[d]
      /\ \A d \in Tracked' : d # c => d \in Tracked
  BY <1>0
<1>2. ASSUME NEW t \in claims'
      PROVE  \/ \E d \in Tracked' : claim'[d] = t
             \/ \E q \in Creators' : req[q].session = t
  <2>1. CASE t = s
    BY <1>1, <2>1
  <2>2. CASE t \in claims /\ t # s
    <3>1. t # req[p].session
      BY <2>2
    <3> QED BY <1>1, <2>2, <3>1 DEF SessionOwnedOnce
  <2> QED BY <1>2, <2>1, <2>2
<1>3. ASSUME NEW d \in Tracked', claim'[d] # NoSession
      PROVE  /\ claim'[d] \in claims'
             /\ \A e \in Tracked' : claim'[e] = claim'[d] => e = d
             /\ \A q \in Creators' : req[q].session # claim'[d]
  <2>1. CASE d = c
    BY <1>1, <1>3, <2>1 DEF SessionOwnedOnce
  <2>2. CASE d # c
    BY <1>1, <1>3, <2>2 DEF SessionOwnedOnce
  <2> QED BY <2>1, <2>2
<1>4. ASSUME NEW q \in Creators', req[q].session # NoSession
      PROVE  /\ req[q].session \in claims'
             /\ \A r \in Creators' : req[r].session = req[q].session => r = q
  BY <1>4 DEF SessionOwnedOnce
<1> QED BY <1>2, <1>3, <1>4 DEF SessionOwnedOnce

\* What Prepare and Finalize do to a claim: they leave it, or they take a session
\* that nobody has claimed, for an entry that had none.
LEMMA PreparedClaim ==
    ASSUME NEW p, NEW c, NEW s, NEW entry, NEW claimed,
           Prepare(p, c, s, entry, claimed) \/ Finalize(p, c, s, entry, claimed)
    PROVE  \/ claim' = [claim EXCEPT ![c] = claimed] /\ claims' = claims
           \/ /\ claim' = [claim EXCEPT ![c] = s] /\ claims' = claims \cup ({s} \ {NoSession})
              /\ s \notin claims /\ claimed = NoSession /\ ~closed /\ entry = "leased"
<1>1. CASE Finalize(p, c, s, entry, claimed)
  BY <1>1 DEF Finalize, Refused, ToClaim
<1>2. CASE ~Finalize(p, c, s, entry, claimed)
  BY <1>2 DEF Prepare
<1> QED BY <1>1, <1>2

\* A claimed session keeps its one owner.
LEMMA ClaimKept ==
    ASSUME Own, SessionOwnedOnce, Next
    PROVE  SessionOwnedOnce'
<1>0. NoSession \notin claims /\ claims \subseteq Sessions
  BY Asked
<1>1. ASSUME NEW p \in Callers, CheckoutReuse(p) PROVE SessionOwnedOnce'
  <2>1. PICK c \in Candidates(p) : /\ Sweep({}, {c})
                                   /\ claim' = [claim EXCEPT ![c] = req[p].session]
    BY <1>1 DEF CheckoutReuse
  <2>2. c \in Clients /\ st[c] = "idle" /\ claim[c] = NoSession
    BY <2>1, CandidatesFit DEF Own, CapacityInv, TypeInv, EntryInv, FitIdle
  <2>3. Tracked' = Tracked /\ c \in Tracked
    BY <2>1, <2>2 DEF Sweep, Tracked, Expired
  <2>4. Creators' = Creators /\ req' = req
    BY <1>1, Typed DEF CheckoutReuse, Served, Runnable, Creators, CreatorPcs
  <2>5. req[p].session \notin claims /\ claims' = claims \cup ({req[p].session} \ {NoSession})
    BY <1>0, <1>1 DEF CheckoutReuse, Served, Claimed
  <2> QED BY <1>0, <2>1, <2>2, <2>3, <2>4, <2>5, ClaimTaken, Typed, Asked
<1>2. ASSUME NEW p \in Callers, CheckoutCreate(p) PROVE SessionOwnedOnce'
  <2>1. Tracked' = Tracked
    BY <1>2 DEF CheckoutCreate, Sweep, Tracked, Expired
  <2>2. Creators' = Creators \cup {p} /\ p \notin Creators
    BY <1>2, Typed DEF CheckoutCreate, Served, Runnable, Creators, CreatorPcs
  <2> QED BY <1>2, <2>1, <2>2, ClaimReserved DEF CheckoutCreate, Served
<1>3. ASSUME NEW p \in Callers, ConnectOk(p) PROVE SessionOwnedOnce'
  <2>1. PICK s \in ProviderSessions : Prepare(p, lease[p], s, "leased", req[p].session)
    BY <1>3 DEF ConnectOk
  <2>2. /\ lease[p] \in Clients \ Tracked /\ Tracked' = Tracked \cup {lease[p]}
        /\ p \in Creators
    BY <1>3, Starting, Typed DEF ConnectOk, Tracked, Creators, CreatorPcs
  <2>3. Creators' = Creators \ {p} /\ req' = req
    BY <1>3, Typed DEF ConnectOk, Prepare, Finalize, Creators, CreatorPcs
  <2> QED BY <1>0, <2>1, <2>2, <2>3, PreparedClaim, ClaimPassed, Typed, Asked
<1>4. ASSUME NEW p \in Callers, ConnectLate(p) PROVE SessionOwnedOnce'
  <2>1. /\ lease[p] \in Clients \ Tracked /\ Tracked' = Tracked \cup {lease[p]}
        /\ p \in Creators
    BY <1>4, Starting, Typed DEF ConnectLate, Closing, Tracked, Creators, CreatorPcs
  <2>2. Creators' = Creators \ {p} /\ UNCHANGED <<req, claims>>
    BY <1>4, Typed DEF ConnectLate, Creators, CreatorPcs
  <2> QED BY <1>0, <1>4, <2>1, <2>2, ClaimPassed, Typed, Asked DEF ConnectLate
<1>5. ASSUME NEW p \in Callers, CreateFailed(p) PROVE SessionOwnedOnce'
  <2>1. Tracked' = Tracked /\ claim' = claim /\ claims' = claims \ {req[p].session}
    BY <1>5 DEF CreateFailed, Tracked, clientVars
  <2>2. Creators' = Creators \ {p} /\ p \in Creators
    BY <1>5, ReturnCreators DEF CreateFailed, Own, CapacityInv, TypeInv, Creators, CreatorPcs
  <2>3. \A q \in Creators \ {p} : req'[q] = req[q]
    BY <1>5 DEF CreateFailed, Return, Creators
  <2> QED BY <1>0, <2>1, <2>2, <2>3, ClaimReturned
<1>6. ASSUME NEW p \in Callers, PingOk(p) \/ ResumeOk(p) \/ EnsureOk(p) PROVE SessionOwnedOnce'
  <2>1. PICK s \in SessionIds : \/ Prepare(p, lease[p], s, st[lease[p]], claim[lease[p]])
                                \/ Finalize(p, lease[p], s, st[lease[p]], claim[lease[p]])
    <3>1. lease[p] \in Clients
      BY <1>6, Typed DEF PingOk, ResumeOk, EnsureOk, HoldingPcs, PreparePcs
    <3> QED BY <1>6, <3>1, Typed, Asked DEF PingOk, ResumeOk, EnsureOk
  <2>2. lease[p] \in Clients /\ Tracked' = Tracked /\ req' = req
    BY <1>6, Typed DEF PingOk, ResumeOk, EnsureOk, HoldingPcs, PreparePcs, Tracked
  <2>3. Creators' = Creators
    BY <1>6, Typed DEF PingOk, ResumeOk, EnsureOk, Prepare, Finalize, Creators, CreatorPcs
  <2>4. CASE claim' = [claim EXCEPT ![lease[p]] = claim[lease[p]]] /\ claims' = claims
    <3>1. claim' = claim
      BY <2>4, Typed
    <3> QED BY <2>2, <2>3, <2>4, <3>1, ClaimStill DEF Still
  <2>5. CASE /\ claim' = [claim EXCEPT ![lease[p]] = s]
             /\ claims' = claims \cup ({s} \ {NoSession}) /\ s \notin claims
             /\ claim[lease[p]] = NoSession /\ st[lease[p]] = "leased"
    <3>1. lease[p] \in Tracked
      BY <2>2, <2>5 DEF Tracked
    <3> QED BY <1>0, <2>2, <2>3, <2>5, <3>1, ClaimTaken, Typed
  <2> QED BY <2>1, <2>4, <2>5, PreparedClaim
<1>7. ASSUME NEW p \in Callers, ReleaseIdle(p) PROVE SessionOwnedOnce'
  <2>1. lease[p] \in Clients /\ lease[p] \in Tracked /\ Tracked' = Tracked
    BY <1>7, Typed DEF ReleaseIdle, HoldingPcs, Tracked
  <2>2. Creators' = Creators
    BY <1>7, ReturnCreators DEF ReleaseIdle, Own, CapacityInv, TypeInv, Creators, CreatorPcs
  <2>3. /\ claims' = claims \ {claim[lease[p]]} /\ claim'[lease[p]] = NoSession
        /\ \A d \in Tracked \ {lease[p]} : claim'[d] = claim[d]
    BY <1>7, <2>1, Typed DEF ReleaseIdle, Tracked
  <2>4. \A q \in Creators : req'[q] = req[q]
    BY <1>7 DEF ReleaseIdle, Return, Creators, CreatorPcs
  <2> QED BY <1>0, <2>1, <2>2, <2>3, <2>4, ClaimDropped
<1>8. ASSUME NEW c \in Clients, CloseOk(c) PROVE SessionOwnedOnce'
  <2>1. Creators' = Creators /\ \A q \in Creators : req'[q] = req[q]
    BY <1>8 DEF CloseOk, Closers, Returning, Creators, CreatorPcs, ClosePcs
  <2>2. Tracked' = Tracked \ {c} /\ \A d \in Tracked \ {c} : claim'[d] = claim[d]
    BY <1>8, Typed DEF CloseOk, Tracked
  <2>3. claims' = claims \ {claim[c]} /\ claim'[c] = NoSession
    BY <1>8, Typed DEF CloseOk
  <2>4. CASE c \in Tracked
    BY <1>0, <2>1, <2>2, <2>3, <2>4, ClaimDropped
  <2>5. CASE c \notin Tracked
    <3>1. claim[c] = NoSession
      BY <2>5 DEF Own, EntryInv, Tracked
    <3>2. claims' = claims /\ Tracked' = Tracked
      BY <1>0, <2>2, <2>3, <2>5, <3>1
    <3> QED BY <2>1, <2>2, <2>5, <3>2, ClaimStill DEF Still
  <2> QED BY <2>4, <2>5
<1> QED BY <1>1, <1>2, <1>3, <1>4, <1>5, <1>6, <1>7, <1>8, StillSteps, ClaimStill

-----------------------------------------------------------------------------
(* The queue *)

Waiting == {p \in Callers : pc[p] = "waiting"}

\* The queue holds the callers that wait, once each.
QueueInv == Distinct(waiters) /\ Range(waiters) = Waiting

\* A step leaves the queue alone, adds its caller at the end or takes it out.
QueueMoves ==
    \/ waiters' = waiters /\ Waiting' = Waiting
    \/ \E p \in Callers \ Waiting : waiters' = Append(waiters, p) /\ Waiting' = Waiting \cup {p}
    \/ \E p \in Callers : waiters' = RemoveFirst(waiters, p) /\ Waiting' = Waiting \ {p}

\* What the steps do to the queue.
LEMMA QueueStep ==
    ASSUME Own, Next
    PROVE  QueueMoves
<1> USE Typed DEF QueueMoves, Waiting, LeaveQueue, CreatorPcs, PreparePcs, RetirePcs,
      ClosePcs, clientVars, processVars, queueVars, callerVars, closeVars
<1>1. ASSUME NEW p \in Callers, Acquire(p) PROVE QueueMoves
  BY <1>1 DEF Acquire
<1>2. ASSUME NEW p \in Callers, CheckoutClosed(p) PROVE QueueMoves
  BY <1>2 DEF CheckoutClosed, Runnable, Return
<1>3. ASSUME NEW p \in Callers, CheckoutBehind(p) PROVE QueueMoves
  <2>1. CASE pc[p] = "waiting"
    <3>1. waiters' = waiters /\ pc' = pc
      BY <1>3, <2>1, Typed DEF CheckoutBehind, Enqueue
    <3> QED BY <3>1 DEF QueueMoves, Waiting
  <2>2. CASE pc[p] # "waiting"
    <3>1. waiters' = Append(waiters, p) /\ pc' = [pc EXCEPT ![p] = "waiting"]
      BY <1>3, <2>2 DEF CheckoutBehind, Enqueue
    <3>2. p \in Callers \ Waiting /\ Waiting' = Waiting \cup {p}
      BY <2>2, <3>1, Typed DEF Waiting
    <3> QED BY <3>1, <3>2 DEF QueueMoves
  <2> QED BY <2>1, <2>2
<1>4. ASSUME NEW p \in Callers, CheckoutClaimed(p) PROVE QueueMoves
  <2>1. CASE pc[p] = "waiting"
    <3>1. waiters' = waiters /\ pc' = pc
      BY <1>4, <2>1, Typed DEF CheckoutClaimed, Enqueue
    <3> QED BY <3>1 DEF QueueMoves, Waiting
  <2>2. CASE pc[p] # "waiting"
    <3>1. waiters' = Append(waiters, p) /\ pc' = [pc EXCEPT ![p] = "waiting"]
      BY <1>4, <2>2 DEF CheckoutClaimed, Enqueue
    <3>2. p \in Callers \ Waiting /\ Waiting' = Waiting \cup {p}
      BY <2>2, <3>1, Typed DEF Waiting
    <3> QED BY <3>1, <3>2 DEF QueueMoves
  <2> QED BY <2>1, <2>2
<1>5. ASSUME NEW p \in Callers, CheckoutRebalance(p) PROVE QueueMoves
  <2>1. CASE pc[p] = "waiting"
    <3>1. waiters' = waiters /\ pc' = pc
      BY <1>5, <2>1, Typed DEF CheckoutRebalance, Enqueue
    <3> QED BY <3>1 DEF QueueMoves, Waiting
  <2>2. CASE pc[p] # "waiting"
    <3>1. waiters' = Append(waiters, p) /\ pc' = [pc EXCEPT ![p] = "waiting"]
      BY <1>5, <2>2 DEF CheckoutRebalance, Enqueue
    <3>2. p \in Callers \ Waiting /\ Waiting' = Waiting \cup {p}
      BY <2>2, <3>1, Typed DEF Waiting
    <3> QED BY <3>1, <3>2 DEF QueueMoves
  <2> QED BY <2>1, <2>2
<1>6. ASSUME NEW p \in Callers, CheckoutReuse(p) PROVE QueueMoves
  BY ZenonT(40), <1>6 DEF CheckoutReuse, Served, Runnable, Sweep, Expired, Stalled, FitIdle, Retirable,
     Candidates
<1>7. ASSUME NEW p \in Callers, CheckoutCreate(p) PROVE QueueMoves
  BY ZenonT(40), <1>7 DEF CheckoutCreate, Served, Runnable, Sweep, Expired, Stalled, Unused
<1>8. ASSUME NEW p \in Callers, AbandonWait(p) PROVE QueueMoves
  BY <1>8 DEF AbandonWait, Return
<1>9. ASSUME NEW p \in Callers, CancelCheckout(p) PROVE QueueMoves
  BY <1>9 DEF CancelCheckout, Return
<1>10. ASSUME NEW p \in Callers, ConnectOk(p) PROVE QueueMoves
  BY <1>10 DEF ConnectOk, Prepare, Finalize
<1>11. ASSUME NEW p \in Callers, ConnectLate(p) PROVE QueueMoves
  BY <1>11 DEF ConnectLate, Closing
<1>12. ASSUME NEW p \in Callers, ConnectFail(p) PROVE QueueMoves
  BY <1>12 DEF ConnectFail
<1>13. ASSUME NEW p \in Callers, CleanOk(p) PROVE QueueMoves
  BY <1>13 DEF CleanOk
<1>14. ASSUME NEW p \in Callers, CleanFail(p) PROVE QueueMoves
  BY <1>14 DEF CleanFail
<1>15. ASSUME NEW p \in Callers, Backoff(p) PROVE QueueMoves
  BY <1>15 DEF Backoff, Unused
<1>16. ASSUME NEW p \in Callers, CreateFailed(p) PROVE QueueMoves
  BY <1>16 DEF CreateFailed, Return
<1>17. ASSUME NEW p \in Callers, PingOk(p) PROVE QueueMoves
  BY <1>17 DEF PingOk, Prepare, Finalize
<1>18. ASSUME NEW p \in Callers, PingFail(p) PROVE QueueMoves
  BY <1>18 DEF PingFail
<1>19. ASSUME NEW p \in Callers, ResumeOk(p) PROVE QueueMoves
  BY <1>19 DEF ResumeOk, Finalize
<1>20. ASSUME NEW p \in Callers, EnsureOk(p) PROVE QueueMoves
  BY <1>20 DEF EnsureOk, Finalize
<1>21. ASSUME NEW p \in Callers, PrepareFail(p) PROVE QueueMoves
  BY <1>21 DEF PrepareFail
<1>22. ASSUME NEW p \in Callers, EndLease(p) PROVE QueueMoves
  BY <1>22 DEF EndLease
<1>23. ASSUME NEW p \in Callers, SwitchSession(p) PROVE QueueMoves
  BY <1>23 DEF SwitchSession
<1>24. ASSUME NEW p \in Callers, ReleaseGone(p) PROVE QueueMoves
  BY <1>24 DEF ReleaseGone, Return
<1>25. ASSUME NEW p \in Callers, ReleaseClose(p) PROVE QueueMoves
  BY <1>25 DEF ReleaseClose, Closing
<1>26. ASSUME NEW p \in Callers, ReleaseIdle(p) PROVE QueueMoves
  BY <1>26 DEF ReleaseIdle, Return
<1>27. ASSUME NEW p \in Callers, Retire(p) PROVE QueueMoves
  BY <1>27 DEF Retire, Closing
<1>28. ASSUME NEW p \in Callers, RetireGone(p) PROVE QueueMoves
  BY <1>28 DEF RetireGone, Return
<1>29. ASSUME NEW p \in Callers, CancelLate(p) PROVE QueueMoves
  BY <1>29 DEF CancelLate, Return
<1>30. ASSUME NEW c \in Clients, CloseOk(c) PROVE QueueMoves
  BY <1>30 DEF CloseOk, Closers, Returning
<1>31. ASSUME NEW c \in Clients, CloseFail(c) PROVE QueueMoves
  BY <1>31 DEF CloseFail, Closers, Returning
<1>32. ASSUME NEW c \in Clients, BecomeUnfit(c) PROVE QueueMoves
  BY <1>32 DEF BecomeUnfit
<1>33. ASSUME KeepaliveStart PROVE QueueMoves
  BY <1>33 DEF KeepaliveStart, Expired, FitIdle
<1>34. ASSUME KeepaliveFinish PROVE QueueMoves
  BY <1>34 DEF KeepaliveFinish
<1>35. ASSUME CloseAll PROVE QueueMoves
  BY <1>35 DEF CloseAll, Tracked
<1>36. ASSUME CloseAllStart PROVE QueueMoves
  BY <1>36 DEF CloseAllStart, Closing, Tracked
<1>37. ASSUME CloseAllGathered PROVE QueueMoves
  BY <1>37 DEF CloseAllGathered
<1>38. ASSUME CloseAllRetry PROVE QueueMoves
  BY <1>38 DEF CloseAllRetry, Closing, Stalled, Tracked
<1>39. ASSUME CloseAllReap PROVE QueueMoves
  BY <1>39 DEF CloseAllReap, Tracked
<1>40. ASSUME CloseAllFinish PROVE QueueMoves
  BY <1>40 DEF CloseAllFinish
<1> QED BY <1>1, <1>2, <1>3, <1>4, <1>5, <1>6, <1>7, <1>8, <1>9, <1>10, <1>11, <1>12, <1>13,
   <1>14, <1>15, <1>16, <1>17, <1>18, <1>19, <1>20, <1>21, <1>22, <1>23, <1>24, <1>25, <1>26, <1>27,
   <1>28, <1>29, <1>30, <1>31, <1>32, <1>33, <1>34, <1>35, <1>36, <1>37, <1>38, <1>39, <1>40 DEF
   Next, Checkout, Create, Lease, Release, CloseClient, KeepaliveStep, CloseAllStep

\* The queue keeps holding the callers that wait.
LEMMA QueueKept ==
    ASSUME Own, QueueInv, Next
    PROVE  QueueInv'
<1>1. waiters \in Seq(Callers)
  BY DEF Own, CapacityInv, TypeInv, QueueTypes
<1>2. CASE waiters' = waiters /\ Waiting' = Waiting
  BY <1>2 DEF QueueInv, Distinct
<1>3. ASSUME NEW p \in Callers \ Waiting, waiters' = Append(waiters, p), Waiting' = Waiting \cup {p}
      PROVE  QueueInv'
  <2>1. Distinct(Append(waiters, p)) /\ Range(Append(waiters, p)) = Range(waiters) \cup {p}
    BY <1>1, AppendKeeps DEF QueueInv
  <2> QED BY <1>3, <2>1 DEF QueueInv, Distinct
<1>4. ASSUME NEW p \in Callers, waiters' = RemoveFirst(waiters, p), Waiting' = Waiting \ {p}
      PROVE  QueueInv'
  <2>1. Distinct(RemoveFirst(waiters, p)) /\ Range(RemoveFirst(waiters, p)) = Range(waiters) \ {p}
    BY <1>1, RemoveFirstKeeps DEF QueueInv
  <2> QED BY <1>4, <2>1 DEF QueueInv, Distinct
<1> QED BY <1>2, <1>3, <1>4, QueueStep DEF QueueMoves

\* What there is to be given becomes no more, and claims no fewer.
Scarcer ==
    /\ FitIdle' \subseteq FitIdle /\ \A c \in FitIdle' : sess'[c] = sess[c]
    /\ Occupied \subseteq Occupied' /\ creating' = creating /\ claims \subseteq claims'

\* Steps that wake the head, or give it nothing it waits for.
WakeMoves ==
    \/ closed'
    \/ waiters' # <<>> => Head(waiters') \in event'
    \/ Scarcer /\ UNCHANGED <<waiters, event>> /\ \A q \in Waiting : req'[q] = req[q]

\* Whatever returns capacity or a session wakes the head.
LEMMA WakeStep ==
    ASSUME Own, Next
    PROVE  WakeMoves \/ \E p \in Callers : CheckoutBehind(p) \/ CheckoutClaimed(p) \/ CheckoutRebalance(p)
<1> USE Typed, Starting DEF WakeMoves, Scarcer, FitIdle, Retirable, Occupied, Tracked,
      Waiting, WakeHead, HeadWoken, LeaveQueue, CreatorPcs, PreparePcs, RetirePcs, ClosePcs,
      clientVars, processVars, queueVars, callerVars, closeVars
<1>1. ASSUME NEW p \in Callers, Acquire(p) PROVE WakeMoves
  BY <1>1 DEF Acquire
<1>2. ASSUME NEW p \in Callers, CheckoutClosed(p) PROVE WakeMoves
  BY <1>2 DEF CheckoutClosed, Runnable, Return
<1>3. ASSUME NEW p \in Callers, CheckoutReuse(p) PROVE WakeMoves
  BY <1>3 DEF CheckoutReuse, Served, Runnable, Sweep, Expired, Stalled, FitIdle, Retirable,
     Candidates
<1>4. ASSUME NEW p \in Callers, CheckoutCreate(p) PROVE WakeMoves
  BY <1>4 DEF CheckoutCreate, Served, Runnable, Sweep, Expired, Stalled, Unused
<1>5. ASSUME NEW p \in Callers, AbandonWait(p) PROVE WakeMoves
  BY <1>5 DEF AbandonWait, Return
<1>6. ASSUME NEW p \in Callers, CancelCheckout(p) PROVE WakeMoves
  BY <1>6 DEF CancelCheckout, Return
<1>7. ASSUME NEW p \in Callers, ConnectOk(p) PROVE WakeMoves
  BY <1>7 DEF ConnectOk, Prepare, Finalize
<1>8. ASSUME NEW p \in Callers, ConnectLate(p) PROVE WakeMoves
  BY <1>8 DEF ConnectLate, Closing
<1>9. ASSUME NEW p \in Callers, ConnectFail(p) PROVE WakeMoves
  BY <1>9 DEF ConnectFail
<1>10. ASSUME NEW p \in Callers, CleanOk(p) PROVE WakeMoves
  BY <1>10 DEF CleanOk
<1>11. ASSUME NEW p \in Callers, CleanFail(p) PROVE WakeMoves
  BY <1>11 DEF CleanFail
<1>12. ASSUME NEW p \in Callers, Backoff(p) PROVE WakeMoves
  BY <1>12 DEF Backoff, Unused
<1>13. ASSUME NEW p \in Callers, CreateFailed(p) PROVE WakeMoves
  BY <1>13 DEF CreateFailed, Return
<1>14. ASSUME NEW p \in Callers, PingOk(p) PROVE WakeMoves
  BY <1>14 DEF PingOk, Prepare, Finalize
<1>15. ASSUME NEW p \in Callers, PingFail(p) PROVE WakeMoves
  BY <1>15 DEF PingFail
<1>16. ASSUME NEW p \in Callers, ResumeOk(p) PROVE WakeMoves
  <2>1. /\ UNCHANGED <<st, uses, unfit, unreaped, creating, waiters, event, req>>
        /\ claims \subseteq claims' /\ \A c \in Clients : c # lease[p] => sess'[c] = sess[c]
    BY <1>16, Typed DEF ResumeOk, Finalize, processVars, queueVars, clientVars
  <2>2. lease[p] \in Clients /\ lease[p] \notin FitIdle
    BY <1>16, Typed DEF ResumeOk, HoldingPcs, PreparePcs, Own, LeaseInv, FitIdle
  <2>3. FitIdle' = FitIdle /\ Occupied' = Occupied
    BY <2>1 DEF FitIdle, Retirable, Occupied, Tracked
  <2>4. \A c \in FitIdle' : sess'[c] = sess[c]
    BY <2>1, <2>2, <2>3 DEF FitIdle
  <2> QED BY <2>1, <2>3, <2>4 DEF WakeMoves, Scarcer
<1>17. ASSUME NEW p \in Callers, EnsureOk(p) PROVE WakeMoves
  <2>1. /\ UNCHANGED <<st, uses, unfit, unreaped, creating, waiters, event, req>>
        /\ claims \subseteq claims' /\ \A c \in Clients : c # lease[p] => sess'[c] = sess[c]
    BY <1>17, Typed DEF EnsureOk, Finalize, processVars, queueVars, clientVars
  <2>2. lease[p] \in Clients /\ lease[p] \notin FitIdle
    BY <1>17, Typed DEF EnsureOk, HoldingPcs, PreparePcs, Own, LeaseInv, FitIdle
  <2>3. FitIdle' = FitIdle /\ Occupied' = Occupied
    BY <2>1 DEF FitIdle, Retirable, Occupied, Tracked
  <2>4. \A c \in FitIdle' : sess'[c] = sess[c]
    BY <2>1, <2>2, <2>3 DEF FitIdle
  <2> QED BY <2>1, <2>3, <2>4 DEF WakeMoves, Scarcer
<1>18. ASSUME NEW p \in Callers, PrepareFail(p) PROVE WakeMoves
  BY <1>18 DEF PrepareFail
<1>19. ASSUME NEW p \in Callers, EndLease(p) PROVE WakeMoves
  BY <1>19 DEF EndLease
<1>20. ASSUME NEW p \in Callers, SwitchSession(p) PROVE WakeMoves
  BY <1>20 DEF SwitchSession
<1>21. ASSUME NEW p \in Callers, ReleaseGone(p) PROVE WakeMoves
  BY <1>21 DEF ReleaseGone, Return
<1>22. ASSUME NEW p \in Callers, ReleaseClose(p) PROVE WakeMoves
  BY <1>22 DEF ReleaseClose, Closing
<1>23. ASSUME NEW p \in Callers, ReleaseIdle(p) PROVE WakeMoves
  BY <1>23 DEF ReleaseIdle, Return
<1>24. ASSUME NEW p \in Callers, Retire(p) PROVE WakeMoves
  BY <1>24 DEF Retire, Closing
<1>25. ASSUME NEW p \in Callers, RetireGone(p) PROVE WakeMoves
  BY <1>25 DEF RetireGone, Return
<1>26. ASSUME NEW p \in Callers, CancelLate(p) PROVE WakeMoves
  BY <1>26 DEF CancelLate, Return
<1>27. ASSUME NEW c \in Clients, CloseOk(c) PROVE WakeMoves
  BY <1>27 DEF CloseOk, Closers, Returning
<1>28. ASSUME NEW c \in Clients, CloseFail(c) PROVE WakeMoves
  BY <1>28 DEF CloseFail, Closers, Returning
<1>29. ASSUME NEW c \in Clients, BecomeUnfit(c) PROVE WakeMoves
  BY <1>29 DEF BecomeUnfit
<1>30. ASSUME KeepaliveStart PROVE WakeMoves
  BY <1>30 DEF KeepaliveStart, Expired, FitIdle
<1>31. ASSUME KeepaliveFinish PROVE WakeMoves
  BY <1>31 DEF KeepaliveFinish
<1>32. ASSUME CloseAll PROVE WakeMoves
  BY <1>32 DEF CloseAll, Tracked
<1>33. ASSUME CloseAllStart PROVE WakeMoves
  BY <1>33 DEF CloseAllStart, Closing, Tracked
<1>34. ASSUME CloseAllGathered PROVE WakeMoves
  BY <1>34 DEF CloseAllGathered
<1>35. ASSUME CloseAllRetry PROVE WakeMoves
  BY <1>35 DEF CloseAllRetry, Closing, Stalled, Tracked
<1>36. ASSUME CloseAllReap PROVE WakeMoves
  BY <1>36 DEF CloseAllReap, Tracked
<1>37. ASSUME CloseAllFinish PROVE WakeMoves
  BY <1>37 DEF CloseAllFinish
<1> QED BY <1>1, <1>2, <1>3, <1>4, <1>5, <1>6, <1>7, <1>8, <1>9, <1>10, <1>11, <1>12, <1>13,
   <1>14, <1>15, <1>16, <1>17, <1>18, <1>19, <1>20, <1>21, <1>22, <1>23, <1>24, <1>25, <1>26, <1>27,
   <1>28, <1>29, <1>30, <1>31, <1>32, <1>33, <1>34, <1>35, <1>36, <1>37 DEF Next, Checkout, Create,
   Lease, Release, CloseClient, KeepaliveStep, CloseAllStep

-----------------------------------------------------------------------------
(* Shutdown *)

\* A shutdown that succeeded left nothing, and one that began woke every waiter.
ShutInv ==
    /\ ca = "done" => Tracked = {} /\ unreaped = {} /\ Creators = {}
    /\ closed => Waiting \subseteq event

ClosedStays == (closed <=> ca # "open")' /\ (closed => closed')

\* The pool is closed from the first close_all() on.
LEMMA ClosedKept ==
    ASSUME closed <=> ca # "open", Next
    PROVE  ClosedStays
<1> USE DEF ClosedStays, clientVars, processVars, queueVars, callerVars, closeVars
<1>1. ASSUME NEW p \in Callers, Acquire(p) \/ CheckoutClosed(p) \/ CheckoutBehind(p) \/
             CheckoutClaimed(p) \/ CheckoutRebalance(p) \/ CheckoutReuse(p) \/ CheckoutCreate(p) \/
             AbandonWait(p)
      PROVE  ClosedStays
  BY <1>1 DEF Acquire, CheckoutClosed, Runnable, Return, CheckoutBehind, Enqueue, Sweep,
     Expired, Stalled, CheckoutClaimed, CheckoutRebalance, Served, FitIdle, CheckoutReuse,
     Retirable, Candidates, CheckoutCreate, Unused, AbandonWait
<1>2. ASSUME NEW p \in Callers, CancelCheckout(p) \/ ConnectOk(p) \/ ConnectLate(p) \/
             ConnectFail(p) \/ CleanOk(p) \/ CleanFail(p) \/ Backoff(p) \/ CreateFailed(p)
      PROVE  ClosedStays
  BY <1>2 DEF CancelCheckout, Return, ConnectOk, Prepare, Finalize, ConnectLate, Closing,
     ConnectFail, CleanOk, CleanFail, Backoff, Unused, CreateFailed
<1>3. ASSUME NEW p \in Callers, PingOk(p) \/ PingFail(p) \/ ResumeOk(p) \/ EnsureOk(p)
             \/ PrepareFail(p) \/ EndLease(p) \/ SwitchSession(p) \/ ReleaseGone(p)
      PROVE  ClosedStays
  BY <1>3 DEF PingOk, Prepare, Finalize, PingFail, ResumeOk, EnsureOk, PrepareFail, EndLease,
     SwitchSession, ReleaseGone, Return
<1>4. ASSUME NEW p \in Callers, ReleaseClose(p) \/ ReleaseIdle(p) \/ Retire(p) \/
             RetireGone(p) \/ CancelLate(p)
      PROVE  ClosedStays
  BY <1>4 DEF ReleaseClose, Closing, ReleaseIdle, Return, Retire, RetireGone, CancelLate
<1>5. ASSUME NEW c \in Clients, CloseOk(c) \/ CloseFail(c) \/ BecomeUnfit(c)
      PROVE  ClosedStays
  BY <1>5 DEF CloseOk, Closers, Returning, CloseFail, BecomeUnfit
<1>6. ASSUME KeepaliveStart \/ KeepaliveFinish \/ CloseAll \/ CloseAllStart \/
             CloseAllGathered \/ CloseAllRetry \/ CloseAllReap \/ CloseAllFinish
      PROVE  ClosedStays
  BY <1>6 DEF KeepaliveStart, Expired, FitIdle, KeepaliveFinish, CloseAll, Tracked,
     CloseAllStart, Closing, CloseAllGathered, CloseAllRetry, Stalled, CloseAllReap, CloseAllFinish
<1> QED BY <1>1, <1>2, <1>3, <1>4, <1>5, <1>6 DEF Next, Checkout, Create, Lease, Release,
   CloseClient, KeepaliveStep, CloseAllStep

\* Nothing is reserved when the count says so.
LEMMA NothingReserved ==
    ASSUME Own, ~(Reserved > 0)
    PROVE  Tracked = {} /\ unreaped = {} /\ Creators = {}
<1>1. /\ IsFiniteSet(Tracked \cup unreaped) /\ Cardinality(Tracked \cup unreaped) \in Nat
      /\ IsFiniteSet(Creators) /\ creating = Cardinality(Creators) /\ creating \in Nat
  BY OccupiedFinite, CreatorsFinite, FS_CardinalityType
  DEF Own, CapacityInv, TypeInv, Occupied, CreatingExact
<1>2. Cardinality(Tracked \cup unreaped) = 0 /\ Cardinality(Creators) = 0
  BY <1>1 DEF Reserved
<1> QED BY <1>1, <1>2, FS_EmptySet

\* Nothing comes back to a pool that is shut.
LEMMA ShutKept ==
    ASSUME Own, QueueInv, ShutInv, Next
    PROVE  ShutInv'
<1> USE Typed, Starting DEF Own, CapacityInv, TypeInv, PoolTypes, EntryInv, ShutInv, Waiting,
      Tracked, Creators, LeaveQueue, WakeHead, HeadWoken, HoldingPcs, CreatorPcs, PreparePcs,
      RetirePcs, ClosePcs, clientVars, processVars, queueVars, callerVars, closeVars
<1>1. ASSUME NEW p \in Callers, Acquire(p) PROVE ShutInv'
  BY <1>1 DEF Acquire
<1>2. ASSUME NEW p \in Callers, CheckoutClosed(p) PROVE ShutInv'
  BY <1>2 DEF CheckoutClosed, Runnable, Return
<1>3. ASSUME NEW p \in Callers, CheckoutBehind(p) PROVE ShutInv'
  BY <1>3 DEF CheckoutBehind, Runnable, Enqueue, Sweep, Expired, Stalled
<1>4. ASSUME NEW p \in Callers, CheckoutClaimed(p) PROVE ShutInv'
  BY <1>4 DEF CheckoutClaimed, Runnable, Enqueue, Sweep, Expired, Stalled
<1>5. ASSUME NEW p \in Callers, CheckoutRebalance(p) PROVE ShutInv'
  BY <1>5 DEF CheckoutRebalance, Served, Runnable, Enqueue, Sweep, Expired, Stalled, FitIdle
<1>6. ASSUME NEW p \in Callers, CheckoutReuse(p) PROVE ShutInv'
  BY <1>6 DEF CheckoutReuse, Served, Runnable, Sweep, Expired, Stalled, FitIdle, Retirable,
     Candidates
<1>7. ASSUME NEW p \in Callers, CheckoutCreate(p) PROVE ShutInv'
  BY <1>7 DEF CheckoutCreate, Served, Runnable, Sweep, Expired, Stalled, Unused
<1>8. ASSUME NEW p \in Callers, AbandonWait(p) PROVE ShutInv'
  BY <1>8 DEF AbandonWait, Return
<1>9. ASSUME NEW p \in Callers, CancelCheckout(p) PROVE ShutInv'
  BY <1>9 DEF CancelCheckout, Return
<1>10. ASSUME NEW p \in Callers, ConnectOk(p) PROVE ShutInv'
  BY <1>10 DEF ConnectOk, Prepare, Finalize
<1>11. ASSUME NEW p \in Callers, ConnectLate(p) PROVE ShutInv'
  BY <1>11 DEF ConnectLate, Closing
<1>12. ASSUME NEW p \in Callers, ConnectFail(p) PROVE ShutInv'
  BY <1>12 DEF ConnectFail
<1>13. ASSUME NEW p \in Callers, CleanOk(p) PROVE ShutInv'
  BY <1>13 DEF CleanOk
<1>14. ASSUME NEW p \in Callers, CleanFail(p) PROVE ShutInv'
  BY <1>14 DEF CleanFail
<1>15. ASSUME NEW p \in Callers, Backoff(p) PROVE ShutInv'
  BY <1>15 DEF Backoff, Unused
<1>16. ASSUME NEW p \in Callers, CreateFailed(p) PROVE ShutInv'
  BY <1>16 DEF CreateFailed, Return
<1>17. ASSUME NEW p \in Callers, PingOk(p) PROVE ShutInv'
  BY <1>17 DEF PingOk, Prepare, Finalize
<1>18. ASSUME NEW p \in Callers, PingFail(p) PROVE ShutInv'
  BY <1>18 DEF PingFail
<1>19. ASSUME NEW p \in Callers, ResumeOk(p) PROVE ShutInv'
  BY <1>19 DEF ResumeOk, Finalize
<1>20. ASSUME NEW p \in Callers, EnsureOk(p) PROVE ShutInv'
  BY <1>20 DEF EnsureOk, Finalize
<1>21. ASSUME NEW p \in Callers, PrepareFail(p) PROVE ShutInv'
  BY <1>21 DEF PrepareFail
<1>22. ASSUME NEW p \in Callers, EndLease(p) PROVE ShutInv'
  BY <1>22 DEF EndLease
<1>23. ASSUME NEW p \in Callers, SwitchSession(p) PROVE ShutInv'
  BY <1>23 DEF SwitchSession
<1>24. ASSUME NEW p \in Callers, ReleaseGone(p) PROVE ShutInv'
  BY <1>24 DEF ReleaseGone, Return
<1>25. ASSUME NEW p \in Callers, ReleaseClose(p) PROVE ShutInv'
  BY <1>25 DEF ReleaseClose, Closing
<1>26. ASSUME NEW p \in Callers, ReleaseIdle(p) PROVE ShutInv'
  BY <1>26 DEF ReleaseIdle, Return
<1>27. ASSUME NEW p \in Callers, Retire(p) PROVE ShutInv'
  BY <1>27 DEF Retire, Closing
<1>28. ASSUME NEW p \in Callers, RetireGone(p) PROVE ShutInv'
  BY <1>28 DEF RetireGone, Return
<1>29. ASSUME NEW p \in Callers, CancelLate(p) PROVE ShutInv'
  BY <1>29 DEF CancelLate, Return
<1>30. ASSUME NEW c \in Clients, CloseOk(c) PROVE ShutInv'
  BY <1>30 DEF CloseOk, Closers, Returning
<1>31. ASSUME NEW c \in Clients, CloseFail(c) PROVE ShutInv'
  BY <1>31 DEF CloseFail, Closers, Returning
<1>32. ASSUME NEW c \in Clients, BecomeUnfit(c) PROVE ShutInv'
  BY <1>32 DEF BecomeUnfit
<1>33. ASSUME KeepaliveStart PROVE ShutInv'
  BY <1>33 DEF KeepaliveStart, Expired, FitIdle
<1>34. ASSUME KeepaliveFinish PROVE ShutInv'
  BY <1>34 DEF KeepaliveFinish
<1>35. ASSUME CloseAll PROVE ShutInv'
  <2>1. ca' = "marked" /\ Waiting' = Waiting /\ event' = event \cup Range(waiters)
    BY <1>35 DEF CloseAll, Waiting, callerVars
  <2>2. Waiting \subseteq event'
    BY <2>1 DEF QueueInv
  <2> QED BY <2>1, <2>2 DEF ShutInv
<1>36. ASSUME CloseAllStart PROVE ShutInv'
  BY <1>36 DEF CloseAllStart, Closing, Tracked
<1>37. ASSUME CloseAllGathered PROVE ShutInv'
  BY <1>37 DEF CloseAllGathered
<1>38. ASSUME CloseAllRetry PROVE ShutInv'
  BY <1>38 DEF CloseAllRetry, Closing, Stalled, Tracked
<1>39. ASSUME CloseAllReap PROVE ShutInv'
  BY <1>39 DEF CloseAllReap, Tracked
<1>40. ASSUME CloseAllFinish PROVE ShutInv'
  <2>1. UNCHANGED <<st, unreaped, pc, event, closed>>
    BY <1>40 DEF CloseAllFinish, clientVars, processVars, queueVars, callerVars
  <2>2. CASE Reserved > 0
    <3>1. ca' # "done"
      BY <1>40, <2>2 DEF CloseAllFinish
    <3> QED BY <2>1, <3>1 DEF ShutInv, Waiting
  <2>3. CASE ~(Reserved > 0)
    <3>3. Tracked = {} /\ unreaped = {} /\ Creators = {}
      BY <2>3, NothingReserved
    <3> QED BY <2>1, <3>3 DEF ShutInv, Tracked, Creators, Waiting
  <2> QED BY <2>2, <2>3
<1> QED BY <1>1, <1>2, <1>3, <1>4, <1>5, <1>6, <1>7, <1>8, <1>9, <1>10, <1>11, <1>12, <1>13,
   <1>14, <1>15, <1>16, <1>17, <1>18, <1>19, <1>20, <1>21, <1>22, <1>23, <1>24, <1>25, <1>26, <1>27,
   <1>28, <1>29, <1>30, <1>31, <1>32, <1>33, <1>34, <1>35, <1>36, <1>37, <1>38, <1>39, <1>40 DEF
   Next, Checkout, Create, Lease, Release, CloseClient, KeepaliveStep, CloseAllStep

-----------------------------------------------------------------------------
(* Preparing a client *)

\* A client that is prepared is claimed for the session that was asked for; only
\* a request for a session resumes one, and only a request for none makes one,
\* on a reused client only when it was bound to none.
PrepareInv ==
    \A p \in Callers :
        /\ pc[p] \in PreparePcs /\ st[lease[p]] = "leased" => claim[lease[p]] = req[p].session
        /\ pc[p] = "resuming" => req[p].session # NoSession
        /\ pc[p] = "ensuring" => req[p].session = NoSession
        /\ /\ pc[p] \in {"pinging", "ensuring"} /\ req[p].session = NoSession
           /\ uses[lease[p]] > 1
           => sess[lease[p]] = NoSession

\* Preparing a client keeps to the request.
LEMMA PrepareKept ==
    ASSUME Own, PrepareInv, Next
    PROVE  PrepareInv'
<1> USE Typed, Starting DEF Own, LeaseInv, EntryInv, PrepareInv, HoldingPcs, CreatorPcs,
      PreparePcs, RetirePcs, ClosePcs, clientVars, processVars, queueVars, callerVars, closeVars
<1>1. ASSUME NEW p \in Callers, Acquire(p) PROVE PrepareInv'
  BY <1>1 DEF Acquire
<1>2. ASSUME NEW p \in Callers, CheckoutClosed(p) PROVE PrepareInv'
  BY <1>2 DEF CheckoutClosed, Runnable, Return
<1>3. ASSUME NEW p \in Callers, CheckoutBehind(p) PROVE PrepareInv'
  BY <1>3 DEF CheckoutBehind, Runnable, Enqueue, Sweep, Expired, Stalled
<1>4. ASSUME NEW p \in Callers, CheckoutClaimed(p) PROVE PrepareInv'
  BY <1>4 DEF CheckoutClaimed, Runnable, Enqueue, Sweep, Expired, Stalled
<1>5. ASSUME NEW p \in Callers, CheckoutRebalance(p) PROVE PrepareInv'
  BY <1>5 DEF CheckoutRebalance, Served, Runnable, Enqueue, Sweep, Expired, Stalled, FitIdle
<1>6. ASSUME NEW p \in Callers, CheckoutReuse(p) PROVE PrepareInv'
  BY <1>6 DEF CheckoutReuse, Served, Runnable, Sweep, Expired, Stalled, FitIdle, Retirable,
     Candidates
<1>7. ASSUME NEW p \in Callers, CheckoutCreate(p) PROVE PrepareInv'
  BY <1>7 DEF CheckoutCreate, Served, Runnable, Sweep, Expired, Stalled, Unused
<1>8. ASSUME NEW p \in Callers, AbandonWait(p) PROVE PrepareInv'
  BY <1>8 DEF AbandonWait, Return
<1>9. ASSUME NEW p \in Callers, CancelCheckout(p) PROVE PrepareInv'
  BY <1>9 DEF CancelCheckout, Return
<1>10. ASSUME NEW p \in Callers, ConnectOk(p) PROVE PrepareInv'
  BY <1>10 DEF ConnectOk, Prepare, Finalize
<1>11. ASSUME NEW p \in Callers, ConnectLate(p) PROVE PrepareInv'
  BY <1>11 DEF ConnectLate, Closing
<1>12. ASSUME NEW p \in Callers, ConnectFail(p) PROVE PrepareInv'
  BY <1>12 DEF ConnectFail
<1>13. ASSUME NEW p \in Callers, CleanOk(p) PROVE PrepareInv'
  BY <1>13 DEF CleanOk
<1>14. ASSUME NEW p \in Callers, CleanFail(p) PROVE PrepareInv'
  BY <1>14 DEF CleanFail
<1>15. ASSUME NEW p \in Callers, Backoff(p) PROVE PrepareInv'
  BY <1>15 DEF Backoff, Unused
<1>16. ASSUME NEW p \in Callers, CreateFailed(p) PROVE PrepareInv'
  BY <1>16 DEF CreateFailed, Return
<1>17. ASSUME NEW p \in Callers, PingOk(p) PROVE PrepareInv'
  BY <1>17 DEF PingOk, Prepare, Finalize
<1>18. ASSUME NEW p \in Callers, PingFail(p) PROVE PrepareInv'
  BY <1>18 DEF PingFail
<1>19. ASSUME NEW p \in Callers, ResumeOk(p) PROVE PrepareInv'
  BY <1>19 DEF ResumeOk, Finalize
<1>20. ASSUME NEW p \in Callers, EnsureOk(p) PROVE PrepareInv'
  BY <1>20 DEF EnsureOk, Finalize
<1>21. ASSUME NEW p \in Callers, PrepareFail(p) PROVE PrepareInv'
  BY <1>21 DEF PrepareFail
<1>22. ASSUME NEW p \in Callers, EndLease(p) PROVE PrepareInv'
  BY <1>22 DEF EndLease
<1>23. ASSUME NEW p \in Callers, SwitchSession(p) PROVE PrepareInv'
  BY <1>23 DEF SwitchSession
<1>24. ASSUME NEW p \in Callers, ReleaseGone(p) PROVE PrepareInv'
  BY <1>24 DEF ReleaseGone, Return
<1>25. ASSUME NEW p \in Callers, ReleaseClose(p) PROVE PrepareInv'
  BY <1>25 DEF ReleaseClose, Closing
<1>26. ASSUME NEW p \in Callers, ReleaseIdle(p) PROVE PrepareInv'
  BY <1>26 DEF ReleaseIdle, Return
<1>27. ASSUME NEW p \in Callers, Retire(p) PROVE PrepareInv'
  BY <1>27 DEF Retire, Closing
<1>28. ASSUME NEW p \in Callers, RetireGone(p) PROVE PrepareInv'
  BY <1>28 DEF RetireGone, Return
<1>29. ASSUME NEW p \in Callers, CancelLate(p) PROVE PrepareInv'
  BY <1>29 DEF CancelLate, Return
<1>30. ASSUME NEW c \in Clients, CloseOk(c) PROVE PrepareInv'
  BY <1>30 DEF CloseOk, Closers, Returning
<1>31. ASSUME NEW c \in Clients, CloseFail(c) PROVE PrepareInv'
  BY <1>31 DEF CloseFail, Closers, Returning
<1>32. ASSUME NEW c \in Clients, BecomeUnfit(c) PROVE PrepareInv'
  BY <1>32 DEF BecomeUnfit
<1>33. ASSUME KeepaliveStart PROVE PrepareInv'
  BY <1>33 DEF KeepaliveStart, Expired, FitIdle
<1>34. ASSUME KeepaliveFinish PROVE PrepareInv'
  BY <1>34 DEF KeepaliveFinish
<1>35. ASSUME CloseAll PROVE PrepareInv'
  BY <1>35 DEF CloseAll, Tracked
<1>36. ASSUME CloseAllStart PROVE PrepareInv'
  BY <1>36 DEF CloseAllStart, Closing, Tracked
<1>37. ASSUME CloseAllGathered PROVE PrepareInv'
  BY <1>37 DEF CloseAllGathered
<1>38. ASSUME CloseAllRetry PROVE PrepareInv'
  BY <1>38 DEF CloseAllRetry, Closing, Stalled, Tracked
<1>39. ASSUME CloseAllReap PROVE PrepareInv'
  BY <1>39 DEF CloseAllReap, Tracked
<1>40. ASSUME CloseAllFinish PROVE PrepareInv'
  BY <1>40 DEF CloseAllFinish
<1> QED BY <1>1, <1>2, <1>3, <1>4, <1>5, <1>6, <1>7, <1>8, <1>9, <1>10, <1>11, <1>12, <1>13,
   <1>14, <1>15, <1>16, <1>17, <1>18, <1>19, <1>20, <1>21, <1>22, <1>23, <1>24, <1>25, <1>26, <1>27,
   <1>28, <1>29, <1>30, <1>31, <1>32, <1>33, <1>34, <1>35, <1>36, <1>37, <1>38, <1>39, <1>40 DEF
   Next, Checkout, Create, Lease, Release, CloseClient, KeepaliveStep, CloseAllStep

-----------------------------------------------------------------------------
(* Wakeups *)

\* A caller that could be given nothing still cannot when there is no more to give.
LEMMA NothingStill ==
    ASSUME Own, TypeInv', Scarcer, NEW p, req'[p] = req[p],
           Claimed(p) \/ (Candidates(p) = {} /\ Reserved >= MaxConnections)
    PROVE  (Claimed(p) \/ (Candidates(p) = {} /\ Reserved >= MaxConnections))'
<1>1. CASE Claimed(p)
  BY <1>1 DEF Claimed, Scarcer
<1>2. CASE Candidates(p) = {} /\ Reserved >= MaxConnections
  <2>1. (Candidates(p) = {})'
    BY <1>2 DEF Candidates, Scarcer
  <2>2. /\ Cardinality(Occupied) \in Nat /\ Cardinality(Occupied') \in Nat
        /\ Cardinality(Occupied) <= Cardinality(Occupied')
    <3>1. IsFiniteSet(Occupied')
      BY OccupiedFinite, FiniteAssumption, FS_Subset DEF TypeInv, PoolTypes, Occupied, Tracked
    <3> QED BY <3>1, Fewer DEF Scarcer
  <2>3. creating \in Nat /\ creating' = creating /\ MaxConnections \in Nat
    BY LimitAssumption DEF Own, CapacityInv, TypeInv, PoolTypes, Scarcer
  <2>4. Reserved' >= Reserved /\ Reserved \in Nat /\ Reserved' \in Nat
    BY <2>2, <2>3 DEF Reserved, Occupied
  <2> QED BY <1>2, <2>1, <2>3, <2>4
<1> QED BY <1>1, <1>2

\* A checkout that waits takes nothing and gives nothing.
LEMMA WaitScarcer ==
    ASSUME Own, NEW p \in Callers,
           CheckoutBehind(p) \/ CheckoutClaimed(p) \/ CheckoutRebalance(p)
    PROVE  Scarcer /\ req' = req /\ claims' = claims /\ Enqueue(p)
<1>1. PICK victims \in SUBSET FitIdle : Sweep(victims, {})
  BY DEF CheckoutBehind, CheckoutClaimed, CheckoutRebalance
<1>2. /\ UNCHANGED <<sess, uses, unfit, unreaped, creating, claims>> /\ req' = req
      /\ Enqueue(p)
  BY DEF CheckoutBehind, CheckoutClaimed, CheckoutRebalance, Enqueue, processVars
<1>3. \A c \in Clients : /\ st'[c] = "idle" => st[c] = "idle"
                         /\ st[c] # "absent" => st'[c] # "absent"
  BY <1>1 DEF Sweep, Expired, FitIdle
<1>4. FitIdle' \subseteq FitIdle /\ Occupied \subseteq Occupied'
  BY <1>2, <1>3 DEF FitIdle, Retirable, Occupied, Tracked
<1> QED BY <1>2, <1>4 DEF Scarcer

\* The head of the queue is never left asleep beside something it could be given.
LEMMA WakeKept ==
    ASSUME Own, QueueInv, TypeInv', NoMissedWakeup, Next
    PROVE  NoMissedWakeup'
<1> SUFFICES ASSUME ~closed', waiters' # <<>>, Head(waiters') \notin event'
             PROVE  (\/ Claimed(Head(waiters))
                     \/ Candidates(Head(waiters)) = {} /\ Reserved >= MaxConnections)'
  BY DEF NoMissedWakeup
<1>0. waiters \in Seq(Callers) /\ ~closed
  BY ClosedKept DEF Own, CapacityInv, TypeInv, QueueTypes, ClosedStays
<1>1. CASE Scarcer /\ UNCHANGED <<waiters, event>> /\ \A q \in Waiting : req'[q] = req[q]
  <2>1. Head(waiters) \in Range(waiters)
    BY <1>0, <1>1 DEF Range
  <2>2. req'[Head(waiters)] = req[Head(waiters)]
    BY <1>1, <2>1 DEF QueueInv
  <2>3. \/ Claimed(Head(waiters))
        \/ Candidates(Head(waiters)) = {} /\ Reserved >= MaxConnections
    BY <1>0, <1>1 DEF NoMissedWakeup
  <2> QED BY <1>1, <2>2, <2>3, NothingStill
<1>2. ASSUME NEW p \in Callers, CheckoutBehind(p) PROVE waiters # <<>> /\ Head(waiters') = Head(waiters)
  <2>1. waiters # <<>> /\ (waiters' = waiters \/ waiters' = Append(waiters, p))
    BY <1>2 DEF CheckoutBehind, Behind, Enqueue
  <2> QED BY <1>0, <2>1
<1>3. ASSUME NEW p \in Callers, CheckoutClaimed(p) \/ CheckoutRebalance(p)
      PROVE  Head(waiters') = p
  <2>1. /\ waiters = <<>> \/ Head(waiters) = p
        /\ waiters' = waiters \/ waiters' = Append(waiters, p)
    BY <1>3 DEF CheckoutClaimed, CheckoutRebalance, Served, Behind, Enqueue
  <2> QED BY <1>0, <2>1
<1>4. ASSUME NEW p \in Callers, CheckoutBehind(p) \/ CheckoutClaimed(p) \/ CheckoutRebalance(p)
      PROVE  (\/ Claimed(Head(waiters))
              \/ Candidates(Head(waiters)) = {} /\ Reserved >= MaxConnections)'
  <2>1. Scarcer /\ req' = req
    BY <1>4, WaitScarcer
  <2>2. CASE CheckoutBehind(p)
    <3>1. event' = event
      BY <2>2 DEF CheckoutBehind
    <3>2. \/ Claimed(Head(waiters))
          \/ Candidates(Head(waiters)) = {} /\ Reserved >= MaxConnections
      BY <1>0, <1>2, <2>2, <3>1 DEF NoMissedWakeup
    <3> QED BY <1>2, <2>1, <2>2, <3>2, NothingStill
  <2>3. CASE CheckoutClaimed(p) \/ CheckoutRebalance(p)
    <3>1. Claimed(p) \/ (Candidates(p) = {} /\ Reserved >= MaxConnections)
      BY <2>3 DEF CheckoutClaimed, CheckoutRebalance
    <3> QED BY <1>3, <2>1, <2>3, <3>1, NothingStill
  <2> QED BY <1>4, <2>2, <2>3
<1> QED BY <1>1, <1>4, WakeStep DEF WakeMoves

-----------------------------------------------------------------------------
(* The theorems *)

PoolInv == Own /\ SessionOwnedOnce /\ QueueInv /\ ShutInv /\ PrepareInv /\ NoMissedWakeup

\* The invariant holds at first.
LEMMA PoolInit == Init => PoolInv
<1> SUFFICES ASSUME Init PROVE PoolInv
  OBVIOUS
<1>1. Own
  BY CapacityInit DEF Init, Own, LeaseInv, EntryInv, ClosePcs
<1>2. SessionOwnedOnce /\ ShutInv /\ PrepareInv /\ NoMissedWakeup
  BY DEF Init, SessionOwnedOnce, ShutInv, PrepareInv, NoMissedWakeup, Tracked, Creators,
         CreatorPcs, PreparePcs
<1>3. QueueInv
  BY DEF Init, QueueInv, Distinct, Range, Waiting
<1> QED BY <1>1, <1>2, <1>3 DEF PoolInv

\* A step that changes nothing keeps every invariant.
LEMMA PoolStutter == PoolInv /\ UNCHANGED vars => PoolInv'
<1> SUFFICES ASSUME PoolInv, UNCHANGED vars PROVE PoolInv'
  OBVIOUS
<1> USE DEF vars, clientVars, processVars, queueVars, callerVars, closeVars
<1>1. CapacityInv'
  BY CapacityStep DEF PoolInv, Own
<1>2. LeaseInv' /\ EntryInv' /\ (closed <=> ca # "open")'
  BY DEF PoolInv, Own, LeaseInv, EntryInv
<1>3. SessionOwnedOnce' /\ PrepareInv'
  BY DEF PoolInv, SessionOwnedOnce, PrepareInv, Tracked, Creators
<1>4. QueueInv' /\ ShutInv'
  BY DEF PoolInv, QueueInv, ShutInv, Waiting, Tracked, Creators, Distinct
<1>5. NoMissedWakeup'
  BY DEF PoolInv, NoMissedWakeup, Claimed, Candidates, FitIdle, Retirable, Reserved, Tracked
<1> QED BY <1>1, <1>2, <1>3, <1>4, <1>5 DEF PoolInv, Own

\* Every step keeps the invariant.
LEMMA PoolStep == PoolInv /\ [Next]_vars => PoolInv'
<1> SUFFICES ASSUME PoolInv, Next PROVE PoolInv'
  BY PoolStutter
<1>1. CapacityInv' /\ TypeInv'
  BY CapacityStep DEF PoolInv, Own, CapacityInv
<1>2. Own'
  BY <1>1, LeaseKept, EntryKept, ClosedKept DEF PoolInv, Own, ClosedStays
<1> QED BY <1>1, <1>2, ClaimKept, QueueKept, ShutKept, PrepareKept, WakeKept DEF PoolInv

\* The invariant holds always.
LEMMA PoolHolds == Spec => []PoolInv
BY PoolInit, PoolStep, PTL DEF Spec

\* A session is claimed exactly as long as one entry, or one creator that reserved
\* it, owns it: no session has two owners and no claim outlives its owner.
THEOREM SessionsOwned == Spec => []SessionOwnedOnce
<1>1. PoolInv => SessionOwnedOnce
  BY DEF PoolInv
<1> QED BY <1>1, PoolHolds, PTL

\* No capacity is stranded: a leased entry has a holder, a checked one a keepalive
\* cycle and a closing one a close task, or a close_all() about to start it.
THEOREM EntriesAttended == Spec => []EntryAttended
<1>1. PoolInv => EntryAttended
  BY DEF PoolInv, Own, EntryInv, EntryAttended, Holders
<1> QED BY <1>1, PoolHolds, PTL

\* No client is in two hands, and one that is idle or checked is in none.
THEOREM OneHand == Spec => []OneHolder
<1>1. ASSUME PoolInv, NEW c \in Clients PROVE Cardinality(Holders(c)) <= 1
  <2>1. CASE Holders(c) = {}
    BY <2>1, FS_EmptySet
  <2>2. ASSUME NEW p \in Holders(c) PROVE Cardinality(Holders(c)) <= 1
    <3>1. Holders(c) = {p}
      BY <1>1, ClientAssumption DEF Holders, PoolInv, Own, LeaseInv
    <3> QED BY <3>1, FS_Singleton
  <2> QED BY <2>1, <2>2
<1>2. ASSUME PoolInv, NEW c \in Clients, st[c] \in {"idle", "checking"} PROVE Holders(c) = {}
  BY <1>2, ClientAssumption DEF Holders, PoolInv, Own, LeaseInv
<1>3. PoolInv => OneHolder
  BY <1>1, <1>2 DEF OneHolder
<1> QED BY <1>3, PoolHolds, PTL

\* A close_all() that returned left no subprocess, nobody starting one, no claim
\* and no caller asleep in the queue.
THEOREM ShutdownComplete == Spec => []CloseAllComplete
<1>1. ASSUME PoolInv, ca = "done"
      PROVE  /\ live = {} /\ Creators = {} /\ claims = {}
             /\ \A p \in Callers : pc[p] = "waiting" => p \in event
  <2>1. Tracked = {} /\ unreaped = {} /\ Creators = {} /\ Waiting \subseteq event
    BY <1>1 DEF PoolInv, Own, ShutInv
  <2>2. claims = {}
    BY <1>1, <2>1 DEF PoolInv, SessionOwnedOnce
  <2>3. live = {}
    BY <1>1, <2>1, StartersHold DEF PoolInv, Own, CapacityInv, Occupied
  <2> QED BY <2>1, <2>2, <2>3 DEF Waiting
<1>2. PoolInv => CloseAllComplete
  BY <1>1 DEF CloseAllComplete
<1> QED BY <1>2, PoolHolds, PTL

\* No wakeup is missed: while the pool is open a head that sleeps has nothing it
\* could be given.
THEOREM HeadAwake == Spec => []NoMissedWakeup
<1>1. PoolInv => NoMissedWakeup
  BY DEF PoolInv
<1> QED BY <1>1, PoolHolds, PTL

\* The session that a lease was given for stays reserved for it alone.
THEOREM LeasesDiffer == Spec => []LeasedSessionsDiffer
<1>1. PoolInv => LeasedSessionsDiffer
  BY ClientAssumption
  DEF PoolInv, Own, LeaseInv, CapacityInv, TypeInv, CallerInv, HoldingPcs, SessionOwnedOnce,
      Tracked, LeasedSessionsDiffer
<1> QED BY <1>1, PoolHolds, PTL

\* A session stays claimed until its transport is idle again or is gone.
THEOREM ClaimsLast == Spec => ClaimOutlivesTransport
<1> DEFINE Lost(c) == claim[c] # NoSession /\ claim[c] \notin claims'
<1>1. ASSUME PoolInv, Next, NEW c \in Tracked, Lost(c)
      PROVE  st'[c] = "idle" \/ c \notin live'
  <2>0. /\ claim[c] \in claims /\ c \in Clients /\ \A d \in Tracked : claim[d] = claim[c] => d = c
        /\ \A p \in Creators : req[p].session # claim[c]
    BY <1>1 DEF PoolInv, SessionOwnedOnce, Tracked
  <2>1. CASE claims \subseteq claims'
    BY <1>1, <2>0, <2>1
  <2>2. ASSUME NEW p \in Callers,
               CheckoutReuse(p) \/ CheckoutCreate(p) \/ ConnectOk(p) \/ ConnectLate(p)
               \/ PingOk(p) \/ ResumeOk(p) \/ EnsureOk(p)
        PROVE  claims \subseteq claims'
    BY <2>2 DEF CheckoutReuse, CheckoutCreate, ConnectOk, ConnectLate, PingOk, ResumeOk,
                EnsureOk, Prepare, Finalize
  <2>3. ASSUME NEW p \in Callers, CreateFailed(p) PROVE FALSE
    <3>1. p \in Creators /\ claims' = claims \ {req[p].session}
      BY <2>3 DEF CreateFailed, Creators, CreatorPcs
    <3> QED BY <1>1, <2>0, <3>1
  <2>4. ASSUME NEW p \in Callers, ReleaseIdle(p) PROVE st'[c] = "idle"
    <3>1. lease[p] \in Tracked /\ claims' = claims \ {claim[lease[p]]} /\ st'[lease[p]] = "idle"
      BY <1>1, <2>4, Typed DEF ReleaseIdle, HoldingPcs, Tracked, PoolInv
    <3> QED BY <1>1, <2>0, <3>1
  <2>5. ASSUME NEW d \in Clients, CloseOk(d) PROVE c \notin live'
    <3>1. claims' = claims \ {claim[d]} /\ live' = live \ {d}
      BY <2>5 DEF CloseOk
    <3>2. CASE d \in Tracked
      BY <1>1, <2>0, <3>1, <3>2
    <3>3. CASE d \notin Tracked
      BY <1>1, <2>0, <3>1, <3>3 DEF PoolInv, Own, EntryInv, Tracked
    <3> QED BY <3>2, <3>3
  <2> QED BY <1>1, <2>1, <2>2, <2>3, <2>4, <2>5, StillSteps DEF PoolInv, Still
<1>2. PoolInv /\ [Next]_vars => [\A c \in Tracked : Lost(c) => st'[c] = "idle" \/ c \notin live']_vars
  BY <1>1
<1> QED BY <1>2, PoolHolds, PTL DEF Spec, ClaimOutlivesTransport

\* A caller gets its client when it is connected or prepared.
YieldedPrepared ==
    \A q \in Callers : Yields(q) => ConnectOk(q) \/ PingOk(q) \/ ResumeOk(q) \/ EnsureOk(q)

\* No other step gives a client to a caller.
LEMMA YieldSteps ==
    ASSUME Own, Next
    PROVE  YieldedPrepared
<1> USE Typed DEF YieldedPrepared, Yields, HoldingPcs, CreatorPcs, PreparePcs, RetirePcs,
      ClosePcs, clientVars, processVars, queueVars, callerVars, closeVars
<1>1. ASSUME NEW p \in Callers, Acquire(p) \/ CheckoutClosed(p) \/ CheckoutBehind(p) \/
             CheckoutClaimed(p) \/ CheckoutRebalance(p)
      PROVE  YieldedPrepared
  BY <1>1 DEF Acquire, CheckoutClosed, Runnable, Return, CheckoutBehind, Enqueue, Sweep,
     Expired, Stalled, CheckoutClaimed, CheckoutRebalance, Served, FitIdle
<1>2. ASSUME NEW p \in Callers, CheckoutReuse(p) \/ CheckoutCreate(p) \/ AbandonWait(p)
             \/ CancelCheckout(p)
      PROVE  YieldedPrepared
  BY <1>2 DEF CheckoutReuse, Served, Runnable, Sweep, Expired, Stalled, FitIdle, Retirable,
     Candidates, CheckoutCreate, Unused, AbandonWait, Return, CancelCheckout
<1>3. ASSUME NEW p \in Callers, ConnectOk(p)
      PROVE  YieldedPrepared
  <2>1. PICK s \in ProviderSessions : Prepare(p, lease[p], s, "leased", req[p].session)
    BY <1>3 DEF ConnectOk
  <2>2. \/ pc' = [pc EXCEPT ![p] = "resuming"] \/ pc' = [pc EXCEPT ![p] = "ensuring"]
        \/ pc' = [pc EXCEPT ![p] = "retire"] \/ pc' = [pc EXCEPT ![p] = "leased"]
    BY <2>1 DEF Prepare, Finalize
  <2>3. \A q \in Callers : q # p => pc'[q] = pc[q]
    BY <2>2
  <2> QED BY <1>3, <2>3 DEF YieldedPrepared, Yields
<1>4. ASSUME NEW p \in Callers, ConnectLate(p) \/ ConnectFail(p) \/ CleanOk(p) \/
             CleanFail(p) \/ Backoff(p)
      PROVE  YieldedPrepared
  BY <1>4 DEF ConnectLate, Closing, ConnectFail, CleanOk, CleanFail, Backoff, Unused
<1>5. ASSUME NEW p \in Callers, CreateFailed(p) \/ PingOk(p) \/ PingFail(p) \/
             ResumeOk(p) \/ EnsureOk(p)
      PROVE  YieldedPrepared
  BY <1>5 DEF CreateFailed, Return, PingOk, Prepare, Finalize, PingFail, ResumeOk, EnsureOk
<1>6. ASSUME NEW p \in Callers, PrepareFail(p) \/ EndLease(p) \/ SwitchSession(p) \/
             ReleaseGone(p) \/ ReleaseClose(p)
      PROVE  YieldedPrepared
  BY <1>6 DEF PrepareFail, EndLease, SwitchSession, ReleaseGone, Return, ReleaseClose, Closing
<1>7. ASSUME NEW p \in Callers, ReleaseIdle(p) \/ Retire(p) \/ RetireGone(p) \/
             CancelLate(p)
      PROVE  YieldedPrepared
  BY <1>7 DEF ReleaseIdle, Return, Retire, Closing, RetireGone, CancelLate
<1>8. ASSUME NEW c \in Clients, CloseOk(c) \/ CloseFail(c) \/ BecomeUnfit(c)
      PROVE  YieldedPrepared
  BY <1>8 DEF CloseOk, Closers, Returning, CloseFail, BecomeUnfit
<1>9. ASSUME KeepaliveStart \/ KeepaliveFinish \/ CloseAll \/ CloseAllStart \/
             CloseAllGathered
      PROVE  YieldedPrepared
  BY <1>9 DEF KeepaliveStart, Expired, FitIdle, KeepaliveFinish, CloseAll, Tracked,
     CloseAllStart, Closing, CloseAllGathered
<1>10. ASSUME CloseAllRetry \/ CloseAllReap \/ CloseAllFinish
      PROVE  YieldedPrepared
  BY <1>10 DEF CloseAllRetry, Closing, Stalled, Tracked, CloseAllReap, CloseAllFinish
<1> QED BY <1>1, <1>2, <1>3, <1>4, <1>5, <1>6, <1>7, <1>8, <1>9, <1>10 DEF Next, Checkout,
   Create, Lease, Release, CloseClient, KeepaliveStep, CloseAllStep

\* A caller is served at the head of the queue, or when nobody waits.
ServedAtHead == \A q \in Callers : Starts(q) => ~Behind(q)

\* No step serves another caller.
LEMMA StartSteps ==
    ASSUME Own, Next
    PROVE  ServedAtHead
<1> USE Typed DEF ServedAtHead, Starts, HoldingPcs, CreatorPcs, PreparePcs, RetirePcs,
      ClosePcs, clientVars, processVars, queueVars, callerVars, closeVars
<1>1. ASSUME NEW p \in Callers, Acquire(p) \/ CheckoutClosed(p) \/ CheckoutBehind(p) \/
             CheckoutClaimed(p) \/ CheckoutRebalance(p)
      PROVE  ServedAtHead
  BY <1>1 DEF Acquire, CheckoutClosed, Runnable, Return, CheckoutBehind, Enqueue, Sweep,
     Expired, Stalled, CheckoutClaimed, CheckoutRebalance, Served, FitIdle
<1>2. ASSUME NEW p \in Callers, CheckoutReuse(p) \/ CheckoutCreate(p) \/ AbandonWait(p)
             \/ CancelCheckout(p) \/ ConnectOk(p)
      PROVE  ServedAtHead
  BY <1>2 DEF CheckoutReuse, Served, Runnable, Sweep, Expired, Stalled, FitIdle, Retirable,
     Candidates, CheckoutCreate, Unused, AbandonWait, Return, CancelCheckout, ConnectOk, Prepare,
     Finalize
<1>3. ASSUME NEW p \in Callers, ConnectLate(p) \/ ConnectFail(p) \/ CleanOk(p) \/
             CleanFail(p) \/ Backoff(p)
      PROVE  ServedAtHead
  BY <1>3 DEF ConnectLate, Closing, ConnectFail, CleanOk, CleanFail, Backoff, Unused
<1>4. ASSUME NEW p \in Callers, CreateFailed(p) \/ PingOk(p) \/ PingFail(p) \/
             ResumeOk(p) \/ EnsureOk(p)
      PROVE  ServedAtHead
  BY <1>4 DEF CreateFailed, Return, PingOk, Prepare, Finalize, PingFail, ResumeOk, EnsureOk
<1>5. ASSUME NEW p \in Callers, PrepareFail(p) \/ EndLease(p) \/ SwitchSession(p) \/
             ReleaseGone(p) \/ ReleaseClose(p)
      PROVE  ServedAtHead
  BY <1>5 DEF PrepareFail, EndLease, SwitchSession, ReleaseGone, Return, ReleaseClose, Closing
<1>6. ASSUME NEW p \in Callers, ReleaseIdle(p) \/ Retire(p) \/ RetireGone(p) \/
             CancelLate(p)
      PROVE  ServedAtHead
  BY <1>6 DEF ReleaseIdle, Return, Retire, Closing, RetireGone, CancelLate
<1>7. ASSUME NEW c \in Clients, CloseOk(c) \/ CloseFail(c) \/ BecomeUnfit(c)
      PROVE  ServedAtHead
  BY <1>7 DEF CloseOk, Closers, Returning, CloseFail, BecomeUnfit
<1>8. ASSUME KeepaliveStart \/ KeepaliveFinish \/ CloseAll \/ CloseAllStart \/
             CloseAllGathered
      PROVE  ServedAtHead
  BY <1>8 DEF KeepaliveStart, Expired, FitIdle, KeepaliveFinish, CloseAll, Tracked,
     CloseAllStart, Closing, CloseAllGathered
<1>9. ASSUME CloseAllRetry \/ CloseAllReap \/ CloseAllFinish
      PROVE  ServedAtHead
  BY <1>9 DEF CloseAllRetry, Closing, Stalled, Tracked, CloseAllReap, CloseAllFinish
<1> QED BY <1>1, <1>2, <1>3, <1>4, <1>5, <1>6, <1>7, <1>8, <1>9 DEF Next, Checkout, Create,
   Lease, Release, CloseClient, KeepaliveStep, CloseAllStep

\* Callers are served in the order in which they queued, and a newcomer never
\* before anybody who waits.
THEOREM ServedInOrder == Spec => FifoService
<1>1. ASSUME PoolInv, Next, NEW p \in Callers, Starts(p), NEW q \in Range(waiters) \ {p}
      PROVE  Ahead(p, q)
  <2>1. waiters \in Seq(Callers) /\ waiters # <<>> /\ Head(waiters) = p
    BY <1>1, StartSteps DEF ServedAtHead, PoolInv, Own, CapacityInv, TypeInv, QueueTypes, Behind, Range
  <2>2. PICK j \in DOMAIN waiters : waiters[j] = q
    BY DEF Range
  <2>3. 1 \in DOMAIN waiters /\ waiters[1] = p /\ 1 < j
    BY <2>1, <2>2
  <2> QED BY <2>2, <2>3 DEF Ahead
<1>2. PoolInv /\ [Next]_vars =>
        [\A p \in Callers : Starts(p) => \A q \in Range(waiters) \ {p} : Ahead(p, q)]_vars
  BY <1>1
<1> QED BY <1>2, PoolHolds, PTL DEF Spec, FifoService

\* An anonymous request never receives a client that an earlier lease left bound
\* to a session.
THEOREM AnonymousIsolated == Spec => AnonymousIsolation
<1> DEFINE Reused(p) == Yields(p) /\ req[p].session = NoSession /\ uses[lease[p]] > 1
<1>1. ASSUME PoolInv, Next, NEW p \in Callers, Reused(p) PROVE sess[lease[p]] = NoSession
  <2>1. CASE ConnectOk(p)
    BY <1>1, <2>1, Starting DEF PoolInv, Own, EntryInv, ConnectOk
  <2>2. CASE PingOk(p) \/ ResumeOk(p) \/ EnsureOk(p)
    BY <1>1, <2>2 DEF PoolInv, PrepareInv, PingOk, ResumeOk, EnsureOk
  <2> QED BY <1>1, <2>1, <2>2, YieldSteps DEF YieldedPrepared, PoolInv
<1>2. PoolInv /\ [Next]_vars => [\A p \in Callers : Reused(p) => sess[lease[p]] = NoSession]_vars
  BY <1>1
<1> QED BY <1>2, PoolHolds, PTL DEF Spec, AnonymousIsolation

\* Once the pool is closed no caller is given a client.
THEOREM NoneAfterClose == Spec => NoLeaseAfterClose
<1>1. ASSUME PoolInv, Next, closed, NEW p \in Callers, Yields(p) PROVE FALSE
  BY <1>1, YieldSteps DEF YieldedPrepared, PoolInv, ConnectOk, PingOk, ResumeOk, EnsureOk, Prepare, Finalize,
     Refused, Yields, Own, CapacityInv, TypeInv, CallerInv, CallerTypes
<1>2. PoolInv /\ [Next]_vars => [closed => \A p \in Callers : ~Yields(p)]_vars
  BY <1>1
<1> QED BY <1>2, PoolHolds, PTL DEF Spec, NoLeaseAfterClose

\* A lease that is given for session s, found or made claimed as k, is of a live
\* entry whose claim is s.
LEMMA YieldClaims ==
    ASSUME NEW p \in Callers, NEW c \in Clients, NEW s \in SessionIds, NEW entry,
           NEW k \in SessionIds, Finalize(p, c, s, entry, k), pc'[p] = "leased",
           pc \in [Callers -> CallerPcs], claim \in [Clients -> SessionIds],
           s = NoSession => k = NoSession, k \in claims \cup {NoSession}
    PROVE  /\ entry = "leased" /\ claim'[c] = s /\ s \in claims' \cup {NoSession}
<1>1. ~Refused(s, entry, k) /\ claim' = [claim EXCEPT ![c] = IF ToClaim(s, k) = {} THEN k ELSE s]
      /\ claims' = claims \cup ToClaim(s, k)
  BY DEF Finalize
<1>2. entry = "leased" /\ (s \in {NoSession, k} \/ (k = NoSession /\ s \notin claims))
  BY <1>1 DEF Refused
<1>3. claim'[c] = IF ToClaim(s, k) = {} THEN k ELSE s
  BY <1>1
<1> QED BY <1>1, <1>2, <1>3 DEF ToClaim

\* A client is yielded bound to the session that was asked for, and whatever session
\* it is bound to is claimed for this lease first.
THEOREM YieldsMatch == Spec => YieldMatchesRequest
<1> DEFINE Match(p) ==
        /\ st'[lease'[p]] = "leased"
        /\ req[p].session # NoSession => sess'[lease'[p]] = req[p].session
        /\ sess'[lease'[p]] = claim'[lease'[p]]
        /\ sess'[lease'[p]] \in claims' \cup {NoSession}
<1>1. ASSUME PoolInv, Next, NEW p \in Callers, Yields(p) PROVE Match(p)
  <2>a. Own /\ SessionOwnedOnce /\ PrepareInv
    BY <1>1 DEF PoolInv
  <2>0. /\ req[p].session \in SessionIds /\ pc'[p] = "leased" /\ pc[p] # "leased"
        /\ ProviderSessions \subseteq SessionIds /\ ~("leased" \in {"resuming", "ensuring"})
    BY <1>1, <2>a, Asked DEF Yields
  <2>1. CASE ConnectOk(p)
    <3>1. PICK s \in ProviderSessions : /\ sess' = [sess EXCEPT ![lease[p]] = s]
                                        /\ Prepare(p, lease[p], s, "leased", req[p].session)
      BY <2>1 DEF ConnectOk
    <3>2. /\ lease' = lease /\ lease[p] \in Clients /\ st'[lease[p]] = "leased"
          /\ sess'[lease[p]] = s
      BY <2>a, <2>1, <3>1, Typed DEF ConnectOk, HoldingPcs
    <3>3. /\ Finalize(p, lease[p], s, "leased", req[p].session)
          /\ req[p].session # NoSession => s = req[p].session
          /\ req[p].session = NoSession => s # NoSession
      BY <2>a, <2>0, <3>1, Typed DEF Prepare
    <3>4. req[p].session \in claims \cup {NoSession}
      BY <2>a, <2>1 DEF ConnectOk, SessionOwnedOnce, Creators, CreatorPcs
    <3>5. claim'[lease[p]] = s /\ s \in claims' \cup {NoSession}
      BY <2>a, <2>0, <3>2, <3>3, <3>4, Typed, YieldClaims
    <3> QED BY <3>2, <3>3, <3>5
  <2>2. ASSUME NEW s \in SessionIds, PingOk(p) \/ ResumeOk(p) \/ EnsureOk(p),
               Finalize(p, lease[p], s, st[lease[p]], claim[lease[p]]), sess'[lease[p]] = s,
               req[p].session # NoSession => s = req[p].session
        PROVE  Match(p)
    <3>1. /\ lease' = lease /\ lease[p] \in Clients /\ st' = st /\ pc[p] \in PreparePcs
          /\ claim[lease[p]] \in SessionIds
      BY <2>a, <2>2, Typed DEF PingOk, ResumeOk, EnsureOk, HoldingPcs, PreparePcs
    <3>2. st[lease[p]] = "leased"
      BY <2>a, <2>0, <2>2, <3>1, Typed DEF Finalize, Refused
    <3>3. claim[lease[p]] = req[p].session /\ lease[p] \in Tracked
      BY <2>a, <3>1, <3>2 DEF PrepareInv, Tracked
    <3>4. claim[lease[p]] \in claims \cup {NoSession}
      BY <2>a, <3>3 DEF SessionOwnedOnce
    <3>5. claim'[lease[p]] = s /\ s \in claims' \cup {NoSession}
      BY <2>a, <2>0, <2>2, <3>1, <3>3, <3>4, Typed, YieldClaims
    <3> QED BY <2>2, <3>1, <3>2, <3>5
  <2>3. CASE PingOk(p)
    <3>1. /\ Prepare(p, lease[p], sess[lease[p]], st[lease[p]], claim[lease[p]])
          /\ sess' = sess /\ sess[lease[p]] \in SessionIds
      BY <2>a, <2>3, Typed DEF PingOk, HoldingPcs, PreparePcs
    <3>2. /\ Finalize(p, lease[p], sess[lease[p]], st[lease[p]], claim[lease[p]])
          /\ req[p].session # NoSession => sess[lease[p]] = req[p].session
      BY <2>a, <2>0, <3>1, Typed DEF Prepare
    <3> QED BY <2>2, <2>3, <3>1, <3>2
  <2>4. CASE ResumeOk(p)
    BY <2>a, <2>0, <2>2, <2>4, Typed DEF ResumeOk, HoldingPcs, PreparePcs
  <2>5. CASE EnsureOk(p)
    <3>1. PICK s \in ProviderSessions :
             /\ sess' = [sess EXCEPT ![lease[p]] = s]
             /\ Finalize(p, lease[p], s, st[lease[p]], claim[lease[p]])
      BY <2>5 DEF EnsureOk
    <3>2. s \in SessionIds /\ sess'[lease[p]] = s /\ req[p].session = NoSession
      BY <2>a, <2>0, <2>5, <3>1, Typed DEF EnsureOk, HoldingPcs, PreparePcs, PrepareInv
    <3> QED BY <2>2, <2>5, <3>1, <3>2
  <2> QED BY <1>1, <2>a, <2>1, <2>3, <2>4, <2>5, YieldSteps DEF YieldedPrepared
<1>2. PoolInv /\ [Next]_vars => [\A p \in Callers : Yields(p) => Match(p)]_vars
  BY <1>1
<1> QED BY <1>2, PoolHolds, PTL DEF Spec, YieldMatchesRequest

-----------------------------------------------------------------------------
(* Pool implements SessionLease *)

\* Who has session s: the creator that reserved it, or the user of its entry.
UserPcs == PreparePcs \cup {"leased", "releasing"}
Creates(p, s) == pc[p] \in CreatorPcs /\ req[p].session = s
Uses(p, s) == /\ lease[p] \in Clients /\ st[lease[p]] = "leased" /\ claim[lease[p]] = s
              /\ pc[p] \in UserPcs

Leased == Own /\ SessionOwnedOnce

\* The users of a session are what the mapping calls its holders.
LEMMA HoldersAre ==
    ASSUME NEW s \in Sessions
    PROVE  HoldersOf(s) = {p \in Callers : Uses(p, s)}
BY DEF HoldersOf, EntryOf, Holders, HolderPcs, Tracked, Uses, UserPcs, PreparePcs, RetirePcs

\* A session has one creator or one user at most, and is claimed for it.
LEMMA OneOwner ==
    ASSUME Leased, NEW s \in Sessions, NEW p \in Callers, Creates(p, s) \/ Uses(p, s)
    PROVE  /\ s \in claims
           /\ \A q \in Callers : Creates(q, s) \/ Uses(q, s) => q = p
           /\ ~(Creates(p, s) /\ Uses(p, s))
<1>1. s # NoSession
  BY SessionAssumption
<1>2. \A q \in Callers : Creates(q, s) => q \in Creators /\ req[q].session = s
  BY DEF Creates, Creators
<1>3. \A q \in Callers : Uses(q, s) => lease[q] \in Tracked /\ claim[lease[q]] = s
  BY DEF Uses, Tracked
<1>4. s \in claims /\ \A q \in Callers : Creates(q, s) \/ Uses(q, s) => q = p
  <2>1. CASE Creates(p, s)
    BY <1>1, <1>2, <1>3, <2>1 DEF Leased, SessionOwnedOnce
  <2>2. CASE Uses(p, s)
    <3>1. s \in claims /\ \A q \in Callers : ~Creates(q, s)
      BY <1>1, <1>2, <1>3, <2>2 DEF Leased, SessionOwnedOnce
    <3>2. ASSUME NEW q \in Callers, Uses(q, s) PROVE q = p
      <4>1. lease[q] = lease[p] /\ lease[p] # NoClient
        BY <1>1, <1>3, <2>2, <3>2, ClientAssumption DEF Leased, SessionOwnedOnce, Uses
      <4> QED BY <4>1 DEF Leased, Own, LeaseInv
    <3> QED BY <3>1, <3>2
  <2> QED BY <2>1, <2>2
<1> QED BY <1>4 DEF Creates, Uses, UserPcs, CreatorPcs, PreparePcs

\* What the mapping makes of a session.
Phased ==
    \A s \in Sessions :
        /\ s \notin claims => LeasePhase[s] = "free" /\ LeaseHolder[s] = NoClient
        /\ \A p \in Callers : Creates(p, s) =>
              LeasePhase[s] = "reserved" /\ LeaseHolder[s] = p
        /\ \A p \in Callers : Uses(p, s) =>
              /\ LeasePhase[s] = IF pc[p] \in PreparePcs THEN "reserved" ELSE "leased"
              /\ LeaseHolder[s] = p
        /\ s \in claims /\ (\A p \in Callers : ~Creates(p, s) /\ ~Uses(p, s)) =>
              LeasePhase[s] = "draining" /\ LeaseHolder[s] = NoClient

\* The mapping says so, now and after every step.
LEMMA Phases == Leased => Phased
<1> SUFFICES ASSUME Leased, NEW s \in Sessions
             PROVE  /\ s \notin claims => LeasePhase[s] = "free" /\ LeaseHolder[s] = NoClient
                    /\ \A p \in Callers : Creates(p, s) =>
                          LeasePhase[s] = "reserved" /\ LeaseHolder[s] = p
                    /\ \A p \in Callers : Uses(p, s) =>
                          /\ LeasePhase[s] = IF pc[p] \in PreparePcs THEN "reserved" ELSE "leased"
                          /\ LeaseHolder[s] = p
                    /\ s \in claims /\ (\A p \in Callers : ~Creates(p, s) /\ ~Uses(p, s)) =>
                          LeasePhase[s] = "draining" /\ LeaseHolder[s] = NoClient
  BY DEF Phased
<1>1. /\ CreatorsOf(s) = {p \in Callers : Creates(p, s)}
      /\ HoldersOf(s) = {p \in Callers : Uses(p, s)}
  BY HoldersAre DEF CreatorsOf, Creators, Creates
<1>2. ASSUME s \notin claims PROVE LeasePhase[s] = "free" /\ LeaseHolder[s] = NoClient
  BY <1>2 DEF LeasePhase, LeaseHolder
<1>3. ASSUME NEW p \in Callers, Creates(p, s)
      PROVE  LeasePhase[s] = "reserved" /\ LeaseHolder[s] = p
  <2>1. s \in claims /\ p \in CreatorsOf(s) /\ CreatorsOf(s) \cup HoldersOf(s) = {p}
    BY <1>1, <1>3, OneOwner
  <2>2. (CHOOSE q \in Callers : q \in {p}) = p
    OBVIOUS
  <2> QED BY <2>1, <2>2 DEF LeasePhase, LeaseHolder
<1>4. ASSUME NEW p \in Callers, Uses(p, s)
      PROVE  /\ LeasePhase[s] = IF pc[p] \in PreparePcs THEN "reserved" ELSE "leased"
             /\ LeaseHolder[s] = p
  <2>1. /\ s \in claims /\ CreatorsOf(s) = {} /\ HoldersOf(s) = {p}
        /\ CreatorsOf(s) \cup HoldersOf(s) = {p}
    BY <1>1, <1>4, OneOwner
  <2>2. (CHOOSE q \in Callers : q \in {p}) = p
    OBVIOUS
  <2>3. LeasePhase[s] = IF pc[p] \in PreparePcs THEN "reserved" ELSE "leased"
    BY <2>1 DEF LeasePhase
  <2> QED BY <2>1, <2>2, <2>3 DEF LeaseHolder
<1>5. ASSUME s \in claims, \A p \in Callers : ~Creates(p, s) /\ ~Uses(p, s)
      PROVE  LeasePhase[s] = "draining" /\ LeaseHolder[s] = NoClient
  <2>1. CreatorsOf(s) = {} /\ HoldersOf(s) = {} /\ CreatorsOf(s) \cup HoldersOf(s) = {}
    BY <1>1, <1>5
  <2> QED BY <1>5, <2>1 DEF LeasePhase, LeaseHolder
<1> QED BY <1>2, <1>3, <1>4, <1>5

\* It still says so after a step.
LEMMA PhasesNext == Leased' => Phased'
BY Phases, PTL

\* A step that leaves alone who has session s leaves its phase alone.
Kept(s) ==
    /\ s \in claims' <=> s \in claims
    /\ \A p \in Callers :
          /\ Creates(p, s)' <=> Creates(p, s)
          /\ Uses(p, s)' <=> Uses(p, s)
          /\ Uses(p, s) => (pc'[p] \in PreparePcs <=> pc[p] \in PreparePcs)

\* Such a session keeps its phase and its holder.
LEMMA KeptPhase ==
    ASSUME Leased, Leased', NEW s \in Sessions, Kept(s)
    PROVE  LeasePhase'[s] = LeasePhase[s] /\ LeaseHolder'[s] = LeaseHolder[s]
<1>0. Phased /\ Phased'
  BY Phases, PhasesNext
<1>1. CASE s \notin claims
  BY <1>0, <1>1 DEF Phased, Kept
<1>2. ASSUME NEW p \in Callers, Creates(p, s)
      PROVE  LeasePhase'[s] = LeasePhase[s] /\ LeaseHolder'[s] = LeaseHolder[s]
  BY <1>0, <1>2 DEF Phased, Kept
<1>3. ASSUME NEW p \in Callers, Uses(p, s)
      PROVE  LeasePhase'[s] = LeasePhase[s] /\ LeaseHolder'[s] = LeaseHolder[s]
  BY <1>0, <1>3 DEF Phased, Kept
<1>4. CASE s \in claims /\ \A p \in Callers : ~Creates(p, s) /\ ~Uses(p, s)
  BY <1>0, <1>4 DEF Phased, Kept
<1> QED BY <1>1, <1>2, <1>3, <1>4

\* At most one session changes hands: it is reserved or granted while the pool is
\* open, goes from the creator to the entry, loses its user, or is freed.
Given(s) ==
    \/ Kept(s)
    \/ /\ ~closed /\ s \notin claims
       /\ \E p \in Callers : Creates(p, s)' \/ (Uses(p, s)' /\ pc'[p] # "releasing")
    \/ \E p \in Callers : /\ Creates(p, s) \/ (Uses(p, s) /\ pc[p] \in PreparePcs)
                          /\ Uses(p, s)'
                          /\ pc'[p] \in PreparePcs \/ (~closed /\ pc'[p] = "leased")
    \/ /\ s \in claims' /\ \E p \in Callers : Creates(p, s) \/ Uses(p, s)
       /\ \A p \in Callers : ~Creates(p, s)' /\ ~Uses(p, s)'
    \/ s \in claims /\ s \notin claims'
Moved(s) ==
    /\ closed' = closed
    /\ \A t \in Sessions \ {s} : Kept(t)
    /\ s \in Sessions => Given(s)

\* Such a step is one of the abstract specification, or stutters.
LEMMA MovedStep ==
    ASSUME Leased, Leased', closed \in BOOLEAN, NEW s \in SessionIds, Moved(s)
    PROVE  [SL!Next]_(SL!vars)
<1>0. Phased /\ Phased' /\ (~closed)' = ~closed
  BY Phases, PhasesNext DEF Moved
<1>1. /\ LeasePhase = [t \in Sessions |-> LeasePhase[t]]
      /\ LeasePhase' = [t \in Sessions |-> LeasePhase'[t]]
      /\ LeaseHolder = [t \in Sessions |-> LeaseHolder[t]]
      /\ LeaseHolder' = [t \in Sessions |-> LeaseHolder'[t]]
  BY DEF LeasePhase, LeaseHolder
<1>2. ASSUME \A t \in Sessions : LeasePhase'[t] = LeasePhase[t] /\ LeaseHolder'[t] = LeaseHolder[t]
      PROVE  UNCHANGED SL!vars
  <2>1. LeasePhase' = LeasePhase /\ LeaseHolder' = LeaseHolder
    <3> HIDE DEF LeasePhase, LeaseHolder
    <3> QED BY <1>1, <1>2
  <2> QED BY <1>0, <2>1 DEF SL!vars
<1>3. CASE s \notin Sessions \/ Kept(s)
  BY <1>2, <1>3, KeptPhase DEF Moved
<1>4. ASSUME s \in Sessions, ~Kept(s) PROVE [SL!Next]_(SL!vars)
  <2>1. /\ LeasePhase' = [LeasePhase EXCEPT ![s] = LeasePhase'[s]]
        /\ LeaseHolder' = [LeaseHolder EXCEPT ![s] = LeaseHolder'[s]]
    <3>1. \A t \in Sessions \ {s} : LeasePhase'[t] = LeasePhase[t] /\ LeaseHolder'[t] = LeaseHolder[t]
      BY KeptPhase DEF Moved
    <3> QED BY <1>1, <3>1
  <2>2. ASSUME ~closed, s \notin claims, NEW p \in Callers,
               Creates(p, s)' \/ (Uses(p, s)' /\ pc'[p] # "releasing")
        PROVE  SL!Reserve(p, s) \/ SL!Grant(p, s)
    <3>1. LeasePhase[s] = "free" /\ LeasePhase'[s] \in {"reserved", "leased"} /\ LeaseHolder'[s] = p
      BY <1>0, <1>4, <2>2 DEF Phased
    <3> QED BY <1>0, <2>1, <2>2, <3>1 DEF SL!Reserve, SL!Grant, SL!Move
  <2>3. ASSUME NEW p \in Callers, Creates(p, s) \/ (Uses(p, s) /\ pc[p] \in PreparePcs),
               Uses(p, s)', pc'[p] \in PreparePcs \/ (~closed /\ pc'[p] = "leased")
        PROVE  SL!Grant(p, s) \/ UNCHANGED SL!vars
    <3>1. /\ LeasePhase[s] = "reserved" /\ LeaseHolder[s] = p /\ LeaseHolder'[s] = p
          /\ LeasePhase'[s] = IF pc'[p] \in PreparePcs THEN "reserved" ELSE "leased"
      BY <1>0, <1>4, <2>3 DEF Phased
    <3>2. CASE pc'[p] \in PreparePcs
      <4>1. LeasePhase'[s] = LeasePhase[s] /\ LeaseHolder'[s] = LeaseHolder[s]
        BY <3>1, <3>2
      <4> QED BY <1>2, <4>1, KeptPhase DEF Moved
    <3>3. CASE ~closed /\ pc'[p] = "leased" /\ pc'[p] \notin PreparePcs
      BY <1>0, <2>1, <3>1, <3>3 DEF SL!Grant, SL!Move
    <3> QED BY <2>3, <3>2, <3>3 DEF PreparePcs
  <2>4. ASSUME s \in claims', NEW p \in Callers, Creates(p, s) \/ Uses(p, s),
               \A q \in Callers : ~Creates(q, s)' /\ ~Uses(q, s)'
        PROVE  SL!Drain(s)
    <3>1. /\ LeasePhase[s] \in {"reserved", "leased"}
          /\ LeasePhase'[s] = "draining" /\ LeaseHolder'[s] = NoClient
      BY <1>0, <1>4, <2>4 DEF Phased
    <3> QED BY <1>0, <2>1, <3>1 DEF SL!Drain, SL!Move
  <2>5. ASSUME s \in claims, s \notin claims' PROVE SL!Free(s)
    <3>1. LeasePhase[s] # "free" /\ LeasePhase'[s] = "free" /\ LeaseHolder'[s] = NoClient
      <4>1. LeasePhase[s] \in {"reserved", "leased", "draining"}
        BY <1>4, <2>5 DEF LeasePhase
      <4> QED BY <1>0, <1>4, <2>5, <4>1 DEF Phased
    <3> QED BY <1>0, <2>1, <3>1 DEF SL!Free, SL!Move
  <2> QED BY <1>4, <2>2, <2>3, <2>4, <2>5 DEF Moved, Given, SL!Next
<1> QED BY <1>3, <1>4 DEF SL!vars

\* Most steps leave every session where it is.
LeaseStill == closed' = closed /\ \A s \in Sessions : Kept(s)

\* Only fourteen kinds of steps move a session.
LEMMA StillLeases ==
    ASSUME Own, Next
    PROVE  \/ LeaseStill
           \/ \E p \in Callers :
                 \/ CheckoutReuse(p) \/ CheckoutCreate(p) \/ ConnectOk(p) \/ ConnectLate(p)
                 \/ CreateFailed(p) \/ PingOk(p) \/ PingFail(p) \/ ResumeOk(p) \/ EnsureOk(p)
                 \/ PrepareFail(p) \/ EndLease(p) \/ ReleaseClose(p) \/ ReleaseIdle(p)
           \/ \E c \in Clients : CloseOk(c)
           \/ CloseAll
<1> USE Typed DEF LeaseStill, Kept, Creates, Uses, UserPcs, Own, LeaseInv, HoldingPcs,
      CreatorPcs, PreparePcs, RetirePcs, ClosePcs, clientVars, processVars, queueVars, callerVars,
      closeVars
<1>1. ASSUME NEW p \in Callers, Acquire(p) PROVE LeaseStill
  BY <1>1 DEF Acquire
<1>2. ASSUME NEW p \in Callers, CheckoutClosed(p) PROVE LeaseStill
  BY <1>2 DEF CheckoutClosed, Runnable, Return
<1>3. ASSUME NEW p \in Callers, CheckoutBehind(p) PROVE LeaseStill
  BY <1>3 DEF CheckoutBehind, Runnable, Enqueue, Sweep, Expired, Stalled
<1>4. ASSUME NEW p \in Callers, CheckoutClaimed(p) PROVE LeaseStill
  BY <1>4 DEF CheckoutClaimed, Runnable, Enqueue, Sweep, Expired, Stalled
<1>5. ASSUME NEW p \in Callers, CheckoutRebalance(p) PROVE LeaseStill
  BY <1>5 DEF CheckoutRebalance, Served, Runnable, Enqueue, Sweep, Expired, Stalled, FitIdle
<1>6. ASSUME NEW p \in Callers, AbandonWait(p) PROVE LeaseStill
  BY <1>6 DEF AbandonWait, Return
<1>7. ASSUME NEW p \in Callers, CancelCheckout(p) PROVE LeaseStill
  BY <1>7 DEF CancelCheckout, Return
<1>8. ASSUME NEW p \in Callers, ConnectFail(p) PROVE LeaseStill
  BY <1>8 DEF ConnectFail
<1>9. ASSUME NEW p \in Callers, CleanOk(p) PROVE LeaseStill
  BY <1>9 DEF CleanOk
<1>10. ASSUME NEW p \in Callers, CleanFail(p) PROVE LeaseStill
  BY <1>10 DEF CleanFail
<1>11. ASSUME NEW p \in Callers, Backoff(p) PROVE LeaseStill
  BY <1>11 DEF Backoff, Unused
<1>12. ASSUME NEW p \in Callers, SwitchSession(p) PROVE LeaseStill
  BY <1>12 DEF SwitchSession
<1>13. ASSUME NEW p \in Callers, ReleaseGone(p) PROVE LeaseStill
  BY <1>13 DEF ReleaseGone, Return
<1>14. ASSUME NEW p \in Callers, Retire(p) PROVE LeaseStill
  BY <1>14 DEF Retire, Closing
<1>15. ASSUME NEW p \in Callers, RetireGone(p) PROVE LeaseStill
  BY <1>15 DEF RetireGone, Return
<1>16. ASSUME NEW p \in Callers, CancelLate(p) PROVE LeaseStill
  BY <1>16 DEF CancelLate, Return
<1>17. ASSUME NEW c \in Clients, CloseFail(c) PROVE LeaseStill
  BY <1>17 DEF CloseFail, Closers, Returning
<1>18. ASSUME NEW c \in Clients, BecomeUnfit(c) PROVE LeaseStill
  BY <1>18 DEF BecomeUnfit
<1>19. ASSUME KeepaliveStart PROVE LeaseStill
  BY <1>19 DEF KeepaliveStart, Expired, FitIdle
<1>20. ASSUME KeepaliveFinish PROVE LeaseStill
  BY <1>20 DEF KeepaliveFinish
<1>21. ASSUME CloseAllStart PROVE LeaseStill
  <2>1. \A c \in Clients : st[c] \in {"absent", "closing"} /\ st'[c] \in {"absent", "closing"}
    BY <1>21 DEF CloseAllStart, Closing, Own, EntryInv
  <2>2. UNCHANGED <<closed, claim, claims, pc, req, lease>>
    BY <1>21 DEF CloseAllStart, callerVars
  <2> QED BY <2>1, <2>2 DEF LeaseStill, Kept, Creates, Uses
<1>22. ASSUME CloseAllGathered PROVE LeaseStill
  BY <1>22 DEF CloseAllGathered
<1>23. ASSUME CloseAllRetry PROVE LeaseStill
  BY <1>23 DEF CloseAllRetry, Closing, Stalled, Tracked
<1>24. ASSUME CloseAllReap PROVE LeaseStill
  BY <1>24 DEF CloseAllReap, Tracked
<1>25. ASSUME CloseAllFinish PROVE LeaseStill
  BY <1>25 DEF CloseAllFinish
<1> QED BY <1>1, <1>2, <1>3, <1>4, <1>5, <1>6, <1>7, <1>8, <1>9, <1>10, <1>11, <1>12, <1>13,
   <1>14, <1>15, <1>16, <1>17, <1>18, <1>19, <1>20, <1>21, <1>22, <1>23, <1>24, <1>25 DEF Next,
   Checkout, Create, Lease, Release, CloseClient, KeepaliveStep, CloseAllStep

\* A step of p that touches no client but its own leaves the other callers alone.
Alone(p) ==
    /\ closed' = closed
    /\ \A q \in Callers \ {p} : lease'[q] = lease[q] /\ pc'[q] = pc[q] /\ req'[q] = req[q]
    /\ \A c \in Clients \ {lease[p]} : /\ claim'[c] = claim[c]
                                       /\ st'[c] = "leased" <=> st[c] = "leased"

\* The sessions of the other callers stay where they are.
LEMMA OthersKept ==
    ASSUME Leased, NEW p \in Callers, Alone(p), NEW q \in Callers \ {p}, NEW t \in Sessions
    PROVE  /\ Creates(q, t)' <=> Creates(q, t)
           /\ Uses(q, t)' <=> Uses(q, t)
           /\ pc'[q] \in PreparePcs <=> pc[q] \in PreparePcs
<1>1. lease[q] \in Clients => lease[q] # lease[p]
  BY ClientAssumption DEF Leased, Own, LeaseInv
<1> QED BY <1>1 DEF Alone, Creates, Uses

\* The caller loses the session it had, if any, which may be freed with that.
LEMMA Loses ==
    ASSUME Leased, NEW p \in Callers, Alone(p), NEW s \in SessionIds,
           claims' \in {claims, claims \ {s}},
           \A t \in Sessions : Creates(p, t) \/ Uses(p, t) => t = s,
           \A t \in Sessions : ~Creates(p, t)' /\ ~Uses(p, t)'
    PROVE  Moved(s)
<1>1. \A t \in Sessions \ {s} : Kept(t)
  BY OthersKept DEF Kept
<1>2. ASSUME s \in Sessions PROVE Given(s)
  <2>1. CASE s \in claims /\ s \notin claims'
    BY <2>1 DEF Given
  <2>2. CASE (s \in claims <=> s \in claims') /\ ~Creates(p, s) /\ ~Uses(p, s)
    <3>1. Kept(s)
      BY <1>2, <2>2, OthersKept DEF Kept
    <3> QED BY <3>1 DEF Given
  <2>3. CASE (s \in claims <=> s \in claims') /\ (Creates(p, s) \/ Uses(p, s))
    <3>1. s \in claims /\ \A q \in Callers \ {p} : ~Creates(q, s) /\ ~Uses(q, s)
      BY <1>2, <2>3, OneOwner
    <3>2. \A q \in Callers : ~Creates(q, s)' /\ ~Uses(q, s)'
      BY <1>2, <3>1, OthersKept
    <3> QED BY <2>3, <3>1, <3>2 DEF Given
  <2> QED BY <2>1, <2>2, <2>3
<1> QED BY <1>1, <1>2 DEF Moved, Alone

\* The caller gets, or goes on with, a session that it had reserved or that is free.
LEMMA Gains ==
    ASSUME Leased, NEW p \in Callers, Alone(p), NEW s \in SessionIds,
           claims' = claims \cup ({s} \ {NoSession}),
           \A t \in Sessions : Creates(p, t) \/ Uses(p, t) => t = s,
           \A t \in Sessions : ~Creates(p, t)' /\ (Uses(p, t)' => t = s),
           s \in Sessions => Uses(p, s)',
           pc'[p] \in PreparePcs \/ (~closed /\ pc'[p] = "leased"),
           s \in Sessions =>
              \/ Creates(p, s) \/ (Uses(p, s) /\ pc[p] \in PreparePcs)
              \/ s \notin claims /\ ~closed
    PROVE  Moved(s)
<1>1. \A t \in Sessions \ {s} : Kept(t)
  BY OthersKept DEF Kept
<1>2. pc'[p] # "releasing"
  BY DEF PreparePcs
<1> QED BY <1>1, <1>2 DEF Moved, Alone, Given

\* What Prepare and Finalize do to their caller.
LEMMA PreparedPc ==
    ASSUME NEW p, NEW c, NEW s, NEW entry, NEW k,
           Prepare(p, c, s, entry, k) \/ Finalize(p, c, s, entry, k)
    PROVE  \E to \in {"resuming", "ensuring", "retire", "leased"} :
              /\ pc' = [pc EXCEPT ![p] = to]
              /\ to = "leased" => ~closed /\ entry = "leased"
              /\ \/ claim' = [claim EXCEPT ![c] = k] /\ claims' = claims
                 \/ /\ claim' = [claim EXCEPT ![c] = s] /\ claims' = claims \cup ({s} \ {NoSession})
                    /\ s \notin claims /\ k = NoSession /\ to = "leased"
<1>1. CASE Finalize(p, c, s, entry, k)
  BY <1>1 DEF Finalize, Refused, ToClaim
<1>2. CASE ~Finalize(p, c, s, entry, k)
  BY <1>2 DEF Prepare
<1> QED BY <1>1, <1>2

\* A checkout, or the creator's connect(), reserves or grants one session; a failure,
\* a release or a close drains or frees one.
LEMMA LeaseMoves ==
    ASSUME Leased, PrepareInv, Next, ~CloseAll
    PROVE  \E s \in SessionIds : Moved(s)
<1> USE DEF Leased
<1>0. /\ \A p \in Callers : req[p].session \in SessionIds
      /\ \A c \in Clients : claim[c] \in SessionIds
      /\ ProviderSessions \subseteq SessionIds
      /\ NoSession \notin Sessions /\ NoSession \in SessionIds
  BY Asked, Typed DEF SessionIds
<1>1. ASSUME LeaseStill PROVE Moved(NoSession)
  BY <1>0, <1>1 DEF LeaseStill, Moved
<1>2. ASSUME NEW p \in Callers, CheckoutReuse(p) PROVE Moved(req[p].session)
  <2>1. PICK c \in Candidates(p) : /\ Sweep({}, {c}) /\ lease' = [lease EXCEPT ![p] = c]
                                   /\ claim' = [claim EXCEPT ![c] = req[p].session]
    BY <1>2 DEF CheckoutReuse
  <2>2. c \in Clients /\ st[c] = "idle" /\ c \notin Expired
    BY <2>1, CandidatesFit DEF Own, CapacityInv, TypeInv, FitIdle, Expired
  <2>3. /\ st'[c] = "leased" /\ claim'[c] = req[p].session
        /\ \A d \in Clients \ {c} : /\ claim'[d] = claim[d]
                                    /\ st'[d] = "leased" <=> st[d] = "leased"
    BY <2>1, <2>2, Typed DEF Sweep, Expired
  <2>4. /\ pc' = [pc EXCEPT ![p] = "pinging"] /\ req' = req /\ closed' = closed /\ ~closed
        /\ claims' = claims \cup ({req[p].session} \ {NoSession}) /\ ~Claimed(p)
        /\ pc[p] \in {"checkout", "waiting"}
    BY <1>2 DEF CheckoutReuse, Served, Runnable, closeVars
  <2>5. \A q \in Callers \ {p} : /\ lease'[q] = lease[q] /\ pc'[q] = pc[q] /\ lease[q] # c
    BY <2>1, <2>2, <2>4, Typed DEF Own, LeaseInv
  <2>6. lease'[p] = c /\ pc'[p] = "pinging"
    BY <2>1, <2>4, Typed
  <2>7. \A q \in Callers, t \in Sessions : Creates(q, t)' <=> Creates(q, t)
    BY <2>4, <2>5, <2>6 DEF Creates, CreatorPcs
  <2>8. \A q \in Callers, t \in Sessions :
           q # p \/ t # req[p].session => (Uses(q, t)' <=> Uses(q, t))
    <3>1. \A q \in Callers \ {p}, t \in Sessions : Uses(q, t)' <=> Uses(q, t)
      BY <2>3, <2>5 DEF Uses
    <3>2. \A t \in Sessions : t # req[p].session => ~Uses(p, t)' /\ ~Uses(p, t)
      BY <2>3, <2>4, <2>6 DEF Uses, UserPcs, PreparePcs
    <3> QED BY <3>1, <3>2
  <2>9. \A t \in Sessions \ {req[p].session} : Kept(t)
    <3>1. \A q \in Callers, t \in Sessions : Uses(q, t) => pc'[q] = pc[q]
      BY <2>4, <2>5 DEF Uses, UserPcs, PreparePcs
    <3> QED BY <2>4, <2>7, <2>8, <3>1 DEF Kept
  <2>10. req[p].session \in Sessions => Uses(p, req[p].session)' /\ req[p].session \notin claims
    BY <1>0, <2>2, <2>3, <2>4, <2>6 DEF Uses, UserPcs, PreparePcs, Claimed
  <2> QED BY <2>4, <2>6, <2>9, <2>10 DEF Moved, Given
<1>3. ASSUME NEW p \in Callers, CheckoutCreate(p) PROVE Moved(req[p].session)
  <2>1. PICK c \in Unused : lease' = [lease EXCEPT ![p] = c]
    BY <1>3 DEF CheckoutCreate
  <2>2. /\ pc' = [pc EXCEPT ![p] = "connecting"] /\ req' = req /\ closed' = closed /\ ~closed
        /\ claims' = claims \cup ({req[p].session} \ {NoSession}) /\ ~Claimed(p)
        /\ pc[p] \in {"checkout", "waiting"} /\ claim' = claim
    BY <1>3 DEF CheckoutCreate, Served, Runnable, closeVars
  <2>3. \A d \in Clients : st'[d] = "leased" <=> st[d] = "leased"
    BY <1>3 DEF CheckoutCreate, Sweep, Expired
  <2>4. \A q \in Callers \ {p} : lease'[q] = lease[q] /\ pc'[q] = pc[q]
    BY <2>1, <2>2, Typed
  <2>5. pc'[p] = "connecting"
    BY <2>2, Typed
  <2>6. \A q \in Callers, t \in Sessions :
           /\ Uses(q, t)' <=> Uses(q, t)
           /\ Uses(q, t) => pc'[q] = pc[q]
           /\ q # p \/ t # req[p].session => (Creates(q, t)' <=> Creates(q, t))
    BY <2>2, <2>3, <2>4, <2>5 DEF Uses, UserPcs, PreparePcs, Creates, CreatorPcs
  <2>7. \A t \in Sessions \ {req[p].session} : Kept(t)
    BY <2>2, <2>6 DEF Kept
  <2>8. req[p].session \in Sessions => Creates(p, req[p].session)' /\ req[p].session \notin claims
    BY <1>0, <2>2, <2>5 DEF Creates, CreatorPcs, Claimed
  <2> QED BY <2>2, <2>7, <2>8 DEF Moved, Given
<1>4. ASSUME NEW p \in Callers, ConnectOk(p) PROVE \E s \in SessionIds : Moved(s)
  <2>1. PICK s \in ProviderSessions : Prepare(p, lease[p], s, "leased", req[p].session)
    BY <1>4 DEF ConnectOk
  <2>2. PICK to \in {"resuming", "ensuring", "retire", "leased"} :
           /\ pc' = [pc EXCEPT ![p] = to]
           /\ to = "leased" => ~closed
           /\ \/ /\ claim' = [claim EXCEPT ![lease[p]] = req[p].session] /\ claims' = claims
              \/ /\ claim' = [claim EXCEPT ![lease[p]] = s]
                 /\ claims' = claims \cup ({s} \ {NoSession})
                 /\ s \notin claims /\ req[p].session = NoSession /\ to = "leased"
    BY <2>1, PreparedPc
  <2>3. /\ lease[p] \in Clients /\ st[lease[p]] = "absent" /\ st' = [st EXCEPT ![lease[p]] = "leased"]
        /\ ~closed /\ closed' = closed /\ req' = req /\ lease' = lease /\ pc[p] = "connecting"
    BY <1>4, Starting DEF ConnectOk, closeVars
  <2>4. Alone(p) /\ pc'[p] = to /\ st'[lease[p]] = "leased"
    BY <2>2, <2>3, Typed DEF Alone
  <2>5. \A t \in Sessions : /\ Creates(p, t) <=> req[p].session = t
                            /\ ~Uses(p, t) /\ ~Creates(p, t)'
                            /\ Uses(p, t)' <=> claim'[lease[p]] = t /\ to # "retire"
    BY <2>2, <2>3, <2>4 DEF Creates, Uses, UserPcs, CreatorPcs, PreparePcs
  <2>6. CASE claim' = [claim EXCEPT ![lease[p]] = req[p].session] /\ claims' = claims
    <3>1. claim'[lease[p]] = req[p].session /\ req[p].session \in SessionIds
      BY <1>0, <2>3, <2>6, Typed
    <3>2. CASE to = "retire"
      BY <2>4, <2>5, <2>6, <3>1, <3>2, Loses
    <3>3. CASE to # "retire"
      <4>1. req[p].session \in Sessions => req[p].session \in claims
        BY <2>5, OneOwner
      <4>2. claims' = claims \cup ({req[p].session} \ {NoSession})
        BY <2>6, <3>1, <4>1 DEF SessionIds
      <4>3. pc'[p] \in PreparePcs \/ (~closed /\ pc'[p] = "leased")
        BY <2>2, <2>3, <2>4, <3>3 DEF PreparePcs
      <4> QED BY <2>4, <2>5, <3>1, <3>3, <4>2, <4>3, Gains
    <3> QED BY <3>2, <3>3
  <2>7. CASE /\ claim' = [claim EXCEPT ![lease[p]] = s]
             /\ claims' = claims \cup ({s} \ {NoSession})
             /\ s \notin claims /\ req[p].session = NoSession /\ to = "leased"
    <3>1. claim'[lease[p]] = s /\ s \in SessionIds
      BY <1>0, <2>3, <2>7, Typed
    <3>2. pc'[p] = "leased" /\ \A t \in Sessions : ~Creates(p, t) /\ ~Uses(p, t)
      BY <1>0, <2>4, <2>5, <2>7
    <3> QED BY <2>3, <2>4, <2>5, <2>7, <3>1, <3>2, Gains
  <2> QED BY <2>2, <2>6, <2>7
<1>5. ASSUME NEW p \in Callers, PingOk(p) \/ ResumeOk(p) \/ EnsureOk(p)
      PROVE  \E s \in SessionIds : Moved(s)
  <2> DEFINE k == claim[lease[p]]
  <2>1. PICK s \in SessionIds : \/ Prepare(p, lease[p], s, st[lease[p]], k)
                                \/ Finalize(p, lease[p], s, st[lease[p]], k)
    <3>1. lease[p] \in Clients
      BY <1>5, Typed DEF PingOk, ResumeOk, EnsureOk, HoldingPcs, PreparePcs
    <3> QED BY <1>0, <1>5, <3>1, Typed DEF PingOk, ResumeOk, EnsureOk
  <2>2. PICK to \in {"resuming", "ensuring", "retire", "leased"} :
           /\ pc' = [pc EXCEPT ![p] = to]
           /\ to = "leased" => ~closed /\ st[lease[p]] = "leased"
           /\ \/ claim' = [claim EXCEPT ![lease[p]] = k] /\ claims' = claims
              \/ /\ claim' = [claim EXCEPT ![lease[p]] = s]
                 /\ claims' = claims \cup ({s} \ {NoSession})
                 /\ s \notin claims /\ k = NoSession /\ to = "leased"
    BY <2>1, PreparedPc
  <2>3. /\ lease[p] \in Clients /\ st' = st /\ closed' = closed /\ req' = req /\ lease' = lease
        /\ pc[p] \in PreparePcs /\ k \in SessionIds
    BY <1>0, <1>5, Typed DEF PingOk, ResumeOk, EnsureOk, HoldingPcs, PreparePcs, closeVars
  <2>4. Alone(p) /\ pc'[p] = to
    BY <2>2, <2>3, Typed DEF Alone
  <2>5. \A t \in Sessions : /\ ~Creates(p, t) /\ ~Creates(p, t)'
                            /\ Uses(p, t) <=> st[lease[p]] = "leased" /\ k = t
                            /\ Uses(p, t)' <=> /\ st[lease[p]] = "leased" /\ to # "retire"
                                               /\ claim'[lease[p]] = t
    BY <2>2, <2>3, <2>4 DEF Creates, Uses, UserPcs, CreatorPcs, PreparePcs
  <2>6. CASE claim' = [claim EXCEPT ![lease[p]] = k] /\ claims' = claims
    <3>1. claim'[lease[p]] = k
      BY <2>3, <2>6, Typed
    <3>2. CASE to = "retire"
      BY <2>3, <2>4, <2>5, <2>6, <3>2, Loses
    <3>3. CASE st[lease[p]] # "leased"
      BY <2>3, <2>4, <2>5, <2>6, <3>3, Loses
    <3>4. CASE to # "retire" /\ st[lease[p]] = "leased"
      <4>1. k \in Sessions => k \in claims
        BY <2>5, <3>4, OneOwner
      <4>2. claims' = claims \cup ({k} \ {NoSession})
        BY <2>3, <2>6, <4>1 DEF SessionIds
      <4>3. pc'[p] \in PreparePcs \/ (~closed /\ pc'[p] = "leased")
        BY <2>2, <2>4, <3>4 DEF PreparePcs
      <4> QED BY <2>3, <2>4, <2>5, <3>1, <3>4, <4>2, <4>3, Gains
    <3> QED BY <3>2, <3>3, <3>4
  <2>7. CASE /\ claim' = [claim EXCEPT ![lease[p]] = s]
             /\ claims' = claims \cup ({s} \ {NoSession})
             /\ s \notin claims /\ k = NoSession /\ to = "leased"
    <3>1. claim'[lease[p]] = s /\ pc'[p] = "leased" /\ ~closed /\ st[lease[p]] = "leased"
      BY <2>2, <2>3, <2>4, <2>7, Typed
    <3>2. \A t \in Sessions : ~Creates(p, t) /\ ~Uses(p, t)
      BY <1>0, <2>5, <2>7
    <3> QED BY <2>4, <2>5, <2>7, <3>1, <3>2, Gains
  <2> QED BY <2>2, <2>6, <2>7
<1>6. ASSUME NEW p \in Callers, ConnectLate(p) PROVE \E s \in SessionIds : Moved(s)
  <2>1. /\ lease[p] \in Clients /\ st[lease[p]] = "absent" /\ st'[lease[p]] = "closing"
        /\ \A c \in Clients \ {lease[p]} : st'[c] = st[c] /\ claim'[c] = claim[c]
        /\ UNCHANGED <<closed, req, lease, claims>>
        /\ pc[p] = "connecting" /\ pc' = [pc EXCEPT ![p] = "closedwait"]
    BY <1>6, Starting, Typed DEF ConnectLate, Closing, closeVars
  <2>2. Alone(p) /\ pc'[p] = "closedwait"
    BY <2>1, Typed DEF Alone
  <2>3. \A t \in Sessions : /\ Creates(p, t) <=> req[p].session = t
                            /\ ~Uses(p, t) /\ ~Creates(p, t)' /\ ~Uses(p, t)'
    BY <2>1, <2>2 DEF Creates, Uses, UserPcs, CreatorPcs, PreparePcs
  <2> QED BY <1>0, <2>1, <2>2, <2>3, Loses
<1>7. ASSUME NEW p \in Callers, CreateFailed(p) PROVE \E s \in SessionIds : Moved(s)
  <2>1. /\ UNCHANGED <<closed, st, claim>> /\ claims' = claims \ {req[p].session}
        /\ pc[p] = "failing" /\ Return({p})
    BY <1>7 DEF CreateFailed, closeVars, clientVars
  <2>2. Alone(p) /\ pc'[p] = "out"
    BY <2>1, Typed DEF Alone, Return
  <2>3. \A t \in Sessions : /\ Creates(p, t) <=> req[p].session = t
                            /\ ~Uses(p, t) /\ ~Creates(p, t)' /\ ~Uses(p, t)'
    BY <2>1, <2>2 DEF Creates, Uses, UserPcs, CreatorPcs, PreparePcs
  <2> QED BY <1>0, <2>1, <2>2, <2>3, Loses
<1>8. ASSUME NEW p \in Callers, NEW to \in {"retire", "health_retire", "releasing"},
             lease[p] \in Clients, pc[p] \in PreparePcs \cup {"leased"},
             pc' = [pc EXCEPT ![p] = to], to = "releasing" => pc[p] = "leased",
             UNCHANGED <<st, claim, claims, req, lease, closed>>
      PROVE  \E s \in SessionIds : Moved(s)
  <2>1. Alone(p) /\ pc'[p] = to /\ claim[lease[p]] \in SessionIds
    BY <1>0, <1>8, Typed DEF Alone
  <2>2. \A t \in Sessions : /\ Uses(p, t) => claim[lease[p]] = t
                            /\ ~Creates(p, t) /\ ~Creates(p, t)'
                            /\ Uses(p, t)' <=> to = "releasing" /\ Uses(p, t)
    BY <1>8, <2>1 DEF Creates, Uses, UserPcs, CreatorPcs, PreparePcs
  <2>3. CASE to # "releasing"
    BY <1>8, <2>1, <2>2, <2>3, Loses
  <2>4. CASE to = "releasing"
    <3>1. pc'[p] \notin PreparePcs /\ pc[p] \notin PreparePcs
      BY <1>8, <2>1, <2>4 DEF PreparePcs
    <3>2. \A t \in Sessions : Kept(t)
      BY <1>8, <2>1, <2>2, <2>4, <3>1, OthersKept DEF Kept
    <3> QED BY <1>0, <1>8, <3>2 DEF Moved
  <2> QED BY <2>3, <2>4
<1>9. ASSUME NEW p \in Callers, PingFail(p) \/ PrepareFail(p) \/ EndLease(p)
      PROVE  \E s \in SessionIds : Moved(s)
  <2>1. /\ lease[p] \in Clients /\ pc[p] \in PreparePcs \cup {"leased"}
        /\ UNCHANGED <<st, claim, claims, req, lease, closed>>
    BY <1>9, Typed DEF PingFail, PrepareFail, EndLease, PreparePcs, HoldingPcs, clientVars, closeVars
  <2>2. \E to \in {"retire", "health_retire", "releasing"} :
           pc' = [pc EXCEPT ![p] = to] /\ (to = "releasing" => pc[p] = "leased")
    BY <1>9 DEF PingFail, PrepareFail, EndLease
  <2> QED BY <1>8, <2>1, <2>2
<1>10. ASSUME NEW p \in Callers, ReleaseClose(p) PROVE \E s \in SessionIds : Moved(s)
  <2>1. /\ lease[p] \in Clients /\ st'[lease[p]] = "closing" /\ claim[lease[p]] \in SessionIds
        /\ \A c \in Clients \ {lease[p]} : st'[c] = st[c]
        /\ UNCHANGED <<closed, req, lease, claim, claims>>
        /\ pc[p] = "releasing" /\ pc' = [pc EXCEPT ![p] = "closewait"]
    BY <1>0, <1>10, Typed DEF ReleaseClose, Closing, HoldingPcs, closeVars
  <2>2. Alone(p) /\ pc'[p] = "closewait"
    BY <2>1, Typed DEF Alone
  <2>3. \A t \in Sessions : /\ Uses(p, t) => claim[lease[p]] = t
                            /\ ~Creates(p, t) /\ ~Creates(p, t)' /\ ~Uses(p, t)'
    BY <2>1, <2>2 DEF Creates, Uses, UserPcs, CreatorPcs, PreparePcs
  <2> QED BY <2>1, <2>2, <2>3, Loses
<1>11. ASSUME NEW p \in Callers, ReleaseIdle(p) PROVE \E s \in SessionIds : Moved(s)
  <2>1. /\ lease[p] \in Clients /\ claim[lease[p]] \in SessionIds
        /\ claims' = claims \ {claim[lease[p]]} /\ claim' = [claim EXCEPT ![lease[p]] = NoSession]
        /\ pc[p] = "releasing" /\ Return({p}) /\ closed' = closed
    BY <1>0, <1>11, Typed DEF ReleaseIdle, HoldingPcs, closeVars
  <2>2. \A c \in Clients \ {lease[p]} : st'[c] = "leased" <=> st[c] = "leased"
    BY <1>11 DEF ReleaseIdle
  <2>3. Alone(p) /\ pc'[p] = "out"
    BY <2>1, <2>2, Typed DEF Alone, Return
  <2>4. \A t \in Sessions : /\ Uses(p, t) => claim[lease[p]] = t
                            /\ ~Creates(p, t) /\ ~Creates(p, t)' /\ ~Uses(p, t)'
    BY <2>1, <2>3 DEF Creates, Uses, UserPcs, CreatorPcs, PreparePcs
  <2> QED BY <2>1, <2>3, <2>4, Loses
<1>12. ASSUME NEW c \in Clients, CloseOk(c) PROVE Moved(claim[c])
  <2>1. /\ st[c] \in {"absent", "closing"} /\ st' = [st EXCEPT ![c] = "absent"]
        /\ claims' = claims \ {claim[c]} /\ claim' = [claim EXCEPT ![c] = NoSession]
        /\ closed' = closed
    BY <1>12 DEF CloseOk, Own, EntryInv
  <2>2. \A q \in Callers : pc[q] \notin ClosePcs =>
           lease'[q] = lease[q] /\ pc'[q] = pc[q] /\ req'[q] = req[q]
    BY <1>12 DEF CloseOk, Closers, Returning
  <2>3. \A q \in Callers : pc[q] \in ClosePcs => pc'[q] \in ClosePcs \cup {"out", "checkout"}
    BY <1>12 DEF CloseOk, Closers, Returning
  <2>4. ASSUME NEW q \in Callers, NEW t \in Sessions
        PROVE  /\ Creates(q, t)' <=> Creates(q, t)
               /\ Uses(q, t)' <=> Uses(q, t)
               /\ Uses(q, t) => pc'[q] = pc[q]
    <3>1. CASE pc[q] \in ClosePcs
      BY <2>3, <3>1 DEF Creates, Uses, UserPcs, CreatorPcs, PreparePcs, ClosePcs
    <3>2. CASE pc[q] \notin ClosePcs
      <4>1. Creates(q, t)' <=> Creates(q, t)
        BY <2>2, <3>2 DEF Creates
      <4>2. lease[q] = c => ~Uses(q, t) /\ ~Uses(q, t)'
        BY <2>1, <2>2, <3>2, Typed DEF Uses
      <4>3. lease[q] # c => (Uses(q, t)' <=> Uses(q, t))
        BY <2>1, <2>2, <3>2, Typed DEF Uses
      <4> QED BY <2>2, <3>2, <4>1, <4>2, <4>3
    <3> QED BY <3>1, <3>2
  <2>5. \A t \in Sessions : claim[c] # t \/ t \notin claims => Kept(t)
    BY <2>1, <2>4 DEF Kept
  <2>6. claim[c] \in Sessions => Given(claim[c])
    BY <2>1, <2>5 DEF Given
  <2> QED BY <2>1, <2>5, <2>6 DEF Moved
<1> QED BY <1>0, <1>1, <1>2, <1>3, <1>4, <1>5, <1>6, <1>7, <1>9, <1>10, <1>11, <1>12, StillLeases

\* The pool closes: whatever an entry has is taken back, creators go on.
LEMMA ShutStep ==
    ASSUME Leased, Leased', closed \in BOOLEAN, CloseAll
    PROVE  [SL!Next]_(SL!vars)
<1>0. /\ Phased /\ Phased' /\ UNCHANGED <<claims, claim, pc, req, lease>>
      /\ closed' = TRUE /\ \A c \in Clients : st'[c] # "leased"
  BY Phases, PhasesNext DEF CloseAll, callerVars, Tracked, Leased
<1>1. /\ LeasePhase = [t \in Sessions |-> LeasePhase[t]]
      /\ LeasePhase' = [t \in Sessions |-> LeasePhase'[t]]
      /\ LeaseHolder = [t \in Sessions |-> LeaseHolder[t]]
      /\ LeaseHolder' = [t \in Sessions |-> LeaseHolder'[t]]
  BY DEF LeasePhase, LeaseHolder
<1> DEFINE Taken == {t \in Sessions : \E p \in Callers : Uses(p, t)}
<1>2. ASSUME NEW t \in Sessions \ Taken
      PROVE  LeasePhase'[t] = LeasePhase[t] /\ LeaseHolder'[t] = LeaseHolder[t]
  <2>1. Kept(t)
    BY <1>0, <1>2 DEF Kept, Creates, Uses
  <2> QED BY <2>1, KeptPhase
<1>3. ASSUME NEW t \in Taken
      PROVE  /\ LeasePhase[t] # "free"
             /\ LeasePhase'[t] = "draining" /\ LeaseHolder'[t] = NoClient
  <2>1. PICK p \in Callers : Uses(p, t)
    OBVIOUS
  <2>2. t \in claims /\ \A q \in Callers : ~Creates(q, t)
    BY <2>1, OneOwner
  <2>3. t \in claims' /\ \A q \in Callers : ~Creates(q, t)' /\ ~Uses(q, t)'
    BY <1>0, <2>2 DEF Creates, Uses
  <2> QED BY <1>0, <2>1, <2>3 DEF Phased
<1>4. CASE ~closed
  <2>1. /\ LeasePhase' = [t \in Sessions |-> IF t \in Taken THEN "draining" ELSE LeasePhase[t]]
        /\ LeaseHolder' = [t \in Sessions |-> IF t \in Taken THEN NoClient ELSE LeaseHolder[t]]
    BY <1>1, <1>2, <1>3
  <2>2. Taken \in SUBSET {t \in Sessions : LeasePhase[t] # "free"}
    BY <1>3
  <2> QED BY <1>0, <1>4, <2>1, <2>2 DEF SL!Next, SL!Close
<1>5. CASE closed
  <2>1. Taken = {}
    BY <1>5 DEF Leased, Own, EntryInv, Uses
  <2>2. LeasePhase' = LeasePhase /\ LeaseHolder' = LeaseHolder
    <3> HIDE DEF LeasePhase, LeaseHolder, Taken
    <3> QED BY <1>1, <1>2, <2>1
  <2> QED BY <1>0, <1>5, <2>2 DEF SL!vars
<1> QED BY <1>4, <1>5

\* Whatever the pool does is a reservation, grant, drain or release of one session,
\* its closing, or nothing: sessions are leased one holder at a time, never while
\* their transport drains and never after the pool closed.
THEOREM LeaseRefined == Spec => RefinesLease
<1>1. Init => SL!Init
  <2> SUFFICES ASSUME Init PROVE SL!Init
    OBVIOUS
  <2>1. claims = {} /\ closed = FALSE
    BY DEF Init
  <2>2. LeasePhase = [s \in Sessions |-> "free"] /\ LeaseHolder = [s \in Sessions |-> NoClient]
    BY <2>1 DEF LeasePhase, LeaseHolder
  <2> QED BY <2>1, <2>2 DEF SL!Init
<1>2. PoolInv /\ PoolInv' /\ [Next]_vars => [SL!Next]_(SL!vars)
  <2> SUFFICES ASSUME PoolInv, PoolInv', [Next]_vars PROVE [SL!Next]_(SL!vars)
    OBVIOUS
  <2>1. Leased /\ Leased' /\ closed \in BOOLEAN
    BY DEF PoolInv, Leased, Own, CapacityInv, TypeInv, PoolTypes
  <2>2. CASE Next /\ ~CloseAll
    BY <2>1, <2>2, LeaseMoves, MovedStep DEF PoolInv
  <2>3. CASE CloseAll
    BY <2>1, <2>3, ShutStep
  <2>4. CASE UNCHANGED vars
    BY <2>4 DEF SL!vars, vars, clientVars, callerVars, closeVars, LeasePhase, LeaseHolder,
            CreatorsOf, Creators, HoldersOf, Holders, EntryOf, Tracked
  <2> QED BY <2>2, <2>3, <2>4
<1> QED BY <1>1, <1>2, PoolHolds, PTL DEF Spec, RefinesLease, SL!Spec
=============================================================================
