------------------------- MODULE BaseClientConstants -------------------------
(* What the models of ACPClientBase's prompts (PromptTurn) and of its host *)
(* requests (HostRequests) are instantiated with.                          *)
EXTENDS Naturals

CONSTANTS
    MaxTurns,   \* bound on the prompts of a run
    MaxText,    \* bound on the chunks of an answer
    Ids,        \* JSON-RPC ids of the agent's requests
    MaxTasks,   \* MAX_HOST_REQUEST_TASKS
    MaxWaits,   \* MAX_TERMINAL_WAIT_REQUESTS
    MaxLinks,   \* bound on the connections of a run
    MaxEpochs   \* bound on prompts and connections together

ASSUME LimitsAssumption == MaxTasks \in Nat /\ MaxWaits \in Nat
ASSUME BoundsAssumption ==
    MaxTurns \in Nat /\ MaxText \in Nat /\ MaxLinks \in Nat \ {0} /\ MaxEpochs \in Nat
=============================================================================
