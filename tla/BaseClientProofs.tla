-------------------------- MODULE BaseClientProofs --------------------------
(***************************************************************************)
(* One native client, for any number of prompts, chunks, requests, tasks,  *)
(* sessions and connections.  Its prompts: every caller gets the beginning *)
(* of its own answer, and a prompt that was given up ends without a        *)
(* connection.  The requests of its agent: one answer at most, over the    *)
(* connection the request came with; no permission outside its prompt; and *)
(* no request dropped that was not cancelled.  Its session: the one that   *)
(* the agent has, shown with its own metadata, and prompts whose text is   *)
(* theirs and whole.                                                       *)
(***************************************************************************)
EXTENDS MCBaseClient, TLAPS, SequenceTheorems, FiniteSetTheorems

-----------------------------------------------------------------------------
(* The prompts *)

\* The prompt under way, and what its caller waits for.
Streams == {"reads", "holds", "drains", "holdsLast", "fails"}
Reading == {"collect", "reads", "holds", "drains", "holdsLast"}
Delivers == {"reads", "holds", "drains", "holdsLast"}

\* The prompts that come later have not begun.
Later ==
    \A t \in Turn!Turns : t > turn =>
        agent[t] = "none" /\ sent[t] = 0 /\ text[t] = <<>> /\ outcome[t] = "none"

\* Between two prompts nothing is under way.
Rests ==
    /\ call = "idle" <=> rpc = "none"
    /\ call # "idle" => turn \in Turn!Turns
    /\ call = "idle" => link # "retired" /\ wire = <<>> /\ \A t \in Turn!Turns : agent[t] # "working"
    /\ streaming <=> call \in Streams
    /\ call \in Reading => outcome[turn] = "none"
    /\ call = "fails" => link # "up" /\ outcome[turn] \in {"error", "timeout", "left"}
    /\ call = "collect" => rpc \in {"wait", "answered", "refused", "timeout", "broken"}

\* The agent works on the prompt that waits for it, or on one whose connection is
\* about to go.
Works ==
    \A t \in Turn!Turns : agent[t] = "working" =>
        t = turn /\ call # "idle" /\ link # "down"
          /\ (rpc = "wait" \/ (link = "retired" /\ rpc = "timeout"))

\* What the stages of a request tell of its connection.
Requested ==
    /\ rpc \in {"timeout", "broken"} => link # "up"
    /\ rpc = "wait" /\ call # "fails" => link = "up"
    /\ link = "retired" => rpc = "timeout" \/ call = "fails"
    /\ rpc \in {"start"} => agent[turn] = "none" /\ chunks = <<>> /\ sent[turn] = 0 /\ wire = <<>>
    /\ link = "up" /\ rpc # "wait" => wire = <<>>
    /\ link = "down" => wire = <<>>
    /\ rpc \in {"answered", "done"} /\ call # "fails" => Len(chunks) = sent[turn]

\* Only the text and the response of the prompt under way are on their way.
Wired ==
    \A i \in 1 .. Len(wire) :
        /\ wire[i].turn = turn
        /\ wire[i].kind = "response" => i = Len(wire) /\ agent[turn] = "answered"
            /\ (wire[i].tail => sent[turn] > 0)

\* What was accepted, and then what is on its way, are the answer so far.
Joined ==
    link = "up" /\ call # "idle" =>
        /\ \A i \in 1 .. Len(wire) : wire[i].kind = "text" => wire[i].n = Len(chunks) + i
        /\ \A i \in 1 .. Len(wire) : wire[i].kind = "response" =>
              sent[turn] = Len(chunks) + Len(wire) - (IF wire[i].tail THEN 0 ELSE 1)
        /\ (wire = <<>> \/ wire[Len(wire)].kind = "text") => sent[turn] = Len(chunks) + Len(wire)

\* What was accepted is a beginning of the answer.
Accepted ==
    call \in Reading =>
        /\ Len(chunks) <= sent[turn]
        /\ \A i \in 1 .. Len(chunks) : chunks[i] = Turn!Chunk(turn, i)

\* The queue holds what was accepted and not yet yielded, and then sentinels.
Owed == Len(chunks) - Len(text[turn])
Queued ==
    call \in Delivers =>
        /\ Owed \in 0 .. Len(queue)
        /\ \A i \in 1 .. Len(queue) :
              queue[i] = IF i <= Owed THEN Turn!Chunk(turn, Len(text[turn]) + i) ELSE Turn!End
        /\ (Len(queue) > Owed \/ call \in {"drains", "holdsLast"}) =>
              /\ link = "down" \/ rpc \in {"done", "failed"}
              /\ streamError \/ rpc = "done"

\* What every caller got is a beginning of its own answer, all of it when the prompt ended well.
Given ==
    \A t \in Turn!Turns :
        /\ Len(text[t]) <= sent[t]
        /\ \A i \in 1 .. Len(text[t]) : text[t][i] = Turn!Chunk(t, i)
        /\ outcome[t] = "ok" => Len(text[t]) = sent[t]

\* query() gives its caller nothing before the end.
Collected == call = "collect" => text[turn] = <<>>

\* What makes OwnAnswers inductive.
TurnInv == Turn!TypeOK /\ Later /\ Rests /\ Works /\ Requested /\ Wired /\ Joined /\ Accepted /\ Queued /\ Given /\ Collected

\* A stream that ends well has yielded every chunk of an answer that is complete.
LEMMA CompletesAnswered ==
  ASSUME TurnInv, Turn!Completes
  PROVE  rpc = "done" /\ Len(text[turn]) = Len(chunks) /\ Len(chunks) = sent[turn] /\ agent[turn] # "working"
<1>1. rpc = "done" /\ Len(chunks) = Len(text[turn])
  BY DEF TurnInv, Turn!TypeOK, Turn!Completes, Queued, Owed, Delivers, Rests, Streams, Turn!Chunks, Turn!End
<1>2. Len(chunks) = sent[turn]
  BY <1>1 DEF TurnInv, Requested, Turn!Completes
<1>3. agent[turn] # "working"
  BY <1>1 DEF TurnInv, Turn!TypeOK, Works, Turn!Completes, Rests
<1> QED BY <1>1, <1>2, <1>3

\* How a frame is dispatched: a chunk is put into the collected ones and into the queue.
Puts(c) == chunks' = Append(chunks, c) /\ queue' = (IF streaming THEN Append(queue, c) ELSE queue)
TakesText ==
    /\ link = "up" /\ rpc = "wait" /\ rpc' = rpc /\ Len(chunks) < sent[turn]
    /\ Puts(Turn!Chunk(turn, Len(chunks) + 1))
Drops == link = "retired" /\ UNCHANGED <<chunks, queue, rpc>>
TakesResponse ==
    /\ rpc = "wait" /\ agent[turn] = "answered" /\ wire' = <<>>
    /\ rpc' \in {"answered", "refused"}
    /\ \/ /\ UNCHANGED <<chunks, queue>>
          /\ link = "up" => Len(chunks) = sent[turn]
       \/ /\ Puts(Turn!Chunk(turn, sent[turn])) /\ sent[turn] > 0
          /\ link = "up" => sent[turn] = Len(chunks) + 1

\* The reader takes the next chunk, drops a frame of a retired connection, or takes the response.
LEMMA Dispatched ==
  ASSUME TurnInv, Turn!Dispatch
  PROVE  TakesText \/ Drops \/ TakesResponse
<1> DEFINE f == wire[1]
<1>1. /\ wire # <<>> /\ Len(wire) \in Nat /\ Len(wire) >= 1 /\ Head(wire) = f /\ f \in Turn!Chunks \cup Turn!Responses
      /\ f.turn = turn /\ link \in {"up", "retired"} /\ call # "idle" /\ turn \in Turn!Turns
      /\ (link = "up" => rpc = "wait")
  BY DEF TurnInv, Turn!TypeOK, Turn!Dispatch, Wired, Rests, Requested
<1>2. CASE f.kind = "text"
  <2>1. ASSUME link = "up" PROVE TakesText
    <3>1. f = Turn!Chunk(turn, Len(chunks) + 1)
      BY <1>1, <1>2, <2>1 DEF TurnInv, Turn!TypeOK, Joined, Turn!Chunks, Turn!Responses, Turn!Chunk
    <3>2. f.n = Len(chunks) + 1 /\ f.n <= sent[turn]
      <4>1. f.n = Len(chunks) + 1 /\ sent[turn] \in Nat /\ Len(chunks) \in Nat
        BY <1>1, <1>2, <2>1 DEF TurnInv, Turn!TypeOK, Joined
      <4>2. CASE wire[Len(wire)].kind = "text"
        BY <1>1, <2>1, <4>1, <4>2 DEF TurnInv, Joined
      <4>3. CASE wire[Len(wire)].kind = "response"
        <5>1. Len(wire) >= 2
          BY <1>1, <1>2, <4>3
        <5> QED BY <1>1, <2>1, <4>1, <4>3, <5>1 DEF TurnInv, Joined
      <4>4. wire[Len(wire)].kind \in {"text", "response"}
        BY <1>1 DEF TurnInv, Turn!TypeOK, Turn!Chunks, Turn!Responses
      <4> QED BY <4>1, <4>2, <4>3, <4>4
    <3> QED BY SMTT(30), <1>1, <1>2, <2>1, <3>1, <3>2 DEF Turn!Dispatch, Turn!Accept, TakesText, Puts, TurnInv,
         Turn!TypeOK
  <2>2. ASSUME link # "up" PROVE Drops
    BY <1>1, <1>2, <2>2 DEF Turn!Dispatch, Drops
  <2> QED BY <2>1, <2>2
<1>3. CASE f.kind = "response"
  <2>1. CASE ~Turn!Pending(f)
    BY <1>1, <1>3, <2>1 DEF Turn!Dispatch, Turn!Pending, Drops
  <2>2. CASE Turn!Pending(f)
    <3>1. f.tail \in BOOLEAN /\ Len(wire) = 1 /\ agent[turn] = "answered" /\ (f.tail => sent[turn] > 0)
      <4>1. f \in Turn!Responses
        BY <1>1, <1>3 DEF Turn!Chunks
      <4>2. f.tail \in BOOLEAN
        BY <4>1 DEF Turn!Responses
      <4>3. 1 \in 1 .. Len(wire)
        BY <1>1
      <4> QED BY <1>3, <4>2, <4>3 DEF TurnInv, Wired
    <3>2. wire' = <<>>
      BY <1>1, <3>1 DEF Turn!Dispatch, TurnInv, Turn!TypeOK
    <3>3. link = "up" => sent[turn] = Len(chunks) + (IF f.tail THEN 1 ELSE 0)
      BY <1>1, <1>3, <3>1 DEF TurnInv, Turn!TypeOK, Joined
    <3>4. rpc' \in {"answered", "refused"}
      BY <1>1, <1>3, <2>2 DEF Turn!Dispatch
    <3>5. IF f.tail THEN Turn!Accept(Turn!Chunk(turn, sent[turn])) ELSE UNCHANGED <<chunks, queue>>
      BY <1>1, <1>3, <2>2 DEF Turn!Dispatch
    <3> QED BY <2>2, <3>1, <3>2, <3>3, <3>4, <3>5 DEF TakesResponse, Turn!Pending, Turn!Accept, Puts,
         TurnInv, Turn!TypeOK
  <2> QED BY <2>1, <2>2
<1> QED BY <1>1, <1>2, <1>3 DEF Turn!Chunks, Turn!Responses

\* The consumer takes the next chunk it is owed, or the sentinel behind the last one.
LEMMA Taken ==
  ASSUME TurnInv, Turn!Takes \/ Turn!Drains
  PROVE  /\ queue # <<>> /\ queue' = Tail(queue) /\ Len(queue) \in Nat /\ call \in {"reads", "drains"}
         /\ turn \in Turn!Turns
         /\ \/ Owed = 0 /\ UNCHANGED text /\ call' = "drains"
            \/ /\ Owed > 0 /\ call' = (IF call = "reads" THEN "holds" ELSE "holdsLast")
               /\ text' = [text EXCEPT ![turn] = Append(@, Turn!Chunk(turn, Len(@) + 1))]
<1>1. queue # <<>> /\ queue' = Tail(queue) /\ Len(queue) \in Nat /\ Len(queue) >= 1 /\ call \in {"reads", "drains"}
  BY DEF Turn!Takes, Turn!Drains, TurnInv, Turn!TypeOK
<1>2. turn \in Turn!Turns /\ Owed \in Nat /\ Head(queue) = queue[1]
  BY <1>1 DEF Rests, TurnInv, Turn!TypeOK, Queued, Delivers
<1>3. queue[1] = IF Owed > 0 THEN Turn!Chunk(turn, Len(text[turn]) + 1) ELSE Turn!End
  BY <1>1, <1>2 DEF TurnInv, Queued, Delivers
<1>4. CASE Owed = 0
  BY <1>1, <1>2, <1>3, <1>4 DEF Turn!Takes, Turn!Drains
<1>5. CASE Owed > 0
  <2>1. Head(queue) = Turn!Chunk(turn, Len(text[turn]) + 1) /\ Head(queue) # Turn!End
    BY <1>2, <1>3, <1>5 DEF Turn!Chunk, Turn!End
  <2>2. text' = [text EXCEPT ![turn] = Append(@, Head(queue))] /\ call' = (IF call = "reads" THEN "holds" ELSE "holdsLast")
    BY <1>1, <2>1 DEF Turn!Takes, Turn!Drains
  <2> QED BY <1>1, <1>2, <1>5, <2>1, <2>2 DEF TurnInv, Turn!TypeOK
<1> QED BY <1>1, <1>2, <1>4, <1>5

\* What the agent writes follows what it has written of this prompt.
Says(f) ==
    \/ f = Turn!Chunk(turn, sent[turn] + 1) /\ agent' = agent /\ sent' = [sent EXCEPT ![turn] = @ + 1]
    \/ /\ f.kind = "response" /\ f.turn = turn /\ f.tail \in BOOLEAN
       /\ agent' = [agent EXCEPT ![turn] = "answered"]
       /\ sent' = [sent EXCEPT ![turn] = IF f.tail THEN @ + 1 ELSE @]

\* The agent writes for the prompt under way only, and nothing after its response.
LEMMA Spoken ==
  ASSUME TurnInv, NEW t \in Turn!Turns, Turn!AgentText(t) \/ Turn!AgentAnswers(t)
  PROVE  /\ t = turn /\ turn \in Turn!Turns /\ call # "idle" /\ link # "down" /\ rpc \in {"wait", "timeout"}
         /\ agent[turn] = "working"
         /\ Len(wire) \in Nat /\ \A i \in 1 .. Len(wire) : wire[i].kind = "text"
         /\ sent[turn] \in Nat /\ (link = "up" => sent[turn] = Len(chunks) + Len(wire))
         /\ UNCHANGED <<link, Turn!callVars, rpc, chunks, Turn!streamVars>>
         /\ \E f : Says(f) /\ wire' = Append(wire, f)
<1>1. agent[t] = "working" /\ link # "down" /\ UNCHANGED <<link, Turn!callVars, rpc, chunks, Turn!streamVars>>
  BY DEF Turn!AgentText, Turn!AgentAnswers
<1>2. t = turn /\ call # "idle" /\ rpc \in {"wait", "timeout"}
  BY <1>1 DEF TurnInv, Works
<1>3. Len(wire) \in Nat /\ \A i \in 1 .. Len(wire) : wire[i].kind = "text"
  <2>1. \A i \in 1 .. Len(wire) : wire[i].kind # "response"
    BY <1>1, <1>2 DEF TurnInv, Wired
  <2>2. \A i \in 1 .. Len(wire) : wire[i] \in Turn!Chunks \cup Turn!Responses
    BY DEF TurnInv, Turn!TypeOK
  <2> QED BY <2>1, <2>2 DEF TurnInv, Turn!TypeOK, Turn!Chunks, Turn!Responses
<1>4. sent[turn] \in Nat /\ (link = "up" => sent[turn] = Len(chunks) + Len(wire))
  BY <1>2, <1>3, BoundsAssumption DEF TurnInv, Turn!TypeOK, Joined
<1>5. \E f : Says(f) /\ wire' = Append(wire, f)
  <2>1. CASE Turn!AgentText(t)
    BY <1>2, <2>1 DEF Turn!AgentText, Says
  <2>2. CASE Turn!AgentAnswers(t)
    <3>1. PICK ok \in BOOLEAN, tail \in BOOLEAN :
            /\ sent' = (IF tail THEN [sent EXCEPT ![t] = @ + 1] ELSE sent)
            /\ wire' = Append(wire, [kind |-> "response", turn |-> t, ok |-> ok, tail |-> tail])
      BY <2>2 DEF Turn!AgentAnswers
    <3>2. sent' = [sent EXCEPT ![t] = IF tail THEN @ + 1 ELSE @]
      BY <3>1 DEF TurnInv, Turn!TypeOK
    <3> DEFINE f == [kind |-> "response", turn |-> t, ok |-> ok, tail |-> tail]
    <3>3. f.kind = "response" /\ f.turn = turn /\ f.tail = tail
      BY <1>2
    <3>4. Says(f)
      BY <1>2, <2>2, <3>2, <3>3 DEF Turn!AgentAnswers, Says
    <3> QED BY <3>1, <3>4
  <2> QED BY <2>1, <2>2
<1> QED BY <1>1, <1>2, <1>3, <1>4, <1>5

\* A list that grows by one element.
LEMMA Appended ==
  ASSUME NEW S, NEW s \in Seq(S), NEW f, NEW r, r = Append(s, f)
  PROVE  /\ Len(s) \in Nat /\ Len(r) = Len(s) + 1 /\ r # <<>> /\ r[Len(s) + 1] = f
         /\ \A i \in 1 .. Len(s) : r[i] = s[i]
OBVIOUS

\* A list that loses its first element.
LEMMA Shortened ==
  ASSUME NEW S, NEW s \in Seq(S), s # <<>>, NEW r, r = Tail(s)
  PROVE  /\ Len(s) \in Nat /\ Len(s) >= 1 /\ Len(r) = Len(s) - 1 /\ (r = <<>> <=> Len(s) = 1)
         /\ \A i \in 1 .. Len(r) : r[i] = s[i + 1]
<1>1. Len(s) \in Nat /\ Len(s) >= 1
  BY EmptySeq
<1>2. r \in Seq(S) /\ Len(r) = Len(s) - 1 /\ \A i \in 1 .. Len(r) : r[i] = s[i + 1]
  OBVIOUS
<1>3. r = <<>> <=> Len(r) = 0
  BY <1>2, EmptySeq
<1> QED BY <1>1, <1>2, <1>3

\* The steps that may begin a prompt, or touch its text, leave the later ones alone.
LEMMA LaterStays ==
  ASSUME TurnInv, Turn!Query \/ Turn!SendStarts \/ Turn!Takes \/ Turn!Drains \/ Turn!Leaves
  PROVE  Later'
<1>1. turn' \in Nat /\ turn \in Nat /\ turn' >= turn
  BY DEF TurnInv, Turn!TypeOK, Turn!Query, Turn!SendStarts, Turn!Takes, Turn!Drains, Turn!Leaves, Turn!Fails
<1>2. \A t \in Turn!Turns : t > turn' => t > turn /\ t # turn /\ t # turn'
  BY <1>1 DEF Turn!Turns
<1>3. UNCHANGED sent
  BY DEF Turn!Query, Turn!SendStarts, Turn!Takes, Turn!Drains, Turn!Leaves, Turn!Fails, Turn!agentVars
<1>4. \A t \in Turn!Turns : t # turn' => agent'[t] = agent[t]
  BY DEF TurnInv, Turn!TypeOK, Turn!Query, Turn!SendStarts, Turn!Written, Turn!Takes, Turn!Drains,
     Turn!Leaves, Turn!Fails, Turn!agentVars
<1>5. \A t \in Turn!Turns : t # turn => text'[t] = text[t]
  <2>1. CASE Turn!Takes \/ Turn!Drains
    <3>1. text' = text \/ text' = [text EXCEPT ![turn] = Append(@, Turn!Chunk(turn, Len(@) + 1))]
      BY <2>1, Taken
    <3> QED BY <3>1 DEF TurnInv, Turn!TypeOK
  <2>2. CASE Turn!Query \/ Turn!SendStarts \/ Turn!Leaves
    BY <2>2 DEF Turn!Query, Turn!SendStarts, Turn!Leaves, Turn!Fails
  <2> QED BY <2>1, <2>2
<1>6. \A t \in Turn!Turns : t # turn => outcome'[t] = outcome[t]
  <2>1. CASE Turn!Leaves
    BY <2>1 DEF Turn!Leaves, Turn!Fails, TurnInv, Turn!TypeOK
  <2>2. CASE Turn!Query \/ Turn!SendStarts \/ Turn!Takes \/ Turn!Drains
    BY <2>2 DEF Turn!Query, Turn!SendStarts, Turn!Takes, Turn!Drains
  <2> QED BY <2>1, <2>2
<1> QED BY <1>2, <1>3, <1>4, <1>5, <1>6 DEF TurnInv, Later

\* What the agent writes keeps what is on its way in order.
LEMMA SpokenOn ==
  ASSUME TurnInv, NEW t \in Turn!Turns, Turn!AgentText(t) \/ Turn!AgentAnswers(t)
  PROVE  Wired' /\ Joined' /\ Accepted' /\ Given'
<1>0. PICK f : Says(f) /\ wire' = Append(wire, f)
  BY Spoken
<1>1. /\ t = turn /\ turn \in Turn!Turns /\ call # "idle" /\ link # "down" /\ agent[turn] = "working"
      /\ \A i \in 1 .. Len(wire) : wire[i].kind = "text"
      /\ sent[turn] \in Nat /\ (link = "up" => sent[turn] = Len(chunks) + Len(wire))
      /\ UNCHANGED <<link, turn, call, text, outcome, rpc, chunks>>
  BY Spoken DEF Turn!callVars
<1>2. /\ Len(wire) \in Nat /\ Len(wire') = Len(wire) + 1 /\ wire'[Len(wire) + 1] = f /\ wire' # <<>>
      /\ \A i \in 1 .. Len(wire) : wire'[i] = wire[i]
  <2>1. wire \in Seq(Turn!Chunks \cup Turn!Responses)
    BY DEF TurnInv, Turn!TypeOK
  <2> QED BY <1>0, <2>1, Appended
<1>3. agent \in [Turn!Turns -> {"none", "working", "answered"}] /\ sent \in [Turn!Turns -> 0 .. MaxText] /\ Len(chunks) \in Nat
  BY DEF TurnInv, Turn!TypeOK
<1>4. \/ /\ f.kind = "text" /\ f.turn = turn /\ f.n = sent[turn] + 1 /\ sent'[turn] = sent[turn] + 1
      \/ /\ f.kind = "response" /\ f.turn = turn /\ agent'[turn] = "answered" /\ f.tail \in BOOLEAN
         /\ sent'[turn] = sent[turn] + (IF f.tail THEN 1 ELSE 0)
  BY <1>0, <1>1, <1>3 DEF Says, Turn!Chunk
<1>5. \A u \in Turn!Turns : u # turn => sent'[u] = sent[u]
  BY <1>0, <1>3 DEF Says
<1>6. sent'[turn] \in Nat /\ sent'[turn] >= sent[turn]
  BY <1>1, <1>4
<1>7. \A i \in 1 .. Len(wire) : wire[i].turn = turn
  BY DEF TurnInv, Wired
<1>8. Wired'
  <2> SUFFICES ASSUME NEW i \in 1 .. Len(wire')
               PROVE  /\ wire'[i].turn = turn
                      /\ wire'[i].kind = "response" => i = Len(wire') /\ agent'[turn] = "answered"
                            /\ (wire'[i].tail => sent'[turn] > 0)
    BY <1>1 DEF Wired
  <2>1. CASE i \in 1 .. Len(wire)
    BY <1>1, <1>2, <1>7, <2>1
  <2>2. CASE i = Len(wire) + 1
    BY <1>1, <1>2, <1>4, <1>6, <2>2
  <2> QED BY <1>2, <2>1, <2>2
<1>9. Joined'
  <2> SUFFICES ASSUME link = "up" PROVE Joined'
    BY <1>1 DEF Joined
  <2>1. \A i \in 1 .. Len(wire) : wire[i].n = Len(chunks) + i
    BY <1>1 DEF TurnInv, Joined
  <2>2. ASSUME NEW i \in 1 .. Len(wire'), wire'[i].kind = "text" PROVE wire'[i].n = Len(chunks) + i
    <3>1. CASE i \in 1 .. Len(wire)
      BY <1>2, <2>1, <3>1
    <3>2. CASE i = Len(wire) + 1
      BY <1>1, <1>2, <1>3, <1>4, <2>2, <3>2
    <3> QED BY <1>2, <3>1, <3>2
  <2>3. ASSUME NEW i \in 1 .. Len(wire'), wire'[i].kind = "response"
        PROVE sent'[turn] = Len(chunks) + Len(wire') - (IF wire'[i].tail THEN 0 ELSE 1)
    <3>1. i = Len(wire) + 1 /\ wire'[i] = f
      BY <1>1, <1>2, <2>3
    <3>2. f.kind = "response" /\ f.tail \in BOOLEAN /\ sent'[turn] = sent[turn] + (IF f.tail THEN 1 ELSE 0)
      BY <1>4, <2>3, <3>1
    <3>3. CASE f.tail
      BY <1>1, <1>2, <1>3, <3>1, <3>2, <3>3
    <3>4. CASE ~f.tail
      BY <1>1, <1>2, <1>3, <3>1, <3>2, <3>4
    <3> QED BY <3>3, <3>4
  <2>4. wire'[Len(wire')].kind = "text" => sent'[turn] = Len(chunks) + Len(wire')
    BY <1>1, <1>2, <1>3, <1>4
  <2> QED BY <1>1, <1>2, <2>2, <2>3, <2>4 DEF Joined
<1>10. Accepted'
  <2>1. call \in Reading => Len(chunks) <= sent[turn] /\ \A i \in 1 .. Len(chunks) : chunks[i] = Turn!Chunk(turn, i)
    BY DEF TurnInv, Accepted
  <2>2. call \in Reading => Len(chunks) <= sent'[turn]
    BY <1>1, <1>3, <1>6, <2>1
  <2> QED BY <1>1, <2>1, <2>2 DEF Accepted
<1>11. Given'
  <2>1. outcome[turn] # "ok"
    BY <1>1 DEF Reading, Rests, TurnInv, Turn!TypeOK
  <2>2. \A u \in Turn!Turns : Len(text[u]) \in Nat
    BY DEF TurnInv, Turn!TypeOK
  <2>3. \A u \in Turn!Turns : sent'[u] \in Nat /\ sent[u] \in Nat /\ sent'[u] >= sent[u]
    BY <1>3, <1>5, <1>6, BoundsAssumption
  <2>4. ASSUME NEW u \in Turn!Turns
        PROVE /\ Len(text[u]) <= sent'[u]
              /\ \A i \in 1 .. Len(text[u]) : text[u][i] = Turn!Chunk(u, i)
              /\ outcome[u] = "ok" => Len(text[u]) = sent'[u]
    <3>1. /\ Len(text[u]) <= sent[u]
          /\ \A i \in 1 .. Len(text[u]) : text[u][i] = Turn!Chunk(u, i)
          /\ outcome[u] = "ok" => Len(text[u]) = sent[u]
      BY DEF TurnInv, Given
    <3> QED BY <1>5, <2>1, <2>2, <2>3, <3>1
  <2> QED BY <1>1, <2>4 DEF Given
<1> QED BY <1>8, <1>9, <1>10, <1>11

\* So does what the reader takes from there.
LEMMA DispatchedOn ==
  ASSUME TurnInv, Turn!Dispatch
  PROVE  Joined' /\ Accepted'
<1>1. /\ UNCHANGED <<link, turn, call, sent>> /\ wire' = Tail(wire) /\ wire # <<>> /\ call # "idle" /\ link # "down"
  BY DEF Turn!Dispatch, TurnInv, Rests, Turn!callVars, Turn!agentVars
<1>2. /\ Len(wire) \in Nat /\ Len(wire) >= 1 /\ Len(wire') = Len(wire) - 1 /\ (wire' = <<>> <=> Len(wire) = 1)
      /\ \A i \in 1 .. Len(wire') : wire'[i] = wire[i + 1]
  BY ZenonT(40), <1>1, Shortened DEF TurnInv, Turn!TypeOK
<1>3. turn \in Turn!Turns /\ sent[turn] \in Nat /\ Len(chunks) \in Nat
  BY <1>1, BoundsAssumption DEF TurnInv, Turn!TypeOK, Rests
<1>4. Drops => Joined' /\ Accepted'
  BY <1>1 DEF Drops, TurnInv, Joined, Accepted
<1>5. ASSUME TakesText PROVE Joined' /\ Accepted'
  <2>1. /\ link = "up" /\ Len(chunks') = Len(chunks) + 1 /\ chunks'[Len(chunks) + 1] = Turn!Chunk(turn, Len(chunks) + 1)
        /\ \A i \in 1 .. Len(chunks) : chunks'[i] = chunks[i]
        /\ Len(chunks) < sent[turn]
    BY <1>5, Appended DEF TakesText, Puts, TurnInv, Turn!TypeOK
  <2>2. /\ \A i \in 1 .. Len(wire) : wire[i].kind = "text" => wire[i].n = Len(chunks) + i
        /\ \A i \in 1 .. Len(wire) : wire[i].kind = "response" =>
              sent[turn] = Len(chunks) + Len(wire) - (IF wire[i].tail THEN 0 ELSE 1)
        /\ wire[Len(wire)].kind = "text" => sent[turn] = Len(chunks) + Len(wire)
    BY <1>1, <2>1 DEF TurnInv, Joined
  <2>3. wire[Len(wire)].kind \in {"text", "response"} /\ (wire[Len(wire)].kind = "response" => wire[Len(wire)].tail \in BOOLEAN)
    <3>1. wire[Len(wire)] \in Turn!Chunks \cup Turn!Responses
      BY <1>2 DEF TurnInv, Turn!TypeOK
    <3> QED BY <3>1 DEF Turn!Chunks, Turn!Responses
  <2>4. ASSUME wire' = <<>> PROVE sent[turn] = Len(chunks')
    <3>1. sent[turn] <= Len(chunks) + 1
      <4>1. Len(wire) = 1 /\ 1 \in 1 .. Len(wire)
        BY <1>2, <2>4
      <4>2. CASE wire[1].kind = "text"
        BY <1>3, <2>2, <4>1, <4>2
      <4>3. CASE wire[1].kind = "response" /\ wire[1].tail
        BY <1>3, <2>2, <4>1, <4>3
      <4>4. CASE wire[1].kind = "response" /\ ~wire[1].tail
        BY <1>3, <2>2, <4>1, <4>4
      <4> QED BY <2>3, <4>1, <4>2, <4>3, <4>4
    <3> QED BY <1>3, <2>1, <3>1
  <2>5. ASSUME NEW i \in 1 .. Len(wire'), wire'[i].kind = "text" PROVE wire'[i].n = Len(chunks') + i
    <3>1. wire'[i] = wire[i + 1] /\ i + 1 \in 1 .. Len(wire) /\ i \in Nat
      BY <1>2
    <3> QED BY <1>3, <2>1, <2>2, <2>5, <3>1
  <2>6. ASSUME NEW i \in 1 .. Len(wire'), wire'[i].kind = "response"
        PROVE sent[turn] = Len(chunks') + Len(wire') - (IF wire'[i].tail THEN 0 ELSE 1)
    <3>1. wire'[i] = wire[i + 1] /\ i + 1 \in 1 .. Len(wire) /\ i \in Nat
      BY <1>2
    <3>2. sent[turn] = Len(chunks) + Len(wire) - (IF wire[i + 1].tail THEN 0 ELSE 1)
      BY <2>2, <2>6, <3>1
    <3>3. CASE wire[i + 1].tail
      BY <1>2, <1>3, <2>1, <3>1, <3>2, <3>3
    <3>4. CASE ~wire[i + 1].tail
      BY <1>2, <1>3, <2>1, <3>1, <3>2, <3>4
    <3> QED BY <3>3, <3>4
  <2>7. ASSUME wire' # <<>>, wire'[Len(wire')].kind = "text" PROVE sent[turn] = Len(chunks') + Len(wire')
    <3>1. wire'[Len(wire')] = wire[Len(wire)]
      BY <1>2, <2>7
    <3> QED BY <1>2, <1>3, <2>1, <2>2, <2>7, <3>1
  <2>8. Joined'
    <3>1. wire' = <<>> => Len(wire') = 0 /\ sent[turn] = Len(chunks') + Len(wire')
      <4>1. ASSUME wire' = <<>> PROVE Len(wire') = 0 /\ sent[turn] = Len(chunks')
        BY <1>2, <2>4, <4>1
      <4>2. Len(chunks') \in Nat
        BY <1>3, <2>1
      <4> QED BY <4>1, <4>2
    <3> QED BY <1>1, <2>5, <2>6, <2>7, <3>1 DEF Joined
  <2>9. Accepted'
    <3>1. ASSUME call \in Reading, NEW i \in 1 .. Len(chunks') PROVE chunks'[i] = Turn!Chunk(turn, i)
      BY <1>3, <2>1, <3>1 DEF TurnInv, Accepted
    <3> QED BY <1>1, <1>3, <2>1, <3>1 DEF Accepted
  <2> QED BY <2>8, <2>9
<1>6. ASSUME TakesResponse PROVE Joined' /\ Accepted'
  <2>1. wire' = <<>> /\ rpc = "wait"
    BY <1>6 DEF TakesResponse
  <2>2. call \in Reading => link = "up"
    BY <2>1 DEF TurnInv, Requested, Reading
  <2>3. CASE UNCHANGED chunks /\ (link = "up" => Len(chunks) = sent[turn])
    <3>1. Joined'
      <4>1. wire' = <<>> /\ \A i \in 1 .. Len(wire') : FALSE
        BY <2>1
      <4>0. Len(wire') = 0
        BY <2>1
      <4>2. link' = "up" => Len(chunks') = sent[turn] /\ sent'[turn'] = sent[turn]
        BY <1>1, <2>3
      <4>3. Len(chunks') \in Nat
        BY <1>3, <2>3
      <4>4. link' = "up" => sent'[turn'] = Len(chunks') + Len(wire')
        BY <4>0, <4>2, <4>3
      <4> QED BY <4>1, <4>4 DEF Joined
    <3> QED BY <1>1, <2>3, <3>1 DEF Accepted, TurnInv
  <2>4. CASE chunks' = Append(chunks, Turn!Chunk(turn, sent[turn])) /\ (link = "up" => sent[turn] = Len(chunks) + 1)
    <3>1. /\ Len(chunks') = Len(chunks) + 1 /\ chunks'[Len(chunks) + 1] = Turn!Chunk(turn, sent[turn])
          /\ \A i \in 1 .. Len(chunks) : chunks'[i] = chunks[i]
      BY <2>4, Appended DEF TurnInv, Turn!TypeOK
    <3>2. Joined'
      BY <1>1, <1>3, <2>1, <2>4, <3>1 DEF Joined
    <3>3. ASSUME call \in Reading, NEW i \in 1 .. Len(chunks') PROVE chunks'[i] = Turn!Chunk(turn, i)
      BY <1>3, <2>2, <2>4, <3>1, <3>3 DEF TurnInv, Accepted
    <3> QED BY <1>1, <1>3, <2>2, <2>4, <3>1, <3>2, <3>3 DEF Accepted
  <2> QED BY <1>6, <2>3, <2>4 DEF TakesResponse, Puts
<1> QED BY <1>4, <1>5, <1>6, Dispatched

\* A new prompt begins with nothing on its way.
LEMMA JoinedQuery == ASSUME TurnInv, Turn!Query PROVE Joined'
<1>1. turn \in 0 .. MaxTurns /\ turn < MaxTurns /\ turn' = turn + 1 /\ chunks' = <<>> /\ UNCHANGED <<wire, sent>> /\ call = "idle"
  BY DEF Turn!Query, Turn!Fresh, TurnInv, Turn!TypeOK
<1>2. turn' \in Turn!Turns /\ turn' > turn
  BY <1>1, BoundsAssumption DEF Turn!Turns
<1>3. sent[turn'] = 0 /\ wire = <<>>
  BY <1>1, <1>2 DEF TurnInv, Later, Rests
<1> QED BY <1>1, <1>3 DEF Joined

\* The numbers that Queued is about.
LEMMA QueuedFacts ==
  ASSUME TurnInv, call \in Delivers
  PROVE  /\ turn \in Turn!Turns /\ Len(chunks) \in Nat /\ Len(text[turn]) \in Nat /\ Len(queue) \in Nat
         /\ Owed \in 0 .. Len(queue) /\ streaming
         /\ \A i \in 1 .. Len(queue) :
              queue[i] = IF i <= Owed THEN Turn!Chunk(turn, Len(text[turn]) + i) ELSE Turn!End
         /\ (Len(queue) > Owed \/ call \in {"drains", "holdsLast"}) =>
              (link = "down" \/ rpc \in {"done", "failed"}) /\ (streamError \/ rpc = "done")
<1>1. turn \in Turn!Turns /\ streaming = TRUE
  BY DEF TurnInv, Turn!TypeOK, Rests, Delivers, Streams
<1>2. Len(chunks) \in Nat /\ Len(text[turn]) \in Nat /\ Len(queue) \in Nat
  BY <1>1 DEF TurnInv, Turn!TypeOK
<1>3. Owed \in 0 .. Len(queue) /\ \A i \in 1 .. Len(queue) :
              queue[i] = IF i <= Owed THEN Turn!Chunk(turn, Len(text[turn]) + i) ELSE Turn!End
  BY DEF TurnInv, Queued
<1>4. (Len(queue) > Owed \/ call \in {"drains", "holdsLast"}) =>
              (link = "down" \/ rpc \in {"done", "failed"}) /\ (streamError \/ rpc = "done")
  BY DEF TurnInv, Queued
<1> QED BY <1>1, <1>2, <1>3, <1>4

\* A chunk that is dispatched is put behind those that the consumer is owed.
LEMMA QueuedDispatch == ASSUME TurnInv, Turn!Dispatch PROVE Queued'
<1> SUFFICES ASSUME call \in Delivers PROVE Queued'
  BY DEF Turn!Dispatch, Turn!callVars, Queued
<1>1. /\ UNCHANGED <<turn, call, text, link, streamError, streaming>> /\ link # "down"
  BY DEF Turn!Dispatch, Turn!callVars
<1>2. rpc = "wait" => rpc \notin {"done", "failed"}
  OBVIOUS
<1>3. ASSUME NEW c, Puts(c), c = Turn!Chunk(turn, Len(chunks) + 1), rpc = "wait" PROVE Queued'
  <2>1. chunks' = Append(chunks, c) /\ queue' = Append(queue, c)
    BY <1>3, QueuedFacts DEF Puts
  <2>2. Len(chunks') = Len(chunks) + 1
    BY <2>1 DEF TurnInv, Turn!TypeOK
  <2>3. /\ Len(queue') = Len(queue) + 1 /\ queue'[Len(queue) + 1] = c
        /\ \A i \in 1 .. Len(queue) : queue'[i] = queue[i]
    <3>1. queue \in Seq(Turn!Chunks \cup {Turn!End})
      BY DEF TurnInv, Turn!TypeOK
    <3> QED BY <2>1, <3>1, Appended
  <2>4. Len(queue) = Owed /\ call \notin {"drains", "holdsLast"}
    BY <1>1, <1>3, QueuedFacts
  <2>5. Owed' = Len(queue) + 1
    BY <1>1, <2>2, <2>4, QueuedFacts DEF Owed
  <2>6. Len(text[turn]) + (Len(queue) + 1) = Len(chunks) + 1
    BY <2>4, QueuedFacts DEF Owed
  <2>7. ASSUME NEW i \in 1 .. Len(queue') PROVE queue'[i] = Turn!Chunk(turn, Len(text[turn]) + i)
    <3>1. CASE i \in 1 .. Len(queue)
      BY <2>3, <2>4, <3>1, QueuedFacts
    <3>2. CASE i = Len(queue) + 1
      BY <1>3, <2>3, <2>6, <3>2
    <3> QED BY <2>3, <3>1, <3>2, QueuedFacts
  <2> QED BY <1>1, <2>3, <2>4, <2>5, <2>7, QueuedFacts DEF Queued
<1>4. CASE Drops
  <2>1. UNCHANGED <<chunks, queue, rpc>>
    BY <1>4 DEF Drops
  <2> QED BY <1>1, <2>1 DEF TurnInv, Queued, Owed
<1>5. CASE TakesText
  BY <1>3, <1>5 DEF TakesText
<1>6. CASE TakesResponse
  <2>1. rpc = "wait" /\ link = "up"
    BY <1>6 DEF TakesResponse, TurnInv, Requested, Delivers
  <2>2. CASE UNCHANGED <<chunks, queue>>
    <3>1. Len(queue) = Owed /\ call \notin {"drains", "holdsLast"}
      BY <1>1, <2>1, QueuedFacts
    <3> QED BY <1>1, <2>2, <3>1, QueuedFacts DEF Queued, Owed
  <2>3. CASE Puts(Turn!Chunk(turn, sent[turn])) /\ sent[turn] = Len(chunks) + 1
    BY <1>3, <2>1, <2>3
  <2> QED BY <1>6, <2>1, <2>2, <2>3 DEF TakesResponse
<1> QED BY <1>4, <1>5, <1>6, Dispatched

\* A sentinel is put behind the chunks, at the end of the reader or of the request.
LEMMA QueuedEnd ==
  ASSUME TurnInv, Turn!ReaderEnds \/ Turn!SendEnds
  PROVE  Queued'
<1> SUFFICES ASSUME call \in Delivers PROVE Queued'
  BY DEF Turn!ReaderEnds, Turn!SendEnds, Turn!callVars, Queued
<1>1. /\ UNCHANGED <<turn, call, text, chunks>> /\ queue' = Append(queue, Turn!End)
  BY QueuedFacts DEF Turn!ReaderEnds, Turn!SendEnds, Turn!callVars, Turn!Enqueue
<1>2. /\ Len(queue') = Len(queue) + 1 /\ queue'[Len(queue) + 1] = Turn!End
      /\ \A i \in 1 .. Len(queue) : queue'[i] = queue[i]
  <2>1. queue \in Seq(Turn!Chunks \cup {Turn!End})
    BY DEF TurnInv, Turn!TypeOK
  <2> QED BY <1>1, <2>1, Appended
<1>3. Owed' = Owed
  BY <1>1 DEF Owed
<1>4. ASSUME NEW i \in 1 .. Len(queue')
      PROVE queue'[i] = IF i <= Owed THEN Turn!Chunk(turn, Len(text[turn]) + i) ELSE Turn!End
  <2>1. CASE i \in 1 .. Len(queue)
    BY <1>2, <2>1, QueuedFacts
  <2>2. CASE i = Len(queue) + 1
    <3>1. Len(queue) \in Nat /\ Owed \in 0 .. Len(queue)
      BY QueuedFacts
    <3>2. ~(i <= Owed)
      BY <2>2, <3>1
    <3> QED BY <1>2, <2>2, <3>2
  <2> QED BY <1>2, <2>1, <2>2, QueuedFacts
<1>5. (link' = "down" \/ rpc' \in {"done", "failed"}) /\ (streamError' \/ rpc' = "done")
  <2>1. CASE Turn!ReaderEnds
    BY <2>1, QueuedFacts DEF Turn!ReaderEnds
  <2>2. CASE Turn!SendEnds
    BY <2>2 DEF Turn!SendEnds
  <2> QED BY <2>1, <2>2
<1> QED BY <1>1, <1>2, <1>3, <1>4, <1>5, QueuedFacts DEF Queued

\* What the consumer takes is what it is owed next.
LEMMA TakenOn ==
  ASSUME TurnInv, Turn!Takes \/ Turn!Drains
  PROVE  Queued' /\ Given'
<1>1. /\ queue # <<>> /\ queue' = Tail(queue) /\ call \in {"reads", "drains"} /\ turn \in Turn!Turns
      /\ call \in Delivers
  BY Taken DEF Delivers
<1>2. UNCHANGED <<turn, outcome, rpc, chunks, streamError, link, sent>>
  BY DEF Turn!Takes, Turn!Drains, Turn!agentVars
<1>3. /\ Len(queue) >= 1 /\ Len(queue') = Len(queue) - 1
      /\ \A i \in 1 .. Len(queue') : queue'[i] = queue[i + 1]
  <2>1. queue \in Seq(Turn!Chunks \cup {Turn!End})
    BY DEF TurnInv, Turn!TypeOK
  <2> QED BY <1>1, <2>1, Shortened
<1>4. /\ \A t \in Turn!Turns : Len(text[t]) \in Nat /\ Len(text[t]) <= sent[t] /\ sent[t] \in Nat
      /\ \A t \in Turn!Turns : \A i \in 1 .. Len(text[t]) : text[t][i] = Turn!Chunk(t, i)
      /\ \A t \in Turn!Turns : outcome[t] = "ok" => Len(text[t]) = sent[t]
      /\ outcome[turn] = "none" /\ Len(chunks) <= sent[turn]
  BY <1>1, BoundsAssumption DEF TurnInv, Turn!TypeOK, Given, Rests, Accepted, Reading
<1>5. CASE Owed = 0 /\ UNCHANGED text /\ call' = "drains"
  <2>1. Queued'
    <3>1. Len(queue) > Owed
      BY <1>1, <1>3, <1>5, QueuedFacts
    <3>2. (link = "down" \/ rpc \in {"done", "failed"}) /\ (streamError \/ rpc = "done")
      BY <1>1, <3>1, QueuedFacts
    <3>3. Owed' = 0
      BY <1>2, <1>5 DEF Owed
    <3>4. ASSUME NEW i \in 1 .. Len(queue') PROVE queue'[i] = Turn!End
      BY <1>1, <1>3, <1>5, QueuedFacts
    <3>5. Owed' \in 0 .. Len(queue') /\ \A i \in 1 .. Len(queue') : ~(i <= Owed')
      BY <1>1, <1>3, <3>3, QueuedFacts
    <3> QED BY <1>2, <3>2, <3>4, <3>5 DEF Queued
  <2>2. Given'
    BY <1>2, <1>4, <1>5 DEF Given
  <2> QED BY <2>1, <2>2
<1>6. CASE /\ Owed > 0 /\ call' = (IF call = "reads" THEN "holds" ELSE "holdsLast")
           /\ text' = [text EXCEPT ![turn] = Append(@, Turn!Chunk(turn, Len(@) + 1))]
  <2>1. /\ Len(text'[turn]) = Len(text[turn]) + 1 /\ text'[turn][Len(text[turn]) + 1] = Turn!Chunk(turn, Len(text[turn]) + 1)
        /\ \A i \in 1 .. Len(text[turn]) : text'[turn][i] = text[turn][i]
        /\ \A t \in Turn!Turns : t # turn => text'[t] = text[t]
    <3>1. text[turn] \in Seq(Turn!Chunks) /\ text'[turn] = Append(text[turn], Turn!Chunk(turn, Len(text[turn]) + 1))
      BY <1>1, <1>6 DEF TurnInv, Turn!TypeOK
    <3>2. \A t \in Turn!Turns : t # turn => text'[t] = text[t]
      BY <1>1, <1>6 DEF TurnInv, Turn!TypeOK
    <3> QED BY <3>1, <3>2, Appended
  <2>2. Len(text[turn]) \in Nat /\ Len(chunks) \in Nat /\ Len(queue) \in Nat /\ Owed \in 0 .. Len(queue)
        /\ Owed = Len(chunks) - Len(text[turn])
    BY <1>1, QueuedFacts DEF Owed
  <2>3. Owed' = Owed - 1 /\ Owed' \in 0 .. Len(queue')
    <3>1. Owed' = Len(chunks) - Len(text'[turn]) /\ Len(text'[turn]) = Len(text[turn]) + 1
      BY <1>2, <2>1 DEF Owed
    <3>2. Owed' = Owed - 1
      BY <2>2, <3>1
    <3> QED BY <1>3, <1>6, <2>2, <3>2
  <2>4. Queued'
    <3>1. ASSUME NEW i \in 1 .. Len(queue')
          PROVE queue'[i] = IF i <= Owed' THEN Turn!Chunk(turn, Len(text'[turn]) + i) ELSE Turn!End
      <4>1. i + 1 \in 1 .. Len(queue) /\ i \in Nat /\ queue'[i] = queue[i + 1] /\ (i <= Owed' <=> i + 1 <= Owed)
        BY SMTT(30), <1>3, <2>2, <2>3
      <4>2. Len(text'[turn]) + i = Len(text[turn]) + (i + 1)
        <5>1. Len(text'[turn]) = Len(text[turn]) + 1 /\ Len(text[turn]) \in Nat /\ i \in Nat
          BY <2>1, <2>2, <4>1
        <5>2. Len(text'[turn]) \in Nat
          BY <5>1
        <5>3. \A a, b, c \in Nat : a = b + 1 => a + c = b + (c + 1)
          OBVIOUS
        <5> QED BY <5>1, <5>2, <5>3, Zenon
      <4>3. queue[i + 1] = IF i + 1 <= Owed THEN Turn!Chunk(turn, Len(text[turn]) + (i + 1)) ELSE Turn!End
        BY <1>1, <4>1, QueuedFacts
      <4> QED BY <4>1, <4>2, <4>3
    <3>2. Len(queue') > Owed' \/ call' \in {"drains", "holdsLast"} => Len(queue) > Owed \/ call \in {"drains", "holdsLast"}
      BY <1>1, <1>3, <1>6, <2>2, <2>3
    <3>3. Len(queue') > Owed' \/ call' \in {"drains", "holdsLast"} =>
            (link = "down" \/ rpc \in {"done", "failed"}) /\ (streamError \/ rpc = "done")
      BY <1>1, <3>2, QueuedFacts
    <3> QED BY <1>2, <2>3, <3>1, <3>3 DEF Queued
  <2>5. Given'
    <3>1. Len(text'[turn]) <= sent[turn]
      BY <1>1, <1>4, <1>6, <2>1, <2>2
    <3>2. ASSUME NEW i \in 1 .. Len(text'[turn]) PROVE text'[turn][i] = Turn!Chunk(turn, i)
      <4>1. Len(text'[turn]) = Len(text[turn]) + 1 /\ Len(text[turn]) \in Nat
        BY <2>1, <2>2
      <4>2. CASE i \in 1 .. Len(text[turn])
        BY <1>1, <1>4, <2>1, <4>2
      <4>3. CASE i = Len(text[turn]) + 1
        BY <2>1, <4>3
      <4> QED BY <3>2, <4>1, <4>2, <4>3
    <3>3. ASSUME NEW t \in Turn!Turns
          PROVE /\ Len(text'[t]) <= sent[t]
                /\ \A i \in 1 .. Len(text'[t]) : text'[t][i] = Turn!Chunk(t, i)
                /\ outcome[t] = "ok" => Len(text'[t]) = sent[t]
      BY <1>4, <2>1, <3>1, <3>2
    <3> QED BY <1>2, <3>3 DEF Given
  <2> QED BY <2>4, <2>5
<1> QED BY <1>5, <1>6, Taken

\* A prompt that does not end well gives nothing more.
LEMMA EndedBadly ==
  ASSUME TurnInv, UNCHANGED <<text, sent>>, NEW how \in {"error", "timeout", "left"},
         outcome' = [outcome EXCEPT ![turn] = how]
  PROVE  Given'
<1>1. \A t \in Turn!Turns : outcome'[t] = "ok" => outcome[t] = "ok"
  BY DEF TurnInv, Turn!TypeOK
<1> QED BY <1>1 DEF TurnInv, Given

\* query() gives all of the chunks.
LEMMA GivenWhole == ASSUME TurnInv, Turn!QueryReturns PROVE Given'
<1>1. /\ call = "collect" /\ rpc = "answered" /\ UNCHANGED <<turn, sent>> /\ turn \in Turn!Turns
      /\ text' = [text EXCEPT ![turn] = chunks] /\ outcome' = [outcome EXCEPT ![turn] = "ok"]
  BY DEF Turn!QueryReturns, Turn!Ends, Turn!agentVars, TurnInv, Rests
<1>2. Len(chunks) = sent[turn] /\ \A i \in 1 .. Len(chunks) : chunks[i] = Turn!Chunk(turn, i)
  BY <1>1 DEF TurnInv, Requested, Accepted, Reading
<1>3. \A t \in Turn!Turns : t # turn => text'[t] = text[t] /\ outcome'[t] = outcome[t]
  BY <1>1 DEF TurnInv, Turn!TypeOK
<1>4. text'[turn] = chunks
  BY <1>1 DEF TurnInv, Turn!TypeOK
<1>5. sent[turn] \in Nat
  BY <1>1, BoundsAssumption DEF TurnInv, Turn!TypeOK
<1>6. ASSUME NEW t \in Turn!Turns
      PROVE /\ Len(text'[t]) <= sent[t]
            /\ \A i \in 1 .. Len(text'[t]) : text'[t][i] = Turn!Chunk(t, i)
            /\ outcome'[t] = "ok" => Len(text'[t]) = sent[t]
  BY <1>2, <1>3, <1>4, <1>5 DEF TurnInv, Given
<1> QED BY <1>1, <1>6 DEF Given

\* The types of what the agent writes,
LEMMA SpokenTypes ==
  ASSUME TurnInv, NEW t \in Turn!Turns, Turn!AgentText(t) \/ Turn!AgentAnswers(t)
  PROVE  /\ agent' \in [Turn!Turns -> {"none", "working", "answered"}] /\ sent' \in [Turn!Turns -> 0 .. MaxText]
         /\ wire' \in Seq(Turn!Chunks \cup Turn!Responses)
<1>1. agent \in [Turn!Turns -> {"none", "working", "answered"}] /\ sent \in [Turn!Turns -> 0 .. MaxText]
      /\ wire \in Seq(Turn!Chunks \cup Turn!Responses) /\ MaxText \in Nat
  BY BoundsAssumption DEF TurnInv, Turn!TypeOK
<1>2. CASE Turn!AgentText(t)
  <2>1. sent[t] + 1 \in 1 .. MaxText /\ sent' = [sent EXCEPT ![t] = sent[t] + 1] /\ agent' = agent
    BY <1>1, <1>2 DEF Turn!AgentText
  <2>2. Turn!Chunk(t, sent[t] + 1) \in Turn!Chunks
    BY <2>1 DEF Turn!Chunk, Turn!Chunks
  <2>3. wire' = Append(wire, Turn!Chunk(t, sent[t] + 1))
    BY <1>2 DEF Turn!AgentText
  <2> QED BY <1>1, <2>1, <2>2, <2>3
<1>3. CASE Turn!AgentAnswers(t)
  <2>1. PICK ok \in BOOLEAN, tail \in BOOLEAN :
          /\ tail => ok /\ sent[t] < MaxText
          /\ sent' = (IF tail THEN [sent EXCEPT ![t] = @ + 1] ELSE sent)
          /\ wire' = Append(wire, [kind |-> "response", turn |-> t, ok |-> ok, tail |-> tail])
    BY <1>3 DEF Turn!AgentAnswers
  <2>2. agent' = [agent EXCEPT ![t] = "answered"]
    BY <1>3 DEF Turn!AgentAnswers
  <2>3. [kind |-> "response", turn |-> t, ok |-> ok, tail |-> tail] \in Turn!Responses
    BY DEF Turn!Responses
  <2>4. sent' \in [Turn!Turns -> 0 .. MaxText]
    <3>1. CASE tail
      BY <1>1, <2>1, <3>1
    <3>2. CASE ~tail
      BY <1>1, <2>1, <3>2
    <3> QED BY <3>1, <3>2
  <2> QED BY <1>1, <2>1, <2>2, <2>3, <2>4
<1> QED BY <1>2, <1>3

\* of what the reader takes
LEMMA DispatchedTypes ==
  ASSUME TurnInv, Turn!Dispatch
  PROVE  chunks' \in Seq(Turn!Chunks) /\ queue' \in Seq(Turn!Chunks \cup {Turn!End})
<1>1. chunks \in Seq(Turn!Chunks) /\ queue \in Seq(Turn!Chunks \cup {Turn!End}) /\ sent \in [Turn!Turns -> 0 .. MaxText] /\ MaxText \in Nat
      /\ Len(chunks) \in Nat
  BY BoundsAssumption DEF TurnInv, Turn!TypeOK
<1>2. turn \in Turn!Turns
  BY DEF TurnInv, Rests, Turn!Dispatch
<1>3. ASSUME NEW n \in 1 .. MaxText, Puts(Turn!Chunk(turn, n)) PROVE chunks' \in Seq(Turn!Chunks) /\ queue' \in Seq(Turn!Chunks \cup {Turn!End})
  <2>1. Turn!Chunk(turn, n) \in Turn!Chunks
    BY <1>2 DEF Turn!Chunk, Turn!Chunks
  <2> QED BY <1>1, <1>3, <2>1 DEF Puts
<1>4. TakesText => Len(chunks) + 1 \in 1 .. MaxText
  BY <1>1, <1>2 DEF TakesText
<1>5. TakesResponse /\ ~UNCHANGED <<chunks, queue>> => sent[turn] \in 1 .. MaxText
  BY <1>1, <1>2 DEF TakesResponse
<1>6. TakesText => Puts(Turn!Chunk(turn, Len(chunks) + 1))
  BY DEF TakesText
<1>7. TakesResponse => UNCHANGED <<chunks, queue>> \/ Puts(Turn!Chunk(turn, sent[turn]))
  BY DEF TakesResponse
<1> QED BY <1>1, <1>3, <1>4, <1>5, <1>6, <1>7, Dispatched DEF Drops

\* and of what the consumer is given.
LEMMA TakenTypes ==
  ASSUME TurnInv, Turn!Takes \/ Turn!Drains
  PROVE text' \in [Turn!Turns -> Seq(Turn!Chunks)]
<1>1. text \in [Turn!Turns -> Seq(Turn!Chunks)] /\ chunks \in Seq(Turn!Chunks) /\ sent \in [Turn!Turns -> 0 .. MaxText] /\ MaxText \in Nat
      /\ turn \in Turn!Turns /\ call \in Delivers
  BY Taken, BoundsAssumption DEF TurnInv, Turn!TypeOK, Delivers
<1>2. CASE UNCHANGED text
  BY <1>1, <1>2
<1>3. CASE Owed > 0 /\ text' = [text EXCEPT ![turn] = Append(@, Turn!Chunk(turn, Len(@) + 1))]
  <2>1. Len(chunks) <= sent[turn] /\ Len(text[turn]) \in Nat /\ Len(chunks) \in Nat
    BY <1>1 DEF TurnInv, Accepted, Reading, Delivers
  <2>2. Len(text[turn]) + 1 \in 1 .. MaxText
    BY <1>1, <1>3, <2>1 DEF Owed
  <2>3. Turn!Chunk(turn, Len(text[turn]) + 1) \in Turn!Chunks
    BY <1>1, <2>2 DEF Turn!Chunk, Turn!Chunks
  <2> QED BY <1>1, <1>3, <2>3
<1> QED BY <1>2, <1>3, Taken

\* TypeOK is kept: the connection and the stages,
LEMMA ScalarTypes == ASSUME TurnInv, Turn!Next PROVE
    /\ link' \in {"up", "retired", "down"} /\ turn' \in 0 .. MaxTurns
         /\ call' \in {"idle", "collect", "reads", "holds", "drains", "holdsLast", "fails"}
         /\ rpc' \in {"none", "start", "wait", "answered", "refused", "broken", "timeout", "done", "failed"}
<1> DEFINE Goal == /\ link' \in {"up", "retired", "down"} /\ turn' \in 0 .. MaxTurns
         /\ call' \in {"idle", "collect", "reads", "holds", "drains", "holdsLast", "fails"}
         /\ rpc' \in {"none", "start", "wait", "answered", "refused", "broken", "timeout", "done", "failed"}
<1> SUFFICES Goal
  OBVIOUS
<1> USE BoundsAssumption DEF TurnInv, Turn!TypeOK, Rests, Turn!Turns, Streams, Reading, Delivers, Owed,
     Turn!Chunks,
        Turn!Responses, Turn!Chunk, Turn!End, Turn!agentVars, Turn!streamVars, Turn!callVars
<1>1. ASSUME Turn!Dispatch PROVE Goal
  BY <1>1, Dispatched DEF Turn!Dispatch, TakesText, Drops, TakesResponse, Puts
<1>2. ASSUME Turn!ReaderEnds PROVE Goal
  BY <1>2 DEF Turn!ReaderEnds, Turn!Enqueue
<1>3. ASSUME Turn!Connect PROVE Goal
  BY <1>3 DEF Turn!Connect
<1>4. ASSUME Turn!Query PROVE Goal
  BY <1>4 DEF Turn!Query, Turn!Fresh, Turn!Written
<1>5. ASSUME Turn!QueryReturns PROVE Goal
  BY <1>5 DEF Turn!QueryReturns, Turn!Ends
<1>6. ASSUME Turn!QueryRefused PROVE Goal
  BY <1>6 DEF Turn!QueryRefused, Turn!Ends
<1>7. ASSUME Turn!QueryInterrupted PROVE Goal
  BY <1>7 DEF Turn!QueryInterrupted, Turn!Retired
<1>8. ASSUME Turn!QueryFails PROVE Goal
  BY <1>8 DEF Turn!QueryFails, Turn!Ends, Turn!Gone
<1>9. ASSUME Turn!QueryStream PROVE Goal
  BY <1>9 DEF Turn!QueryStream, Turn!Fresh
<1>10. ASSUME Turn!SendStarts PROVE Goal
  BY <1>10 DEF Turn!SendStarts, Turn!Written
<1>11. ASSUME Turn!SendInterrupted PROVE Goal
  BY <1>11 DEF Turn!SendInterrupted, Turn!Retired
<1>12. ASSUME Turn!SendEnds PROVE Goal
  BY <1>12 DEF Turn!SendEnds, Turn!Gone, Turn!Enqueue
<1>13. ASSUME Turn!Takes PROVE Goal
  BY <1>13, Taken DEF Turn!Takes
<1>14. ASSUME Turn!Drains PROVE Goal
  BY <1>14, Taken DEF Turn!Drains
<1>15. ASSUME Turn!Resumes PROVE Goal
  BY <1>15 DEF Turn!Resumes
<1>16. ASSUME Turn!Completes PROVE Goal
  BY <1>16 DEF Turn!Completes, Turn!Closes, Turn!Ends
<1>17. ASSUME Turn!StreamFails PROVE Goal
  BY <1>17 DEF Turn!StreamFails, Turn!Fails, Turn!Retired
<1>18. ASSUME Turn!StreamTimeout PROVE Goal
  BY <1>18 DEF Turn!StreamTimeout, Turn!Fails, Turn!Retired
<1>19. ASSUME Turn!Leaves PROVE Goal
  BY <1>19 DEF Turn!Leaves, Turn!Fails, Turn!Retired
<1>20. ASSUME Turn!FailureEnds PROVE Goal
  BY <1>20 DEF Turn!FailureEnds, Turn!Gone, Turn!Closes, Turn!Ends
<1>21. ASSUME UNCHANGED <<call, link, rpc, turn>> PROVE Goal
  BY <1>21
<1>22. ASSUME NEW t \in Turn!Turns, Turn!AgentText(t) \/ Turn!AgentAnswers(t) PROVE Goal
  BY <1>21, <1>22 DEF Turn!AgentText, Turn!AgentAnswers, Turn!callVars, Turn!streamVars
<1> HIDE DEF Goal
<1> QED BY <1>1, <1>2, <1>3, <1>4, <1>5, <1>6, <1>7, <1>8, <1>9, <1>10, <1>11, <1>12, <1>13, <1>14, <1>15,
     <1>16, <1>17, <1>18, <1>19, <1>20, <1>22 DEF Turn!Next, Turn!CallStep, Turn!Interrupts

\* the flags of the stream,
LEMMA FlagTypes == ASSUME TurnInv, Turn!Next PROVE
    streaming' \in BOOLEAN /\ streamError' \in BOOLEAN /\ (~streaming' => queue' = <<>>)
<1> DEFINE Goal == streaming' \in BOOLEAN /\ streamError' \in BOOLEAN /\ (~streaming' => queue' = <<>>)
<1> SUFFICES Goal
  OBVIOUS
<1> USE BoundsAssumption DEF TurnInv, Turn!TypeOK, Turn!Turns, Streams, Reading, Delivers, Owed, Turn!Chunks,
     Turn!Responses,
        Turn!Chunk, Turn!End, Turn!agentVars, Turn!streamVars, Turn!callVars
<1>1. ASSUME Turn!Dispatch PROVE Goal
  BY <1>1, Dispatched DEF Turn!Dispatch, TakesText, Drops, TakesResponse, Puts
<1>2. ASSUME Turn!ReaderEnds PROVE Goal
  BY <1>2 DEF Turn!ReaderEnds, Turn!Enqueue
<1>3. ASSUME Turn!QueryStream PROVE Goal
  BY <1>3 DEF Turn!QueryStream, Turn!Fresh
<1>4. ASSUME Turn!SendEnds PROVE Goal
  BY <1>4 DEF Turn!SendEnds, Turn!Gone, Turn!Enqueue
<1>5. ASSUME Turn!Takes PROVE Goal
  BY <1>5 DEF Turn!Takes
<1>6. ASSUME Turn!Drains PROVE Goal
  BY <1>6 DEF Turn!Drains
<1>7. ASSUME Turn!Completes PROVE Goal
  BY <1>7 DEF Turn!Completes, Turn!Closes, Turn!Ends
<1>8. ASSUME Turn!StreamFails PROVE Goal
  BY <1>8 DEF Turn!StreamFails, Turn!Fails, Turn!Retired
<1>9. ASSUME Turn!StreamTimeout PROVE Goal
  BY <1>9 DEF Turn!StreamTimeout, Turn!Fails, Turn!Retired
<1>10. ASSUME Turn!Leaves PROVE Goal
  BY <1>10 DEF Turn!Leaves, Turn!Fails, Turn!Retired
<1>11. ASSUME Turn!FailureEnds PROVE Goal
  BY <1>11 DEF Turn!FailureEnds, Turn!Gone, Turn!Closes, Turn!Ends
<1>12. ASSUME UNCHANGED <<queue, streamError, streaming>> PROVE Goal
  BY <1>12
<1>13. ASSUME \/ Turn!Connect \/ Turn!Query \/ Turn!QueryReturns \/ Turn!QueryRefused \/ Turn!QueryInterrupted \/ Turn!QueryFails
             \/ Turn!SendStarts \/ Turn!SendInterrupted \/ Turn!Resumes
      PROVE  Goal
  BY <1>12, <1>13 DEF Turn!Connect, Turn!Query, Turn!QueryReturns, Turn!QueryRefused, Turn!QueryInterrupted,
     Turn!QueryFails,
     Turn!SendStarts, Turn!SendInterrupted, Turn!Resumes, Turn!agentVars, Turn!callVars, Turn!streamVars
<1>14. ASSUME NEW t \in Turn!Turns, Turn!AgentText(t) \/ Turn!AgentAnswers(t) PROVE Goal
  BY <1>12, <1>14 DEF Turn!AgentText, Turn!AgentAnswers, Turn!callVars, Turn!streamVars
<1> HIDE DEF Goal
<1> QED BY <1>1, <1>2, <1>3, <1>4, <1>5, <1>6, <1>7, <1>8, <1>9, <1>10, <1>11, <1>13, <1>14 DEF Turn!Next,
     Turn!CallStep, Turn!Interrupts

\* the agent,
LEMMA AgentTypes == ASSUME TurnInv, Turn!Next PROVE
    agent' \in [Turn!Turns -> {"none", "working", "answered"}] /\ sent' \in [Turn!Turns -> 0 .. MaxText]
<1> DEFINE Goal == agent' \in [Turn!Turns -> {"none", "working", "answered"}] /\ sent' \in [Turn!Turns -> 0 .. MaxText]
<1> SUFFICES Goal
  OBVIOUS
<1> USE BoundsAssumption DEF TurnInv, Turn!TypeOK, Rests, Works, Turn!Turns, Streams, Reading, Delivers, Owed,
        Turn!Chunks, Turn!Responses, Turn!Chunk, Turn!End, Turn!agentVars, Turn!streamVars, Turn!callVars
<1>1. ASSUME NEW t \in Turn!Turns, Turn!AgentText(t) PROVE Goal
  BY <1>1, SpokenTypes
<1>2. ASSUME NEW t \in Turn!Turns, Turn!AgentAnswers(t) PROVE Goal
  BY <1>2, SpokenTypes
<1>3. ASSUME Turn!ReaderEnds PROVE Goal
  BY <1>3 DEF Turn!ReaderEnds, Turn!Enqueue
<1>4. ASSUME Turn!Query PROVE Goal
  BY <1>4 DEF Turn!Query, Turn!Fresh, Turn!Written
<1>5. ASSUME Turn!SendStarts PROVE Goal
  BY <1>5 DEF Turn!SendStarts, Turn!Written
<1>6. ASSUME Turn!Completes PROVE Goal
  BY <1>6 DEF Turn!Completes, Turn!Closes, Turn!Ends
<1>7. ASSUME Turn!StreamFails PROVE Goal
  BY <1>7 DEF Turn!StreamFails, Turn!Fails, Turn!Retired
<1>8. ASSUME Turn!StreamTimeout PROVE Goal
  BY <1>8 DEF Turn!StreamTimeout, Turn!Fails, Turn!Retired
<1>9. ASSUME Turn!Leaves PROVE Goal
  BY <1>9 DEF Turn!Leaves, Turn!Fails, Turn!Retired
<1>10. ASSUME Turn!FailureEnds PROVE Goal
  BY <1>10 DEF Turn!FailureEnds, Turn!Gone, Turn!Closes, Turn!Ends
<1>11. ASSUME UNCHANGED <<agent, sent>> PROVE Goal
  BY <1>11
<1>12. ASSUME \/ Turn!Dispatch \/ Turn!Connect \/ Turn!QueryReturns \/ Turn!QueryRefused \/ Turn!QueryInterrupted
             \/ Turn!QueryFails \/ Turn!QueryStream \/ Turn!SendInterrupted \/ Turn!SendEnds \/ Turn!Takes \/ Turn!Drains
             \/ Turn!Resumes
      PROVE  Goal
  BY <1>11, <1>12 DEF Turn!Dispatch, Turn!Connect, Turn!QueryReturns, Turn!QueryRefused,
     Turn!QueryInterrupted, Turn!QueryFails,
     Turn!QueryStream, Turn!SendInterrupted, Turn!SendEnds, Turn!Takes, Turn!Drains, Turn!Resumes,
     Turn!agentVars, Turn!callVars, Turn!streamVars
<1> HIDE DEF Goal
<1> QED BY <1>1, <1>2, <1>3, <1>4, <1>5, <1>6, <1>7, <1>8, <1>9, <1>10, <1>12 DEF Turn!Next, Turn!CallStep,
     Turn!Interrupts

\* what is on its way,
LEMMA WireType == ASSUME TurnInv, Turn!Next PROVE
    wire' \in Seq(Turn!Chunks \cup Turn!Responses)
<1> DEFINE Goal == wire' \in Seq(Turn!Chunks \cup Turn!Responses)
<1> SUFFICES Goal
  OBVIOUS
<1> USE BoundsAssumption DEF TurnInv, Turn!TypeOK, Turn!Turns, Streams, Reading, Delivers, Owed, Turn!Chunks,
     Turn!Responses,
        Turn!Chunk, Turn!End, Turn!agentVars, Turn!streamVars, Turn!callVars
<1>1. ASSUME NEW t \in Turn!Turns, Turn!AgentText(t) PROVE Goal
  BY <1>1, SpokenTypes
<1>2. ASSUME NEW t \in Turn!Turns, Turn!AgentAnswers(t) PROVE Goal
  BY <1>2, SpokenTypes
<1>3. ASSUME Turn!Dispatch PROVE Goal
  BY <1>3 DEF Turn!Dispatch, TakesText, Drops, TakesResponse, Puts
<1>4. ASSUME Turn!ReaderEnds PROVE Goal
  BY <1>4 DEF Turn!ReaderEnds, Turn!Enqueue
<1>5. ASSUME Turn!Completes PROVE Goal
  BY <1>5 DEF Turn!Completes, Turn!Closes, Turn!Ends
<1>6. ASSUME Turn!StreamFails PROVE Goal
  BY <1>6 DEF Turn!StreamFails, Turn!Fails, Turn!Retired
<1>7. ASSUME Turn!StreamTimeout PROVE Goal
  BY <1>7 DEF Turn!StreamTimeout, Turn!Fails, Turn!Retired
<1>8. ASSUME Turn!Leaves PROVE Goal
  BY <1>8 DEF Turn!Leaves, Turn!Fails, Turn!Retired
<1>9. ASSUME Turn!FailureEnds PROVE Goal
  BY <1>9 DEF Turn!FailureEnds, Turn!Gone, Turn!Closes, Turn!Ends
<1>10. ASSUME UNCHANGED <<wire>> PROVE Goal
  BY <1>10
<1>11. ASSUME \/ Turn!Connect \/ Turn!Query \/ Turn!QueryReturns \/ Turn!QueryRefused \/ Turn!QueryInterrupted \/ Turn!QueryFails
             \/ Turn!QueryStream \/ Turn!SendStarts \/ Turn!SendInterrupted \/ Turn!SendEnds \/ Turn!Takes \/ Turn!Drains
             \/ Turn!Resumes
      PROVE  Goal
  BY <1>10, <1>11 DEF Turn!Connect, Turn!Query, Turn!QueryReturns, Turn!QueryRefused, Turn!QueryInterrupted,
     Turn!QueryFails,
     Turn!QueryStream, Turn!SendStarts, Turn!SendInterrupted, Turn!SendEnds, Turn!Takes, Turn!Drains,
     Turn!Resumes, Turn!agentVars, Turn!callVars,
     Turn!streamVars
<1> HIDE DEF Goal
<1> QED BY <1>1, <1>2, <1>3, <1>4, <1>5, <1>6, <1>7, <1>8, <1>9, <1>11 DEF Turn!Next, Turn!CallStep,
     Turn!Interrupts

\* the collected chunks and the queue,
LEMMA ChunkTypes == ASSUME TurnInv, Turn!Next PROVE
    chunks' \in Seq(Turn!Chunks) /\ queue' \in Seq(Turn!Chunks \cup {Turn!End})
<1> DEFINE Goal == chunks' \in Seq(Turn!Chunks) /\ queue' \in Seq(Turn!Chunks \cup {Turn!End})
<1> SUFFICES Goal
  OBVIOUS
<1> USE BoundsAssumption DEF TurnInv, Turn!TypeOK, Rests, Turn!Turns, Streams, Reading, Delivers, Owed,
     Turn!Chunks,
        Turn!Responses, Turn!Chunk, Turn!End, Turn!agentVars, Turn!streamVars, Turn!callVars
<1>1. ASSUME Turn!Dispatch PROVE Goal
  BY <1>1, DispatchedTypes
<1>2. ASSUME Turn!ReaderEnds PROVE Goal
  BY <1>2 DEF Turn!ReaderEnds, Turn!Enqueue
<1>3. ASSUME Turn!Query PROVE Goal
  BY <1>3 DEF Turn!Query, Turn!Fresh, Turn!Written
<1>4. ASSUME Turn!QueryStream PROVE Goal
  BY <1>4 DEF Turn!QueryStream, Turn!Fresh
<1>5. ASSUME Turn!SendEnds PROVE Goal
  BY <1>5 DEF Turn!SendEnds, Turn!Gone, Turn!Enqueue
<1>6. ASSUME Turn!Takes PROVE Goal
  BY <1>6 DEF Turn!Takes
<1>7. ASSUME Turn!Drains PROVE Goal
  BY <1>7 DEF Turn!Drains
<1>8. ASSUME Turn!Completes PROVE Goal
  BY <1>8 DEF Turn!Completes, Turn!Closes, Turn!Ends
<1>9. ASSUME Turn!StreamFails PROVE Goal
  BY <1>9 DEF Turn!StreamFails, Turn!Fails, Turn!Retired
<1>10. ASSUME Turn!StreamTimeout PROVE Goal
  BY <1>10 DEF Turn!StreamTimeout, Turn!Fails, Turn!Retired
<1>11. ASSUME Turn!Leaves PROVE Goal
  BY <1>11 DEF Turn!Leaves, Turn!Fails, Turn!Retired
<1>12. ASSUME Turn!FailureEnds PROVE Goal
  BY <1>12 DEF Turn!FailureEnds, Turn!Gone, Turn!Closes, Turn!Ends
<1>13. ASSUME UNCHANGED <<chunks, queue>> PROVE Goal
  BY <1>13
<1>14. ASSUME \/ Turn!Connect \/ Turn!QueryReturns \/ Turn!QueryRefused \/ Turn!QueryInterrupted \/ Turn!QueryFails
             \/ Turn!SendStarts \/ Turn!SendInterrupted \/ Turn!Resumes
      PROVE  Goal
  BY <1>13, <1>14 DEF Turn!Connect, Turn!QueryReturns, Turn!QueryRefused, Turn!QueryInterrupted,
     Turn!QueryFails, Turn!SendStarts,
     Turn!SendInterrupted, Turn!Resumes, Turn!agentVars, Turn!callVars, Turn!streamVars
<1>15. ASSUME NEW t \in Turn!Turns, Turn!AgentText(t) \/ Turn!AgentAnswers(t) PROVE Goal
  BY <1>13, <1>15 DEF Turn!AgentText, Turn!AgentAnswers, Turn!callVars, Turn!streamVars
<1> HIDE DEF Goal
<1> QED BY <1>1, <1>2, <1>3, <1>4, <1>5, <1>6, <1>7, <1>8, <1>9, <1>10, <1>11, <1>12, <1>14, <1>15
     DEF Turn!Next,
     Turn!CallStep, Turn!Interrupts

\* and what the callers got.
LEMMA GivenTypes == ASSUME TurnInv, Turn!Next PROVE
    text' \in [Turn!Turns -> Seq(Turn!Chunks)] /\ outcome' \in [Turn!Turns -> {"none", "ok", "error", "timeout", "left"}]
<1> DEFINE Goal == text' \in [Turn!Turns -> Seq(Turn!Chunks)] /\ outcome' \in [Turn!Turns -> {"none", "ok", "error", "timeout", "left"}]
<1> SUFFICES Goal
  OBVIOUS
<1> USE BoundsAssumption DEF TurnInv, Turn!TypeOK, Rests, Turn!Turns, Streams, Reading, Delivers, Owed,
     Turn!Chunks,
        Turn!Responses, Turn!Chunk, Turn!End, Turn!agentVars, Turn!streamVars, Turn!callVars
<1>1. ASSUME Turn!QueryReturns PROVE Goal
  BY <1>1 DEF Turn!QueryReturns, Turn!Ends
<1>2. ASSUME Turn!QueryRefused PROVE Goal
  BY <1>2 DEF Turn!QueryRefused, Turn!Ends
<1>3. ASSUME Turn!QueryFails PROVE Goal
  BY <1>3 DEF Turn!QueryFails, Turn!Ends, Turn!Gone
<1>4. ASSUME Turn!Takes PROVE Goal
  BY <1>4, TakenTypes DEF Turn!Takes, TurnInv, Turn!TypeOK
<1>5. ASSUME Turn!Drains PROVE Goal
  BY <1>5, TakenTypes DEF Turn!Drains, TurnInv, Turn!TypeOK
<1>6. ASSUME Turn!Completes PROVE Goal
  BY <1>6 DEF Turn!Completes, Turn!Closes, Turn!Ends
<1>7. ASSUME Turn!StreamFails PROVE Goal
  BY <1>7 DEF Turn!StreamFails, Turn!Fails, Turn!Retired
<1>8. ASSUME Turn!StreamTimeout PROVE Goal
  BY <1>8 DEF Turn!StreamTimeout, Turn!Fails, Turn!Retired
<1>9. ASSUME Turn!Leaves PROVE Goal
  BY <1>9 DEF Turn!Leaves, Turn!Fails, Turn!Retired
<1>10. ASSUME Turn!FailureEnds PROVE Goal
  BY <1>10 DEF Turn!FailureEnds, Turn!Gone, Turn!Closes, Turn!Ends
<1>11. ASSUME UNCHANGED <<outcome, text>> PROVE Goal
  BY <1>11
<1>12. ASSUME \/ Turn!Dispatch \/ Turn!ReaderEnds \/ Turn!Connect \/ Turn!Query \/ Turn!QueryInterrupted \/ Turn!QueryStream
             \/ Turn!SendStarts \/ Turn!SendInterrupted \/ Turn!SendEnds \/ Turn!Resumes
      PROVE  Goal
  BY <1>11, <1>12 DEF Turn!Dispatch, Turn!ReaderEnds, Turn!Connect, Turn!Query, Turn!QueryInterrupted,
     Turn!QueryStream, Turn!SendStarts,
     Turn!SendInterrupted, Turn!SendEnds, Turn!Resumes, Turn!agentVars, Turn!callVars, Turn!streamVars
<1>13. ASSUME NEW t \in Turn!Turns, Turn!AgentText(t) \/ Turn!AgentAnswers(t) PROVE Goal
  BY <1>11, <1>13 DEF Turn!AgentText, Turn!AgentAnswers, Turn!callVars, Turn!streamVars
<1> HIDE DEF Goal
<1> QED BY <1>1, <1>2, <1>3, <1>4, <1>5, <1>6, <1>7, <1>8, <1>9, <1>10, <1>12, <1>13 DEF Turn!Next,
     Turn!CallStep,
     Turn!Interrupts

\* No step starts a prompt before its time.
LEMMA LaterKept == ASSUME TurnInv, Turn!Next PROVE Later'
<1> USE BoundsAssumption DEF TurnInv, Turn!TypeOK, Later, Rests, Works, Turn!Turns, Streams, Reading,
     Delivers, Owed,
        Turn!Chunks, Turn!Responses, Turn!Chunk, Turn!End, Turn!agentVars, Turn!streamVars, Turn!callVars
<1>1. ASSUME NEW t \in Turn!Turns, Turn!AgentText(t) PROVE Later'
  BY <1>1 DEF Turn!AgentText
<1>2. ASSUME NEW t \in Turn!Turns, Turn!AgentAnswers(t) PROVE Later'
  BY <1>2 DEF Turn!AgentAnswers
<1>3. ASSUME Turn!ReaderEnds PROVE Later'
  BY <1>3 DEF Turn!ReaderEnds, Turn!Enqueue
<1>4. ASSUME Turn!Query PROVE Later'
  BY <1>4, LaterStays
<1>5. ASSUME Turn!QueryReturns PROVE Later'
  BY <1>5 DEF Turn!QueryReturns, Turn!Ends
<1>6. ASSUME Turn!QueryRefused PROVE Later'
  BY <1>6 DEF Turn!QueryRefused, Turn!Ends
<1>7. ASSUME Turn!QueryFails PROVE Later'
  BY <1>7 DEF Turn!QueryFails, Turn!Ends, Turn!Gone
<1>8. ASSUME Turn!QueryStream PROVE Later'
  BY <1>8 DEF Turn!QueryStream, Turn!Fresh
<1>9. ASSUME Turn!SendStarts PROVE Later'
  BY <1>9, LaterStays
<1>10. ASSUME Turn!Takes PROVE Later'
  BY <1>10, LaterStays
<1>11. ASSUME Turn!Drains PROVE Later'
  BY <1>11, LaterStays
<1>12. ASSUME Turn!Completes PROVE Later'
  BY <1>12 DEF Turn!Completes, Turn!Closes, Turn!Ends
<1>13. ASSUME Turn!StreamFails PROVE Later'
  BY <1>13 DEF Turn!StreamFails, Turn!Fails, Turn!Retired
<1>14. ASSUME Turn!StreamTimeout PROVE Later'
  BY <1>14 DEF Turn!StreamTimeout, Turn!Fails, Turn!Retired
<1>15. ASSUME Turn!Leaves PROVE Later'
  BY <1>15, LaterStays
<1>16. ASSUME Turn!FailureEnds PROVE Later'
  BY <1>16 DEF Turn!FailureEnds, Turn!Gone, Turn!Closes, Turn!Ends
<1>17. ASSUME UNCHANGED <<agent, outcome, sent, text, turn>> PROVE Later'
  BY <1>17
<1>18. ASSUME Turn!Dispatch \/ Turn!Connect \/ Turn!QueryInterrupted \/ Turn!SendInterrupted \/ Turn!SendEnds \/ Turn!Resumes PROVE Later'
  BY <1>17, <1>18 DEF Turn!Dispatch, Turn!Connect, Turn!QueryInterrupted, Turn!SendInterrupted,
     Turn!SendEnds, Turn!Resumes,
     Turn!agentVars, Turn!callVars, Turn!streamVars
<1> QED BY <1>1, <1>2, <1>3, <1>4, <1>5, <1>6, <1>7, <1>8, <1>9, <1>10, <1>11, <1>12, <1>13, <1>14, <1>15,
     <1>16, <1>18 DEF Turn!Next, Turn!CallStep, Turn!Interrupts

\* Nothing is under way between two prompts.
LEMMA RestsKept == ASSUME TurnInv, Turn!Next PROVE Rests'
<1> USE BoundsAssumption DEF TurnInv, Turn!TypeOK, Rests, Works, Turn!Turns, Streams, Reading, Delivers, Owed,
        Turn!Chunks, Turn!Responses, Turn!Chunk, Turn!End, Turn!agentVars, Turn!streamVars, Turn!callVars
<1>1. ASSUME NEW t \in Turn!Turns, Turn!AgentText(t) PROVE Rests'
  BY <1>1 DEF Turn!AgentText
<1>2. ASSUME NEW t \in Turn!Turns, Turn!AgentAnswers(t) PROVE Rests'
  BY <1>2 DEF Turn!AgentAnswers
<1>3. ASSUME Turn!Dispatch PROVE Rests'
  BY <1>3, Dispatched DEF Turn!Dispatch, TakesText, Drops, TakesResponse, Puts
<1>4. ASSUME Turn!ReaderEnds PROVE Rests'
  BY <1>4 DEF Turn!ReaderEnds, Turn!Enqueue
<1>5. ASSUME Turn!Connect PROVE Rests'
  BY <1>5 DEF Turn!Connect
<1>6. ASSUME Turn!Query PROVE Rests'
  BY <1>6 DEF Turn!Query, Turn!Fresh, Turn!Written, Later
<1>7. ASSUME Turn!QueryReturns PROVE Rests'
  BY <1>7 DEF Turn!QueryReturns, Turn!Ends, Requested
<1>8. ASSUME Turn!QueryRefused PROVE Rests'
  BY <1>8 DEF Turn!QueryRefused, Turn!Ends, Requested
<1>9. ASSUME Turn!QueryInterrupted PROVE Rests'
  BY <1>9 DEF Turn!QueryInterrupted, Turn!Retired
<1>10. ASSUME Turn!QueryFails PROVE Rests'
  BY <1>10 DEF Turn!QueryFails, Turn!Ends, Turn!Gone, Requested
<1>11. ASSUME Turn!QueryStream PROVE Rests'
  BY <1>11 DEF Turn!QueryStream, Turn!Fresh, Later
<1>12. ASSUME Turn!SendStarts PROVE Rests'
  BY <1>12 DEF Turn!SendStarts, Turn!Written
<1>13. ASSUME Turn!SendInterrupted PROVE Rests'
  BY <1>13 DEF Turn!SendInterrupted, Turn!Retired
<1>14. ASSUME Turn!SendEnds PROVE Rests'
  BY <1>14 DEF Turn!SendEnds, Turn!Gone, Turn!Enqueue
<1>15. ASSUME Turn!Takes PROVE Rests'
  BY <1>15, Taken DEF Turn!Takes
<1>16. ASSUME Turn!Drains PROVE Rests'
  BY <1>16, Taken DEF Turn!Drains
<1>17. ASSUME Turn!Resumes PROVE Rests'
  BY <1>17 DEF Turn!Resumes
<1>18. ASSUME Turn!Completes PROVE Rests'
  BY <1>18, CompletesAnswered DEF Turn!Completes, Turn!Closes, Turn!Ends, Requested
<1>19. ASSUME Turn!StreamFails PROVE Rests'
  BY <1>19 DEF Turn!StreamFails, Turn!Fails, Turn!Retired
<1>20. ASSUME Turn!StreamTimeout PROVE Rests'
  BY <1>20 DEF Turn!StreamTimeout, Turn!Fails, Turn!Retired
<1>21. ASSUME Turn!Leaves PROVE Rests'
  BY <1>21 DEF Turn!Leaves, Turn!Fails, Turn!Retired
<1>22. ASSUME Turn!FailureEnds PROVE Rests'
  BY <1>22 DEF Turn!FailureEnds, Turn!Gone, Turn!Closes, Turn!Ends, Requested
<1>23. ASSUME UNCHANGED <<agent, call, link, outcome, rpc, streaming, turn, wire>> PROVE Rests'
  BY <1>23
<1> QED BY <1>1, <1>2, <1>3, <1>4, <1>5, <1>6, <1>7, <1>8, <1>9, <1>10, <1>11, <1>12, <1>13, <1>14, <1>15,
     <1>16, <1>17, <1>18, <1>19, <1>20, <1>21, <1>22 DEF Turn!Next, Turn!CallStep, Turn!Interrupts

\* The agent works on no prompt but the one under way.
LEMMA WorksKept == ASSUME TurnInv, Turn!Next PROVE Works'
<1> USE BoundsAssumption DEF TurnInv, Turn!TypeOK, Works, Rests, Turn!Turns, Streams, Reading, Delivers, Owed,
        Turn!Chunks, Turn!Responses, Turn!Chunk, Turn!End, Turn!agentVars, Turn!streamVars, Turn!callVars
<1>1. ASSUME NEW t \in Turn!Turns, Turn!AgentAnswers(t) PROVE Works'
  BY <1>1 DEF Turn!AgentAnswers
<1>2. ASSUME Turn!Dispatch PROVE Works'
  BY <1>2, Dispatched DEF Turn!Dispatch, TakesText, Drops, TakesResponse, Puts, Wired
<1>3. ASSUME Turn!ReaderEnds PROVE Works'
  BY <1>3 DEF Turn!ReaderEnds, Turn!Enqueue
<1>4. ASSUME Turn!Connect PROVE Works'
  BY <1>4 DEF Turn!Connect
<1>5. ASSUME Turn!Query PROVE Works'
  BY <1>5 DEF Turn!Query, Turn!Fresh, Turn!Written
<1>6. ASSUME Turn!QueryReturns PROVE Works'
  BY <1>6 DEF Turn!QueryReturns, Turn!Ends
<1>7. ASSUME Turn!QueryRefused PROVE Works'
  BY <1>7 DEF Turn!QueryRefused, Turn!Ends
<1>8. ASSUME Turn!QueryInterrupted PROVE Works'
  BY <1>8 DEF Turn!QueryInterrupted, Turn!Retired
<1>9. ASSUME Turn!QueryFails PROVE Works'
  BY <1>9 DEF Turn!QueryFails, Turn!Ends, Turn!Gone
<1>10. ASSUME Turn!QueryStream PROVE Works'
  BY <1>10 DEF Turn!QueryStream, Turn!Fresh
<1>11. ASSUME Turn!SendStarts PROVE Works'
  BY <1>11 DEF Turn!SendStarts, Turn!Written
<1>12. ASSUME Turn!SendInterrupted PROVE Works'
  BY <1>12 DEF Turn!SendInterrupted, Turn!Retired
<1>13. ASSUME Turn!SendEnds PROVE Works'
  BY <1>13 DEF Turn!SendEnds, Turn!Gone, Turn!Enqueue
<1>14. ASSUME Turn!Takes PROVE Works'
  BY <1>14, Taken DEF Turn!Takes
<1>15. ASSUME Turn!Drains PROVE Works'
  BY <1>15, Taken DEF Turn!Drains
<1>16. ASSUME Turn!Resumes PROVE Works'
  BY <1>16 DEF Turn!Resumes
<1>17. ASSUME Turn!Completes PROVE Works'
  BY <1>17, CompletesAnswered DEF Turn!Completes, Turn!Closes, Turn!Ends
<1>18. ASSUME Turn!StreamFails PROVE Works'
  BY <1>18 DEF Turn!StreamFails, Turn!Fails, Turn!Retired
<1>19. ASSUME Turn!StreamTimeout PROVE Works'
  BY <1>19 DEF Turn!StreamTimeout, Turn!Fails, Turn!Retired
<1>20. ASSUME Turn!Leaves PROVE Works'
  BY <1>20 DEF Turn!Leaves, Turn!Fails, Turn!Retired
<1>21. ASSUME Turn!FailureEnds PROVE Works'
  BY <1>21 DEF Turn!FailureEnds, Turn!Gone, Turn!Closes, Turn!Ends
<1>22. ASSUME UNCHANGED <<agent, call, link, rpc, turn>> PROVE Works'
  BY <1>22
<1>23. ASSUME NEW t \in Turn!Turns, Turn!AgentText(t) PROVE Works'
  BY <1>22, <1>23 DEF Turn!AgentText, Turn!callVars, Turn!streamVars
<1> QED BY <1>1, <1>2, <1>3, <1>4, <1>5, <1>6, <1>7, <1>8, <1>9, <1>10, <1>11, <1>12, <1>13, <1>14, <1>15,
     <1>16, <1>17, <1>18, <1>19, <1>20, <1>21, <1>23 DEF Turn!Next, Turn!CallStep, Turn!Interrupts

\* Every step keeps what the stages tell of the connection.
LEMMA RequestedKept == ASSUME TurnInv, Turn!Next PROVE Requested'
<1> USE BoundsAssumption DEF TurnInv, Turn!TypeOK, Requested, Rests, Works, Turn!Turns, Streams, Reading,
     Delivers,
        Owed, Turn!Chunks, Turn!Responses, Turn!Chunk, Turn!End, Turn!agentVars, Turn!streamVars,
        Turn!callVars
<1>1. ASSUME NEW t \in Turn!Turns, Turn!AgentText(t) PROVE Requested'
  BY <1>1 DEF Turn!AgentText
<1>2. ASSUME NEW t \in Turn!Turns, Turn!AgentAnswers(t) PROVE Requested'
  BY <1>2 DEF Turn!AgentAnswers
<1>3. ASSUME Turn!Dispatch PROVE Requested'
  <2>1. /\ UNCHANGED <<link, turn, call, sent, agent>> /\ wire' = Tail(wire) /\ wire # <<>> /\ link # "down"
        /\ call # "idle"
    BY <1>3 DEF Turn!Dispatch
  <2>2. CASE TakesText
    BY <2>1, <2>2 DEF TakesText
  <2>3. CASE Drops
    BY <2>1, <2>3 DEF Drops
  <2>4. CASE TakesResponse
    <3>1. rpc = "wait" /\ wire' = <<>> /\ rpc' \in {"answered", "refused"}
      BY <2>4 DEF TakesResponse
    <3>2. link = "up" => Len(chunks') = sent[turn]
      BY <2>4 DEF TakesResponse, Puts
    <3> QED BY <2>1, <3>1, <3>2
  <2> QED BY <1>3, <2>2, <2>3, <2>4, Dispatched
<1>4. ASSUME Turn!ReaderEnds PROVE Requested'
  BY <1>4 DEF Turn!ReaderEnds, Turn!Enqueue
<1>5. ASSUME Turn!Connect PROVE Requested'
  BY <1>5 DEF Turn!Connect
<1>6. ASSUME Turn!Query PROVE Requested'
  BY <1>6 DEF Turn!Query, Turn!Fresh, Turn!Written
<1>7. ASSUME Turn!QueryReturns PROVE Requested'
  BY <1>7 DEF Turn!QueryReturns, Turn!Ends
<1>8. ASSUME Turn!QueryRefused PROVE Requested'
  BY <1>8 DEF Turn!QueryRefused, Turn!Ends
<1>9. ASSUME Turn!QueryInterrupted PROVE Requested'
  BY <1>9 DEF Turn!QueryInterrupted, Turn!Retired
<1>10. ASSUME Turn!QueryFails PROVE Requested'
  BY <1>10 DEF Turn!QueryFails, Turn!Ends, Turn!Gone
<1>11. ASSUME Turn!QueryStream PROVE Requested'
  BY <1>11 DEF Turn!QueryStream, Turn!Fresh, Later
<1>12. ASSUME Turn!SendStarts PROVE Requested'
  BY <1>12 DEF Turn!SendStarts, Turn!Written
<1>13. ASSUME Turn!SendInterrupted PROVE Requested'
  BY <1>13 DEF Turn!SendInterrupted, Turn!Retired
<1>14. ASSUME Turn!SendEnds PROVE Requested'
  BY <1>14 DEF Turn!SendEnds, Turn!Gone, Turn!Enqueue
<1>15. ASSUME Turn!Takes PROVE Requested'
  BY <1>15, Taken DEF Turn!Takes
<1>16. ASSUME Turn!Drains PROVE Requested'
  BY <1>16, Taken DEF Turn!Drains
<1>17. ASSUME Turn!Resumes PROVE Requested'
  BY <1>17 DEF Turn!Resumes
<1>18. ASSUME Turn!Completes PROVE Requested'
  BY <1>18, CompletesAnswered DEF Turn!Completes, Turn!Closes, Turn!Ends
<1>19. ASSUME Turn!StreamFails PROVE Requested'
  BY <1>19 DEF Turn!StreamFails, Turn!Fails, Turn!Retired
<1>20. ASSUME Turn!StreamTimeout PROVE Requested'
  BY <1>20 DEF Turn!StreamTimeout, Turn!Fails, Turn!Retired
<1>21. ASSUME Turn!Leaves PROVE Requested'
  BY <1>21 DEF Turn!Leaves, Turn!Fails, Turn!Retired
<1>22. ASSUME Turn!FailureEnds PROVE Requested'
  BY <1>22 DEF Turn!FailureEnds, Turn!Gone, Turn!Closes, Turn!Ends
<1>23. ASSUME UNCHANGED <<agent, call, chunks, link, rpc, sent, turn, wire>> PROVE Requested'
  BY <1>23
<1> QED BY <1>1, <1>2, <1>3, <1>4, <1>5, <1>6, <1>7, <1>8, <1>9, <1>10, <1>11, <1>12, <1>13, <1>14, <1>15,
     <1>16, <1>17, <1>18, <1>19, <1>20, <1>21, <1>22 DEF Turn!Next, Turn!CallStep, Turn!Interrupts

\* No frame of another prompt is on its way.
LEMMA WiredKept == ASSUME TurnInv, Turn!Next PROVE Wired'
<1> USE BoundsAssumption DEF TurnInv, Turn!TypeOK, Wired, Rests, Works, Requested, Later, Turn!Turns, Streams,
        Reading, Delivers, Owed, Turn!Chunks, Turn!Responses, Turn!Chunk, Turn!End, Turn!agentVars,
        Turn!streamVars, Turn!callVars
<1>1. ASSUME NEW t \in Turn!Turns, Turn!AgentText(t) PROVE Wired'
  BY <1>1, SpokenOn
<1>2. ASSUME NEW t \in Turn!Turns, Turn!AgentAnswers(t) PROVE Wired'
  BY <1>2, SpokenOn
<1>3. ASSUME Turn!Dispatch PROVE Wired'
  BY <1>3, Dispatched DEF Turn!Dispatch, TakesText, Drops, TakesResponse, Puts
<1>4. ASSUME Turn!ReaderEnds PROVE Wired'
  BY <1>4 DEF Turn!ReaderEnds, Turn!Enqueue
<1>5. ASSUME Turn!Query PROVE Wired'
  BY <1>5 DEF Turn!Query, Turn!Fresh, Turn!Written
<1>6. ASSUME Turn!QueryStream PROVE Wired'
  BY <1>6 DEF Turn!QueryStream, Turn!Fresh
<1>7. ASSUME Turn!SendStarts PROVE Wired'
  BY <1>7 DEF Turn!SendStarts, Turn!Written
<1>8. ASSUME Turn!Completes PROVE Wired'
  BY <1>8 DEF Turn!Completes, Turn!Closes, Turn!Ends
<1>9. ASSUME Turn!StreamFails PROVE Wired'
  BY <1>9 DEF Turn!StreamFails, Turn!Fails, Turn!Retired
<1>10. ASSUME Turn!StreamTimeout PROVE Wired'
  BY <1>10 DEF Turn!StreamTimeout, Turn!Fails, Turn!Retired
<1>11. ASSUME Turn!Leaves PROVE Wired'
  BY <1>11 DEF Turn!Leaves, Turn!Fails, Turn!Retired
<1>12. ASSUME Turn!FailureEnds PROVE Wired'
  BY <1>12 DEF Turn!FailureEnds, Turn!Gone, Turn!Closes, Turn!Ends
<1>13. ASSUME UNCHANGED <<agent, sent, turn, wire>> PROVE Wired'
  BY <1>13
<1>14. ASSUME \/ Turn!Connect \/ Turn!QueryReturns \/ Turn!QueryRefused \/ Turn!QueryInterrupted \/ Turn!QueryFails
             \/ Turn!SendInterrupted \/ Turn!SendEnds \/ Turn!Takes \/ Turn!Drains \/ Turn!Resumes
      PROVE  Wired'
  BY <1>13, <1>14 DEF Turn!Connect, Turn!QueryReturns, Turn!QueryRefused, Turn!QueryInterrupted,
     Turn!QueryFails,
     Turn!SendInterrupted, Turn!SendEnds, Turn!Takes, Turn!Drains, Turn!Resumes, Turn!agentVars,
     Turn!callVars, Turn!streamVars
<1> QED BY <1>1, <1>2, <1>3, <1>4, <1>5, <1>6, <1>7, <1>8, <1>9, <1>10, <1>11, <1>12, <1>14 DEF Turn!Next,
     Turn!CallStep, Turn!Interrupts

\* Nothing is lost, repeated or reordered on the way.
LEMMA JoinedKept == ASSUME TurnInv, Turn!Next PROVE Joined'
<1> USE BoundsAssumption DEF TurnInv, Turn!TypeOK, Joined, Wired, Rests, Works, Requested, Later, Turn!Turns,
        Streams, Reading, Delivers, Owed, Turn!Chunks, Turn!Responses, Turn!Chunk, Turn!End, Turn!agentVars,
        Turn!streamVars, Turn!callVars
<1>1. ASSUME NEW t \in Turn!Turns, Turn!AgentText(t) PROVE Joined'
  BY <1>1, SpokenOn
<1>2. ASSUME NEW t \in Turn!Turns, Turn!AgentAnswers(t) PROVE Joined'
  BY <1>2, SpokenOn
<1>3. ASSUME Turn!Dispatch PROVE Joined'
  BY <1>3, DispatchedOn
<1>4. ASSUME Turn!ReaderEnds PROVE Joined'
  BY <1>4 DEF Turn!ReaderEnds, Turn!Enqueue
<1>5. ASSUME Turn!Connect PROVE Joined'
  BY <1>5 DEF Turn!Connect
<1>6. ASSUME Turn!Query PROVE Joined'
  BY <1>6, JoinedQuery
<1>7. ASSUME Turn!QueryReturns PROVE Joined'
  BY <1>7 DEF Turn!QueryReturns, Turn!Ends
<1>8. ASSUME Turn!QueryRefused PROVE Joined'
  BY <1>8 DEF Turn!QueryRefused, Turn!Ends
<1>9. ASSUME Turn!QueryInterrupted PROVE Joined'
  BY <1>9 DEF Turn!QueryInterrupted, Turn!Retired
<1>10. ASSUME Turn!QueryFails PROVE Joined'
  BY <1>10 DEF Turn!QueryFails, Turn!Ends, Turn!Gone
<1>11. ASSUME Turn!QueryStream PROVE Joined'
  BY <1>11 DEF Turn!QueryStream, Turn!Fresh
<1>12. ASSUME Turn!SendStarts PROVE Joined'
  BY <1>12 DEF Turn!SendStarts, Turn!Written
<1>13. ASSUME Turn!SendInterrupted PROVE Joined'
  BY <1>13 DEF Turn!SendInterrupted, Turn!Retired
<1>14. ASSUME Turn!Takes PROVE Joined'
  BY <1>14, Taken DEF Turn!Takes
<1>15. ASSUME Turn!Drains PROVE Joined'
  BY <1>15, Taken DEF Turn!Drains
<1>16. ASSUME Turn!Resumes PROVE Joined'
  BY <1>16 DEF Turn!Resumes
<1>17. ASSUME Turn!Completes PROVE Joined'
  BY <1>17 DEF Turn!Completes, Turn!Closes, Turn!Ends
<1>18. ASSUME Turn!StreamFails PROVE Joined'
  BY <1>18 DEF Turn!StreamFails, Turn!Fails, Turn!Retired
<1>19. ASSUME Turn!StreamTimeout PROVE Joined'
  BY <1>19 DEF Turn!StreamTimeout, Turn!Fails, Turn!Retired
<1>20. ASSUME Turn!Leaves PROVE Joined'
  BY <1>20 DEF Turn!Leaves, Turn!Fails, Turn!Retired
<1>21. ASSUME Turn!FailureEnds PROVE Joined'
  BY <1>21 DEF Turn!FailureEnds, Turn!Gone, Turn!Closes, Turn!Ends
<1>22. ASSUME UNCHANGED <<call, chunks, link, sent, turn, wire>> PROVE Joined'
  BY <1>22
<1>23. ASSUME Turn!SendEnds PROVE Joined'
  BY <1>22, <1>23 DEF Turn!SendEnds, Turn!agentVars, Turn!callVars
<1> QED BY <1>1, <1>2, <1>3, <1>4, <1>5, <1>6, <1>7, <1>8, <1>9, <1>10, <1>11, <1>12, <1>13, <1>14, <1>15,
     <1>16, <1>17, <1>18, <1>19, <1>20, <1>21, <1>23 DEF Turn!Next, Turn!CallStep, Turn!Interrupts

\* Nothing is accepted but the answer.
LEMMA AcceptedKept == ASSUME TurnInv, Turn!Next PROVE Accepted'
<1> USE BoundsAssumption DEF TurnInv, Turn!TypeOK, Accepted, Joined, Wired, Rests, Works, Requested,
     Turn!Turns,
        Streams, Reading, Delivers, Owed, Turn!Chunks, Turn!Responses, Turn!Chunk, Turn!End, Turn!agentVars,
        Turn!streamVars, Turn!callVars
<1>1. ASSUME NEW t \in Turn!Turns, Turn!AgentText(t) PROVE Accepted'
  BY <1>1, SpokenOn
<1>2. ASSUME NEW t \in Turn!Turns, Turn!AgentAnswers(t) PROVE Accepted'
  BY <1>2, SpokenOn
<1>3. ASSUME Turn!Dispatch PROVE Accepted'
  BY <1>3, DispatchedOn
<1>4. ASSUME Turn!Query PROVE Accepted'
  BY <1>4 DEF Turn!Query, Turn!Fresh, Turn!Written
<1>5. ASSUME Turn!QueryReturns PROVE Accepted'
  BY <1>5 DEF Turn!QueryReturns, Turn!Ends
<1>6. ASSUME Turn!QueryRefused PROVE Accepted'
  BY <1>6 DEF Turn!QueryRefused, Turn!Ends
<1>7. ASSUME Turn!QueryFails PROVE Accepted'
  BY <1>7 DEF Turn!QueryFails, Turn!Ends, Turn!Gone
<1>8. ASSUME Turn!QueryStream PROVE Accepted'
  BY <1>8 DEF Turn!QueryStream, Turn!Fresh
<1>9. ASSUME Turn!SendStarts PROVE Accepted'
  BY <1>9 DEF Turn!SendStarts, Turn!Written
<1>10. ASSUME Turn!Takes PROVE Accepted'
  BY <1>10, Taken DEF Turn!Takes
<1>11. ASSUME Turn!Drains PROVE Accepted'
  BY <1>11, Taken DEF Turn!Drains
<1>12. ASSUME Turn!Resumes PROVE Accepted'
  BY <1>12 DEF Turn!Resumes
<1>13. ASSUME Turn!Completes PROVE Accepted'
  BY <1>13, CompletesAnswered DEF Turn!Completes, Turn!Closes, Turn!Ends
<1>14. ASSUME Turn!StreamFails PROVE Accepted'
  BY <1>14 DEF Turn!StreamFails, Turn!Fails, Turn!Retired
<1>15. ASSUME Turn!StreamTimeout PROVE Accepted'
  BY <1>15 DEF Turn!StreamTimeout, Turn!Fails, Turn!Retired
<1>16. ASSUME Turn!Leaves PROVE Accepted'
  BY <1>16 DEF Turn!Leaves, Turn!Fails, Turn!Retired
<1>17. ASSUME Turn!FailureEnds PROVE Accepted'
  BY <1>17 DEF Turn!FailureEnds, Turn!Gone, Turn!Closes, Turn!Ends
<1>18. ASSUME UNCHANGED <<call, chunks, sent, turn>> PROVE Accepted'
  BY <1>18
<1>19. ASSUME Turn!ReaderEnds \/ Turn!Connect \/ Turn!QueryInterrupted \/ Turn!SendInterrupted \/ Turn!SendEnds PROVE Accepted'
  BY <1>18, <1>19 DEF Turn!ReaderEnds, Turn!Connect, Turn!QueryInterrupted, Turn!SendInterrupted,
     Turn!SendEnds, Turn!agentVars,
     Turn!callVars, Turn!streamVars
<1> QED BY <1>1, <1>2, <1>3, <1>4, <1>5, <1>6, <1>7, <1>8, <1>9, <1>10, <1>11, <1>12, <1>13, <1>14, <1>15,
     <1>16, <1>17, <1>19 DEF Turn!Next, Turn!CallStep, Turn!Interrupts

\* The queue is what the consumer is owed.
LEMMA QueuedKept == ASSUME TurnInv, Turn!Next PROVE Queued'
<1> USE BoundsAssumption DEF TurnInv, Turn!TypeOK, Queued, Accepted, Joined, Wired, Rests, Works, Requested,
        Collected, Later, Turn!Turns, Streams, Reading, Delivers, Owed, Turn!Chunks, Turn!Responses,
        Turn!Chunk, Turn!End,
        Turn!agentVars, Turn!streamVars, Turn!callVars
<1>1. ASSUME Turn!Dispatch PROVE Queued'
  BY <1>1, QueuedDispatch
<1>2. ASSUME Turn!ReaderEnds PROVE Queued'
  BY <1>2, QueuedEnd
<1>3. ASSUME Turn!Connect PROVE Queued'
  BY <1>3 DEF Turn!Connect
<1>4. ASSUME Turn!Query PROVE Queued'
  BY <1>4 DEF Turn!Query, Turn!Fresh, Turn!Written
<1>5. ASSUME Turn!QueryReturns PROVE Queued'
  BY <1>5 DEF Turn!QueryReturns, Turn!Ends
<1>6. ASSUME Turn!QueryRefused PROVE Queued'
  BY <1>6 DEF Turn!QueryRefused, Turn!Ends
<1>7. ASSUME Turn!QueryInterrupted PROVE Queued'
  BY <1>7 DEF Turn!QueryInterrupted, Turn!Retired
<1>8. ASSUME Turn!QueryFails PROVE Queued'
  BY <1>8 DEF Turn!QueryFails, Turn!Ends, Turn!Gone
<1>9. ASSUME Turn!QueryStream PROVE Queued'
  BY <1>9 DEF Turn!QueryStream, Turn!Fresh
<1>10. ASSUME Turn!SendStarts PROVE Queued'
  BY <1>10 DEF Turn!SendStarts, Turn!Written
<1>11. ASSUME Turn!SendInterrupted PROVE Queued'
  BY <1>11 DEF Turn!SendInterrupted, Turn!Retired
<1>12. ASSUME Turn!SendEnds PROVE Queued'
  BY <1>12, QueuedEnd
<1>13. ASSUME Turn!Takes PROVE Queued'
  BY <1>13, TakenOn
<1>14. ASSUME Turn!Drains PROVE Queued'
  BY <1>14, TakenOn
<1>15. ASSUME Turn!Resumes PROVE Queued'
  BY <1>15 DEF Turn!Resumes
<1>16. ASSUME Turn!Completes PROVE Queued'
  BY <1>16, CompletesAnswered DEF Turn!Completes, Turn!Closes, Turn!Ends
<1>17. ASSUME Turn!StreamFails PROVE Queued'
  BY <1>17 DEF Turn!StreamFails, Turn!Fails, Turn!Retired
<1>18. ASSUME Turn!StreamTimeout PROVE Queued'
  BY <1>18 DEF Turn!StreamTimeout, Turn!Fails, Turn!Retired
<1>19. ASSUME Turn!Leaves PROVE Queued'
  BY <1>19 DEF Turn!Leaves, Turn!Fails, Turn!Retired
<1>20. ASSUME Turn!FailureEnds PROVE Queued'
  BY <1>20 DEF Turn!FailureEnds, Turn!Gone, Turn!Closes, Turn!Ends
<1>21. ASSUME UNCHANGED <<call, chunks, link, queue, rpc, streamError, text, turn>> PROVE Queued'
  BY <1>21
<1>22. ASSUME NEW t \in Turn!Turns, Turn!AgentText(t) \/ Turn!AgentAnswers(t) PROVE Queued'
  BY <1>21, <1>22 DEF Turn!AgentText, Turn!AgentAnswers, Turn!callVars, Turn!streamVars
<1> QED BY <1>1, <1>2, <1>3, <1>4, <1>5, <1>6, <1>7, <1>8, <1>9, <1>10, <1>11, <1>12, <1>13, <1>14, <1>15,
     <1>16, <1>17, <1>18, <1>19, <1>20, <1>22 DEF Turn!Next, Turn!CallStep, Turn!Interrupts

\* What the callers got stays a beginning of their answers.
LEMMA GivenKept == ASSUME TurnInv, Turn!Next PROVE Given'
<1>1. ASSUME NEW t \in Turn!Turns, Turn!AgentText(t) \/ Turn!AgentAnswers(t) PROVE Given'
  BY <1>1, SpokenOn
<1>2. ASSUME Turn!QueryReturns PROVE Given'
  BY <1>2, GivenWhole
<1>3. ASSUME Turn!Takes \/ Turn!Drains PROVE Given'
  BY <1>3, TakenOn
<1>4. ASSUME Turn!Completes PROVE Given'
  <2>1. turn \in Turn!Turns /\ outcome' = [outcome EXCEPT ![turn] = "ok"] /\ UNCHANGED <<text, sent>>
    BY <1>4 DEF Turn!Completes, Turn!Closes, Turn!Ends, Turn!agentVars, TurnInv, Rests
  <2>2. Len(text[turn]) = sent[turn]
    BY <1>4, CompletesAnswered
  <2>3. \A t \in Turn!Turns : outcome'[t] = "ok" => t = turn \/ outcome[t] = "ok"
    BY <2>1 DEF TurnInv, Turn!TypeOK
  <2> QED BY <2>1, <2>2, <2>3 DEF TurnInv, Given
<1>5. ASSUME Turn!QueryRefused \/ Turn!QueryFails \/ Turn!StreamFails \/ Turn!StreamTimeout \/ Turn!Leaves
      PROVE  Given'
  <2>1. /\ UNCHANGED <<text, sent>>
        /\ \E how \in {"error", "timeout", "left"} : outcome' = [outcome EXCEPT ![turn] = how]
    BY <1>5 DEF Turn!QueryRefused, Turn!QueryFails, Turn!StreamFails, Turn!StreamTimeout, Turn!Leaves,
       Turn!Fails, Turn!Ends, Turn!agentVars
  <2> QED BY <2>1, EndedBadly
<1>6. ASSUME Turn!FailureEnds PROVE Given'
  <2>1. UNCHANGED <<text, sent>> /\ outcome' = [outcome EXCEPT ![turn] = outcome[turn]]
    BY <1>6 DEF Turn!FailureEnds, Turn!Closes, Turn!Ends, Turn!agentVars
  <2>2. outcome[turn] \in {"error", "timeout", "left"}
    BY <1>6 DEF Turn!FailureEnds, TurnInv, Rests
  <2> QED BY <2>1, <2>2, EndedBadly
<1>7. ASSUME UNCHANGED <<outcome, sent, text>> PROVE Given'
  BY <1>7 DEF TurnInv, Given
<1>8. ASSUME \/ Turn!Dispatch \/ Turn!ReaderEnds \/ Turn!Connect \/ Turn!Query \/ Turn!QueryInterrupted
             \/ Turn!QueryStream \/ Turn!SendStarts \/ Turn!SendInterrupted \/ Turn!SendEnds \/ Turn!Resumes
      PROVE  Given'
  BY <1>7, <1>8 DEF Turn!Dispatch, Turn!ReaderEnds, Turn!Connect, Turn!Query, Turn!QueryInterrupted,
     Turn!QueryStream, Turn!SendStarts, Turn!SendInterrupted, Turn!SendEnds, Turn!Resumes, Turn!agentVars,
     Turn!callVars, Turn!streamVars
<1> QED BY <1>1, <1>2, <1>3, <1>4, <1>5, <1>6, <1>8 DEF Turn!Next, Turn!CallStep, Turn!Interrupts

\* Only the end of query() gives its text.
LEMMA CollectedKept == ASSUME TurnInv, Turn!Next PROVE Collected'
<1> USE BoundsAssumption DEF TurnInv, Turn!TypeOK, Collected, Rests, Later, Turn!Turns, Streams, Reading,
     Delivers,
        Owed, Turn!Chunks, Turn!Responses, Turn!Chunk, Turn!End, Turn!agentVars, Turn!streamVars,
        Turn!callVars
<1>1. ASSUME Turn!Query PROVE Collected'
  BY <1>1 DEF Turn!Query, Turn!Fresh, Turn!Written
<1>2. ASSUME Turn!QueryReturns PROVE Collected'
  BY <1>2 DEF Turn!QueryReturns, Turn!Ends
<1>3. ASSUME Turn!QueryRefused PROVE Collected'
  BY <1>3 DEF Turn!QueryRefused, Turn!Ends
<1>4. ASSUME Turn!QueryFails PROVE Collected'
  BY <1>4 DEF Turn!QueryFails, Turn!Ends, Turn!Gone
<1>5. ASSUME Turn!QueryStream PROVE Collected'
  BY <1>5 DEF Turn!QueryStream, Turn!Fresh
<1>6. ASSUME Turn!SendStarts PROVE Collected'
  BY <1>6 DEF Turn!SendStarts, Turn!Written
<1>7. ASSUME Turn!Takes PROVE Collected'
  BY <1>7, Taken DEF Turn!Takes
<1>8. ASSUME Turn!Drains PROVE Collected'
  BY <1>8, Taken DEF Turn!Drains
<1>9. ASSUME Turn!Resumes PROVE Collected'
  BY <1>9 DEF Turn!Resumes
<1>10. ASSUME Turn!Completes PROVE Collected'
  BY <1>10 DEF Turn!Completes, Turn!Closes, Turn!Ends
<1>11. ASSUME Turn!StreamFails PROVE Collected'
  BY <1>11 DEF Turn!StreamFails, Turn!Fails, Turn!Retired
<1>12. ASSUME Turn!StreamTimeout PROVE Collected'
  BY <1>12 DEF Turn!StreamTimeout, Turn!Fails, Turn!Retired
<1>13. ASSUME Turn!Leaves PROVE Collected'
  BY <1>13 DEF Turn!Leaves, Turn!Fails, Turn!Retired
<1>14. ASSUME Turn!FailureEnds PROVE Collected'
  BY <1>14 DEF Turn!FailureEnds, Turn!Gone, Turn!Closes, Turn!Ends
<1>15. ASSUME UNCHANGED <<call, text, turn>> PROVE Collected'
  BY <1>15
<1>16. ASSUME \/ Turn!Dispatch \/ Turn!ReaderEnds \/ Turn!Connect \/ Turn!QueryInterrupted \/ Turn!SendInterrupted
             \/ Turn!SendEnds
      PROVE  Collected'
  BY <1>15, <1>16 DEF Turn!Dispatch, Turn!ReaderEnds, Turn!Connect, Turn!QueryInterrupted,
     Turn!SendInterrupted, Turn!SendEnds,
     Turn!agentVars, Turn!callVars, Turn!streamVars
<1>17. ASSUME NEW t \in Turn!Turns, Turn!AgentText(t) \/ Turn!AgentAnswers(t) PROVE Collected'
  BY <1>15, <1>17 DEF Turn!AgentText, Turn!AgentAnswers, Turn!callVars, Turn!streamVars
<1> QED BY <1>1, <1>2, <1>3, <1>4, <1>5, <1>6, <1>7, <1>8, <1>9, <1>10, <1>11, <1>12, <1>13, <1>14, <1>16,
     <1>17 DEF Turn!Next, Turn!CallStep, Turn!Interrupts

\* The invariant holds of a client without prompts,
LEMMA TurnInvInit == Turn!Init => TurnInv
<1> SUFFICES ASSUME Turn!Init PROVE TurnInv
  OBVIOUS
<1> USE BoundsAssumption DEF Turn!Init
<1>1. Turn!TypeOK
  <2>1. sent \in [Turn!Turns -> 0 .. MaxText] /\ turn \in 0 .. MaxTurns
    OBVIOUS
  <2>2. agent \in [Turn!Turns -> {"none", "working", "answered"}] /\ text \in [Turn!Turns -> Seq(Turn!Chunks)]
        /\ outcome \in [Turn!Turns -> {"none", "ok", "error", "timeout", "left"}]
    OBVIOUS
  <2>3. wire \in Seq(Turn!Chunks \cup Turn!Responses) /\ chunks \in Seq(Turn!Chunks) /\ queue \in Seq(Turn!Chunks \cup {Turn!End})
    OBVIOUS
  <2> QED BY <2>1, <2>2, <2>3 DEF Turn!TypeOK
<1>2. Later /\ Rests /\ Works
  BY DEF Later, Rests, Works, Turn!Turns, Streams, Reading
<1>3. Requested /\ Wired /\ Joined /\ Accepted /\ Queued /\ Given /\ Collected
  BY DEF Requested, Wired, Joined, Accepted, Queued, Given, Collected, Turn!Turns, Reading, Delivers
<1> QED BY <1>1, <1>2, <1>3 DEF TurnInv

\* is kept by every step,
LEMMA TurnInvKept == ASSUME TurnInv, [Turn!Next]_(Turn!vars) PROVE TurnInv'
<1>1. CASE Turn!Next
  <2>1. Turn!TypeOK' /\ Later' /\ Rests' /\ Works' /\ Requested' /\ Wired'
    BY <1>1, ScalarTypes, FlagTypes, AgentTypes, WireType, ChunkTypes, GivenTypes, LaterKept, RestsKept,
       WorksKept,
       RequestedKept, WiredKept DEF Turn!TypeOK
  <2>2. Joined' /\ Accepted' /\ Queued' /\ Given' /\ Collected'
    BY <1>1, JoinedKept, AcceptedKept, QueuedKept, GivenKept, CollectedKept
  <2> QED BY <2>1, <2>2 DEF TurnInv
<1>2. CASE UNCHANGED Turn!vars
  <2>1. /\ UNCHANGED <<link, wire, agent, sent, turn, call, rpc, chunks, streaming>>
        /\ UNCHANGED <<queue, streamError, text, outcome>>
    BY <1>2 DEF Turn!vars, Turn!agentVars, Turn!streamVars, Turn!callVars
  <2>2. Turn!TypeOK' /\ Later' /\ Rests' /\ Works' /\ Requested' /\ Wired'
    BY <2>1 DEF TurnInv, Turn!TypeOK, Later, Rests, Works, Requested, Wired
  <2>3. Joined' /\ Accepted' /\ Queued' /\ Given' /\ Collected'
    BY <2>1 DEF TurnInv, Joined, Accepted, Queued, Owed, Given, Collected
  <2> QED BY <2>2, <2>3 DEF TurnInv
<1> QED BY <1>1, <1>2

\* and makes every text its caller's own.
LEMMA TurnInvOwn == ASSUME TurnInv PROVE Turn!OwnAnswers
<1>1. ASSUME NEW t \in Turn!Turns
      PROVE /\ Len(text[t]) <= sent[t] /\ text[t] = SubSeq(Turn!Answer(t), 1, Len(text[t]))
            /\ outcome[t] = "ok" => text[t] = Turn!Answer(t)
  <2>1. /\ Len(text[t]) <= sent[t] /\ text[t] \in Seq(Turn!Chunks) /\ Len(text[t]) \in Nat /\ sent[t] \in Nat
        /\ \A i \in 1 .. Len(text[t]) : text[t][i] = Turn!Chunk(t, i)
        /\ outcome[t] = "ok" => Len(text[t]) = sent[t]
    BY BoundsAssumption DEF TurnInv, Given, Turn!TypeOK
  <2>2. text[t] = [i \in 1 .. Len(text[t]) |-> Turn!Chunk(t, i)]
    BY <2>1
  <2>3. SubSeq(Turn!Answer(t), 1, Len(text[t])) = [i \in 1 .. Len(text[t]) |-> Turn!Chunk(t, i)]
    <3>1. SubSeq(Turn!Answer(t), 1, Len(text[t])) = [i \in 1 .. Len(text[t]) |-> Turn!Answer(t)[1 + i - 1]]
      BY <2>1 DEF Turn!Answer
    <3>2. ASSUME NEW i \in 1 .. Len(text[t]) PROVE Turn!Answer(t)[1 + i - 1] = Turn!Chunk(t, i)
      BY <2>1 DEF Turn!Answer
    <3> QED BY <3>1, <3>2
  <2> QED BY <2>1, <2>2, <2>3 DEF Turn!Answer
<1>2. Turn!OwnText
  BY <1>1 DEF Turn!OwnText
<1>3. Turn!NoOverlap
  BY DEF TurnInv, Works, Turn!NoOverlap
<1> QED BY <1>2, <1>3 DEF Turn!OwnAnswers

\* A prompt whose deadline passed, or that its consumer left, ends without a connection.
LEMMA TurnInvRetires ==
  ASSUME TurnInv, Turn!Next, NEW t \in Turn!Turns,
         call # "idle", call' = "idle", outcome'[t] \in {"timeout", "left"}, t = turn
  PROVE  link = "down"
<1>1. link \in {"up", "retired", "down"} /\ outcome \in [Turn!Turns -> {"none", "ok", "error", "timeout", "left"}]
  BY DEF TurnInv, Turn!TypeOK
<1>2. Turn!QueryReturns \/ Turn!QueryRefused \/ Turn!QueryFails \/ Turn!Completes \/ Turn!FailureEnds
  BY DEF Turn!Next, Turn!CallStep, Turn!Interrupts, Turn!AgentText, Turn!AgentAnswers, Turn!Dispatch,
     Turn!ReaderEnds, Turn!Connect, Turn!Query, Turn!QueryInterrupted,
     Turn!QueryStream, Turn!SendStarts, Turn!SendInterrupted, Turn!SendEnds, Turn!Takes, Turn!Drains,
     Turn!Resumes, Turn!StreamFails, Turn!StreamTimeout, Turn!Leaves, Turn!Fails, Turn!callVars
<1>3. ~Turn!QueryReturns /\ ~Turn!QueryRefused /\ ~Turn!Completes
  BY <1>1 DEF Turn!QueryReturns, Turn!QueryRefused, Turn!Completes, Turn!Closes, Turn!Ends
<1>4. CASE Turn!QueryFails
  BY <1>1, <1>4 DEF Turn!QueryFails, Turn!Ends, Turn!Gone, TurnInv, Requested
<1>5. CASE Turn!FailureEnds
  BY <1>1, <1>5 DEF Turn!FailureEnds, Turn!Gone, TurnInv, Rests
<1> QED BY <1>2, <1>3, <1>4, <1>5

-----------------------------------------------------------------------------
(* The requests of the agent *)

\* The instance counts like everybody else.
LEMMA SameCount == \A S : Host!Cardinality(S) = Cardinality(S)
BY DEF Cardinality, Host!Cardinality

Asked == [turn : Host!Turns, transport : 0 .. MaxLinks, cancelled : BOOLEAN,
          answer : Host!Answers, replies : 0 .. 2]

\* TypeOK without the two limits.
HostTyped ==
    /\ link \in {"down", "up", "lost", "closing", "failed"}
    /\ transport \in 0 .. MaxLinks /\ doomed \in 0 .. transport
    /\ turn \in Host!Turns
    /\ status \in [Host!Turns -> {"idle", "active", "cancelled", "over"}]
    /\ task \in [Ids -> {"none", "new", "running", "unwinding", "reply", "ack", "ending"}]
    /\ kind \in [Ids -> Host!Kinds]
    /\ captured \in [Ids -> Host!Turns]
    /\ started \subseteq Ids
    /\ asked \in [Ids -> Asked]

\* A task that has not started its reply has not written one.
HostReplyInv ==
    /\ \A i \in started : task[i] \in {"unwinding", "reply", "ack", "ending"}
    /\ \A i \in Ids : task[i] \in {"reply", "ack"} => i \in started
    /\ \A i \in Host!HostTasks : i \notin started => asked[i].replies = 0
    /\ Host!ReplyOnce

\* A connection starts without tasks; while it is up a task that started its
\* reply has written it, and only a cancelled one ends without.
HostLinkInv ==
    /\ link = "down" => Host!HostTasks = {}
    /\ Host!OwnTransport
    /\ \A i \in Ids : asked[i].transport <= transport
    /\ link = "up" => \A i \in started : asked[i].replies = 1
    /\ link = "up" => \A i \in Ids : task[i] = "ending" => asked[i].cancelled \/ i \in started
    /\ Host!AnsweredUnlessCancelled

\* One turn at most is active, and a permission task keeps the turn it came with.
HostTurnInv ==
    /\ \A t \in Host!Turns : status[t] = "active" => t = turn
    /\ \A i \in Host!HostTasks : kind[i] = "permission" => asked[i].turn = captured[i]

HostLimitInv ==
    /\ IsFiniteSet(Host!HostTasks) /\ Cardinality(Host!HostTasks) <= MaxTasks
    /\ IsFiniteSet(Host!Waits) /\ Cardinality(Host!Waits) <= MaxWaits

HostInv == HostTyped /\ HostReplyInv /\ HostLinkInv /\ HostTurnInv /\ HostLimitInv

\* The invariant holds in a new client.
LEMMA HostInvInit == Host!Init => HostInv
<1> SUFFICES ASSUME Host!Init PROVE HostInv
  OBVIOUS
<1> USE BoundsAssumption, LimitsAssumption DEF Host!Init
<1>1. Host!HostTasks = {} /\ Host!Waits = {}
  BY DEF Host!HostTasks, Host!Waits
<1>2. HostTyped
  <2>1. Host!Never \in Asked
    BY DEF Host!Never, Asked, Host!Turns, Host!Answers
  <2> QED BY <2>1 DEF HostTyped, Host!Turns, Host!Kinds
<1>3. HostReplyInv /\ HostLinkInv /\ HostTurnInv
  BY <1>1 DEF HostReplyInv, Host!ReplyOnce, HostLinkInv, Host!OwnTransport, Host!AnsweredUnlessCancelled,
              Host!Unanswered, HostTurnInv, Host!Never
<1>4. HostLimitInv
  BY <1>1, FS_EmptySet DEF HostLimitInv
<1> QED BY <1>2, <1>3, <1>4 DEF HostInv

-----------------------------------------------------------------------------
(* Answers *)

\* What a reply writes, if the connection is up.
LEMMA WriteType ==
    ASSUME HostTyped, NEW i \in Ids, NEW answer \in Host!Answers, Host!Write(i, answer), asked[i].replies <= 1
    PROVE  asked' \in [Ids -> Asked]
BY DEF HostTyped, Host!Write, Asked

\* A frame the agent sends.
LEMMA SentType ==
    ASSUME HostTyped, NEW i \in Ids, NEW answer \in Host!Answers, Host!Sent(i, answer)
    PROVE  /\ asked' \in [Ids -> Asked]
           /\ \A j \in Ids \ {i} : asked'[j] = asked[j]
           /\ asked'[i].turn = turn /\ asked'[i].transport = transport
           /\ asked'[i].replies = (IF answer = "none" THEN 0 ELSE 1)
BY DEF HostTyped, Host!Sent, Asked

\* A reply is written for its own request, which keeps its turn and transport.
LEMMA WriteFacts ==
    ASSUME HostTyped, NEW i \in Ids, NEW answer, Host!Write(i, answer)
    PROVE  /\ \A j \in Ids \ {i} : asked'[j] = asked[j]
           /\ \A j \in Ids : /\ asked'[j].turn = asked[j].turn
                             /\ asked'[j].transport = asked[j].transport
                             /\ asked'[j].cancelled = asked[j].cancelled
           /\ asked'[i].replies = IF link = "up" THEN asked[i].replies + 1 ELSE asked[i].replies
           /\ asked'[i].answer = IF link = "up" THEN answer ELSE asked[i].answer
BY DEF HostTyped, Host!Write, Asked

\* A task that decides, answers, refuses or acknowledges: how Starts, ServiceEnds
\* and Unwound write.
Writes(i, answer, to) ==
    /\ task[i] \in {"new", "running", "unwinding"} /\ i \notin started
    /\ started' = started \cup {i} /\ Host!Write(i, answer)
    /\ to \in {"reply", "ack"} /\ Host!Set(i, to)
    /\ UNCHANGED <<link, transport, turn, status, kind, captured, doomed>>

\* A task that moves on without an answer.
Moves(i, to) ==
    /\ \/ task[i] = "new" /\ to = "ending" /\ link # "up"
       \/ task[i] = "new" /\ to = "running"
       \/ task[i] = "unwinding" /\ to = "ending" /\ (link # "up" \/ i \in started)
    /\ Host!Set(i, to)
    /\ UNCHANGED <<link, transport, turn, status, kind, captured, doomed, started, asked>>

\* Every step of a task is one of these, or its end.
LEMMA TaskSteps ==
    ASSUME HostInv, NEW i \in Ids, Host!Starts(i) \/ Host!ServiceEnds(i) \/ Host!Unwound(i)
    PROVE  \/ \E to \in {"ending", "running"} : Moves(i, to)
           \/ \E answer \in Host!Answers, to \in {"reply", "ack"} :
                /\ Writes(i, answer, to)
                /\ answer = "selected" => kind[i] = "permission" /\ status[captured[i]] = "active"
<1>1. task[i] \in {"new", "running"} => i \notin started
  BY DEF HostInv, HostReplyInv
<1>2. CASE Host!Starts(i)
  BY <1>1, <1>2 DEF Host!Starts, Host!Decide, Host!Granting, Host!Reply, Host!Mark, Moves, Writes,
     Host!Answers
<1>3. CASE Host!ServiceEnds(i)
  BY <1>1, <1>3 DEF Host!ServiceEnds, Host!Reply, Host!Mark, Writes, Host!Answers
<1>4. CASE Host!Unwound(i)
  BY <1>4 DEF Host!Unwound, Host!Acknowledges, Host!Mark, Moves, Writes, Host!Answers
<1> QED BY <1>2, <1>3, <1>4

-----------------------------------------------------------------------------
(* Types *)

\* What a cancelled task does next is something a task does.
LEMMA CancelledType ==
    ASSUME NEW step \in {"none", "new", "running", "unwinding", "reply", "ack", "ending"}
    PROVE  /\ Host!Cancelled(step) \in {"none", "unwinding", "ending"}
           /\ Host!Cancelled(step) = "none" <=> step = "none"
           /\ step = "unwinding" => Host!Cancelled(step) = "unwinding"
           /\ Host!Cancelled(step) = "ending" => step \in {"new", "ack", "ending"}
BY DEF Host!Cancelled

\* Every step keeps the types.
LEMMA HostTypesKept ==
    ASSUME HostInv, Host!Next
    PROVE  HostTyped'
<1> USE DEF HostInv, HostTyped
<1>1. ASSUME NEW i \in Ids, Host!Request(i) PROVE HostTyped'
  <2>1. PICK k \in Host!Kinds : /\ kind' = [kind EXCEPT ![i] = k]
                            /\ captured' = [captured EXCEPT ![i] = IF k = "permission" THEN turn ELSE 0]
    BY <1>1 DEF Host!Request
  <2>2. asked' \in [Ids -> Asked]
    BY <1>1, SentType DEF Host!Request, Host!Answers
  <2>3. kind' \in [Ids -> Host!Kinds] /\ captured' \in [Ids -> Host!Turns]
    BY <2>1, BoundsAssumption DEF Host!Turns
  <2> QED BY <1>1, <2>2, <2>3 DEF Host!Request, Host!Arrives, Host!Set
<1>2. ASSUME NEW i \in Ids, Host!Refuse(i) PROVE HostTyped'
  <2>1. asked' \in [Ids -> Asked]
    BY <1>2, SentType DEF Host!Refuse, Host!Answers
  <2> QED BY <1>2, <2>1 DEF Host!Refuse, Host!Arrives
<1>3. ASSUME NEW i \in Ids, Host!AgentCancels(i) PROVE HostTyped'
  <2>1. asked' \in [Ids -> Asked]
    BY <1>3 DEF Host!AgentCancels, Asked
  <2>2. task' \in [Ids -> {"none", "new", "running", "unwinding", "reply", "ack", "ending"}]
    BY <1>3, CancelledType DEF Host!AgentCancels
  <2> QED BY <1>3, <2>1, <2>2 DEF Host!AgentCancels
<1>4. ASSUME NEW i \in Ids, NEW to, Moves(i, to) PROVE HostTyped'
  BY <1>4 DEF Moves, Host!Set
<1>5. ASSUME NEW i \in Ids, NEW answer \in Host!Answers, NEW to, Writes(i, answer, to),
             answer = "selected" => kind[i] = "permission" /\ status[captured[i]] = "active"
      PROVE  HostTyped'
  <2>1. asked' \in [Ids -> Asked]
    BY <1>5, WriteType DEF Writes, HostReplyInv, Host!ReplyOnce
  <2> QED BY <1>5, <2>1 DEF Writes, Host!Set
<1>6. ASSUME NEW i \in Ids, Host!Ends(i) PROVE HostTyped'
  BY <1>6, BoundsAssumption DEF Host!Ends, Host!Gone, Host!Set, Host!Turns
<1>7. ASSUME NEW i \in Ids, Host!DrainFails(i) PROVE HostTyped'
  BY <1>7, BoundsAssumption DEF Host!DrainFails, Host!Gone, Host!Set, Host!Turns
<1>8. CASE Host!BeginTurn
  BY <1>8, BoundsAssumption DEF Host!BeginTurn, Host!TurnEnds, Host!Turns
<1>9. CASE Host!TurnCompletes
  BY <1>9 DEF Host!TurnCompletes, Host!TurnEnds
<1>10. CASE Host!CancelTurn
  BY <1>10 DEF Host!CancelTurn, Host!TurnEnds
<1>11. CASE Host!Connect
  BY <1>11, BoundsAssumption DEF Host!Connect, Host!TurnEnds
<1>12. CASE Host!ReaderEnds
  BY <1>12 DEF Host!ReaderEnds
<1>13. CASE Host!Disconnect
  BY <1>13 DEF Host!Disconnect, Host!TurnEnds
<1>14. CASE Host!Retire
  BY <1>14, BoundsAssumption DEF Host!Retire
<1>15. CASE Host!CloseHostServices
  BY <1>15, CancelledType DEF Host!CloseHostServices, Host!ClosedTask
<1>16. CASE Host!TerminalsFail
  BY <1>16 DEF Host!TerminalsFail
<1>17. CASE Host!Closed
  BY <1>17 DEF Host!Closed, Host!Gathered
<1> QED BY TaskSteps, <1>1, <1>2, <1>3, <1>4, <1>5, <1>6, <1>7, <1>8, <1>9, <1>10, <1>11, <1>12, <1>13,
           <1>14, <1>15, <1>16, <1>17 DEF Host!Next, Host!TaskStep

-----------------------------------------------------------------------------
(* Replies *)

\* No step writes a second answer.
LEMMA RepliesKept ==
    ASSUME HostInv, Host!Next
    PROVE  HostReplyInv'
<1> USE DEF HostInv, HostTyped, HostReplyInv, Host!ReplyOnce, Host!HostTasks
<1>1. ASSUME NEW i \in Ids, Host!Request(i) PROVE HostReplyInv'
  <2>1. asked'[i].replies = 0 /\ \A j \in Ids \ {i} : asked'[j] = asked[j]
    BY <1>1, SentType DEF Host!Request, Host!Answers
  <2> QED BY <1>1, <2>1 DEF Host!Request, Host!Arrives, Host!Set
<1>2. ASSUME NEW i \in Ids, Host!Refuse(i) PROVE HostReplyInv'
  <2>1. asked'[i].replies = 1 /\ \A j \in Ids \ {i} : asked'[j] = asked[j]
    BY <1>2, SentType DEF Host!Refuse, Host!Answers
  <2> QED BY <1>2, <2>1 DEF Host!Refuse, Host!Arrives
<1>3. ASSUME NEW i \in Ids, Host!AgentCancels(i) PROVE HostReplyInv'
  <2>1. \A j \in Ids : asked'[j].replies = asked[j].replies
    BY <1>3 DEF Host!AgentCancels, Asked
  <2>2. \A j \in Ids : task'[j] = "none" <=> task[j] = "none"
    BY <1>3, CancelledType DEF Host!AgentCancels
  <2>3. \A j \in Ids : task'[j] # task[j] => task'[j] \in {"unwinding", "ending"} /\ j \notin started
    BY <1>3, CancelledType DEF Host!AgentCancels
  <2> QED BY <1>3, <2>1, <2>2, <2>3 DEF Host!AgentCancels
<1>4. ASSUME NEW i \in Ids, NEW to, Moves(i, to) PROVE HostReplyInv'
  BY <1>4 DEF Moves, Host!Set
<1>5. ASSUME NEW i \in Ids, NEW answer \in Host!Answers, NEW to, Writes(i, answer, to),
             answer = "selected" => kind[i] = "permission" /\ status[captured[i]] = "active"
      PROVE  HostReplyInv'
  <2>1. asked[i].replies = 0
    BY <1>5 DEF Writes
  <2>2. asked'[i].replies <= 1 /\ \A j \in Ids \ {i} : asked'[j] = asked[j]
    BY <1>5, <2>1, WriteFacts DEF Writes
  <2> QED BY <1>5, <2>2 DEF Writes, Host!Set
<1>6. ASSUME NEW i \in Ids, Host!Ends(i) PROVE HostReplyInv'
  BY <1>6 DEF Host!Ends, Host!Gone, Host!Set
<1>7. ASSUME NEW i \in Ids, Host!DrainFails(i) PROVE HostReplyInv'
  BY <1>7 DEF Host!DrainFails, Host!Gone, Host!Set
<1>8. CASE Host!BeginTurn
  BY <1>8 DEF Host!BeginTurn, Host!TurnEnds
<1>9. CASE Host!TurnCompletes
  BY <1>9 DEF Host!TurnCompletes, Host!TurnEnds
<1>10. CASE Host!CancelTurn
  BY <1>10 DEF Host!CancelTurn, Host!TurnEnds
<1>11. CASE Host!Connect
  BY <1>11 DEF Host!Connect, Host!TurnEnds
<1>12. CASE Host!ReaderEnds
  BY <1>12 DEF Host!ReaderEnds
<1>13. CASE Host!Disconnect
  BY <1>13 DEF Host!Disconnect, Host!TurnEnds
<1>14. CASE Host!Retire
  BY <1>14 DEF Host!Retire
<1>15. CASE Host!CloseHostServices
  <2>1. \A j \in Ids : task'[j] = Host!Cancelled(task[j])
    BY <1>15 DEF Host!CloseHostServices, Host!ClosedTask
  <2> QED BY <1>15, <2>1, CancelledType DEF Host!CloseHostServices
<1>16. CASE Host!TerminalsFail
  BY <1>16 DEF Host!TerminalsFail
<1>17. CASE Host!Closed
  BY <1>17 DEF Host!Closed, Host!Gathered
<1> QED BY TaskSteps, <1>1, <1>2, <1>3, <1>4, <1>5, <1>6, <1>7, <1>8, <1>9, <1>10, <1>11, <1>12, <1>13,
           <1>14, <1>15, <1>16, <1>17 DEF Host!Next, Host!TaskStep

-----------------------------------------------------------------------------
(* Connections *)

\* No task outlives the connection its request came over.
LEMMA LinksKept ==
    ASSUME HostInv, Host!Next
    PROVE  HostLinkInv'
<1> USE DEF HostInv, HostTyped, HostLinkInv, Host!OwnTransport, Host!AnsweredUnlessCancelled,
     Host!Unanswered, Host!HostTasks
<1>1. ASSUME NEW i \in Ids, Host!Request(i) PROVE HostLinkInv'
  <2>1. /\ asked'[i].transport = transport /\ \A j \in Ids \ {i} : asked'[j] = asked[j]
    BY <1>1, SentType DEF Host!Request, Host!Answers
  <2> QED BY <1>1, <2>1 DEF Host!Request, Host!Arrives, Host!Set, HostReplyInv
<1>2. ASSUME NEW i \in Ids, Host!Refuse(i) PROVE HostLinkInv'
  <2>1. /\ asked'[i].transport = transport /\ \A j \in Ids \ {i} : asked'[j] = asked[j]
        /\ asked'[i].replies = 1
    BY <1>2, SentType DEF Host!Refuse, Host!Answers
  <2> QED BY <1>2, <2>1 DEF Host!Refuse, Host!Arrives, HostReplyInv
<1>3. ASSUME NEW i \in Ids, Host!AgentCancels(i) PROVE HostLinkInv'
  <2>1. /\ \A j \in Ids : asked'[j].replies = asked[j].replies /\ asked'[j].transport = asked[j].transport
        /\ \A j \in Ids : asked[j].cancelled => asked'[j].cancelled
        /\ asked'[i].cancelled
    BY <1>3 DEF Host!AgentCancels, Asked
  <2>2. \A j \in Ids : task'[j] = "none" <=> task[j] = "none"
    BY <1>3, CancelledType DEF Host!AgentCancels
  <2>3. \A j \in Ids \ {i} : task'[j] = task[j]
    BY <1>3 DEF Host!AgentCancels
  <2> QED BY <1>3, <2>1, <2>2, <2>3 DEF Host!AgentCancels
<1>4. ASSUME NEW i \in Ids, NEW to, Moves(i, to) PROVE HostLinkInv'
  BY <1>4 DEF Moves, Host!Set
<1>5. ASSUME NEW i \in Ids, NEW answer \in Host!Answers, NEW to, Writes(i, answer, to),
             answer = "selected" => kind[i] = "permission" /\ status[captured[i]] = "active"
      PROVE  HostLinkInv'
  <2>1. asked[i].replies = 0
    BY <1>5 DEF Writes, HostReplyInv
  <2>2. /\ \A j \in Ids \ {i} : asked'[j] = asked[j]
        /\ \A j \in Ids : asked'[j].transport = asked[j].transport /\ asked'[j].cancelled = asked[j].cancelled
        /\ link = "up" => asked'[i].replies = 1
    BY <1>5, <2>1, WriteFacts DEF Writes
  <2> QED BY <1>5, <2>2 DEF Writes, Host!Set
<1>6. ASSUME NEW i \in Ids, Host!Ends(i) PROVE HostLinkInv'
  BY <1>6 DEF Host!Ends, Host!Gone, Host!Set, HostReplyInv
<1>7. ASSUME NEW i \in Ids, Host!DrainFails(i) PROVE HostLinkInv'
  BY <1>7 DEF Host!DrainFails, Host!Gone, Host!Set, HostReplyInv
<1>8. CASE Host!BeginTurn
  BY <1>8 DEF Host!BeginTurn, Host!TurnEnds
<1>9. CASE Host!TurnCompletes
  BY <1>9 DEF Host!TurnCompletes, Host!TurnEnds
<1>10. CASE Host!CancelTurn
  BY <1>10 DEF Host!CancelTurn, Host!TurnEnds
<1>11. CASE Host!Connect
  <2>1. Host!HostTasks' = {} /\ started = {}
    BY <1>11 DEF Host!Connect, HostReplyInv
  <2>2. \A j \in Ids : asked'[j].transport # transport'
    BY <1>11, BoundsAssumption DEF Host!Connect, Asked
  <2>3. \A j \in Ids : asked'[j].transport <= transport'
    BY <1>11, BoundsAssumption DEF Host!Connect, Asked
  <2> QED BY <1>11, <2>1, <2>2, <2>3 DEF Host!Connect
<1>12. CASE Host!ReaderEnds
  BY <1>12 DEF Host!ReaderEnds
<1>13. CASE Host!Disconnect
  BY <1>13 DEF Host!Disconnect, Host!TurnEnds
<1>14. CASE Host!Retire
  BY <1>14 DEF Host!Retire
<1>15. CASE Host!CloseHostServices
  BY <1>15, CancelledType DEF Host!CloseHostServices, Host!ClosedTask
<1>16. CASE Host!TerminalsFail
  BY <1>16 DEF Host!TerminalsFail
<1>17. CASE Host!Closed
  BY <1>17 DEF Host!Closed, Host!Gathered
<1> QED BY TaskSteps, <1>1, <1>2, <1>3, <1>4, <1>5, <1>6, <1>7, <1>8, <1>9, <1>10, <1>11, <1>12, <1>13,
           <1>14, <1>15, <1>16, <1>17 DEF Host!Next, Host!TaskStep

-----------------------------------------------------------------------------
(* Turns *)

\* The turn a permission request came with stays the one that decides on it.
LEMMA TurnsKept ==
    ASSUME HostInv, Host!Next
    PROVE  HostTurnInv'
<1> USE DEF HostInv, HostTyped, HostTurnInv, Host!HostTasks
<1>1. ASSUME NEW i \in Ids, Host!Request(i) PROVE HostTurnInv'
  <2>1. PICK k \in Host!Kinds : /\ kind' = [kind EXCEPT ![i] = k]
                            /\ captured' = [captured EXCEPT ![i] = IF k = "permission" THEN turn ELSE 0]
    BY <1>1 DEF Host!Request
  <2>2. asked'[i].turn = turn /\ \A j \in Ids \ {i} : asked'[j] = asked[j]
    BY <1>1, SentType DEF Host!Request, Host!Answers
  <2> QED BY <1>1, <2>1, <2>2 DEF Host!Request, Host!Arrives, Host!Set
<1>2. ASSUME NEW i \in Ids, Host!Refuse(i) PROVE HostTurnInv'
  <2>1. \A j \in Ids \ {i} : asked'[j] = asked[j]
    BY <1>2, SentType DEF Host!Refuse, Host!Answers
  <2> QED BY <1>2, <2>1 DEF Host!Refuse, Host!Arrives
<1>3. ASSUME NEW i \in Ids, Host!AgentCancels(i) PROVE HostTurnInv'
  <2>1. \A j \in Ids : asked'[j].turn = asked[j].turn
    BY <1>3 DEF Host!AgentCancels, Asked
  <2>2. \A j \in Ids : task'[j] = "none" <=> task[j] = "none"
    BY <1>3, CancelledType DEF Host!AgentCancels
  <2> QED BY <1>3, <2>1, <2>2 DEF Host!AgentCancels
<1>4. ASSUME NEW i \in Ids, NEW to, Moves(i, to) PROVE HostTurnInv'
  BY <1>4 DEF Moves, Host!Set
<1>5. ASSUME NEW i \in Ids, NEW answer \in Host!Answers, NEW to, Writes(i, answer, to),
             answer = "selected" => kind[i] = "permission" /\ status[captured[i]] = "active"
      PROVE  HostTurnInv'
  <2>1. \A j \in Ids : asked'[j].turn = asked[j].turn
    BY <1>5, WriteFacts DEF Writes
  <2> QED BY <1>5, <2>1 DEF Writes, Host!Set
<1>6. ASSUME NEW i \in Ids, Host!Ends(i) PROVE HostTurnInv'
  BY <1>6 DEF Host!Ends, Host!Gone, Host!Set
<1>7. ASSUME NEW i \in Ids, Host!DrainFails(i) PROVE HostTurnInv'
  BY <1>7 DEF Host!DrainFails, Host!Gone, Host!Set
<1>8. CASE Host!BeginTurn
  BY <1>8, BoundsAssumption DEF Host!BeginTurn, Host!TurnEnds, Host!Turns
<1>9. CASE Host!TurnCompletes
  BY <1>9 DEF Host!TurnCompletes, Host!TurnEnds
<1>10. CASE Host!CancelTurn
  BY <1>10 DEF Host!CancelTurn, Host!TurnEnds
<1>11. CASE Host!Connect
  BY <1>11 DEF Host!Connect, Host!TurnEnds
<1>12. CASE Host!ReaderEnds
  BY <1>12 DEF Host!ReaderEnds
<1>13. CASE Host!Disconnect
  BY <1>13 DEF Host!Disconnect, Host!TurnEnds
<1>14. CASE Host!Retire
  BY <1>14 DEF Host!Retire
<1>15. CASE Host!CloseHostServices
  BY <1>15, CancelledType DEF Host!CloseHostServices, Host!ClosedTask
<1>16. CASE Host!TerminalsFail
  BY <1>16 DEF Host!TerminalsFail
<1>17. CASE Host!Closed
  BY <1>17 DEF Host!Closed, Host!Gathered
<1> QED BY TaskSteps, <1>1, <1>2, <1>3, <1>4, <1>5, <1>6, <1>7, <1>8, <1>9, <1>10, <1>11, <1>12, <1>13,
           <1>14, <1>15, <1>16, <1>17 DEF Host!Next, Host!TaskStep

-----------------------------------------------------------------------------
(* Limits *)

\* Only a request that is admitted adds a task: no step else makes one, or turns
\* one into a wait.
LEMMA TasksShrink ==
    ASSUME HostInv, Host!Next
    PROVE  \/ Host!HostTasks' \subseteq Host!HostTasks /\ Host!Waits' \subseteq Host!Waits
           \/ \E i \in Ids : Host!Request(i)
<1> DEFINE Goal == \/ Host!HostTasks' \subseteq Host!HostTasks /\ Host!Waits' \subseteq Host!Waits
                   \/ \E i \in Ids : Host!Request(i)
<1> USE DEF HostInv, HostTyped, Host!HostTasks, Host!Waits
<1>1. CASE UNCHANGED <<task, kind>>
  BY <1>1
<1>2. ASSUME NEW i \in Ids, Host!AgentCancels(i) PROVE Goal
  <2>1. \A j \in Ids : task'[j] = "none" <=> task[j] = "none"
    BY <1>2, CancelledType DEF Host!AgentCancels
  <2> QED BY <1>2, <2>1 DEF Host!AgentCancels
<1>3. ASSUME NEW i \in Ids, Host!Starts(i) \/ Host!ServiceEnds(i) \/ Host!Unwound(i) PROVE Goal
  BY <1>3, TaskSteps DEF Moves, Writes, Host!Set
<1>4. ASSUME NEW i \in Ids, Host!Ends(i) \/ Host!DrainFails(i) PROVE Goal
  BY <1>4 DEF Host!Ends, Host!DrainFails, Host!Gone, Host!Set
<1>5. CASE Host!CloseHostServices
  BY <1>5, CancelledType DEF Host!CloseHostServices, Host!ClosedTask
<1>6. ASSUME NEW i \in Ids, Host!Refuse(i) PROVE Goal
  BY <1>6 DEF Host!Refuse, Host!Arrives
<1>7. CASE Host!BeginTurn \/ Host!TurnCompletes \/ Host!CancelTurn \/ Host!Connect \/ Host!ReaderEnds \/ Host!Disconnect \/ Host!Retire
  BY <1>1, <1>7 DEF Host!BeginTurn, Host!TurnCompletes, Host!CancelTurn, Host!Connect, Host!ReaderEnds,
     Host!Disconnect, Host!Retire
<1>8. CASE Host!TerminalsFail \/ Host!Closed
  BY <1>1, <1>8 DEF Host!TerminalsFail, Host!Closed
<1> QED BY <1>2, <1>3, <1>4, <1>5, <1>6, <1>7, <1>8 DEF Host!Next, Host!TaskStep

\* Adding one to a finite set below its limit keeps the limit.
LEMMA OneMore ==
    ASSUME NEW S, NEW x, NEW m \in Nat, IsFiniteSet(S), Cardinality(S) < m
    PROVE  IsFiniteSet(S \cup {x}) /\ Cardinality(S \cup {x}) <= m
<1>1. Cardinality(S) \in Nat
  BY FS_CardinalityType
<1> QED BY <1>1, FS_AddElement

\* The tasks and the waits among them keep to their limits.
LEMMA LimitsKept ==
    ASSUME HostInv, Host!Next
    PROVE  HostLimitInv'
<1> USE LimitsAssumption DEF HostInv, HostLimitInv
<1>1. CASE Host!HostTasks' \subseteq Host!HostTasks /\ Host!Waits' \subseteq Host!Waits
  <2>1. /\ IsFiniteSet(Host!HostTasks') /\ Cardinality(Host!HostTasks') <= Cardinality(Host!HostTasks)
        /\ IsFiniteSet(Host!Waits') /\ Cardinality(Host!Waits') <= Cardinality(Host!Waits)
    BY <1>1, FS_Subset
  <2>2. /\ Cardinality(Host!HostTasks) \in Nat /\ Cardinality(Host!HostTasks') \in Nat
        /\ Cardinality(Host!Waits) \in Nat /\ Cardinality(Host!Waits') \in Nat
    BY <2>1, FS_CardinalityType
  <2> QED BY <2>1, <2>2
<1>2. ASSUME NEW i \in Ids, Host!Request(i) PROVE HostLimitInv'
  <2>1. PICK k \in Host!Kinds : Host!Arrives(i) /\ Host!Admitted(k) /\ Host!Set(i, "new") /\ kind' = [kind EXCEPT ![i] = k]
    BY <1>2 DEF Host!Request
  <2>2. Host!HostTasks' = Host!HostTasks \cup {i}
    BY <2>1 DEF Host!HostTasks, Host!Set, HostTyped
  <2>3. Host!Waits' = IF k = "wait" THEN Host!Waits \cup {i} ELSE Host!Waits
    BY <2>1 DEF Host!Waits, Host!HostTasks, Host!Arrives, Host!Set, HostTyped
  <2>4. Cardinality(Host!HostTasks) < MaxTasks /\ (k = "wait" => Cardinality(Host!Waits) < MaxWaits)
    BY <2>1, SameCount DEF Host!Admitted
  <2>5. IsFiniteSet(Host!HostTasks') /\ Cardinality(Host!HostTasks') <= MaxTasks
    BY <2>2, <2>4, OneMore
  <2>6. IsFiniteSet(Host!Waits') /\ Cardinality(Host!Waits') <= MaxWaits
    BY <2>3, <2>4, OneMore
  <2> QED BY <2>5, <2>6
<1> QED BY <1>1, <1>2, TasksShrink

-----------------------------------------------------------------------------
(* What is shown *)

\* The invariant is kept by every step.
LEMMA HostInvStep == HostInv /\ [Host!Next]_(Host!vars) => HostInv'
<1> SUFFICES ASSUME HostInv, [Host!Next]_(Host!vars) PROVE HostInv'
  OBVIOUS
<1>1. CASE Host!Next
  BY <1>1, HostTypesKept, RepliesKept, LinksKept, TurnsKept, LimitsKept DEF HostInv
<1>2. CASE UNCHANGED Host!vars
  BY <1>2 DEF Host!vars, HostInv, HostTyped, HostReplyInv, Host!ReplyOnce, HostLinkInv, Host!OwnTransport,
     Host!AnsweredUnlessCancelled,
              Host!Unanswered, HostTurnInv, HostLimitInv, Host!HostTasks, Host!Waits
<1> QED BY <1>1, <1>2

-----------------------------------------------------------------------------
(* The theorems *)

\* A step of one model is a step of its own specification.
LEMMA TurnSteps == [TurnNext]_allVars => [Turn!Next]_(Turn!vars)
BY DEF TurnNext, allVars, vars, clientVars, agentVars, turnVars, Turn!vars, Turn!agentVars,
       Turn!callVars, Turn!streamVars

LEMMA HostSteps == [HostNext]_allVars => [Host!Next]_(Host!vars)
BY DEF HostNext, allVars, vars, turnVars, hostVars, Host!vars

\* The invariants hold, whatever the constants are.
LEMMA TurnInvariance == TurnSpec => []TurnInv
BY TurnInvInit, TurnInvKept, TurnSteps, PTL DEF TurnSpec, TurnInit

LEMMA HostInvariance == HostSpec => []HostInv
BY HostInvInit, HostInvStep, HostSteps, PTL DEF HostSpec, HostInit

\* query() and query_stream(): every caller gets a beginning of the answer to its
\* own prompt, in order and without a gap, and all of it when the prompt ends
\* well, whatever ended the prompts before it; the agent never works on two.
THEOREM AnswersOwn == TurnSpec => []OwnAnswers
<1>1. TurnInv => OwnAnswers
  BY TurnInvOwn DEF OwnAnswers
<1> QED BY <1>1, TurnInvariance, PTL

\* A prompt that missed its deadline, or that its consumer left, returns only
\* when the connection that owes its answer is gone.
THEOREM DeadlinesRetire == TurnSpec => DeadlineRetires
<1> DEFINE Gives(t) == call # "idle" /\ call' = "idle" /\ outcome'[t] \in {"timeout", "left"} /\ t = turn
<1>1. TurnInv /\ [Turn!Next]_(Turn!vars) => [\A t \in Turn!Turns : Gives(t) => link = "down"]_(Turn!vars)
  BY TurnInvRetires
<1> QED BY <1>1, TurnInvariance, TurnSteps, PTL DEF TurnSpec, DeadlineRetires, Turn!DeadlineRetires

\* Every variable of HostRequests keeps its type, tasks and waits their limits.
THEOREM HostTypes == HostSpec => []Host!TypeOK
<1>1. HostInv => Host!TypeOK
  BY SameCount DEF HostInv, HostTyped, HostLimitInv, Host!TypeOK, Asked
<1> QED BY <1>1, HostInvariance, PTL

\* The agent reads one answer at most to each request, over the connection that
\* the request came with.
THEOREM AnswersHold == HostSpec => []AnswersInPlace
<1>1. HostInv => AnswersInPlace
  BY DEF HostInv, HostReplyInv, HostLinkInv, AnswersInPlace, Host!AnswersInPlace
<1> QED BY <1>1, HostInvariance, PTL

\* While its connection lasts, a request that was not cancelled keeps its task
\* until it is answered.
THEOREM AnsweredHolds == HostSpec => []AnsweredUnlessCancelled
<1>1. HostInv => AnsweredUnlessCancelled
  BY DEF HostInv, HostLinkInv, AnsweredUnlessCancelled
<1> QED BY <1>1, HostInvariance, PTL

\* A permission is granted only in the prompt it was asked in, while that is the
\* current one and active: whichever prompts began, ended and were cancelled
\* between the request and the decision.
THEOREM GrantsInTurn == HostSpec => PermissionInTurn
<1> DEFINE Granted(i) == asked'[i].answer = "selected" /\ asked[i].answer # "selected"
<1>1. ASSUME HostInv, Host!Next, NEW i \in Ids, Granted(i)
      PROVE  asked'[i].turn = turn /\ status[turn] = "active"
  <2> USE DEF HostInv, HostTyped
  <2>1. CASE asked' = asked
    BY <1>1, <2>1
  <2>2. ASSUME NEW j \in Ids, Host!Request(j) \/ Host!Refuse(j) PROVE FALSE
    <3>1. asked'[i] = asked[i] \/ asked'[i].answer \in {"none", "other"}
      BY <1>1, <2>2 DEF Host!Request, Host!Refuse, Host!Sent, Asked
    <3> QED BY <1>1, <3>1
  <2>3. ASSUME NEW j \in Ids, Host!AgentCancels(j) PROVE FALSE
    BY <1>1, <2>3 DEF Host!AgentCancels, Asked
  <2>4. ASSUME NEW j \in Ids, Host!Starts(j) \/ Host!ServiceEnds(j) \/ Host!Unwound(j)
        PROVE  asked'[i].turn = turn /\ status[turn] = "active"
    <3>1. CASE \E to \in {"ending", "running"} : Moves(j, to)
      BY <1>1, <3>1 DEF Moves
    <3>2. ASSUME NEW answer \in Host!Answers, NEW to, Writes(j, answer, to),
                 answer = "selected" => kind[j] = "permission" /\ status[captured[j]] = "active"
          PROVE  asked'[i].turn = turn /\ status[turn] = "active"
      <4>1. /\ \A k \in Ids \ {j} : asked'[k] = asked[k]
            /\ asked'[j].turn = asked[j].turn
            /\ asked'[j].answer \in {asked[j].answer, answer}
        BY <1>1, <3>2, WriteFacts DEF Writes
      <4>2. i = j /\ answer = "selected"
        BY <1>1, <4>1
      <4>3. asked[i].turn = captured[i] /\ captured[i] = turn
        BY <1>1, <3>2, <4>2 DEF Writes, HostTurnInv, Host!HostTasks
      <4> QED BY <3>2, <4>1, <4>2, <4>3
    <3> QED BY <1>1, <2>4, <3>1, <3>2, TaskSteps
  <2>5. CASE UNCHANGED asked
    BY <1>1, <2>5
  <2> QED BY <1>1, <2>2, <2>3, <2>4, <2>5
          DEF Host!Next, Host!TaskStep, Host!Ends, Host!DrainFails, Host!BeginTurn, Host!TurnCompletes,
          Host!CancelTurn, Host!Connect,
              Host!ReaderEnds, Host!Disconnect, Host!Retire, Host!CloseHostServices, Host!TerminalsFail,
              Host!Closed
<1>2. HostInv /\ [Host!Next]_(Host!vars) =>
        [\A i \in Ids : Granted(i) => asked'[i].turn = turn /\ status[turn] = "active"]_(Host!vars)
  BY <1>1
<1> QED BY <1>2, HostInvariance, HostSteps, PTL DEF HostSpec, PermissionInTurn, Host!PermissionInTurn

-----------------------------------------------------------------------------
(* The session: its invariant *)

Names == Sessions \cup {None}
Metas == [of : Sessions, n : Nat] \cup {None}
Views == [Parts -> Metas]
Answers == [kind : {"response"}, to : Tasks, how : {"ok", "refused", "malformed"}, of : Names, new : Views]
Pieces == [kind : {"text"}, of : Sessions, live : BOOLEAN]
Updates == [kind : Parts, of : Sessions, n : Nat]
Frames == Answers \cup Pieces \cup Updates
Orders == [op : AllCalls, on : Names, by : Tasks]
Snapshots == [id : Names, view : Views, strays : SUBSET Parts]
CallRecords ==
    [op : AllCalls \cup {"idle"}, on : Names, pc : {"idle", "lock", "wait", "answered", "fails"},
     reply : Answers \cup {None}, prev : Snapshots \cup {None}, owns : BOOLEAN]

\* Every variable keeps its type; what names a session has one.
StateTypes ==
    /\ link \in {"up", "retired", "down"}
    /\ requests \in Seq(Orders) /\ wire \in Seq(Frames) /\ chunks \in Seq(Pieces)
    /\ session_id \in Names /\ view \in Views /\ strays \subseteq Parts
    /\ transition \in [active : BOOLEAN, id : Names]
    /\ call \in [Tasks -> CallRecords]
    /\ current \in Names /\ opened \subseteq Sessions /\ deleted \subseteq Sessions
    /\ version \in [Sessions -> [Parts -> Nat]]
    /\ job \in [to : Tasks \cup {None}, on : Names, sent : Nat]

OfSession == {"resume", "prompt", "set_config", "set_mode", "close", "delete"}

\* What the stage of a call says of it.
Staged ==
    \A t \in Tasks :
        /\ call[t].op = "idle" <=> call[t].pc = "idle"
        /\ call[t].pc = "lock" => call[t].op \in Locked
        /\ call[t].prev # None <=> call[t].op \in Transitions /\ Serving(t)
        /\ call[t].op \in OfSession => call[t].on # None
        /\ call[t].op = "new" => call[t].on = None
        /\ call[t].op \in {"set_config", "set_mode", "close", "prompt"} => session_id \in {call[t].on, None}
        /\ call[t].pc = "fails" => link # "up"
        /\ call[t].pc = "answered" => call[t].reply \in Answers

\* A transition is made alone, and the lock has one holder.
Apart ==
    /\ \A t, u \in Tasks : call[t].op \in Transitions /\ u # t => call[u].op = "idle"
    /\ \A t, u \in Tasks :
        call[t].op \in Locked /\ Serving(t) /\ call[u].op \in Locked /\ Serving(u) => t = u

\* The client is between two sessions as long as a transition is served, and
\* knows it until it disconnects.
Changing ==
    /\ transition.active => \E t \in Tasks : call[t].prev # None
    /\ ~transition.active => transition.id = None
    /\ \A t \in Tasks : call[t].prev # None =>
          /\ call[t].prev.id = session_id
          /\ transition.active => transition.id = call[t].on
          /\ link = "up" => transition.active

\* What the good answer to a call carries.
Fits(f, t) ==
    f.how = "ok" =>
        /\ call[t].op = "resume" => f.of = call[t].on
        /\ call[t].op \in Transitions => \A p \in Parts : f.new[p] # None => f.new[p].of = f.of
        /\ call[t].op \in {"set_config", "set_mode"} =>
              \A p \in Parts : f.new[p] # None => f.new[p].of = call[t].on
        /\ call[t].op = "set_config" => f.new["options"] # None

Responds(k, t) == wire[k].kind = "response" /\ wire[k].to = t

\* What is under way is of the call that waits for it.
Matched ==
    /\ \A i \in 1 .. Len(requests) :
          /\ requests[i].op \in OfSession => requests[i].on # None
          /\ call[requests[i].by].pc = "wait" =>
                requests[i].op = call[requests[i].by].op /\ requests[i].on = call[requests[i].by].on
    /\ job.to # None =>
          /\ job.on # None
          /\ call[job.to].pc = "wait" => call[job.to].op = "prompt" /\ call[job.to].on = job.on
    /\ \A k \in 1 .. Len(wire), t \in Tasks : Responds(k, t) /\ call[t].pc = "wait" => Fits(wire[k], t)
    /\ \A t \in Tasks : call[t].pc = "answered" => Fits(call[t].reply, t)

\* Every call that waits has one thing under way: its request, its prompt or its answer.
Tokens ==
    link = "up" =>
        /\ \A i \in 1 .. Len(requests) :
              /\ call[requests[i].by].pc = "wait" /\ job.to # requests[i].by
              /\ \A j \in 1 .. Len(requests) : requests[j].by = requests[i].by => i = j
              /\ \A k \in 1 .. Len(wire) : ~Responds(k, requests[i].by)
        /\ job.to # None => call[job.to].pc = "wait" /\ \A k \in 1 .. Len(wire) : ~Responds(k, job.to)
        /\ \A k \in 1 .. Len(wire) : wire[k].kind = "response" =>
              /\ call[wire[k].to].pc = "wait"
              /\ \A j \in 1 .. Len(wire) : Responds(j, wire[k].to) => j = k

\* Metadata is of the session it is shown for, but for what has strayed.
Own(id, v, others) == id # None => \A p \in Parts : v[p] # None => v[p].of = id \/ p \in others
Metadata ==
    /\ (\A t \in Tasks : call[t].prev = None) => Own(session_id, view, strays)
    /\ \A t \in Tasks : call[t].prev # None =>
          /\ \A p \in Parts : view[p] # None => view[p].of = call[t].on \/ p \in strays
          /\ Own(call[t].prev.id, call[t].prev.view, call[t].prev.strays)

\* Which session the agent has once it has answered.
Bearing(f, t) ==
    /\ call[t].op \in Transitions => current = IF f.how = "ok" THEN f.of ELSE session_id
    /\ call[t].op = "close" /\ f.how = "ok" /\ call[t].on = session_id => current = None

\* A close of the client's session that the agent has done and the client has not.
ClosedBy(t) ==
    /\ call[t].op = "close" /\ call[t].on = session_id
    /\ \/ \E k \in 1 .. Len(wire) : Responds(k, t) /\ wire[k].how = "ok"
       \/ call[t].pc = "answered" /\ call[t].reply.how = "ok"

\* The client and the agent agree, but for what is under way.
Agrees ==
    link = "up" =>
        /\ (\A t \in Tasks : call[t].op \notin Transitions) =>
              current = session_id \/ (current = None /\ \E t \in Tasks : ClosedBy(t))
        /\ \A t \in Tasks : call[t].op \in Transitions /\ call[t].pc = "lock" => current = session_id
        /\ \A i \in 1 .. Len(requests) : requests[i].op \in Transitions => current = session_id
        /\ \A k \in 1 .. Len(wire), t \in Tasks : Responds(k, t) => Bearing(wire[k], t)
        /\ \A t \in Tasks : call[t].pc = "answered" => Bearing(call[t].reply, t)
        /\ \A t \in Tasks : call[t].op = "delete" => call[t].on # current

\* Only a prompt and a transition make the agent write text, which comes before
\* its answer; with what the client has it is all that the agent wrote.
Texts == {k \in 1 .. Len(wire) : wire[k].kind = "text"}
Tells(t) == call[t].pc = "wait" /\ call[t].op \in {"prompt", "new", "resume"}
Live(f, t) == f.live /\ f.of = call[t].on
Asks(t) == \E i \in 1 .. Len(requests) : requests[i].by = t
Told(t) == job.to = t \/ \E k \in 1 .. Len(wire) : Responds(k, t) /\ wire[k].how = "ok"
Texting ==
    link = "up" =>
        /\ (\A t \in Tasks : ~Tells(t)) => Texts = {}
        /\ \A t \in Tasks : Tells(t) =>
            /\ Asks(t) => Texts = {}
            /\ \A k \in 1 .. Len(wire) : Responds(k, t) => \A j \in Texts : j < k
        /\ \A t \in Tasks : Tells(t) /\ call[t].op = "prompt" =>
            /\ \A k \in Texts : Live(wire[k], t)
            /\ \A n \in 1 .. Len(chunks) : Live(chunks[n], t)
            /\ Asks(t) => chunks = <<>>
            /\ Told(t) => job.sent = Len(chunks) + Cardinality(Texts)
        /\ \A t \in Tasks : call[t].op = "prompt" /\ call[t].pc = "answered" /\ call[t].reply.how = "ok" =>
            /\ job.to = None /\ Len(chunks) = job.sent
            /\ \A n \in 1 .. Len(chunks) : Live(chunks[n], t)

\* What makes IdentityAgrees, OwnMetadata and WholeAnswer inductive.
StateInv == StateTypes /\ Staged /\ Apart /\ Changing /\ Matched /\ Tokens /\ Metadata /\ Agrees /\ Texting

-----------------------------------------------------------------------------
(* The session: types *)

\* The fields of calls that change, and the ones that stay.
LEMMA CallIs ==
  ASSUME NEW c \in CallRecords
  PROVE  /\ c.op \in AllCalls \cup {"idle"} /\ c.on \in Names
         /\ c.pc \in {"idle", "lock", "wait", "answered", "fails"}
         /\ c.reply \in Answers \cup {None} /\ c.prev \in Snapshots \cup {None} /\ c.owns \in BOOLEAN
BY DEF CallRecords

LEMMA CallDisowned ==
  ASSUME NEW c \in CallRecords, NEW d, d = [c EXCEPT !.owns = FALSE]
  PROVE  /\ d \in CallRecords /\ d.op = c.op /\ d.on = c.on /\ d.pc = c.pc /\ d.reply = c.reply /\ d.prev = c.prev
BY DEF CallRecords

LEMMA CallFails ==
  ASSUME NEW c \in CallRecords, NEW d, d = [c EXCEPT !.pc = "fails"]
  PROVE  /\ d \in CallRecords /\ d.op = c.op /\ d.on = c.on /\ d.pc = "fails" /\ d.reply = c.reply /\ d.prev = c.prev
BY DEF CallRecords

AnsweredCall(c, f) == [[c EXCEPT !.pc = "answered"] EXCEPT !.reply = f]
LEMMA CallAnswered ==
  ASSUME NEW c \in CallRecords, NEW f \in Answers, NEW d, d = AnsweredCall(c, f)
  PROVE  /\ d \in CallRecords /\ d.op = c.op /\ d.on = c.on /\ d.pc = "answered" /\ d.reply = f /\ d.prev = c.prev
BY DEF CallRecords, AnsweredCall

QueuedCall(op, s) == [Idle EXCEPT !.op = op, !.on = s, !.pc = "lock"]
WrittenCall(op, s) == [Idle EXCEPT !.op = op, !.on = s, !.pc = "wait", !.owns = (op = "set_mode")]

LEMMA CallQueued ==
  ASSUME NEW op \in Locked, NEW s \in Names, NEW c, c = QueuedCall(op, s)
  PROVE  c \in CallRecords /\ c.op = op /\ c.on = s /\ c.pc = "lock" /\ c.reply = None /\ c.prev = None
<1>1. c = [op |-> op, on |-> s, pc |-> "lock", reply |-> None, prev |-> None, owns |-> FALSE]
  BY DEF QueuedCall, Idle
<1>2. c \in CallRecords
  BY <1>1 DEF CallRecords, Locked, AllCalls
<1>3. c.op = op /\ c.on = s /\ c.pc = "lock" /\ c.reply = None /\ c.prev = None
  BY <1>1
<1> QED BY <1>2, <1>3

LEMMA CallWritten ==
  ASSUME NEW op \in AllCalls, NEW s \in Names, NEW c, c = WrittenCall(op, s)
  PROVE  c \in CallRecords /\ c.op = op /\ c.on = s /\ c.pc = "wait" /\ c.reply = None /\ c.prev = None
<1>1. c = [op |-> op, on |-> s, pc |-> "wait", reply |-> None, prev |-> None, owns |-> (op = "set_mode")]
  BY DEF WrittenCall, Idle
<1>2. c \in CallRecords
  BY <1>1 DEF CallRecords
<1>3. c.op = op /\ c.on = s /\ c.pc = "wait" /\ c.reply = None /\ c.prev = None
  BY <1>1
<1> QED BY <1>2, <1>3

LEMMA CallPrev ==
  ASSUME NEW c \in CallRecords, NEW p \in Snapshots, NEW d, d = [c EXCEPT !.prev = p]
  PROVE  /\ d \in CallRecords /\ d.op = c.op /\ d.on = c.on /\ d.pc = c.pc /\ d.reply = c.reply /\ d.prev = p
BY DEF CallRecords

LEMMA CallIdle ==
  /\ Idle \in CallRecords /\ Idle.op = "idle" /\ Idle.on = None /\ Idle.pc = "idle" /\ Idle.reply = None
  /\ Idle.prev = None
BY DEF CallRecords, Idle, Names

\* What is Blank, and what is known from an answer.
LEMMA BlankIs == Blank \in Views /\ \A p \in Parts : Blank[p] = None
BY DEF Blank, Views, Metas

LEMMA CapturedIs ==
  ASSUME StateTypes, NEW new \in Views
  PROVE  /\ Captured(new) \in Views
         /\ \A p \in Parts : Captured(new)[p] = IF new[p] # None THEN new[p] ELSE view[p]
<1>1. view \in [Parts -> Metas] /\ new \in [Parts -> Metas]
  BY DEF StateTypes, Views
<1>2. PICK r : r = Captured(new)
  OBVIOUS
<1>3. r = [p \in Parts |-> IF new[p] # None THEN new[p] ELSE view[p]]
  BY <1>2 DEF Captured
<1>4. r \in [Parts -> Metas] /\ \A p \in Parts : r[p] = IF new[p] # None THEN new[p] ELSE view[p]
  BY <1>1, <1>3
<1> QED BY <1>2, <1>4 DEF Views

LEMMA SnapshotIs ==
  ASSUME StateTypes
  PROVE  /\ Snapshot \in Snapshots /\ Snapshot # None
         /\ Snapshot.id = session_id /\ Snapshot.view = view /\ Snapshot.strays = strays
<1>1. /\ Snapshot \in Snapshots
      /\ Snapshot.id = session_id /\ Snapshot.view = view /\ Snapshot.strays = strays
  BY DEF StateTypes, Snapshot, Snapshots
<1>2. None \notin Snapshots
  BY NamesAssumption DEF Snapshots, Names, Views, Metas
<1> QED BY <1>1, <1>2

LEMMA SnapshotFields ==
  ASSUME NEW p \in Snapshots
  PROVE  p.id \in Names /\ p.view \in Views /\ p.strays \subseteq Parts
BY DEF Snapshots

\* The kinds of frames.
LEMMA FrameIs ==
  ASSUME NEW f \in Frames
  PROVE  /\ f.kind = "response" => f \in Answers
         /\ f.kind = "text" => f \in Pieces /\ f.of \in Sessions
         /\ f.kind \in Parts => f \in Updates /\ f.of \in Sessions /\ f.n \in Nat
         /\ f.kind \in {"response", "text"} \cup Parts
         /\ f.kind # "response" => f.of \in Sessions
BY DEF Frames, Answers, Pieces, Updates, Parts

LEMMA AnswerIs ==
  ASSUME NEW f \in Answers
  PROVE  /\ f.kind = "response" /\ f.to \in Tasks /\ f.how \in {"ok", "refused", "malformed"}
         /\ f.of \in Names /\ f.new \in Views /\ f \in Frames
BY DEF Answers, Frames

LEMMA OrderIs ==
  ASSUME NEW r \in Orders
  PROVE  r.op \in AllCalls /\ r.on \in Names /\ r.by \in Tasks
BY DEF Orders

\* What an agent writes for a request that it refuses, or does.
LEMMA ReplyIs ==
  ASSUME NEW r, r.on \in Names, r.by \in Tasks, NEW how \in {"ok", "refused", "malformed"}
  PROVE  /\ Reply(r, how) \in Answers /\ Reply(r, how).to = r.by /\ Reply(r, how).how = how
         /\ Reply(r, how).of = r.on /\ Reply(r, how).new = Blank
<1>1. Reply(r, how) = [kind |-> "response", to |-> r.by, how |-> how, of |-> r.on, new |-> Blank]
  BY DEF Reply
<1> QED BY <1>1, BlankIs DEF Answers

LEMMA AnswerNew ==
  ASSUME NEW f \in Answers, NEW n \in Views, NEW g, g = [f EXCEPT !.new = n]
  PROVE  g \in Answers /\ g.to = f.to /\ g.how = f.how /\ g.of = f.of /\ g.new = n
BY DEF Answers

LEMMA AnswerOf ==
  ASSUME NEW f \in Answers, NEW s \in Names, NEW g, g = [f EXCEPT !.of = s]
  PROVE  g \in Answers /\ g.to = f.to /\ g.how = f.how /\ g.of = s /\ g.new = f.new
BY DEF Answers

LEMMA LatestIs ==
  ASSUME StateTypes, NEW s \in Sessions, NEW p \in Parts
  PROVE  Latest(s, p) \in Metas /\ Latest(s, p).of = s /\ Latest(s, p) # None
BY NamesAssumption DEF StateTypes, Latest, Metas

LEMMA CarriedIs ==
  ASSUME StateTypes, NEW s \in Sessions, NEW new \in Carried(s)
  PROVE  new \in Views /\ \A p \in Parts : new[p] # None => new[p].of = s
<1>1. PICK there \in SUBSET {"options", "mode"} : new = [p \in Parts |-> IF p \in there THEN Latest(s, p) ELSE None]
  BY DEF Carried
<1>2. \A p \in Parts : Latest(s, p) \in Metas /\ Latest(s, p).of = s
  BY LatestIs
<1>3. None \in Metas
  BY DEF Metas
<1> QED BY <1>1, <1>2, <1>3 DEF Views

-----------------------------------------------------------------------------
(* The session: what each step does *)

\* A call keeps all but its mode object.
Kept(u) ==
    /\ call'[u].op = call[u].op /\ call'[u].on = call[u].on /\ call'[u].pc = call[u].pc
    /\ call'[u].reply = call[u].reply /\ call'[u].prev = call[u].prev
Others(t) == \A u \in Tasks : u # t => Kept(u)

\* A request is written: by a call that begins, or by one that has got the lock.
Wrote(t, op, s) ==
    /\ link = "up" /\ link' = "up" /\ UNCHANGED <<wire, session_id, current, job>>
    /\ requests' = Append(requests, [op |-> op, on |-> s, by |-> t])
    /\ op \in AllCalls /\ s \in Names
    /\ \/ call[t].pc = "idle" /\ call[t].op = "idle" /\ op \notin Locked
       \/ call[t].pc = "lock" /\ call[t].op = op /\ op \in Locked
    /\ op \in Locked => \A u \in Tasks : ~(call[u].op \in Locked /\ Serving(u))
    /\ \A u \in Tasks : u # t =>
          call[u].op \notin Transitions /\ (op \in Transitions => call[u].op = "idle")
    /\ (op \in OfSession => s # None) /\ (op = "new" => s = None)
    /\ op \in {"prompt", "set_config", "set_mode", "close"} => s = session_id
    /\ op = "delete" => s # session_id
    /\ call'[t].op = op /\ call'[t].on = s /\ call'[t].pc = "wait" /\ call'[t].reply = None
    /\ Others(t)
    /\ \/ /\ op \in Transitions /\ ~transition.active
          /\ call'[t].prev = Snapshot
          /\ view' = Blank /\ strays' = {} /\ transition' = [active |-> TRUE, id |-> s]
       \/ op \notin Transitions /\ call'[t].prev = None /\ UNCHANGED <<view, transition, strays>>
    /\ chunks' = IF op = "prompt" THEN <<>> ELSE chunks

\* A call waits for the lock.
Queues(t, op, s) ==
    /\ UNCHANGED <<link, requests, wire, session_id, view, transition, chunks, current, job, strays>>
    /\ op \in Locked /\ s \in Names /\ s # None
    /\ call[t].op = "idle"
    /\ op = "prompt" => s = session_id
    /\ \A u \in Tasks : u # t =>
          call[u].op \notin Transitions /\ (op \in Transitions => call[u].op = "idle")
    /\ call'[t].op = op /\ call'[t].on = s /\ call'[t].pc = "lock" /\ call'[t].reply = None
    /\ call'[t].prev = None
    /\ Others(t)

\* A call ends.
Ended(t) ==
    /\ UNCHANGED <<link, requests, wire, chunks, current, job>>
    /\ call'[t].op = "idle" /\ call'[t].pc = "idle" /\ call'[t].reply = None /\ call'[t].prev = None
    /\ Others(t)
    /\ call[t].pc \in {"lock", "answered", "fails"}

\* How: without a trace, with the session of before, or with what was answered.
Succeeds(t) == call[t].pc = "answered" /\ call[t].reply.how = "ok"
EndsPlain(t) ==
    /\ call[t].prev = None /\ UNCHANGED <<session_id, view, transition, strays>>
    /\ ~(Succeeds(t) /\ call[t].op = "close" /\ call[t].on = session_id)
EndsBack(t) ==
    /\ call[t].prev # None /\ ~Succeeds(t)
    /\ Restored(call[t].prev) /\ transition' = [active |-> FALSE, id |-> None]
EndsChanged(t) ==
    /\ Succeeds(t) /\ call[t].op \in Transitions
    /\ session_id' = call[t].reply.of
    /\ view' = Captured(call[t].reply.new) /\ strays' = {p \in strays : call[t].reply.new[p] = None}
    /\ transition' = [active |-> FALSE, id |-> None]
EndsClosed(t) ==
    /\ Succeeds(t) /\ call[t].op = "close" /\ call[t].on = session_id
    /\ session_id' = None /\ view' = Blank /\ strays' = {} /\ UNCHANGED transition
EndsSet(t) ==
    /\ Succeeds(t) /\ call[t].op \in {"set_config", "set_mode"}
    /\ UNCHANGED <<session_id, transition>>
    /\ \/ view' = Captured(call[t].reply.new)
       \/ view' = view /\ call[t].op = "set_mode"
    /\ strays' = IF call[t].op = "set_config" THEN strays \ {"options"} ELSE strays

\* Nobody knows whether a request was done.
GaveUp(t) ==
    /\ link' # "up"
    /\ UNCHANGED <<requests, wire, session_id, view, transition, chunks, current, job, strays>>
    /\ call[t].pc \in {"wait", "answered"}
    /\ call'[t].op = call[t].op /\ call'[t].on = call[t].on /\ call'[t].pc = "fails"
    /\ call'[t].reply = call[t].reply /\ call'[t].prev = call[t].prev
    /\ Others(t)

\* The connection is lost, or the client disconnects.
LostAll ==
    /\ link' = "down" /\ requests' = <<>> /\ wire' = <<>>
    /\ job'.to = None /\ UNCHANGED <<session_id, view, chunks, current, strays>>
    /\ transition' = transition \/ transition' = [active |-> FALSE, id |-> None]
    /\ \A u \in Tasks :
        /\ call'[u].op = call[u].op /\ call'[u].on = call[u].on
        /\ call'[u].reply = call[u].reply /\ call'[u].prev = call[u].prev
        /\ call'[u].pc = IF call[u].pc = "wait" THEN "fails" ELSE call[u].pc

\* The agent writes its answer f to the first request r, after a history if n = 2.
Unread == UNCHANGED <<link, session_id, view, transition, call, chunks, strays>>
Sends(f, n) ==
    /\ Len(wire') = Len(wire) + n /\ wire'[Len(wire')] = f
    /\ \A k \in 1 .. Len(wire) : wire'[k] = wire[k]
Suits(f, r) ==
    f.how = "ok" =>
        /\ r.op = "resume" => f.of = r.on
        /\ r.op \in Transitions => \A p \in Parts : f.new[p] # None => f.new[p].of = f.of
        /\ r.op \in {"set_config", "set_mode"} =>
              \A p \in Parts : f.new[p] # None => f.new[p].of = r.on
        /\ r.op = "set_config" => f.new["options"] # None
Handled(f, n) ==
    LET r == requests[1] IN
        /\ Unread /\ link # "down" /\ requests # <<>> /\ requests' = Tail(requests) /\ UNCHANGED job
        /\ f \in Answers /\ f.to = r.by /\ Suits(f, r) /\ (r.op = "prompt" => f.how # "ok")
        /\ n \in {1, 2} /\ Sends(f, n)
        /\ n = 2 => r.op \in Transitions /\ wire'[Len(wire) + 1].kind = "text"
        /\ current' = IF f.how = "ok" /\ r.op \in Transitions THEN f.of
                      ELSE IF f.how = "ok" /\ r.op \in {"close", "delete"} /\ current = r.on THEN None
                      ELSE current

\* It begins to work on a prompt; it writes text, and its answer.
Prompted ==
    /\ Unread /\ link # "down" /\ requests # <<>> /\ requests' = Tail(requests) /\ UNCHANGED <<wire, current>>
    /\ requests[1].op = "prompt"
    /\ job'.to = requests[1].by /\ job'.on = requests[1].on /\ job'.sent = 0
WritesText(f) ==
    /\ Unread /\ link # "down" /\ job.to # None /\ UNCHANGED <<requests, current>>
    /\ job'.to = job.to /\ job'.on = job.on /\ job'.sent = job.sent + 1
    /\ Sends(f, 1) /\ f.kind = "text" /\ f.of = job.on /\ f.live = TRUE
Concludes(f) ==
    /\ Unread /\ link # "down" /\ job.to # None /\ UNCHANGED <<requests, current>>
    /\ job'.to = None /\ job'.on = job.on /\ job'.sent = job.sent
    /\ Sends(f, 1) /\ f \in Answers /\ f.to = job.to
Announces(f) ==
    /\ Unread /\ link # "down" /\ UNCHANGED <<requests, current, job>>
    /\ Sends(f, 1) /\ f.kind \in Parts

\* The reader takes the first frame.
Takes ==
    /\ link # "down" /\ wire # <<>> /\ wire' = Tail(wire)
    /\ UNCHANGED <<link, requests, session_id, transition, current, job>>
TakesSaid ==
    /\ Takes /\ link = "up" /\ wire[1].kind = "text" /\ UNCHANGED <<view, call, strays>>
    /\ chunks' = IF transition.id = None THEN Append(chunks, wire[1]) ELSE chunks
TakesUpdate ==
    LET f == wire[1] IN
        /\ Takes /\ link = "up" /\ f.kind \in Parts /\ f.of \in {session_id, transition.id}
        /\ UNCHANGED <<chunks, call>>
        /\ \/ UNCHANGED <<view, strays>>
           \/ /\ view' = [view EXCEPT ![f.kind] = [of |-> f.of, n |-> f.n]]
              /\ strays' = IF transition.active /\ f.of # transition.id
                           THEN strays \cup {f.kind} ELSE strays \ {f.kind}
TakesAnswer ==
    LET t == wire[1].to IN
        /\ Takes /\ wire[1].kind = "response" /\ UNCHANGED <<view, chunks, strays>>
        /\ call[t].pc = "wait"
        /\ call'[t].op = call[t].op /\ call'[t].on = call[t].on /\ call'[t].pc = "answered"
        /\ call'[t].reply = wire[1] /\ call'[t].prev = call[t].prev
        /\ Others(t)
TakesNothing == Takes /\ link # "up" /\ UNCHANGED <<view, call, chunks, strays>>

LEMMA DisownedIs ==
  ASSUME StateTypes
  PROVE  /\ Disowned \in [Tasks -> CallRecords]
         /\ \A u \in Tasks :
              /\ Disowned[u].op = call[u].op /\ Disowned[u].on = call[u].on /\ Disowned[u].pc = call[u].pc
              /\ Disowned[u].reply = call[u].reply /\ Disowned[u].prev = call[u].prev
<1>1. PICK d : d = Disowned
  OBVIOUS
<1>2. d = [u \in Tasks |-> [call[u] EXCEPT !.owns = FALSE]]
  BY <1>1 DEF Disowned
<1>3. \A u \in Tasks : call[u] \in CallRecords /\ d[u] = [call[u] EXCEPT !.owns = FALSE]
  BY <1>2 DEF StateTypes
<1>4. \A u \in Tasks :
        /\ d[u] \in CallRecords /\ d[u].op = call[u].op /\ d[u].on = call[u].on /\ d[u].pc = call[u].pc
        /\ d[u].reply = call[u].reply /\ d[u].prev = call[u].prev
  BY <1>3, CallDisowned
<1>5. d \in [Tasks -> CallRecords]
  BY <1>2, <1>4
<1> QED BY <1>1, <1>4, <1>5

\* One call becomes another record, the others lose their mode object at most.
LEMMA CallSet ==
  ASSUME StateTypes, NEW t \in Tasks, NEW c \in CallRecords, NEW calls, calls \in {call, Disowned},
         call' = [calls EXCEPT ![t] = c]
  PROVE  call' \in [Tasks -> CallRecords] /\ call'[t] = c /\ Others(t)
<1>1. /\ calls \in [Tasks -> CallRecords]
      /\ \A u \in Tasks :
            /\ calls[u].op = call[u].op /\ calls[u].on = call[u].on /\ calls[u].pc = call[u].pc
            /\ calls[u].reply = call[u].reply /\ calls[u].prev = call[u].prev
  BY DisownedIs DEF StateTypes
<1>2. call' \in [Tasks -> CallRecords] /\ call'[t] = c /\ \A u \in Tasks : u # t => call'[u] = calls[u]
  BY <1>1
<1> QED BY <1>1, <1>2 DEF Others, Kept

\* The types survive a step of which they are known piece by piece.
LEMMA WriteIs ==
  ASSUME StateTypes, NEW t \in Tasks, NEW op \in AllCalls, NEW s \in Names, Write(t, op, s)
  PROVE  /\ StateTypes'
         /\ link = "up" /\ link' = "up" /\ UNCHANGED <<wire, session_id, current, job>>
         /\ requests' = Append(requests, [op |-> op, on |-> s, by |-> t])
         /\ call'[t].op = op /\ call'[t].on = s /\ call'[t].pc = "wait" /\ call'[t].reply = None
         /\ Others(t)
         /\ \/ /\ op \in Transitions /\ ~transition.active
               /\ call'[t].prev = Snapshot
               /\ view' = Blank /\ strays' = {} /\ transition' = [active |-> TRUE, id |-> s]
            \/ op \notin Transitions /\ call'[t].prev = None /\ UNCHANGED <<view, transition, strays>>
         /\ chunks' = IF op = "prompt" THEN <<>> ELSE chunks
<1>1. PICK mine : mine = WrittenCall(op, s)
  OBVIOUS
<1>3. /\ mine \in CallRecords /\ mine.op = op /\ mine.on = s /\ mine.pc = "wait" /\ mine.reply = None
      /\ mine.prev = None
  BY <1>1, CallWritten
<1>4. /\ link = "up" /\ UNCHANGED <<link, wire, session_id, current, opened, deleted, version, job>>
      /\ requests' = Append(requests, [op |-> op, on |-> s, by |-> t])
      /\ IF op \in Transitions THEN Begin(t, mine)
         ELSE call' = [call EXCEPT ![t] = mine] /\ UNCHANGED <<view, transition, strays>>
      /\ chunks' = IF op = "prompt" THEN <<>> ELSE chunks
  BY <1>1 DEF Write, WrittenCall, agentVars
<1>5. [op |-> op, on |-> s, by |-> t] \in Orders
  BY DEF Orders
<1>6. requests' \in Seq(Orders) /\ chunks' \in Seq(Pieces)
  BY <1>4, <1>5 DEF StateTypes
<1>7. /\ call' \in [Tasks -> CallRecords] /\ Others(t)
      /\ call'[t].op = op /\ call'[t].on = s /\ call'[t].pc = "wait" /\ call'[t].reply = None
      /\ view' \in Views /\ strays' \subseteq Parts /\ transition' \in [active : BOOLEAN, id : Names]
      /\ \/ /\ op \in Transitions /\ ~transition.active
            /\ call'[t].prev = Snapshot
            /\ view' = Blank /\ strays' = {} /\ transition' = [active |-> TRUE, id |-> s]
         \/ op \notin Transitions /\ call'[t].prev = None /\ UNCHANGED <<view, transition, strays>>
  <2>1. CASE op \in Transitions
    <3>1. PICK d : d = [mine EXCEPT !.prev = Snapshot]
      OBVIOUS
    <3>2. d \in CallRecords /\ d.op = op /\ d.on = s /\ d.pc = "wait" /\ d.reply = None /\ d.prev = Snapshot
      BY <1>3, <3>1, CallPrev, SnapshotIs
    <3>3. /\ ~transition.active /\ view' = Blank /\ strays' = {}
          /\ transition' = [active |-> TRUE, id |-> s] /\ call' = [Disowned EXCEPT ![t] = d]
      BY <1>3, <1>4, <2>1, <3>1 DEF Begin, Cleared
    <3>4. call' \in [Tasks -> CallRecords] /\ call'[t] = d /\ Others(t)
      BY <3>2, <3>3, CallSet
    <3>5. transition' \in [active : BOOLEAN, id : Names]
      BY <3>3
    <3> QED BY <2>1, <3>2, <3>3, <3>4, <3>5, BlankIs
  <2>2. CASE op \notin Transitions
    <3>1. call' = [call EXCEPT ![t] = mine] /\ UNCHANGED <<view, transition, strays>>
      BY <1>4, <2>2
    <3>2. call' \in [Tasks -> CallRecords] /\ call'[t] = mine /\ Others(t)
      BY <1>3, <3>1, CallSet
    <3> QED BY <1>3, <2>2, <3>1, <3>2 DEF StateTypes
  <2> QED BY <2>1, <2>2
<1>8. StateTypes'
  BY <1>4, <1>6, <1>7 DEF StateTypes
<1> QED BY <1>4, <1>7, <1>8

\* A call that begins at once.
LEMMA StartsWrite ==
  ASSUME StateInv, ~Concurrent, NEW t \in Tasks, NEW op \in AllCalls, NEW s \in Names,
         Starts(t, op, s), op \notin Locked
  PROVE  StateTypes' /\ Wrote(t, op, s)
<1>1. call[t].op = "idle" /\ Alone(op) /\ Accepts(op, s) /\ Write(t, op, s)
  BY DEF Starts
<1>2. StateTypes
  BY DEF StateInv
<1>3. \A u \in Tasks : u # t => call[u].op \notin Transitions /\ (op \in Transitions => call[u].op = "idle")
  BY <1>1 DEF Alone, Busy, Transitions
<1>4. call[t].pc = "idle"
  BY <1>1 DEF StateInv, Staged
<1>5. /\ (op \in OfSession => s # None) /\ (op = "new" => s = None)
      /\ op \in {"prompt", "set_config", "set_mode", "close"} => s = session_id
      /\ op = "delete" => s # session_id
  BY <1>1, SessionStateAssumption DEF Accepts, OfSession, Locked, AllCalls
<1> QED BY <1>1, <1>2, <1>3, <1>4, <1>5, WriteIs DEF Wrote

\* A call that has to wait for the lock.
LEMMA StartsWaiting ==
  ASSUME StateInv, ~Concurrent, NEW t \in Tasks, NEW op \in AllCalls, NEW s \in Names,
         Starts(t, op, s), op \in Locked
  PROVE  StateTypes' /\ Queues(t, op, s)
<1>1. /\ call[t].op = "idle" /\ Alone(op) /\ Accepts(op, s)
      /\ call' = [call EXCEPT ![t] = QueuedCall(op, s)]
      /\ UNCHANGED <<link, requests, wire, session_id, view, transition, chunks, agentVars, strays>>
  BY DEF Starts, QueuedCall
<1>2. StateTypes
  BY DEF StateInv
<1>3. \A u \in Tasks : u # t => call[u].op \notin Transitions /\ (op \in Transitions => call[u].op = "idle")
  BY <1>1 DEF Alone, Busy, Transitions
<1>4. s # None /\ (op = "prompt" => s = session_id)
  BY <1>1, SessionStateAssumption DEF Accepts, Locked
<1>5. PICK d : d = QueuedCall(op, s)
  OBVIOUS
<1>6. /\ d \in CallRecords /\ d.op = op /\ d.on = s /\ d.pc = "lock" /\ d.reply = None /\ d.prev = None
  BY <1>5, CallQueued
<1>7. call' \in [Tasks -> CallRecords] /\ call'[t] = d /\ Others(t)
  BY <1>1, <1>2, <1>5, <1>6, CallSet
<1>8. StateTypes'
  BY <1>1, <1>2, <1>7 DEF StateTypes, agentVars
<1> QED BY <1>1, <1>3, <1>4, <1>6, <1>7, <1>8 DEF Queues, agentVars

\* A call that has got the lock.
LEMMA LockWrites ==
  ASSUME StateInv, NEW t \in Tasks, LockTaken(t)
  PROVE  StateTypes' /\ \E op \in AllCalls, s \in Names : Wrote(t, op, s)
<1> DEFINE op == call[t].op
           s == IF op = "prompt" THEN session_id ELSE call[t].on
<1>1. /\ call[t].pc = "lock" /\ LockFree /\ Write(t, op, s) /\ op \in Locked
      /\ op = "prompt" => session_id # None
  BY DEF LockTaken, Admits, Accepts, StateInv, Staged
<1>2. StateTypes
  BY DEF StateInv
<1>3. op \in AllCalls /\ s \in Names
  BY <1>1, <1>2, CallIs DEF StateTypes, Locked, AllCalls
<1>4. \A u \in Tasks : u # t => call[u].op \notin Transitions /\ (op \in Transitions => call[u].op = "idle")
  BY <1>1 DEF StateInv, Apart, Transitions, Locked
<1>5. s # None /\ op \notin {"delete", "new"} /\ (op \in {"prompt", "set_config", "set_mode", "close"} => s = session_id)
  BY <1>1 DEF StateInv, Staged, OfSession, Locked
<1>6. \A u \in Tasks : ~(call[u].op \in Locked /\ Serving(u))
  BY <1>1 DEF LockFree
<1> HIDE DEF op, s
<1>7. Wrote(t, op, s) /\ StateTypes'
  <2>1. call[t].op = op
    BY DEF op
  <2> QED BY <1>1, <1>2, <1>3, <1>4, <1>5, <1>6, <2>1, WriteIs DEF Wrote
<1> QED BY <1>3, <1>7

LEMMA EndIs ==
  ASSUME StateTypes, NEW t \in Tasks, NEW calls, calls \in {call, Disowned}, Ends(t, calls)
  PROVE  /\ call' \in [Tasks -> CallRecords] /\ Others(t)
         /\ call'[t].op = "idle" /\ call'[t].pc = "idle" /\ call'[t].reply = None /\ call'[t].prev = None
<1>1. call' = [calls EXCEPT ![t] = Idle]
  BY DEF Ends
<1>2. call' \in [Tasks -> CallRecords] /\ call'[t] = Idle /\ Others(t)
  BY <1>1, CallIdle, CallSet
<1> QED BY <1>2, CallIdle

\* A call that has to give back what it took.
LEMMA FinishIs ==
  ASSUME StateInv, NEW t \in Tasks, FinishFailed(t), ~Succeeds(t),
         call[t].pc \in {"lock", "answered", "fails"},
         UNCHANGED <<link, requests, wire, chunks, agentVars, started, news>>
  PROVE  StateTypes' /\ Ended(t) /\ (EndsPlain(t) \/ EndsBack(t))
<1>1. StateTypes
  BY DEF StateInv
<1>2. CASE call[t].prev = None
  <2>1. Ends(t, call) /\ UNCHANGED <<session_id, view, transition, strays>>
    BY <1>2 DEF FinishFailed
  <2>2. /\ call' \in [Tasks -> CallRecords] /\ Others(t)
        /\ call'[t].op = "idle" /\ call'[t].pc = "idle" /\ call'[t].reply = None /\ call'[t].prev = None
    BY <1>1, <2>1, EndIs
  <2>3. StateTypes'
    BY <1>1, <2>1, <2>2 DEF StateTypes, agentVars
  <2> QED BY <1>2, <2>1, <2>2, <2>3 DEF Ended, EndsPlain, agentVars
<1>3. CASE call[t].prev # None
  <2>1. /\ Ends(t, Disowned) /\ Restored(call[t].prev)
        /\ transition' = [active |-> FALSE, id |-> None]
    BY <1>3 DEF FinishFailed
  <2>2. /\ call' \in [Tasks -> CallRecords] /\ Others(t)
        /\ call'[t].op = "idle" /\ call'[t].pc = "idle" /\ call'[t].reply = None /\ call'[t].prev = None
    BY <1>1, <2>1, EndIs
  <2>3. call[t].prev \in Snapshots
    BY <1>1, <1>3, CallIs DEF StateTypes
  <2>4. session_id' \in Names /\ view' \in Views /\ strays' \subseteq Parts
    BY <2>1, <2>3, SnapshotFields DEF Restored
  <2>5. transition' \in [active : BOOLEAN, id : Names]
    BY <2>1 DEF Names
  <2>6. StateTypes'
    BY <1>1, <2>2, <2>4, <2>5 DEF StateTypes, agentVars
  <2> QED BY <1>3, <2>1, <2>2, <2>6 DEF Ended, EndsBack, agentVars
<1> QED BY <1>2, <1>3

LEMMA WastedEnds ==
  ASSUME StateInv, NEW t \in Tasks, LockWasted(t)
  PROVE  StateTypes' /\ Ended(t) /\ EndsPlain(t)
<1>1. StateTypes
  BY DEF StateInv
<1>2. /\ call[t].pc = "lock" /\ Ends(t, call)
      /\ UNCHANGED <<link, requests, wire, session_id, view, transition, chunks, agentVars, started, news, strays>>
  BY DEF LockWasted
<1>3. /\ call' \in [Tasks -> CallRecords] /\ Others(t)
      /\ call'[t].op = "idle" /\ call'[t].pc = "idle" /\ call'[t].reply = None /\ call'[t].prev = None
  BY <1>1, <1>2, EndIs
<1>4. call[t].prev = None
  BY <1>2 DEF StateInv, Staged, Serving
<1>5. StateTypes'
  BY <1>1, <1>2, <1>3 DEF StateTypes, agentVars
<1> QED BY <1>2, <1>3, <1>4, <1>5 DEF Ended, EndsPlain, Succeeds, agentVars

LEMMA RefusedEnds ==
  ASSUME StateInv, NEW t \in Tasks, Refused(t)
  PROVE  StateTypes' /\ Ended(t) /\ (EndsPlain(t) \/ EndsBack(t))
BY FinishIs DEF Refused, Succeeds

LEMMA FailsEnds ==
  ASSUME StateInv, NEW t \in Tasks, Fails(t)
  PROVE  StateTypes' /\ Ended(t) /\ (EndsPlain(t) \/ EndsBack(t))
<1>1. /\ call[t].pc = "fails" /\ FinishFailed(t)
      /\ UNCHANGED <<link, requests, wire, chunks, agentVars, started, news>>
  BY DEF Fails
<1>2. ~Succeeds(t)
  BY <1>1 DEF Succeeds
<1> QED BY <1>1, <1>2, FinishIs

LEMMA CompletesEnds ==
  ASSUME StateInv, NEW t \in Tasks, Completes(t)
  PROVE  /\ StateTypes' /\ Ended(t) /\ Succeeds(t)
         /\ EndsPlain(t) \/ EndsChanged(t) \/ EndsClosed(t) \/ EndsSet(t)
<1> DEFINE f == call[t].reply
<1>1. StateTypes
  BY DEF StateInv
<1>2. /\ call[t].pc = "answered" /\ f.how = "ok" /\ Commit(t)
      /\ UNCHANGED <<link, requests, wire, chunks, agentVars, started, news>>
  BY DEF Completes
<1>3. f \in Answers
  BY <1>2 DEF StateInv, Staged
<1>4. f.of \in Names /\ f.new \in Views
  BY <1>3, AnswerIs
<1>5. Captured(f.new) \in Views
  BY <1>1, <1>4, CapturedIs
<1>6. call[t].prev # None <=> call[t].op \in Transitions
  BY <1>2 DEF StateInv, Staged, Serving
<1> HIDE DEF f
<1>7. f = call[t].reply
  BY DEF f
<1>8. Succeeds(t)
  BY <1>2, <1>7 DEF Succeeds
<1>9. ASSUME NEW calls \in {call, Disowned}, Ends(t, calls),
             session_id' \in Names, view' \in Views, strays' \subseteq Parts,
             transition' \in [active : BOOLEAN, id : Names]
      PROVE  StateTypes' /\ Ended(t)
  <2>1. /\ call' \in [Tasks -> CallRecords] /\ Others(t)
        /\ call'[t].op = "idle" /\ call'[t].pc = "idle" /\ call'[t].reply = None /\ call'[t].prev = None
    BY <1>1, <1>9, EndIs
  <2>2. StateTypes'
    BY <1>1, <1>2, <1>9, <2>1 DEF StateTypes, agentVars
  <2> QED BY <1>2, <2>1, <2>2 DEF Ended, agentVars
<1>10. session_id \in Names /\ view \in Views /\ strays \subseteq Parts /\ transition \in [active : BOOLEAN, id : Names]
  BY <1>1 DEF StateTypes
<1>11. CASE call[t].op \in Transitions
  <2>1. CommitTransition(t)
    BY <1>2, <1>11 DEF Commit, Transitions
  <2>2. /\ session_id' = f.of /\ view' = Captured(f.new) /\ strays' = {p \in strays : f.new[p] = None}
        /\ transition' = [active |-> FALSE, id |-> None] /\ Ends(t, Disowned)
    BY <1>7, <2>1 DEF CommitTransition
  <2>3. transition' \in [active : BOOLEAN, id : Names]
    BY <2>2 DEF Names
  <2>4. StateTypes' /\ Ended(t)
    BY <1>4, <1>5, <1>9, <1>10, <2>2, <2>3
  <2>5. EndsChanged(t)
    BY <1>7, <1>8, <1>11, <2>2 DEF EndsChanged
  <2> QED BY <1>8, <2>4, <2>5
<1>12. CASE call[t].op = "set_config"
  <2>1. CommitConfig(t)
    BY <1>2, <1>12 DEF Commit, Transitions
  <2>2. /\ view' = Captured(f.new) /\ strays' = strays \ {"options"} /\ Ends(t, call)
        /\ UNCHANGED <<session_id, transition>>
    BY <1>7, <2>1 DEF CommitConfig
  <2>3. StateTypes' /\ Ended(t)
    BY <1>5, <1>9, <1>10, <2>2
  <2>4. EndsSet(t)
    BY <1>7, <1>8, <1>12, <2>2 DEF EndsSet
  <2> QED BY <1>8, <2>3, <2>4
<1>13. CASE call[t].op = "set_mode"
  <2>1. CommitMode(t)
    BY <1>2, <1>13 DEF Commit, Transitions
  <2>2. /\ view' = Captured(f.new) \/ view' = view
        /\ Ends(t, call) /\ UNCHANGED <<session_id, transition, strays>>
    BY <1>7, <2>1 DEF CommitMode
  <2>3. StateTypes' /\ Ended(t)
    BY <1>5, <1>9, <1>10, <2>2
  <2>4. EndsSet(t)
    BY <1>7, <1>8, <1>13, <2>2 DEF EndsSet
  <2> QED BY <1>8, <2>3, <2>4
<1>14. CASE call[t].op = "close"
  <2>1. CommitClose(t)
    BY <1>2, <1>14 DEF Commit, Transitions
  <2>2. CASE call[t].on = session_id
    <3>1. /\ session_id' = None /\ view' = Blank /\ strays' = {} /\ Ends(t, Disowned) /\ UNCHANGED transition
      BY <2>1, <2>2 DEF CommitClose
    <3>2. session_id' \in Names
      BY <3>1 DEF Names
    <3>3. StateTypes' /\ Ended(t)
      BY <1>9, <1>10, <3>1, <3>2, BlankIs
    <3>4. EndsClosed(t)
      BY <1>8, <1>14, <2>2, <3>1 DEF EndsClosed
    <3> QED BY <1>8, <3>3, <3>4
  <2>3. CASE call[t].on # session_id
    <3>1. Ends(t, call) /\ UNCHANGED <<session_id, view, transition, strays>>
      BY <2>1, <2>3 DEF CommitClose
    <3>2. StateTypes' /\ Ended(t)
      BY <1>9, <1>10, <3>1
    <3>3. EndsPlain(t)
      BY <1>6, <1>14, <2>3, <3>1 DEF EndsPlain, Transitions
    <3> QED BY <1>8, <3>2, <3>3
  <2> QED BY <2>2, <2>3
<1>15. CASE call[t].op \in {"prompt", "delete", "list"}
  <2>1. Ends(t, call) /\ UNCHANGED <<session_id, view, transition, strays>>
    BY <1>2, <1>15 DEF Commit, Transitions
  <2>2. StateTypes' /\ Ended(t)
    BY <1>9, <1>10, <2>1
  <2>3. EndsPlain(t)
    BY <1>6, <1>15, <2>1 DEF EndsPlain, Transitions
  <2> QED BY <1>8, <2>2, <2>3
<1>16. call[t].op \in Transitions \cup {"set_config", "set_mode", "close", "prompt", "delete", "list"}
  BY <1>2 DEF Commit
<1> QED BY <1>11, <1>12, <1>13, <1>14, <1>15, <1>16

LEMMA UncertainGives ==
  ASSUME StateInv, NEW t \in Tasks, Uncertain(t), call[t].pc \in {"wait", "answered"}
  PROVE  StateTypes' /\ GaveUp(t)
<1>1. StateTypes
  BY DEF StateInv
<1>2. call[t] \in CallRecords
  BY <1>1 DEF StateTypes
<1>3. PICK d : d = [call[t] EXCEPT !.pc = "fails"]
  OBVIOUS
<1>4. d \in CallRecords /\ d.op = call[t].op /\ d.on = call[t].on /\ d.pc = "fails" /\ d.reply = call[t].reply /\ d.prev = call[t].prev
  BY <1>2, <1>3, CallFails
<1>5. call' = [call EXCEPT ![t] = d]
  BY <1>3 DEF Uncertain
<1>6. call' \in [Tasks -> CallRecords] /\ call'[t] = d /\ Others(t)
  BY <1>1, <1>4, <1>5, CallSet
<1>7. /\ link' = IF link = "up" THEN "retired" ELSE link
      /\ UNCHANGED <<requests, wire, session_id, view, transition, chunks, agentVars, started, news, strays>>
  BY DEF Uncertain, Retired
<1>8. StateTypes'
  BY <1>1, <1>6, <1>7 DEF StateTypes, agentVars
<1> QED BY <1>4, <1>6, <1>7, <1>8 DEF GaveUp, agentVars

LEMMA LostLoses ==
  ASSUME StateInv, Lost \/ Disconnects
  PROVE  StateTypes' /\ LostAll
<1>1. StateTypes
  BY DEF StateInv
<1>2. PICK c : c = call'
  OBVIOUS
<1>3. /\ link' = "down" /\ requests' = <<>> /\ wire' = <<>>
      /\ c = [t \in Tasks |-> IF call[t].pc = "wait" THEN [call[t] EXCEPT !.pc = "fails"] ELSE call[t]]
      /\ UNCHANGED <<session_id, view, chunks, current, opened, deleted, version, strays>>
      /\ transition' = transition \/ transition' = [active |-> FALSE, id |-> None]
  BY <1>2 DEF Lost, Disconnects, Unplugged
<1>4. \A u \in Tasks :
        /\ c[u] \in CallRecords
        /\ c[u].op = call[u].op /\ c[u].on = call[u].on
        /\ c[u].reply = call[u].reply /\ c[u].prev = call[u].prev
        /\ c[u].pc = IF call[u].pc = "wait" THEN "fails" ELSE call[u].pc
  <2> SUFFICES ASSUME NEW u \in Tasks
               PROVE  /\ c[u] \in CallRecords
                      /\ c[u].op = call[u].op /\ c[u].on = call[u].on
                      /\ c[u].reply = call[u].reply /\ c[u].prev = call[u].prev
                      /\ c[u].pc = IF call[u].pc = "wait" THEN "fails" ELSE call[u].pc
    OBVIOUS
  <2>1. call[u] \in CallRecords
    BY <1>1 DEF StateTypes
  <2>2. c[u] = IF call[u].pc = "wait" THEN [call[u] EXCEPT !.pc = "fails"] ELSE call[u]
    BY <1>3
  <2> QED BY <2>1, <2>2, CallFails
<1>5. c \in [Tasks -> CallRecords]
  BY <1>3, <1>4
<1>6. job' \in [to : Tasks \cup {None}, on : Names, sent : Nat] /\ job'.to = None
  BY <1>1 DEF Lost, Disconnects, Unplugged, StateTypes
<1>7. transition' \in [active : BOOLEAN, id : Names]
  <2>1. [active |-> FALSE, id |-> None] \in [active : BOOLEAN, id : Names]
    BY DEF Names
  <2> QED BY <1>1, <1>3, <2>1 DEF StateTypes
<1>8. StateTypes'
  BY <1>1, <1>2, <1>3, <1>5, <1>6, <1>7 DEF StateTypes
<1> QED BY <1>2, <1>3, <1>4, <1>6, <1>8 DEF LostAll

LEMMA SendsOne ==
  ASSUME StateTypes, NEW f \in Frames, wire' = Append(wire, f)
  PROVE  wire' \in Seq(Frames) /\ Sends(f, 1)
<1>1. wire \in Seq(Frames)
  BY DEF StateTypes
<1>2. PICK w : w = wire'
  OBVIOUS
<1>3. w \in Seq(Frames) /\ Len(w) = Len(wire) + 1 /\ w[Len(wire) + 1] = f /\ \A k \in 1 .. Len(wire) : w[k] = wire[k]
  BY <1>1, <1>2, Appended
<1> QED BY <1>2, <1>3 DEF Sends

LEMMA SendsTwo ==
  ASSUME StateTypes, NEW h \in Frames, NEW f \in Frames, wire' = wire \o <<h>> \o <<f>>
  PROVE  wire' \in Seq(Frames) /\ Sends(f, 2) /\ wire'[Len(wire) + 1] = h
<1>1. wire \in Seq(Frames) /\ Len(wire) \in Nat
  BY DEF StateTypes
<1>2. PICK w : w = wire \o <<h>>
  OBVIOUS
<1>3. w = Append(wire, h)
  BY <1>1, <1>2
<1>4. w \in Seq(Frames) /\ Len(w) = Len(wire) + 1 /\ w[Len(wire) + 1] = h /\ \A k \in 1 .. Len(wire) : w[k] = wire[k]
  BY <1>1, <1>3, Appended
<1>5. PICK x : x = w \o <<f>>
  OBVIOUS
<1>6. x = Append(w, f)
  BY <1>4, <1>5
<1>7. x \in Seq(Frames) /\ Len(x) = Len(w) + 1 /\ x[Len(w) + 1] = f /\ \A k \in 1 .. Len(w) : x[k] = w[k]
  BY <1>4, <1>6, Appended
<1>8. wire' = x
  BY <1>2, <1>5
<1> QED BY <1>1, <1>4, <1>7, <1>8 DEF Sends

LEMMA ChangedIs ==
  ASSUME StateTypes, NEW s \in Sessions, NEW p \in Parts
  PROVE  Changed(s, p) \in [Sessions -> [Parts -> Nat]] /\ Changed(s, p)[s][p] \in Nat
BY DEF StateTypes, Changed

LEMMA HeadIs ==
  ASSUME StateInv, requests # <<>>
  PROVE  /\ Head(requests) = requests[1] /\ requests[1] \in Orders /\ Tail(requests) \in Seq(Orders)
         /\ requests[1].op \in OfSession => requests[1].on # None
         /\ Len(requests) \in Nat /\ Len(requests) >= 1
<1>1. requests \in Seq(Orders)
  BY DEF StateInv, StateTypes
<1>2. Len(requests) \in Nat /\ Len(requests) >= 1
  BY <1>1
<1>3. requests[1].op \in OfSession => requests[1].on # None
  BY <1>2 DEF StateInv, Matched
<1> QED BY <1>1, <1>2, <1>3

\* The agent answers the first request.
LEMMA HandlesAnswers ==
  ASSUME StateInv, link # "down", requests # <<>>, requests' = Tail(requests),
         NEW f \in Answers, f.to = requests[1].by, Suits(f, requests[1]),
         requests[1].op = "prompt" => f.how # "ok", wire' = Append(wire, f),
         current' = IF f.how = "ok" /\ requests[1].op \in Transitions THEN f.of
                    ELSE IF f.how = "ok" /\ requests[1].op \in {"close", "delete"} /\ current = requests[1].on THEN None
                    ELSE current,
         opened' \subseteq Sessions, deleted' \subseteq Sessions,
         version' \in [Sessions -> [Parts -> Nat]],
         UNCHANGED <<job, link, clientVars, started, news, strays>>
  PROVE  StateTypes' /\ Handled(f, 1)
<1>1. StateTypes /\ Tail(requests) \in Seq(Orders)
  BY HeadIs DEF StateInv
<1>2. f \in Frames /\ f.of \in Names
  BY AnswerIs
<1>3. wire' \in Seq(Frames) /\ Sends(f, 1)
  BY <1>1, <1>2, SendsOne
<1>4. current' \in Names
  BY <1>1, <1>2 DEF StateTypes, Names
<1>5. StateTypes'
  BY <1>1, <1>3, <1>4 DEF StateTypes, clientVars
<1>6. Unread
  BY DEF Unread, clientVars
<1> QED BY <1>3, <1>5, <1>6 DEF Handled

LEMMA RefusalHandles ==
  ASSUME StateInv, link # "down", requests # <<>>, requests' = Tail(requests),
         NEW how \in {"refused", "malformed"}, AgentFails(Head(requests), how),
         UNCHANGED <<link, clientVars, started, news, strays>>
  PROVE  StateTypes' /\ \E f \in Answers : Handled(f, 1)
<1>1. Head(requests) = requests[1] /\ requests[1] \in Orders
  BY HeadIs
<1>2. PICK f : f = Reply(requests[1], how)
  OBVIOUS
<1>3. f \in Answers /\ f.to = requests[1].by /\ f.how = how
  BY <1>1, <1>2, ReplyIs, OrderIs
<1>4. wire' = Append(wire, f) /\ UNCHANGED <<current, opened, deleted, version, job>>
  BY <1>1, <1>2 DEF AgentFails, agentVars
<1>5. Suits(f, requests[1])
  BY <1>3 DEF Suits
<1>6. opened \subseteq Sessions /\ deleted \subseteq Sessions /\ version \in [Sessions -> [Parts -> Nat]]
  BY DEF StateInv, StateTypes
<1>7. current' = current /\ f.how # "ok"
  BY <1>3, <1>4
<1> QED BY <1>3, <1>4, <1>5, <1>6, <1>7, HandlesAnswers

LEMMA SettingHandles ==
  ASSUME StateInv, link # "down", requests # <<>>, requests' = Tail(requests),
         NEW p \in {"options", "mode"}, AgentSets(Head(requests), p),
         requests[1].op = IF p = "options" THEN "set_config" ELSE "set_mode",
         UNCHANGED <<link, clientVars, started, news, strays>>
  PROVE  StateTypes' /\ \E f \in Answers : Handled(f, 1)
<1> DEFINE r == requests[1]
<1>0. StateTypes
  BY DEF StateInv
<1>1. /\ Head(requests) = r /\ r \in Orders /\ r.on # None /\ r.op \in {"set_config", "set_mode"}
  BY HeadIs DEF OfSession
<1>2. r.on \in Sessions /\ p \in Parts /\ r.by \in Tasks /\ r.on \in Names
  BY <1>1, OrderIs DEF Names, Parts
<1>3. version' = Changed(r.on, p)
  BY <1>1 DEF AgentSets
<1>4. version' \in [Sessions -> [Parts -> Nat]] /\ version'[r.on][p] \in Nat
  BY <1>0, <1>2, <1>3, ChangedIs
<1>5. PICK m : m = [of |-> r.on, n |-> version'[r.on][p]]
  OBVIOUS
<1>6. m \in Metas /\ m.of = r.on /\ m # None
  BY <1>2, <1>4, <1>5, NamesAssumption DEF Metas
<1>7. PICK n : n = [Blank EXCEPT ![p] = m]
  OBVIOUS
<1>8. n \in Views /\ n[p] = m /\ \A q \in Parts : q # p => n[q] = None
  BY <1>2, <1>6, <1>7, BlankIs DEF Views
<1>9. PICK f : f = [Reply(r, "ok") EXCEPT !.new = n]
  OBVIOUS
<1>10. Reply(r, "ok") \in Answers /\ Reply(r, "ok").to = r.by /\ Reply(r, "ok").how = "ok"
  BY <1>2, ReplyIs
<1>11. f \in Answers /\ f.to = r.by /\ f.how = "ok" /\ f.new = n
  BY <1>8, <1>9, <1>10, AnswerNew
<1>12. wire' = Append(wire, f) /\ UNCHANGED <<current, opened, deleted, job>>
  BY <1>1, <1>5, <1>7, <1>9 DEF AgentSets
<1>13. \A q \in Parts : f.new[q] # None => f.new[q].of = r.on
  BY <1>6, <1>8, <1>11
<1>14. r.op = "set_config" => f.new["options"] # None
  BY <1>6, <1>8, <1>11
<1>15. Suits(f, r)
  BY <1>1, <1>13, <1>14 DEF Suits, Transitions
<1>16. opened \subseteq Sessions /\ deleted \subseteq Sessions
  BY <1>0 DEF StateTypes
<1>17. r.op \notin Transitions /\ r.op \notin {"close", "delete"} /\ r.op # "prompt" /\ current' = current
  BY <1>1, <1>12 DEF Transitions
<1> QED BY <1>4, <1>11, <1>12, <1>15, <1>16, <1>17, HandlesAnswers

LEMMA ClosingHandles ==
  ASSUME StateInv, link # "down", requests # <<>>, requests' = Tail(requests),
         AgentCloses(Head(requests)), requests[1].op \in {"close", "delete"},
         UNCHANGED <<link, clientVars, started, news, strays>>
  PROVE  StateTypes' /\ \E f \in Answers : Handled(f, 1)
<1> DEFINE r == requests[1]
<1>0. StateTypes
  BY DEF StateInv
<1>1. /\ Head(requests) = r /\ r \in Orders /\ r.on # None
  BY HeadIs DEF OfSession
<1>2. r.on \in Sessions /\ r.by \in Tasks /\ r.on \in Names
  BY <1>1, OrderIs DEF Names
<1>3. PICK f : f = Reply(r, "ok")
  OBVIOUS
<1>4. f \in Answers /\ f.to = r.by /\ f.how = "ok"
  BY <1>2, <1>3, ReplyIs
<1>5. /\ current' = IF current = r.on THEN None ELSE current
      /\ deleted' = IF r.op = "delete" THEN deleted \cup {r.on} ELSE deleted
      /\ wire' = Append(wire, f) /\ UNCHANGED <<opened, version, job>>
  BY <1>1, <1>3 DEF AgentCloses
<1>6. deleted' \subseteq Sessions /\ opened' \subseteq Sessions /\ version' \in [Sessions -> [Parts -> Nat]]
  BY <1>0, <1>2, <1>5 DEF StateTypes
<1>7. Suits(f, r) /\ r.op \notin Transitions /\ r.op # "prompt"
  BY DEF Suits, Transitions
<1> QED BY <1>4, <1>5, <1>6, <1>7, HandlesAnswers

LEMMA ListingHandles ==
  ASSUME StateInv, link # "down", requests # <<>>, requests' = Tail(requests),
         AgentLists(Head(requests)), requests[1].op = "list",
         UNCHANGED <<link, clientVars, started, news, strays>>
  PROVE  StateTypes' /\ \E f \in Answers : Handled(f, 1)
<1>1. Head(requests) = requests[1] /\ requests[1] \in Orders
  BY HeadIs
<1>2. PICK f : f = Reply(requests[1], "ok")
  OBVIOUS
<1>3. f \in Answers /\ f.to = requests[1].by /\ f.how = "ok"
  BY <1>1, <1>2, ReplyIs, OrderIs
<1>4. wire' = Append(wire, f) /\ UNCHANGED <<current, opened, deleted, version, job>>
  BY <1>1, <1>2 DEF AgentLists, agentVars
<1>5. Suits(f, requests[1]) /\ requests[1].op \notin Transitions /\ requests[1].op # "prompt"
  BY DEF Suits, Transitions
<1>6. opened \subseteq Sessions /\ deleted \subseteq Sessions /\ version \in [Sessions -> [Parts -> Nat]]
  BY DEF StateInv, StateTypes
<1> QED BY <1>3, <1>4, <1>5, <1>6, HandlesAnswers

LEMMA OpeningHandles ==
  ASSUME StateInv, link # "down", requests # <<>>, requests' = Tail(requests),
         AgentOpens(Head(requests)), requests[1].op \in Transitions,
         UNCHANGED <<link, clientVars, started, news, strays>>
  PROVE  StateTypes' /\ \E f \in Answers, n \in {1, 2} : Handled(f, n)
<1> DEFINE r == requests[1]
<1>0. StateTypes
  BY DEF StateInv
<1>1. /\ Head(requests) = r /\ r \in Orders /\ (r.op = "resume" => r.on # None) /\ Tail(requests) \in Seq(Orders)
  BY HeadIs DEF OfSession
<1>2. r.by \in Tasks /\ r.on \in Names
  BY <1>1, OrderIs
<1>s. PICK s \in IF r.op = "new" THEN Sessions \ (opened \cup deleted) ELSE {r.on} \ deleted :
        \E new \in Carried(s), history \in {<<>>, <<Replay(s)>>} :
          /\ wire' = wire \o history \o <<[Reply(r, "ok") EXCEPT !.of = s, !.new = new]>>
          /\ current' = s /\ opened' = opened \cup {s}
          /\ UNCHANGED <<deleted, version, job>>
  BY <1>1 DEF AgentOpens
<1>3. PICK new \in Carried(s), history \in {<<>>, <<Replay(s)>>} :
        /\ wire' = wire \o history \o <<[[Reply(r, "ok") EXCEPT !.of = s] EXCEPT !.new = new]>>
        /\ current' = s /\ opened' = opened \cup {s}
        /\ UNCHANGED <<deleted, version, job>>
  BY <1>s
<1>4. s \in Sessions /\ s \in Names /\ (r.op = "resume" => s = r.on)
  BY <1>1, <1>2 DEF Names, Transitions
<1>5. new \in Views /\ \A p \in Parts : new[p] # None => new[p].of = s
  BY <1>0, <1>4, CarriedIs
<1>6. PICK g : g = [Reply(r, "ok") EXCEPT !.of = s]
  OBVIOUS
<1>7. PICK f : f = [g EXCEPT !.new = new]
  OBVIOUS
<1>8. Reply(r, "ok") \in Answers /\ Reply(r, "ok").to = r.by /\ Reply(r, "ok").how = "ok"
  BY <1>2, ReplyIs
<1>9. g \in Answers /\ g.to = r.by /\ g.how = "ok" /\ g.of = s
  BY <1>4, <1>6, <1>8, AnswerOf
<1>10. f \in Answers /\ f.to = r.by /\ f.how = "ok" /\ f.of = s /\ f.new = new
  BY <1>5, <1>7, <1>9, AnswerNew
<1>11. wire' = wire \o history \o <<f>>
  BY <1>3, <1>6, <1>7
<1>12. f \in Frames
  BY <1>10, AnswerIs
<1>13. Suits(f, r)
  BY <1>4, <1>5, <1>10 DEF Suits, Transitions
<1>14. Unread
  BY DEF Unread, clientVars
<1>15. current' \in Names /\ opened' \subseteq Sessions /\ deleted' \subseteq Sessions /\ version' \in [Sessions -> [Parts -> Nat]]
  BY <1>0, <1>3, <1>4 DEF StateTypes
<1>16. ASSUME wire' \in Seq(Frames) PROVE StateTypes'
  BY <1>0, <1>1, <1>3, <1>15, <1>16 DEF StateTypes, clientVars
<1>17. CASE history = <<>>
  <2>1. wire \in Seq(Frames)
    BY <1>0 DEF StateTypes
  <2>2. wire' = Append(wire, f)
    BY <1>11, <1>17, <2>1
  <2>3. wire' \in Seq(Frames) /\ Sends(f, 1)
    BY <1>0, <1>12, <2>2, SendsOne
  <2>4. Handled(f, 1)
    BY <1>3, <1>10, <1>13, <1>14, <2>3 DEF Handled, Transitions
  <2> QED BY <1>10, <1>16, <2>3, <2>4
<1>18. CASE history = <<Replay(s)>>
  <2>1. PICK h : h = Replay(s)
    OBVIOUS
  <2>2. h \in Frames /\ h.kind = "text"
    BY <1>4, <2>1 DEF Replay, Frames, Pieces
  <2>3. wire' = wire \o <<h>> \o <<f>>
    BY <1>11, <1>18, <2>1
  <2>4. wire' \in Seq(Frames) /\ Sends(f, 2) /\ wire'[Len(wire) + 1] = h
    BY <1>0, <1>12, <2>2, <2>3, SendsTwo
  <2>5. Handled(f, 2)
    BY <1>3, <1>10, <1>13, <1>14, <2>2, <2>4 DEF Handled, Transitions
  <2> QED BY <1>10, <1>16, <2>4, <2>5
<1> QED BY <1>17, <1>18

LEMMA PromptHandles ==
  ASSUME StateInv, link # "down", requests # <<>>, requests' = Tail(requests),
         AgentPrompted(Head(requests)), requests[1].op = "prompt",
         UNCHANGED <<link, clientVars, started, news, strays>>
  PROVE  StateTypes' /\ Prompted
<1> DEFINE r == requests[1]
<1>0. StateTypes
  BY DEF StateInv
<1>1. Head(requests) = r /\ r \in Orders /\ Tail(requests) \in Seq(Orders)
  BY HeadIs
<1>2. r.by \in Tasks /\ r.on \in Names
  BY <1>1, OrderIs
<1>3. job' = [to |-> r.by, on |-> r.on, sent |-> 0] /\ UNCHANGED <<wire, current, opened, deleted, version>>
  BY <1>1 DEF AgentPrompted
<1>4. job' \in [to : Tasks \cup {None}, on : Names, sent : Nat] /\ job'.to = r.by /\ job'.on = r.on /\ job'.sent = 0
  BY <1>2, <1>3
<1>5. StateTypes'
  BY <1>0, <1>1, <1>3, <1>4 DEF StateTypes, clientVars
<1>6. Unread
  BY DEF Unread, clientVars
<1> QED BY <1>3, <1>4, <1>5, <1>6 DEF Prompted

LEMMA AgentHandlesIs ==
  ASSUME StateInv, AgentHandles
  PROVE  StateTypes' /\ (Prompted \/ \E f \in Answers, n \in {1, 2} : Handled(f, n))
<1> DEFINE r == Head(requests)
<1>1. /\ link # "down" /\ requests # <<>> /\ requests' = Tail(requests)
      /\ UNCHANGED <<link, clientVars, started, news, strays>>
      /\ \/ \E how \in {"refused", "malformed"} : AgentFails(r, how)
         \/ r.op \in Transitions /\ AgentOpens(r)
         \/ r.op = "set_config" /\ AgentSets(r, "options")
         \/ r.op = "set_mode" /\ AgentSets(r, "mode")
         \/ r.op \in {"close", "delete"} /\ AgentCloses(r)
         \/ r.op = "list" /\ AgentLists(r)
         \/ r.op = "prompt" /\ AgentPrompted(r)
  BY DEF AgentHandles
<1>2. r = requests[1]
  BY <1>1, HeadIs
<1> QED BY <1>1, <1>2, RefusalHandles, OpeningHandles, SettingHandles, ClosingHandles, ListingHandles, PromptHandles

LEMMA AgentTextIs ==
  ASSUME StateInv, AgentText
  PROVE  StateTypes' /\ \E f \in Frames : WritesText(f)
<1>0. StateTypes
  BY DEF StateInv
<1>1. PICK f : f = [kind |-> "text", of |-> job.on, live |-> TRUE]
  OBVIOUS
<1>2. job.to # None => job.on # None
  BY DEF StateInv, Matched
<1>3. job \in [to : Tasks \cup {None}, on : Names, sent : Nat]
  BY <1>0 DEF StateTypes
<1>4. /\ link # "down" /\ job.to # None /\ job' = [job EXCEPT !.sent = job.sent + 1]
      /\ wire' = Append(wire, f)
      /\ UNCHANGED <<link, requests, clientVars, current, opened, deleted, version, started, strays>>
  BY <1>1 DEF AgentText
<1>5. f \in Frames /\ f.kind = "text" /\ f.of = job.on /\ f.live = TRUE
  BY <1>1, <1>2, <1>3, <1>4 DEF Frames, Pieces, Names
<1>6. wire' \in Seq(Frames) /\ Sends(f, 1)
  BY <1>0, <1>4, <1>5, SendsOne
<1>7. job' \in [to : Tasks \cup {None}, on : Names, sent : Nat] /\ job'.to = job.to /\ job'.on = job.on /\ job'.sent = job.sent + 1
  BY <1>3, <1>4
<1>8. StateTypes'
  BY <1>0, <1>4, <1>6, <1>7 DEF StateTypes, clientVars
<1>9. Unread
  BY <1>4 DEF Unread, clientVars
<1> QED BY <1>4, <1>5, <1>6, <1>7, <1>8, <1>9 DEF WritesText

LEMMA AgentAnswersIs ==
  ASSUME StateInv, NEW how \in {"ok", "refused", "malformed"}, AgentAnswers(how)
  PROVE  StateTypes' /\ \E f \in Answers : Concludes(f)
<1>0. StateTypes
  BY DEF StateInv
<1>1. PICK r : r = [by |-> job.to, on |-> job.on]
  OBVIOUS
<1>2. PICK f : f = Reply(r, how)
  OBVIOUS
<1>3. job \in [to : Tasks \cup {None}, on : Names, sent : Nat]
  BY <1>0 DEF StateTypes
<1>4. /\ link # "down" /\ job.to # None /\ job' = [job EXCEPT !.to = None]
      /\ wire' = Append(wire, f)
      /\ UNCHANGED <<link, requests, clientVars, current, opened, deleted, version, started, strays>>
  BY <1>1, <1>2 DEF AgentAnswers
<1>5. r.by \in Tasks /\ r.on \in Names /\ r.by = job.to
  BY <1>1, <1>3, <1>4
<1>6. f \in Answers /\ f.to = job.to
  BY <1>2, <1>5, ReplyIs
<1>7. wire' \in Seq(Frames) /\ Sends(f, 1)
  BY <1>0, <1>4, <1>6, SendsOne, AnswerIs
<1>8. job' \in [to : Tasks \cup {None}, on : Names, sent : Nat] /\ job'.to = None /\ job'.on = job.on /\ job'.sent = job.sent
  BY <1>3, <1>4
<1>9. StateTypes'
  BY <1>0, <1>4, <1>7, <1>8 DEF StateTypes, clientVars
<1>10. Unread
  BY <1>4 DEF Unread, clientVars
<1> QED BY <1>4, <1>6, <1>7, <1>8, <1>9, <1>10 DEF Concludes

LEMMA AgentUpdatesIs ==
  ASSUME StateInv, NEW p \in Parts, AgentUpdates(p)
  PROVE  StateTypes' /\ \E f \in Frames : Announces(f)
<1>0. StateTypes
  BY DEF StateInv
<1>1. current \in Sessions
  BY <1>0 DEF AgentUpdates, StateTypes, Names
<1>2. version' \in [Sessions -> [Parts -> Nat]] /\ version'[current][p] \in Nat
  BY <1>0, <1>1, ChangedIs DEF AgentUpdates
<1>3. PICK f : f = [kind |-> p, of |-> current, n |-> version'[current][p]]
  OBVIOUS
<1>4. f \in Frames /\ f.kind = p
  BY <1>1, <1>2, <1>3 DEF Frames, Updates
<1>5. /\ link # "down" /\ wire' = Append(wire, f)
      /\ UNCHANGED <<link, requests, clientVars, current, opened, deleted, job, started, strays>>
  BY <1>3 DEF AgentUpdates
<1>6. wire' \in Seq(Frames) /\ Sends(f, 1)
  BY <1>0, <1>4, <1>5, SendsOne
<1>7. StateTypes'
  BY <1>0, <1>2, <1>5, <1>6 DEF StateTypes, clientVars
<1>8. Unread
  BY <1>5 DEF Unread, clientVars
<1> QED BY <1>4, <1>5, <1>6, <1>7, <1>8 DEF Announces

\* Two fields of a call change at once.
AnsweredCalls(c, t, f) == [c EXCEPT ![t].pc = "answered", ![t].reply = f]
LEMMA CallAnswers ==
  ASSUME NEW c \in [Tasks -> CallRecords], NEW t \in Tasks, NEW f, NEW d,
         d = AnsweredCall(c[t], f)
  PROVE  AnsweredCalls(c, t, f) = [c EXCEPT ![t] = d]
<1>1. PICK e : e = [c[t] EXCEPT !.pc = "answered"]
  OBVIOUS
<1>2. PICK b : b = [c EXCEPT ![t] = e]
  OBVIOUS
<1>3. b[t] = e /\ d = [e EXCEPT !.reply = f]
  BY <1>1, <1>2 DEF AnsweredCall
<1>4. AnsweredCalls(c, t, f) = [b EXCEPT ![t] = [b[t] EXCEPT !.reply = f]]
  BY <1>1, <1>2 DEF AnsweredCalls
<1>5. [b EXCEPT ![t] = d] = [c EXCEPT ![t] = d]
  BY <1>2
<1> QED BY <1>3, <1>4, <1>5

\* The reader dispatches one frame, or ends.
LEMMA DispatchIs ==
  ASSUME StateInv, Dispatch
  PROVE  StateTypes' /\ (LostAll \/ TakesSaid \/ TakesUpdate \/ TakesAnswer \/ TakesNothing)
<1>1. StateTypes /\ wire # <<>> /\ link # "down"
  BY DEF StateInv, Dispatch
<1>2. /\ wire \in Seq(Frames) /\ Len(wire) \in Nat /\ Len(wire) >= 1
      /\ Head(wire) = wire[1] /\ wire[1] \in Frames /\ Tail(wire) \in Seq(Frames)
  <2>1. wire \in Seq(Frames)
    BY <1>1 DEF StateTypes
  <2>2. Len(wire) \in Nat /\ Len(wire) >= 1
    BY <1>1, <2>1
  <2> QED BY <2>1, <2>2
<1>3. PICK f \in Frames : f = wire[1]
  BY <1>2
<1>4. CASE Lost
  BY <1>4, LostLoses
<1>5. CASE ~Lost
  <2>1. /\ wire' = Tail(wire) /\ UNCHANGED <<link, requests, session_id, transition, agentVars, started, news>>
        /\ \/ f.kind = "text" /\ link = "up" /\ Ours(f.of) /\ AcceptText(f)
           \/ f.kind \in Parts /\ link = "up" /\ Ours(f.of) /\ AcceptUpdate(f)
           \/ f.kind = "response" /\ AcceptResponse(f)
           \/ f.kind # "response" /\ link = "retired" /\ UNCHANGED <<view, chunks, call, strays>>
    BY <1>2, <1>3, <1>5 DEF Dispatch
  <2>2. Takes
    BY <1>1, <2>1 DEF Takes, agentVars
  <2>3. ASSUME chunks' \in Seq(Pieces), view' \in Views, strays' \subseteq Parts, call' \in [Tasks -> CallRecords]
        PROVE  StateTypes'
    BY <1>1, <1>2, <2>1, <2>3 DEF StateTypes, agentVars
  <2>4. chunks \in Seq(Pieces) /\ view \in Views /\ strays \subseteq Parts /\ call \in [Tasks -> CallRecords]
    BY <1>1 DEF StateTypes
  <2>5. CASE f.kind = "text" /\ link = "up" /\ Ours(f.of) /\ AcceptText(f)
    <3>1. /\ UNCHANGED <<view, call, strays>>
          /\ chunks' = IF transition.id = None THEN Append(chunks, f) ELSE chunks
      BY <2>5 DEF AcceptText
    <3>2. f \in Pieces
      BY <2>5, FrameIs
    <3>3. chunks' \in Seq(Pieces)
      BY <2>4, <3>1, <3>2
    <3>4. StateTypes'
      BY <2>3, <2>4, <3>1, <3>3
    <3>5. TakesSaid
      BY <1>3, <2>2, <2>5, <3>1 DEF TakesSaid
    <3> QED BY <3>4, <3>5
  <2>6. CASE f.kind \in Parts /\ link = "up" /\ Ours(f.of) /\ AcceptUpdate(f)
    <3>1. f.of \in Sessions /\ f.n \in Nat
      BY <2>6, FrameIs
    <3>2. PICK m : m = [of |-> f.of, n |-> f.n]
      OBVIOUS
    <3>3. m \in Metas
      BY <3>1, <3>2 DEF Metas
    <3>4. /\ UNCHANGED <<chunks, call>>
          /\ \/ UNCHANGED <<view, strays>>
             \/ /\ view' = [view EXCEPT ![f.kind] = m]
                /\ strays' = IF transition.active /\ f.of # transition.id
                             THEN strays \cup {f.kind} ELSE strays \ {f.kind}
      BY <2>6, <3>2 DEF AcceptUpdate
    <3>5. view' \in Views /\ strays' \subseteq Parts
      <4>1. CASE UNCHANGED <<view, strays>>
        BY <2>4, <4>1
      <4>2. CASE /\ view' = [view EXCEPT ![f.kind] = m]
                 /\ strays' = IF transition.active /\ f.of # transition.id
                              THEN strays \cup {f.kind} ELSE strays \ {f.kind}
        <5>1. view' \in Views
          BY <2>4, <3>3, <4>2 DEF Views
        <5>2. strays' \subseteq Parts
          BY <2>4, <2>6, <4>2
        <5> QED BY <5>1, <5>2
      <4> QED BY <3>4, <4>1, <4>2
    <3>6. StateTypes'
      BY <2>3, <2>4, <3>4, <3>5
    <3>7. TakesUpdate
      BY <1>3, <2>2, <2>6, <3>2, <3>4 DEF TakesUpdate, Ours
    <3> QED BY <3>6, <3>7
  <2>7. CASE f.kind = "response" /\ AcceptResponse(f)
    <3>1. /\ call[f.to].pc # "wait" => call' = call
          /\ call[f.to].pc = "wait" =>
                call' = AnsweredCalls(call, f.to, f)
          /\ UNCHANGED <<view, chunks, strays>>
      BY <2>7 DEF AcceptResponse, AnsweredCalls
    <3>2. f \in Answers /\ f.to \in Tasks
      BY <2>7, FrameIs, AnswerIs
    <3>3. CASE call[f.to].pc = "wait"
      <4>1. PICK d : d = AnsweredCall(call[f.to], f)
        OBVIOUS
      <4>2. call[f.to] \in CallRecords
        BY <2>4, <3>2
      <4>3. /\ d \in CallRecords /\ d.op = call[f.to].op /\ d.on = call[f.to].on /\ d.pc = "answered"
            /\ d.reply = f /\ d.prev = call[f.to].prev
        BY <3>2, <4>1, <4>2, CallAnswered
      <4>4. call' = [call EXCEPT ![f.to] = d]
        <5>1. AnsweredCalls(call, f.to, f) = [call EXCEPT ![f.to] = d]
          BY <2>4, <3>2, <4>1, CallAnswers
        <5> QED BY <3>1, <3>3, <5>1
      <4>5. call' \in [Tasks -> CallRecords] /\ call'[f.to] = d /\ Others(f.to)
        BY <1>1, <3>2, <4>3, <4>4, CallSet
      <4>6. StateTypes'
        BY <2>3, <2>4, <3>1, <4>5
      <4>7. TakesAnswer
        BY <1>3, <2>2, <2>7, <3>1, <3>3, <4>3, <4>5 DEF TakesAnswer
      <4> QED BY <4>6, <4>7
    <3>4. CASE call[f.to].pc # "wait"
      <4>1. link # "up"
        BY <1>2, <1>3, <2>7, <3>4 DEF StateInv, Tokens
      <4>2. StateTypes'
        BY <2>3, <2>4, <3>1, <3>4
      <4>3. TakesNothing
        BY <2>2, <3>1, <3>4, <4>1 DEF TakesNothing
      <4> QED BY <4>2, <4>3
    <3> QED BY <3>3, <3>4
  <2>8. CASE f.kind # "response" /\ link = "retired" /\ UNCHANGED <<view, chunks, call, strays>>
    BY <2>2, <2>3, <2>4, <2>8 DEF TakesNothing
  <2> QED BY <2>1, <2>5, <2>6, <2>7, <2>8
<1> QED BY <1>4, <1>5

-----------------------------------------------------------------------------
(* The session: calls and their stages *)

\* Steps that only let calls proceed, or disconnect.
Steady ==
    /\ session_id' = session_id /\ (link' = "up" => link = "up")
    /\ \/ transition' = transition
       \/ link' # "up" /\ transition' = [active |-> FALSE, id |-> None]
    /\ \A u \in Tasks :
        /\ call'[u].op = call[u].op /\ call'[u].on = call[u].on /\ call'[u].prev = call[u].prev
        /\ \/ call'[u].pc = call[u].pc /\ call'[u].reply = call[u].reply
           \/ call[u].pc \in {"wait", "answered"} /\ call'[u].pc = "fails"
           \/ call[u].pc = "wait" /\ call'[u].pc = "answered" /\ call'[u].reply \in Answers
        /\ call'[u].pc = "fails" => link' # "up"

LEMMA SteadyKeeps ==
  ASSUME StateInv, Steady
  PROVE  Staged' /\ Apart' /\ Changing'
<1>0. Staged /\ Apart /\ Changing
  BY DEF StateInv
<1>1. \A u \in Tasks : Serving(u)' <=> Serving(u)
  BY DEF Steady, Serving
<1>2. Staged'
  BY <1>0, <1>1 DEF Staged, Steady
<1>3. Apart'
  BY <1>0, <1>1 DEF Apart, Steady
<1>4. Changing'
  <2>1. CASE transition' = transition
    BY <1>0, <2>1 DEF Changing, Steady
  <2>2. CASE link' # "up" /\ transition' = [active |-> FALSE, id |-> None]
    <3>1. transition'.active = FALSE /\ transition'.id = None
      BY <2>2
    <3>2. \A u \in Tasks : call'[u].prev # None => call'[u].prev.id = session_id'
      BY <1>0 DEF Changing, Steady
    <3> QED BY <2>2, <3>1, <3>2 DEF Changing
  <2> QED BY <2>1, <2>2 DEF Steady
<1> QED BY <1>2, <1>3, <1>4

LEMMA GaveUpSteady ==
  ASSUME StateInv, NEW t \in Tasks, GaveUp(t)
  PROVE  Steady
BY DEF StateInv, Staged, GaveUp, Others, Kept, Steady

LEMMA LostSteady ==
  ASSUME StateInv, LostAll
  PROVE  Steady
BY DEF LostAll, Steady

LEMMA UnreadSteady ==
  ASSUME StateInv, Unread
  PROVE  Steady
BY DEF StateInv, Staged, Unread, Steady

LEMMA TakenSteady ==
  ASSUME StateInv, TakesSaid \/ TakesUpdate \/ TakesAnswer \/ TakesNothing
  PROVE  Steady
<1>1. CASE call' = call
  <2>1. UNCHANGED <<session_id, transition, link>>
    BY DEF TakesSaid, TakesUpdate, TakesAnswer, TakesNothing, Takes
  <2> QED BY <1>1, <2>1 DEF StateInv, Staged, Steady
<1>2. CASE TakesAnswer
  <2>1. wire[1] \in Answers /\ wire[1].to \in Tasks
    <3>1. wire \in Seq(Frames) /\ wire # <<>> /\ wire[1].kind = "response"
      BY <1>2 DEF StateInv, StateTypes, TakesAnswer, Takes
    <3>2. wire[1] \in Frames
      BY <3>1
    <3> QED BY <3>1, <3>2, FrameIs, AnswerIs
  <2> QED BY <1>2, <2>1 DEF StateInv, Staged, TakesAnswer, Takes, Others, Kept, Steady
<1> QED BY <1>1, <1>2 DEF TakesSaid, TakesUpdate, TakesNothing

\* What does not proceed has nothing of a session to give back.
LEMMA NoPrev ==
  ASSUME StateInv, NEW t \in Tasks
  PROVE  /\ call[t].prev # None => call[t].op \in Transitions /\ \A u \in Tasks : u # t => call[u].op = "idle"
         /\ call[t].pc \in {"idle", "lock"} \/ call[t].op \notin Transitions => call[t].prev = None
         /\ call[t].op \in Transitions /\ Serving(t) => call[t].prev # None
BY DEF StateInv, Staged, Apart, Changing, Serving

LEMMA WroteCalls ==
  ASSUME StateInv, NEW t \in Tasks, NEW op, NEW s, Wrote(t, op, s)
  PROVE  Staged' /\ Apart' /\ Changing'
<1>0. Staged /\ Apart /\ Changing /\ StateTypes
  BY DEF StateInv
<1>1. /\ call'[t].op = op /\ call'[t].on = s /\ call'[t].pc = "wait" /\ Others(t)
      /\ op \in AllCalls /\ op # "idle" /\ link' = link /\ session_id' = session_id
  BY DEF Wrote, AllCalls, Locked
<1>2. /\ \/ op \in Transitions /\ call'[t].prev = Snapshot /\ Snapshot # None /\ Snapshot.id = session_id
            /\ transition'.active = TRUE /\ transition'.id = s
         \/ op \notin Transitions /\ call'[t].prev = None /\ transition' = transition
      /\ \A u \in Tasks : u # t => call[u].op \notin Transitions /\ (op \in Transitions => call[u].op = "idle")
  BY <1>0, SnapshotIs DEF Wrote
<1>3. \A u \in Tasks : u # t => (Serving(u)' <=> Serving(u))
  BY <1>1 DEF Others, Kept, Serving
<1>4. Staged'
  <2> SUFFICES ASSUME NEW u \in Tasks
               PROVE  (/\ call[u].op = "idle" <=> call[u].pc = "idle"
                       /\ call[u].pc = "lock" => call[u].op \in Locked
                       /\ call[u].prev # None <=> call[u].op \in Transitions /\ Serving(u)
                       /\ call[u].op \in OfSession => call[u].on # None
                       /\ call[u].op = "new" => call[u].on = None
                       /\ call[u].op \in {"set_config", "set_mode", "close", "prompt"} => session_id \in {call[u].on, None}
                       /\ call[u].pc = "fails" => link # "up"
                       /\ call[u].pc = "answered" => call[u].reply \in Answers)'
    BY DEF Staged
  <2>1. CASE u = t
    <3>1. Serving(u)'
      BY <1>1, <2>1 DEF Serving
    <3>2. (op \in OfSession => s # None) /\ (op = "new" => s = None) /\ (op \in {"prompt", "set_config", "set_mode", "close"} => s = session_id)
      BY DEF Wrote
    <3> QED BY <1>1, <1>2, <2>1, <3>1, <3>2
  <2>2. CASE u # t
    BY <1>0, <1>1, <1>3, <2>2 DEF Staged, Others, Kept
  <2> QED BY <2>1, <2>2
<1>5. Apart'
  <2>1. op \in Locked => \A u \in Tasks : ~(call[u].op \in Locked /\ Serving(u))
    BY DEF Wrote
  <2>2. \A a, b \in Tasks : call'[a].op \in Transitions /\ b # a => call'[b].op = "idle"
    BY <1>1, <1>2 DEF Others, Kept
  <2>3. \A a, b \in Tasks :
          call'[a].op \in Locked /\ Serving(a)' /\ call'[b].op \in Locked /\ Serving(b)' => a = b
    BY <1>0, <1>1, <1>3, <2>1 DEF Apart, Others, Kept
  <2> QED BY <2>2, <2>3 DEF Apart
<1>6. Changing'
  <2>1. \A u \in Tasks : u # t => call[u].prev = None /\ call'[u].prev = None
    BY <1>1, <1>2, NoPrev DEF Others, Kept
  <2>2. call[t].prev = None
    BY NoPrev DEF Wrote
  <2>3. CASE op \in Transitions
    <3>1. \A u \in Tasks : call'[u].prev # None => transition'.id = call'[u].on /\ call'[u].prev.id = session_id'
      BY <1>1, <1>2, <2>1, <2>3
    <3>2. call'[t].prev # None /\ transition'.active = TRUE
      BY <1>2, <2>3
    <3> QED BY <3>1, <3>2 DEF Changing
  <2>4. CASE op \notin Transitions
    <3>1. \A u \in Tasks : call[u].prev = None /\ call'[u].prev = None
      BY <1>2, <2>1, <2>2, <2>4
    <3> QED BY <1>0, <1>2, <2>4, <3>1 DEF Changing
  <2> QED BY <2>3, <2>4
<1> QED BY <1>4, <1>5, <1>6

LEMMA QueuedCalls ==
  ASSUME StateInv, NEW t \in Tasks, NEW op, NEW s, Queues(t, op, s)
  PROVE  Staged' /\ Apart' /\ Changing'
<1>0. Staged /\ Apart /\ Changing
  BY DEF StateInv
<1>1. /\ call'[t].op = op /\ call'[t].on = s /\ call'[t].pc = "lock" /\ call'[t].prev = None /\ Others(t)
      /\ op \in Locked /\ op # "idle" /\ op # "new" /\ UNCHANGED <<link, session_id, transition>>
      /\ s # None /\ (op = "prompt" => s = session_id) /\ call[t].op = "idle"
      /\ \A u \in Tasks : u # t => call[u].op \notin Transitions /\ (op \in Transitions => call[u].op = "idle")
  BY DEF Queues, Locked
<1>2. \A u \in Tasks : u # t => (Serving(u)' <=> Serving(u))
  BY <1>1 DEF Others, Kept, Serving
<1>3. ~Serving(t)' /\ call[t].pc = "idle"
  BY <1>0, <1>1 DEF Serving, Staged
<1>4. Staged'
  BY <1>0, <1>1, <1>2, <1>3 DEF Staged, Others, Kept, Locked
<1>5. Apart'
  BY <1>0, <1>1, <1>2, <1>3 DEF Apart, Others, Kept
<1>6. \A u \in Tasks : call'[u].prev = call[u].prev
  BY <1>1, <1>3, NoPrev DEF Others, Kept
<1>7. Changing'
  <2>1. \A u \in Tasks : call[u].prev # None => call'[u].on = call[u].on
    BY <1>1, <1>3, NoPrev DEF Others, Kept
  <2> QED BY <1>0, <1>1, <1>6, <2>1 DEF Changing
<1> QED BY <1>4, <1>5, <1>7

EndsSomehow(t) == EndsPlain(t) \/ EndsBack(t) \/ EndsChanged(t) \/ EndsClosed(t) \/ EndsSet(t)

\* A call that ends leaves the client its session, or nobody else is at work on one.
LEMMA EndedSession ==
  ASSUME StateInv, NEW t \in Tasks, Ended(t), EndsSomehow(t)
  PROVE  /\ \/ call[t].prev = None /\ transition' = transition /\ session_id' \in {session_id, None}
            \/ /\ call[t].prev # None /\ call[t].op \in Transitions
               /\ transition' = [active |-> FALSE, id |-> None]
               /\ \A u \in Tasks : u # t => call[u].op = "idle" /\ call[u].pc = "idle"
         /\ session_id' # session_id => EndsChanged(t) \/ EndsClosed(t)
<1>0. Staged /\ Apart /\ Changing
  BY DEF StateInv
<1>1. CASE EndsPlain(t)
  BY <1>1 DEF EndsPlain
<1>2. CASE EndsBack(t)
  <2>1. call[t].op \in Transitions /\ \A u \in Tasks : u # t => call[u].op = "idle" /\ call[u].pc = "idle"
    BY <1>0, <1>2, NoPrev DEF EndsBack, Staged
  <2>2. session_id' = session_id
    BY <1>0, <1>2 DEF EndsBack, Restored, Changing
  <2> QED BY <1>2, <2>1, <2>2 DEF EndsBack
<1>3. CASE EndsChanged(t)
  <2>1. call[t].op \in Transitions /\ call[t].prev # None
    BY <1>0, <1>3 DEF EndsChanged, Succeeds, Staged, Serving
  <2> QED BY <1>0, <1>3, <2>1 DEF EndsChanged, Apart, Staged
<1>4. CASE EndsClosed(t)
  BY <1>4, NoPrev DEF EndsClosed, Transitions
<1>5. CASE EndsSet(t)
  BY <1>5, NoPrev DEF EndsSet, Transitions
<1> QED BY <1>1, <1>2, <1>3, <1>4, <1>5 DEF EndsSomehow

LEMMA EndedCalls ==
  ASSUME StateInv, NEW t \in Tasks, Ended(t), EndsSomehow(t)
  PROVE  Staged' /\ Apart' /\ Changing'
<1>0. Staged /\ Apart /\ Changing
  BY DEF StateInv
<1>1. /\ call'[t].op = "idle" /\ call'[t].pc = "idle" /\ call'[t].reply = None /\ call'[t].prev = None
      /\ Others(t) /\ link' = link
  BY DEF Ended
<1>2. (\A u \in Tasks : u # t => (Serving(u)' <=> Serving(u))) /\ ~Serving(t)'
  BY <1>1 DEF Others, Kept, Serving
<1>3. \A u \in Tasks : u # t /\ call[u].op # "idle" => session_id' \in {session_id, None}
  BY EndedSession
<1>4. Staged'
  <2> SUFFICES ASSUME NEW u \in Tasks
               PROVE  (/\ call[u].op = "idle" <=> call[u].pc = "idle"
                       /\ call[u].pc = "lock" => call[u].op \in Locked
                       /\ call[u].prev # None <=> call[u].op \in Transitions /\ Serving(u)
                       /\ call[u].op \in OfSession => call[u].on # None
                       /\ call[u].op = "new" => call[u].on = None
                       /\ call[u].op \in {"set_config", "set_mode", "close", "prompt"} => session_id \in {call[u].on, None}
                       /\ call[u].pc = "fails" => link # "up"
                       /\ call[u].pc = "answered" => call[u].reply \in Answers)'
    BY DEF Staged
  <2>1. CASE u = t
    BY <1>1, <1>2, <2>1 DEF OfSession, Locked, Transitions
  <2>2. CASE u # t
    BY <1>0, <1>1, <1>2, <1>3, <2>2 DEF Staged, Others, Kept
  <2> QED BY <2>1, <2>2
<1>5. Apart'
  BY <1>0, <1>1, <1>2 DEF Apart, Others, Kept, Transitions
<1>6. Changing'
  <2>1. CASE call[t].prev = None /\ transition' = transition
    <3>1. \A u \in Tasks : call'[u].prev = call[u].prev /\ (u # t => call'[u].on = call[u].on)
      BY <1>1, <2>1 DEF Others, Kept
    <3>2. \A u \in Tasks : call[u].prev # None => u # t /\ session_id' = session_id
      <4> SUFFICES ASSUME NEW u \in Tasks, call[u].prev # None, session_id' # session_id
                   PROVE  FALSE
        BY <2>1
      <4>1. call[t].op = "idle" /\ u # t
        BY <2>1, NoPrev
      <4>2. EndsChanged(t) \/ EndsClosed(t)
        BY EndedSession
      <4> QED BY <4>1, <4>2 DEF EndsChanged, EndsClosed, Transitions
    <3>3. \A u \in Tasks : call'[u].prev # None =>
            /\ call'[u].prev.id = session_id'
            /\ transition'.active => transition'.id = call'[u].on
            /\ link' = "up" => transition'.active
      BY <1>0, <1>1, <2>1, <3>1, <3>2 DEF Changing
    <3> QED BY <1>0, <2>1, <3>1, <3>3 DEF Changing
  <2>2. CASE /\ call[t].prev # None
             /\ transition' = [active |-> FALSE, id |-> None]
    <3>1. \A u \in Tasks : u # t => call[u].prev = None
      BY <2>2, NoPrev DEF Transitions
    <3>2. \A u \in Tasks : call'[u].prev = None
      BY <1>1, <3>1 DEF Others, Kept
    <3>3. transition'.active = FALSE /\ transition'.id = None
      BY <2>2
    <3> QED BY <3>2, <3>3 DEF Changing
  <2> QED BY <2>1, <2>2, EndedSession
<1> QED BY <1>4, <1>5, <1>6

-----------------------------------------------------------------------------
(* The session: what is under way *)

\* What is known of the requests and frames of the client.
LEMMA UnderWay ==
  ASSUME StateInv
  PROVE  /\ requests \in Seq(Orders) /\ Len(requests) \in Nat /\ wire \in Seq(Frames) /\ Len(wire) \in Nat
         /\ chunks \in Seq(Pieces) /\ Len(chunks) \in Nat
         /\ \A i \in 1 .. Len(requests) : requests[i] \in Orders /\ requests[i].by \in Tasks
         /\ \A k \in 1 .. Len(wire) : wire[k] \in Frames /\ (wire[k].kind = "response" => wire[k].to \in Tasks)
         /\ job.to # None => job.to \in Tasks /\ job.on # None
<1>1. requests \in Seq(Orders) /\ wire \in Seq(Frames) /\ chunks \in Seq(Pieces)
      /\ job \in [to : Tasks \cup {None}, on : Names, sent : Nat]
  BY DEF StateInv, StateTypes
<1>2. Len(requests) \in Nat /\ Len(wire) \in Nat /\ Len(chunks) \in Nat
  BY <1>1
<1>3. \A i \in 1 .. Len(requests) : requests[i] \in Orders /\ requests[i].by \in Tasks
  BY <1>1, OrderIs
<1>4. \A k \in 1 .. Len(wire) : wire[k] \in Frames /\ (wire[k].kind = "response" => wire[k].to \in Tasks)
  BY <1>1, FrameIs, AnswerIs
<1>5. job.to # None => job.to \in Tasks /\ job.on # None
  BY <1>1 DEF StateInv, Matched
<1> QED BY <1>1, <1>2, <1>3, <1>4, <1>5

\* A connection that is not up makes no promises.
LEMMA TokensDown == ASSUME link' # "up" PROVE Tokens'
BY DEF Tokens

\* What a request, once written, adds.
LEMMA WroteOrder ==
  ASSUME StateInv, NEW t \in Tasks, NEW op, NEW s, Wrote(t, op, s)
  PROVE  /\ Len(requests') = Len(requests) + 1
         /\ \A i \in 1 .. Len(requests) : requests'[i] = requests[i]
         /\ requests'[Len(requests) + 1].op = op /\ requests'[Len(requests) + 1].on = s
         /\ requests'[Len(requests) + 1].by = t
<1>1. requests' = Append(requests, [op |-> op, on |-> s, by |-> t]) /\ requests \in Seq(Orders)
  BY UnderWay DEF Wrote
<1>2. PICK r : r = [op |-> op, on |-> s, by |-> t]
  OBVIOUS
<1>3. r.op = op /\ r.on = s /\ r.by = t
  BY <1>2
<1>4. requests' = Append(requests, r)
  BY <1>1, <1>2
<1>5. PICK q : q = requests'
  OBVIOUS
<1>6. Len(q) = Len(requests) + 1 /\ q[Len(requests) + 1] = r /\ \A i \in 1 .. Len(requests) : q[i] = requests[i]
  BY <1>1, <1>4, <1>5, Appended
<1> QED BY <1>3, <1>5, <1>6

\* A task that does not wait has nothing under way over a connection that is up.
LEMMA NothingOf ==
  ASSUME StateInv, link = "up", NEW t \in Tasks, call[t].pc # "wait"
  PROVE  /\ \A i \in 1 .. Len(requests) : requests[i].by # t
         /\ job.to # t
         /\ \A k \in 1 .. Len(wire) : ~Responds(k, t)
<1>1. job.to # t
  <2>1. None \notin Tasks
    BY NamesAssumption
  <2> QED BY <2>1 DEF StateInv, Tokens
<1> QED BY <1>1 DEF StateInv, Tokens, Responds

LEMMA WroteWay ==
  ASSUME StateInv, NEW t \in Tasks, NEW op, NEW s, Wrote(t, op, s)
  PROVE  Matched' /\ Tokens'
<1>0. /\ Matched /\ Tokens /\ link = "up" /\ link' = "up" /\ wire' = wire /\ job' = job
      /\ call[t].pc # "wait" /\ call'[t].pc = "wait" /\ call'[t].op = op /\ call'[t].on = s /\ Others(t)
      /\ op \in OfSession => s # None
  BY DEF StateInv, Wrote
<1>1. /\ Len(requests) \in Nat /\ Len(wire) \in Nat
      /\ \A i \in 1 .. Len(requests) : requests[i].by \in Tasks
      /\ \A k \in 1 .. Len(wire) : wire[k].kind = "response" => wire[k].to \in Tasks
      /\ job.to # None => job.to \in Tasks
  BY UnderWay
<1>2. /\ Len(requests') = Len(requests) + 1
      /\ \A i \in 1 .. Len(requests) : requests'[i] = requests[i]
      /\ requests'[Len(requests) + 1].op = op /\ requests'[Len(requests) + 1].on = s
      /\ requests'[Len(requests) + 1].by = t
  BY WroteOrder
<1>3. /\ \A i \in 1 .. Len(requests) : requests[i].by # t
      /\ job.to # t
      /\ \A k \in 1 .. Len(wire) : ~Responds(k, t)
  BY <1>0, NothingOf
<1>4. Matched'
  <2>1. \A i \in 1 .. Len(requests') :
          /\ requests'[i].op \in OfSession => requests'[i].on # None
          /\ call'[requests'[i].by].pc = "wait" =>
                requests'[i].op = call'[requests'[i].by].op /\ requests'[i].on = call'[requests'[i].by].on
    <3> SUFFICES ASSUME NEW i \in 1 .. Len(requests')
                 PROVE  /\ requests'[i].op \in OfSession => requests'[i].on # None
                        /\ call'[requests'[i].by].pc = "wait" =>
                            requests'[i].op = call'[requests'[i].by].op /\ requests'[i].on = call'[requests'[i].by].on
      OBVIOUS
    <3>1. CASE i \in 1 .. Len(requests)
      BY <1>0, <1>1, <1>2, <1>3, <3>1 DEF Matched, Others, Kept
    <3>2. CASE i = Len(requests) + 1
      BY <1>0, <1>2, <3>2
    <3> QED BY <1>1, <1>2, <3>1, <3>2
  <2>2. job'.to # None =>
          /\ job'.on # None
          /\ call'[job'.to].pc = "wait" => call'[job'.to].op = "prompt" /\ call'[job'.to].on = job'.on
    BY <1>0, <1>1, <1>3 DEF Matched, Others, Kept
  <2>3. \A k \in 1 .. Len(wire'), u \in Tasks : Responds(k, u)' /\ call'[u].pc = "wait" => Fits(wire[k], u)'
    BY <1>0, <1>3 DEF Matched, Others, Kept, Responds, Fits
  <2>4. \A u \in Tasks : call'[u].pc = "answered" => Fits(call[u].reply, u)'
    BY <1>0 DEF Matched, Others, Kept, Fits
  <2> QED BY <2>1, <2>2, <2>3, <2>4 DEF Matched
<1>5. Tokens'
  <2>1. \A i \in 1 .. Len(requests') :
          /\ call'[requests'[i].by].pc = "wait" /\ job'.to # requests'[i].by
          /\ \A j \in 1 .. Len(requests') : requests'[j].by = requests'[i].by => i = j
          /\ \A k \in 1 .. Len(wire') : ~Responds(k, requests[i].by)'
    <3> SUFFICES ASSUME NEW i \in 1 .. Len(requests')
                 PROVE  /\ call'[requests'[i].by].pc = "wait" /\ job'.to # requests'[i].by
                        /\ \A j \in 1 .. Len(requests') : requests'[j].by = requests'[i].by => i = j
                        /\ \A k \in 1 .. Len(wire') : ~Responds(k, requests[i].by)'
      OBVIOUS
    <3>1. CASE i \in 1 .. Len(requests)
      <4>1. requests'[i] = requests[i] /\ requests[i].by \in Tasks /\ requests[i].by # t
        BY <1>1, <1>2, <1>3, <3>1
      <4>2. call'[requests[i].by].pc = "wait" /\ job.to # requests[i].by
        BY <1>0, <3>1, <4>1 DEF Tokens, Others, Kept
      <4>3. \A j \in 1 .. Len(requests') : requests'[j].by = requests[i].by => i = j
        <5> SUFFICES ASSUME NEW j \in 1 .. Len(requests'), requests'[j].by = requests[i].by
                     PROVE  i = j
          OBVIOUS
        <5>1. j \in 1 .. Len(requests) \/ j = Len(requests) + 1
          BY <1>1, <1>2
        <5>2. j \in 1 .. Len(requests)
          BY <1>2, <4>1, <5>1
        <5> QED BY <1>0, <1>2, <3>1, <5>2 DEF Tokens
      <4>4. \A k \in 1 .. Len(wire') : ~Responds(k, requests[i].by)'
        BY <1>0, <3>1, <4>1 DEF Tokens, Responds
      <4> QED BY <1>0, <4>1, <4>2, <4>3, <4>4
    <3>2. CASE i = Len(requests) + 1
      BY <1>0, <1>1, <1>2, <1>3, <3>2 DEF Responds
    <3> QED BY <1>1, <1>2, <3>1, <3>2
  <2>2. job'.to # None => call'[job'.to].pc = "wait" /\ \A k \in 1 .. Len(wire') : ~Responds(k, job.to)'
    BY <1>0, <1>1, <1>3 DEF Tokens, Others, Kept, Responds
  <2>3. \A k \in 1 .. Len(wire') : wire'[k].kind = "response" =>
          /\ call'[wire'[k].to].pc = "wait"
          /\ \A j \in 1 .. Len(wire') : Responds(j, wire[k].to)' => j = k
    BY <1>0, <1>1, <1>3 DEF Tokens, Others, Kept, Responds
  <2> QED BY <2>1, <2>2, <2>3 DEF Tokens
<1> QED BY <1>4, <1>5

\* Calls that come and go beside what is under way.
LEMMA WayKept ==
  ASSUME StateInv, UNCHANGED <<requests, wire, job>>, link' = "up" => link = "up",
         \A u \in Tasks :
            /\ call'[u].pc \in {"wait", "answered"} =>
                  /\ call'[u].pc = call[u].pc /\ call'[u].op = call[u].op /\ call'[u].on = call[u].on
                  /\ call'[u].reply = call[u].reply
            /\ call[u].pc = "wait" /\ link' = "up" => call'[u].pc = "wait"
  PROVE  Matched' /\ Tokens'
<1>0. Matched /\ Tokens
  BY DEF StateInv
<1>1. /\ \A i \in 1 .. Len(requests) : requests[i].by \in Tasks
      /\ \A k \in 1 .. Len(wire) : wire[k].kind = "response" => wire[k].to \in Tasks
      /\ job.to # None => job.to \in Tasks
  BY UnderWay
<1>2. Matched'
  BY <1>0, <1>1 DEF Matched, Fits, Responds
<1>3. Tokens'
  BY <1>0, <1>1 DEF Tokens, Responds
<1> QED BY <1>2, <1>3

LEMMA QueuedWay ==
  ASSUME StateInv, NEW t \in Tasks, NEW op, NEW s, Queues(t, op, s)
  PROVE  Matched' /\ Tokens'
<1>1. /\ UNCHANGED <<link, requests, wire, job>> /\ Others(t)
      /\ call'[t].pc = "lock" /\ call[t].pc # "wait"
  BY DEF Queues, StateInv, Staged
<1> QED BY <1>1, WayKept DEF Others, Kept

LEMMA EndedWay ==
  ASSUME StateInv, NEW t \in Tasks, Ended(t)
  PROVE  Matched' /\ Tokens'
<1>1. /\ UNCHANGED <<link, requests, wire, job>> /\ Others(t)
      /\ call'[t].pc = "idle" /\ call[t].pc # "wait"
  BY DEF Ended
<1> QED BY <1>1, WayKept DEF Others, Kept

LEMMA GaveUpWay ==
  ASSUME StateInv, NEW t \in Tasks, GaveUp(t)
  PROVE  Matched' /\ Tokens'
<1>1. /\ UNCHANGED <<requests, wire, job>> /\ link' # "up" /\ Others(t) /\ call'[t].pc = "fails"
  BY DEF GaveUp
<1> QED BY <1>1, WayKept DEF Others, Kept

LEMMA LostWay ==
  ASSUME StateInv, LostAll
  PROVE  Matched' /\ Tokens'
<1>1. /\ Len(requests') = 0 /\ Len(wire') = 0 /\ job'.to = None /\ link' # "up"
      /\ \A u \in Tasks : call'[u].pc = "answered" =>
            /\ call[u].pc = "answered" /\ call'[u].op = call[u].op /\ call'[u].on = call[u].on
            /\ call'[u].reply = call[u].reply
  BY DEF LostAll
<1>2. Matched'
  BY <1>1 DEF StateInv, Matched, Fits
<1> QED BY <1>1, <1>2, TokensDown

\* What the agent has read.
LEMMA Read ==
  ASSUME StateInv, requests # <<>>, requests' = Tail(requests)
  PROVE  /\ Len(requests) \in Nat /\ Len(requests) >= 1 /\ Len(requests') = Len(requests) - 1
         /\ \A i \in 1 .. Len(requests') : requests'[i] = requests[i + 1] /\ i + 1 \in 1 .. Len(requests)
         /\ requests[1].by \in Tasks /\ requests[1] \in Orders
         /\ link = "up" =>
              /\ call[requests[1].by].pc = "wait" /\ job.to # requests[1].by
              /\ \A k \in 1 .. Len(wire) : ~Responds(k, requests[1].by)
              /\ \A i \in 1 .. Len(requests') : requests'[i].by # requests[1].by
<1>1. requests \in Seq(Orders)
  BY UnderWay
<1>2. PICK q : q = requests'
  OBVIOUS
<1>3. /\ Len(requests) \in Nat /\ Len(requests) >= 1 /\ Len(q) = Len(requests) - 1
      /\ \A i \in 1 .. Len(q) : q[i] = requests[i + 1]
  BY <1>1, <1>2, Shortened
<1>4. \A i \in 1 .. Len(q) : i + 1 \in 1 .. Len(requests)
  BY <1>3
<1>5. 1 \in 1 .. Len(requests) /\ requests[1].by \in Tasks /\ requests[1] \in Orders
  BY <1>3, UnderWay
<1>6. ASSUME link = "up"
      PROVE  /\ call[requests[1].by].pc = "wait" /\ job.to # requests[1].by
             /\ \A k \in 1 .. Len(wire) : ~Responds(k, requests[1].by)
             /\ \A i \in 1 .. Len(q) : q[i].by # requests[1].by
  <2>1. Tokens
    BY DEF StateInv
  <2>2. /\ call[requests[1].by].pc = "wait" /\ job.to # requests[1].by
        /\ \A k \in 1 .. Len(wire) : ~Responds(k, requests[1].by)
    BY <1>5, <1>6, <2>1 DEF Tokens
  <2>3. \A j \in 1 .. Len(requests) : requests[j].by = requests[1].by => j = 1
    BY <1>5, <1>6, <2>1 DEF Tokens
  <2>4. \A i \in 1 .. Len(q) : q[i].by # requests[1].by
    <3> SUFFICES ASSUME NEW i \in 1 .. Len(q), q[i].by = requests[1].by PROVE FALSE
      OBVIOUS
    <3>1. q[i] = requests[i + 1] /\ i + 1 \in 1 .. Len(requests) /\ i + 1 # 1
      BY <1>3, <1>4
    <3> QED BY <2>3, <3>1
  <2> QED BY <2>2, <2>4
<1> QED BY <1>2, <1>3, <1>4, <1>5, <1>6

\* What the agent has written.
LEMMA SentIs ==
  ASSUME StateInv, NEW f, NEW n \in {1, 2}, Sends(f, n)
  PROVE  /\ Len(wire) \in Nat /\ Len(wire') = Len(wire) + n /\ wire'[Len(wire) + n] = f
         /\ \A k \in 1 .. Len(wire) : wire'[k] = wire[k]
         /\ \A k \in 1 .. Len(wire') : k \in 1 .. Len(wire) \/ k = Len(wire) + n \/ (n = 2 /\ k = Len(wire) + 1)
         /\ Len(wire) + n \in 1 .. Len(wire')
<1>1. Len(wire) \in Nat
  BY UnderWay
<1> QED BY <1>1 DEF Sends

LEMMA HandledWay ==
  ASSUME StateInv, NEW f, NEW n, Handled(f, n)
  PROVE  Matched' /\ Tokens'
<1> DEFINE r == requests[1]
<1>0. /\ Matched /\ Tokens /\ UNCHANGED <<call, job, link>> /\ f.to = r.by /\ Suits(f, r) /\ n \in {1, 2}
      /\ f.kind = "response" /\ (n = 2 => wire'[Len(wire) + 1].kind # "response")
      /\ requests # <<>> /\ requests' = Tail(requests)
  BY AnswerIs DEF StateInv, Handled, Unread
<1>1. /\ \A i \in 1 .. Len(requests) : requests[i].by \in Tasks
      /\ \A k \in 1 .. Len(wire) : wire[k].kind = "response" => wire[k].to \in Tasks
      /\ job.to # None => job.to \in Tasks
  BY UnderWay
<1>2. /\ Len(requests) \in Nat /\ Len(requests) >= 1 /\ Len(requests') = Len(requests) - 1
      /\ \A i \in 1 .. Len(requests') : requests'[i] = requests[i + 1] /\ i + 1 \in 1 .. Len(requests)
      /\ r.by \in Tasks
      /\ link = "up" =>
           /\ call[r.by].pc = "wait" /\ job.to # r.by
           /\ \A k \in 1 .. Len(wire) : ~Responds(k, r.by)
           /\ \A i \in 1 .. Len(requests') : requests'[i].by # r.by
  BY <1>0, Read
<1>3. /\ Len(wire) \in Nat /\ Len(wire') = Len(wire) + n /\ wire'[Len(wire) + n] = f
      /\ \A k \in 1 .. Len(wire) : wire'[k] = wire[k]
      /\ \A k \in 1 .. Len(wire') : k \in 1 .. Len(wire) \/ k = Len(wire) + n \/ (n = 2 /\ k = Len(wire) + 1)
  BY <1>0, SentIs DEF Handled
<1>4. \A u : \A k \in 1 .. Len(wire') : Responds(k, u)' => (k \in 1 .. Len(wire) /\ Responds(k, u)) \/ (k = Len(wire) + n /\ u = r.by)
  BY <1>0, <1>3 DEF Responds
<1>5. 1 \in 1 .. Len(requests)
  BY <1>2
<1> HIDE DEF r
<1>6. Matched'
  <2>1. \A i \in 1 .. Len(requests') :
          /\ requests'[i].op \in OfSession => requests'[i].on # None
          /\ call'[requests'[i].by].pc = "wait" =>
                requests'[i].op = call'[requests'[i].by].op /\ requests'[i].on = call'[requests'[i].by].on
    BY <1>0, <1>2 DEF Matched
  <2>2. job'.to # None =>
          /\ job'.on # None
          /\ call'[job'.to].pc = "wait" => call'[job'.to].op = "prompt" /\ call'[job'.to].on = job'.on
    BY <1>0 DEF Matched
  <2>3. \A k \in 1 .. Len(wire'), u \in Tasks : Responds(k, u)' /\ call'[u].pc = "wait" => Fits(wire[k], u)'
    <3> SUFFICES ASSUME NEW k \in 1 .. Len(wire'), NEW u \in Tasks, Responds(k, u)', call'[u].pc = "wait"
                 PROVE  Fits(wire[k], u)'
      OBVIOUS
    <3>1. CASE k \in 1 .. Len(wire) /\ Responds(k, u)
      BY <1>0, <1>3, <3>1 DEF Matched, Fits
    <3>2. CASE k = Len(wire) + n /\ u = r.by
      <4>1. r.op = call[u].op /\ r.on = call[u].on
        BY <1>0, <1>5, <3>2 DEF Matched, r
      <4> QED BY <1>0, <1>3, <3>2, <4>1 DEF Fits, Suits
    <3> QED BY <1>4, <3>1, <3>2
  <2>4. \A u \in Tasks : call'[u].pc = "answered" => Fits(call[u].reply, u)'
    BY <1>0 DEF Matched, Fits
  <2> QED BY <2>1, <2>2, <2>3, <2>4 DEF Matched
<1>7. ASSUME link' = "up" PROVE Tokens'
  <2>0. link = "up"
    BY <1>0, <1>7
  <2>1. \A i \in 1 .. Len(requests') :
          /\ call'[requests'[i].by].pc = "wait" /\ job'.to # requests'[i].by
          /\ \A j \in 1 .. Len(requests') : requests'[j].by = requests'[i].by => i = j
          /\ \A k \in 1 .. Len(wire') : ~Responds(k, requests[i].by)'
    <3> SUFFICES ASSUME NEW i \in 1 .. Len(requests')
                 PROVE  /\ call'[requests'[i].by].pc = "wait" /\ job'.to # requests'[i].by
                        /\ \A j \in 1 .. Len(requests') : requests'[j].by = requests'[i].by => i = j
                        /\ \A k \in 1 .. Len(wire') : ~Responds(k, requests[i].by)'
      OBVIOUS
    <3>1. requests'[i] = requests[i + 1] /\ i + 1 \in 1 .. Len(requests) /\ requests'[i].by # r.by
      BY <1>2, <2>0
    <3>2. call'[requests'[i].by].pc = "wait" /\ job'.to # requests'[i].by
      BY <1>0, <2>0, <3>1 DEF Tokens
    <3>3. \A j \in 1 .. Len(requests') : requests'[j].by = requests'[i].by => i = j
      <4> SUFFICES ASSUME NEW j \in 1 .. Len(requests'), requests'[j].by = requests'[i].by PROVE i = j
        OBVIOUS
      <4>1. requests'[j] = requests[j + 1] /\ j + 1 \in 1 .. Len(requests)
        BY <1>2
      <4>2. i + 1 = j + 1
        BY <1>0, <2>0, <3>1, <4>1 DEF Tokens
      <4> QED BY <1>2, <4>2
    <3>4. \A k \in 1 .. Len(wire') : ~Responds(k, requests[i].by)'
      <4>1. \A k \in 1 .. Len(wire) : ~Responds(k, requests'[i].by)
        BY <1>0, <2>0, <3>1 DEF Tokens
      <4> QED BY <1>4, <3>1, <4>1
    <3> QED BY <3>2, <3>3, <3>4
  <2>2. job'.to # None => call'[job'.to].pc = "wait" /\ \A k \in 1 .. Len(wire') : ~Responds(k, job.to)'
    BY <1>0, <1>2, <1>4, <2>0 DEF Tokens
  <2>3. \A k \in 1 .. Len(wire') : wire'[k].kind = "response" =>
          /\ call'[wire'[k].to].pc = "wait"
          /\ \A j \in 1 .. Len(wire') : Responds(j, wire[k].to)' => j = k
    <3> SUFFICES ASSUME NEW k \in 1 .. Len(wire'), wire'[k].kind = "response"
                 PROVE  /\ call'[wire'[k].to].pc = "wait"
                        /\ \A j \in 1 .. Len(wire') : Responds(j, wire[k].to)' => j = k
      OBVIOUS
    <3>0. Responds(k, wire[k].to)'
      BY DEF Responds
    <3>1. CASE k \in 1 .. Len(wire) /\ Responds(k, wire'[k].to)
      <4>1. wire'[k] = wire[k]
        BY <1>3, <3>1
      <4>2. wire[k].to # r.by
        BY <1>2, <2>0, <3>1, <4>1
      <4>3. call[wire[k].to].pc = "wait" /\ \A j \in 1 .. Len(wire) : Responds(j, wire[k].to) => j = k
        BY <1>0, <2>0, <3>1, <4>1 DEF Tokens, Responds
      <4> QED BY <1>0, <1>4, <4>1, <4>2, <4>3
    <3>2. CASE k = Len(wire) + n /\ wire'[k].to = r.by
      BY <1>0, <1>2, <1>4, <2>0, <3>2
    <3> QED BY <1>4, <3>0, <3>1, <3>2
  <2> QED BY <2>1, <2>2, <2>3 DEF Tokens
<1> QED BY <1>6, <1>7, TokensDown

\* A task waits for the prompt that the agent works on.
LEMMA AtWork ==
  ASSUME StateInv, link = "up", job.to # None
  PROVE  /\ job.to \in Tasks /\ call[job.to].pc = "wait" /\ call[job.to].op = "prompt"
         /\ call[job.to].on = job.on /\ job.on # None
         /\ \A k \in 1 .. Len(wire) : ~Responds(k, job.to)
         /\ \A i \in 1 .. Len(requests) : requests[i].by # job.to
BY UnderWay DEF StateInv, Matched, Tokens

LEMMA PromptedWay ==
  ASSUME StateInv, Prompted
  PROVE  Matched' /\ Tokens'
<1> DEFINE r == requests[1]
<1>0. /\ Matched /\ Tokens /\ UNCHANGED <<call, wire, link>>
      /\ r.op = "prompt" /\ job'.to = r.by /\ job'.on = r.on
      /\ requests # <<>> /\ requests' = Tail(requests)
  BY DEF StateInv, Prompted, Unread
<1>1. \A k \in 1 .. Len(wire) : wire[k].kind = "response" => wire[k].to \in Tasks
  BY UnderWay
<1>2. /\ Len(requests) \in Nat /\ Len(requests) >= 1 /\ Len(requests') = Len(requests) - 1
      /\ \A i \in 1 .. Len(requests') : requests'[i] = requests[i + 1] /\ i + 1 \in 1 .. Len(requests)
      /\ r.by \in Tasks
      /\ link = "up" =>
           /\ call[r.by].pc = "wait" /\ job.to # r.by
           /\ \A k \in 1 .. Len(wire) : ~Responds(k, r.by)
           /\ \A i \in 1 .. Len(requests') : requests'[i].by # r.by
  BY <1>0, Read
<1>3. 1 \in 1 .. Len(requests)
  BY <1>2
<1>4. r.on # None /\ (call[r.by].pc = "wait" => call[r.by].op = "prompt" /\ call[r.by].on = r.on)
  BY <1>0, <1>3 DEF Matched, OfSession
<1> HIDE DEF r
<1>5. \A k, u : Responds(k, u)' <=> Responds(k, u)
  BY <1>0 DEF Responds
<1>6. Matched'
  <2>1. \A i \in 1 .. Len(requests') :
          /\ requests'[i].op \in OfSession => requests'[i].on # None
          /\ call'[requests'[i].by].pc = "wait" =>
                requests'[i].op = call'[requests'[i].by].op /\ requests'[i].on = call'[requests'[i].by].on
    BY <1>0, <1>2 DEF Matched
  <2>2. job'.to # None =>
          /\ job'.on # None
          /\ call'[job'.to].pc = "wait" => call'[job'.to].op = "prompt" /\ call'[job'.to].on = job'.on
    BY <1>0, <1>4
  <2>3. \A k \in 1 .. Len(wire'), u \in Tasks : Responds(k, u)' /\ call'[u].pc = "wait" => Fits(wire[k], u)'
    BY <1>0, <1>5 DEF Matched, Fits
  <2>4. \A u \in Tasks : call'[u].pc = "answered" => Fits(call[u].reply, u)'
    BY <1>0 DEF Matched, Fits
  <2> QED BY <2>1, <2>2, <2>3, <2>4 DEF Matched
<1>7. ASSUME link' = "up" PROVE Tokens'
  <2>0. link = "up"
    BY <1>0, <1>7
  <2>1. \A i \in 1 .. Len(requests') :
          /\ call'[requests'[i].by].pc = "wait" /\ job'.to # requests'[i].by
          /\ \A j \in 1 .. Len(requests') : requests'[j].by = requests'[i].by => i = j
          /\ \A k \in 1 .. Len(wire') : ~Responds(k, requests[i].by)'
    <3> SUFFICES ASSUME NEW i \in 1 .. Len(requests')
                 PROVE  /\ call'[requests'[i].by].pc = "wait" /\ job'.to # requests'[i].by
                        /\ \A j \in 1 .. Len(requests') : requests'[j].by = requests'[i].by => i = j
                        /\ \A k \in 1 .. Len(wire') : ~Responds(k, requests[i].by)'
      OBVIOUS
    <3>1. requests'[i] = requests[i + 1] /\ i + 1 \in 1 .. Len(requests) /\ requests'[i].by # r.by
      BY <1>2, <2>0
    <3>2. call'[requests'[i].by].pc = "wait" /\ job'.to # requests'[i].by
      BY <1>0, <2>0, <3>1 DEF Tokens
    <3>3. \A j \in 1 .. Len(requests') : requests'[j].by = requests'[i].by => i = j
      <4> SUFFICES ASSUME NEW j \in 1 .. Len(requests'), requests'[j].by = requests'[i].by PROVE i = j
        OBVIOUS
      <4>1. requests'[j] = requests[j + 1] /\ j + 1 \in 1 .. Len(requests)
        BY <1>2
      <4>2. i + 1 = j + 1
        BY <1>0, <2>0, <3>1, <4>1 DEF Tokens
      <4> QED BY <1>2, <4>2
    <3>4. \A k \in 1 .. Len(wire') : ~Responds(k, requests[i].by)'
      BY <1>0, <1>5, <2>0, <3>1 DEF Tokens
    <3> QED BY <3>2, <3>3, <3>4
  <2>2. call'[job'.to].pc = "wait" /\ \A k \in 1 .. Len(wire') : ~Responds(k, job.to)'
    BY <1>0, <1>2, <1>5, <2>0
  <2>3. \A k \in 1 .. Len(wire') : wire'[k].kind = "response" =>
          /\ call'[wire'[k].to].pc = "wait"
          /\ \A j \in 1 .. Len(wire') : Responds(j, wire[k].to)' => j = k
    BY <1>0, <1>1, <1>5, <2>0 DEF Tokens
  <2> QED BY <2>1, <2>2, <2>3 DEF Tokens
<1> QED BY <1>6, <1>7, TokensDown

\* A frame that nobody waits for.
LEMMA SaidWay ==
  ASSUME StateInv, NEW f, Sends(f, 1), f.kind # "response",
         UNCHANGED <<call, link, requests>>, job'.to = job.to, job'.on = job.on
  PROVE  Matched' /\ Tokens'
<1>0. Matched /\ Tokens
  BY DEF StateInv
<1>1. /\ \A i \in 1 .. Len(requests) : requests[i].by \in Tasks
      /\ \A k \in 1 .. Len(wire) : wire[k].kind = "response" => wire[k].to \in Tasks
      /\ job.to # None => job.to \in Tasks
  BY UnderWay
<1>2. /\ \A k \in 1 .. Len(wire) : wire'[k] = wire[k]
      /\ \A k \in 1 .. Len(wire') : wire'[k].kind = "response" => k \in 1 .. Len(wire)
      /\ \A k \in 1 .. Len(wire) : k \in 1 .. Len(wire')
  BY SentIs
<1>3. \A u : \A k \in 1 .. Len(wire') : Responds(k, u)' => k \in 1 .. Len(wire) /\ Responds(k, u)
  BY <1>2 DEF Responds
<1>4. Matched'
  BY <1>0, <1>1, <1>2, <1>3 DEF Matched, Fits
<1>5. ASSUME link' = "up" PROVE Tokens'
  <2>1. \A i \in 1 .. Len(requests') :
          /\ call'[requests'[i].by].pc = "wait" /\ job'.to # requests'[i].by
          /\ \A j \in 1 .. Len(requests') : requests'[j].by = requests'[i].by => i = j
          /\ \A k \in 1 .. Len(wire') : ~Responds(k, requests[i].by)'
    BY <1>0, <1>1, <1>3, <1>5 DEF Tokens
  <2>2. job'.to # None => call'[job'.to].pc = "wait" /\ \A k \in 1 .. Len(wire') : ~Responds(k, job.to)'
    BY <1>0, <1>1, <1>3, <1>5 DEF Tokens
  <2>3. \A k \in 1 .. Len(wire') : wire'[k].kind = "response" =>
          /\ call'[wire'[k].to].pc = "wait"
          /\ \A j \in 1 .. Len(wire') : Responds(j, wire[k].to)' => j = k
    BY <1>0, <1>1, <1>2, <1>3, <1>5 DEF Tokens
  <2> QED BY <2>1, <2>2, <2>3 DEF Tokens
<1> QED BY <1>4, <1>5, TokensDown

LEMMA ConcludedWay ==
  ASSUME StateInv, NEW f, Concludes(f)
  PROVE  Matched' /\ Tokens'
<1>0. /\ Matched /\ Tokens /\ UNCHANGED <<call, link, requests>> /\ job.to # None /\ job'.to = None
      /\ Sends(f, 1) /\ f.kind = "response" /\ f.to = job.to
  BY AnswerIs DEF StateInv, Concludes, Unread
<1>1. /\ \A i \in 1 .. Len(requests) : requests[i].by \in Tasks
      /\ \A k \in 1 .. Len(wire) : wire[k].kind = "response" => wire[k].to \in Tasks
      /\ job.to \in Tasks
  BY <1>0, UnderWay
<1>2. /\ Len(wire) \in Nat /\ Len(wire') = Len(wire) + 1 /\ wire'[Len(wire) + 1] = f
      /\ \A k \in 1 .. Len(wire) : wire'[k] = wire[k]
      /\ \A k \in 1 .. Len(wire') : k \in 1 .. Len(wire) \/ k = Len(wire) + 1
  BY <1>0, SentIs
<1>3. \A u : \A k \in 1 .. Len(wire') : Responds(k, u)' => (k \in 1 .. Len(wire) /\ Responds(k, u)) \/ (k = Len(wire) + 1 /\ u = job.to)
  BY <1>0, <1>2 DEF Responds
<1>4. Matched'
  <2>1. \A k \in 1 .. Len(wire'), u \in Tasks : Responds(k, u)' /\ call'[u].pc = "wait" => Fits(wire[k], u)'
    <3> SUFFICES ASSUME NEW k \in 1 .. Len(wire'), NEW u \in Tasks, Responds(k, u)', call'[u].pc = "wait"
                 PROVE  Fits(wire[k], u)'
      OBVIOUS
    <3>1. CASE k \in 1 .. Len(wire) /\ Responds(k, u)
      BY <1>0, <1>2, <3>1 DEF Matched, Fits
    <3>2. CASE u = job.to
      <4>1. call'[u].op = "prompt"
        BY <1>0, <3>2 DEF Matched
      <4> QED BY <4>1 DEF Fits, Transitions
    <3> QED BY <1>3, <3>1, <3>2
  <2> QED BY <1>0, <2>1 DEF Matched, Fits
<1>5. ASSUME link' = "up" PROVE Tokens'
  <2>0. /\ link = "up" /\ call[job.to].pc = "wait"
        /\ \A k \in 1 .. Len(wire) : ~Responds(k, job.to)
        /\ \A i \in 1 .. Len(requests) : requests[i].by # job.to
    BY <1>0, <1>5, AtWork
  <2>1. \A i \in 1 .. Len(requests') :
          /\ call'[requests'[i].by].pc = "wait" /\ job'.to # requests'[i].by
          /\ \A j \in 1 .. Len(requests') : requests'[j].by = requests'[i].by => i = j
          /\ \A k \in 1 .. Len(wire') : ~Responds(k, requests[i].by)'
    <3>1. None \notin Tasks
      BY NamesAssumption
    <3> QED BY <1>0, <1>1, <1>3, <2>0, <3>1 DEF Tokens
  <2>3. \A k \in 1 .. Len(wire') : wire'[k].kind = "response" =>
          /\ call'[wire'[k].to].pc = "wait"
          /\ \A j \in 1 .. Len(wire') : Responds(j, wire[k].to)' => j = k
    <3> SUFFICES ASSUME NEW k \in 1 .. Len(wire'), wire'[k].kind = "response"
                 PROVE  /\ call'[wire'[k].to].pc = "wait"
                        /\ \A j \in 1 .. Len(wire') : Responds(j, wire[k].to)' => j = k
      OBVIOUS
    <3>0. Responds(k, wire[k].to)'
      BY DEF Responds
    <3>1. CASE k \in 1 .. Len(wire) /\ Responds(k, wire'[k].to)
      <4>1. wire'[k] = wire[k] /\ wire[k].to # job.to
        BY <1>2, <2>0, <3>1
      <4>2. call[wire[k].to].pc = "wait" /\ \A j \in 1 .. Len(wire) : Responds(j, wire[k].to) => j = k
        BY <1>0, <2>0, <3>1, <4>1 DEF Tokens, Responds
      <4> QED BY <1>0, <1>3, <4>1, <4>2
    <3>2. CASE k = Len(wire) + 1 /\ wire'[k].to = job.to
      BY <1>0, <1>3, <2>0, <3>2
    <3> QED BY <1>3, <3>0, <3>1, <3>2
  <2> QED BY <1>0, <2>1, <2>3 DEF Tokens
<1> QED BY <1>4, <1>5, TokensDown

\* What the reader has taken.
LEMMA TakenIs ==
  ASSUME StateInv, Takes
  PROVE  /\ Len(wire) \in Nat /\ Len(wire) >= 1 /\ Len(wire') = Len(wire) - 1
         /\ 1 \in 1 .. Len(wire) /\ wire[1] \in Frames
         /\ \A k \in 1 .. Len(wire') : wire'[k] = wire[k + 1] /\ k + 1 \in 1 .. Len(wire) /\ k + 1 # 1
         /\ \A k \in 1 .. Len(wire) : k # 1 => k - 1 \in 1 .. Len(wire') /\ wire'[k - 1] = wire[k]
         /\ \A u : \A k \in 1 .. Len(wire') : Responds(k, u)' <=> Responds(k + 1, u)
<1>1. wire \in Seq(Frames) /\ wire # <<>> /\ wire' = Tail(wire)
  BY UnderWay DEF Takes
<1>2. PICK w : w = wire'
  OBVIOUS
<1>3. /\ Len(wire) \in Nat /\ Len(wire) >= 1 /\ Len(w) = Len(wire) - 1
      /\ \A k \in 1 .. Len(w) : w[k] = wire[k + 1]
  BY <1>1, <1>2, Shortened
<1>4. \A k \in 1 .. Len(w) : k + 1 \in 1 .. Len(wire) /\ k + 1 # 1
  BY <1>3
<1>5. 1 \in 1 .. Len(wire) /\ wire[1] \in Frames
  BY <1>3, UnderWay
<1>6. \A k \in 1 .. Len(wire) : k # 1 => k - 1 \in 1 .. Len(w) /\ w[k - 1] = wire[k]
  <2> SUFFICES ASSUME NEW k \in 1 .. Len(wire), k # 1 PROVE k - 1 \in 1 .. Len(w) /\ w[k - 1] = wire[k]
    OBVIOUS
  <2>1. k - 1 \in 1 .. Len(w) /\ (k - 1) + 1 = k
    BY <1>3
  <2> QED BY <1>3, <2>1
<1>7. \A u : \A k \in 1 .. Len(wire') : Responds(k, u)' <=> Responds(k + 1, u)
  BY <1>2, <1>3 DEF Responds
<1> QED BY <1>2, <1>3, <1>4, <1>5, <1>6, <1>7

\* Frames that are gone; the first of them may have been an answer.
LEMMA TakenWay ==
  ASSUME StateInv, (TakesSaid \/ TakesUpdate \/ TakesNothing) \/ TakesAnswer
  PROVE  Matched' /\ Tokens'
<1>0. Matched /\ Tokens /\ Takes /\ UNCHANGED <<link, requests, job>>
  BY DEF StateInv, TakesSaid, TakesUpdate, TakesAnswer, TakesNothing, Takes
<1>1. /\ \A i \in 1 .. Len(requests) : requests[i].by \in Tasks
      /\ \A k \in 1 .. Len(wire) : wire[k].kind = "response" => wire[k].to \in Tasks
      /\ job.to # None => job.to \in Tasks
  BY UnderWay
<1>2. /\ Len(wire) \in Nat /\ Len(wire) >= 1 /\ Len(wire') = Len(wire) - 1
      /\ 1 \in 1 .. Len(wire) /\ wire[1] \in Frames
      /\ \A k \in 1 .. Len(wire') : wire'[k] = wire[k + 1] /\ k + 1 \in 1 .. Len(wire) /\ k + 1 # 1
      /\ \A u : \A k \in 1 .. Len(wire') : Responds(k, u)' <=> Responds(k + 1, u)
  BY <1>0, TakenIs
<1>3. \A u \in Tasks : call'[u].op = call[u].op /\ call'[u].on = call[u].on
  BY DEF TakesSaid, TakesUpdate, TakesAnswer, TakesNothing, Others, Kept
<1>4. \A u \in Tasks :
        \/ call'[u].pc = call[u].pc /\ call'[u].reply = call[u].reply
        \/ call[u].pc = "wait" /\ call'[u].pc = "answered" /\ call'[u].reply = wire[1] /\ Responds(1, u)
  BY DEF TakesSaid, TakesUpdate, TakesAnswer, TakesNothing, Others, Kept, Responds
<1>5. Matched'
  <2>1. \A i \in 1 .. Len(requests') :
          /\ requests'[i].op \in OfSession => requests'[i].on # None
          /\ call'[requests'[i].by].pc = "wait" =>
                requests'[i].op = call'[requests'[i].by].op /\ requests'[i].on = call'[requests'[i].by].on
    BY <1>0, <1>1, <1>3, <1>4 DEF Matched
  <2>2. job'.to # None =>
          /\ job'.on # None
          /\ call'[job'.to].pc = "wait" => call'[job'.to].op = "prompt" /\ call'[job'.to].on = job'.on
    BY <1>0, <1>1, <1>3, <1>4 DEF Matched
  <2>3. \A k \in 1 .. Len(wire'), u \in Tasks : Responds(k, u)' /\ call'[u].pc = "wait" => Fits(wire[k], u)'
    <3> SUFFICES ASSUME NEW k \in 1 .. Len(wire'), NEW u \in Tasks, Responds(k, u)', call'[u].pc = "wait"
                 PROVE  Fits(wire[k], u)'
      OBVIOUS
    <3>1. Responds(k + 1, u) /\ k + 1 \in 1 .. Len(wire) /\ call[u].pc = "wait" /\ wire'[k] = wire[k + 1]
      BY <1>2, <1>4
    <3>2. Fits(wire[k + 1], u)
      BY <1>0, <3>1 DEF Matched
    <3> QED BY <1>3, <3>1, <3>2 DEF Fits
  <2>4. \A u \in Tasks : call'[u].pc = "answered" => Fits(call[u].reply, u)'
    <3> SUFFICES ASSUME NEW u \in Tasks, call'[u].pc = "answered" PROVE Fits(call[u].reply, u)'
      OBVIOUS
    <3>1. CASE call'[u].pc = call[u].pc /\ call'[u].reply = call[u].reply
      BY <1>0, <1>3, <3>1 DEF Matched, Fits
    <3>2. CASE call[u].pc = "wait" /\ call'[u].reply = wire[1] /\ Responds(1, u)
      <4>1. Fits(wire[1], u)
        BY <1>0, <1>2, <3>2 DEF Matched
      <4> QED BY <1>3, <3>2, <4>1 DEF Fits
    <3> QED BY <1>4, <3>1, <3>2
  <2> QED BY <2>1, <2>2, <2>3, <2>4 DEF Matched
<1>6. ASSUME link' = "up" PROVE Tokens'
  <2>0. link = "up"
    BY <1>0, <1>6
  <2>1. \A i \in 1 .. Len(requests') :
          /\ call'[requests'[i].by].pc = "wait" /\ job'.to # requests'[i].by
          /\ \A j \in 1 .. Len(requests') : requests'[j].by = requests'[i].by => i = j
          /\ \A k \in 1 .. Len(wire') : ~Responds(k, requests[i].by)'
    BY <1>0, <1>1, <1>2, <1>4, <2>0 DEF Tokens
  <2>2. job'.to # None => call'[job'.to].pc = "wait" /\ \A k \in 1 .. Len(wire') : ~Responds(k, job.to)'
    BY <1>0, <1>1, <1>2, <1>4, <2>0 DEF Tokens
  <2>3. \A k \in 1 .. Len(wire') : wire'[k].kind = "response" =>
          /\ call'[wire'[k].to].pc = "wait"
          /\ \A j \in 1 .. Len(wire') : Responds(j, wire[k].to)' => j = k
    <3> SUFFICES ASSUME NEW k \in 1 .. Len(wire'), wire'[k].kind = "response"
                 PROVE  /\ call'[wire'[k].to].pc = "wait"
                        /\ \A j \in 1 .. Len(wire') : Responds(j, wire[k].to)' => j = k
      OBVIOUS
    <3> DEFINE u == wire'[k].to
    <3>1. Responds(k + 1, u) /\ k + 1 \in 1 .. Len(wire) /\ k + 1 # 1 /\ wire[k + 1].to = u /\ u \in Tasks
      BY <1>1, <1>2 DEF Responds
    <3>2. call[u].pc = "wait" /\ \A j \in 1 .. Len(wire) : Responds(j, u) => j = k + 1
      BY <1>0, <2>0, <3>1 DEF Tokens, Responds
    <3>3. call'[u].pc = "wait"
      BY <1>2, <1>4, <3>1, <3>2
    <3>4. \A j \in 1 .. Len(wire') : Responds(j, wire[k].to)' => j = k
      <4> SUFFICES ASSUME NEW j \in 1 .. Len(wire'), Responds(j, wire[k].to)' PROVE j = k
        OBVIOUS
      <4>1. Responds(j + 1, u) /\ j + 1 \in 1 .. Len(wire)
        BY <1>2
      <4>2. j + 1 = k + 1
        BY <3>2, <4>1
      <4> QED BY <1>2, <4>2
    <3> QED BY <3>3, <3>4
  <2> QED BY <2>1, <2>2, <2>3 DEF Tokens
<1> QED BY <1>5, <1>6, TokensDown

-----------------------------------------------------------------------------
(* The session: its metadata *)

LEMMA MetadataKept ==
  ASSUME StateInv, UNCHANGED <<session_id, view, strays>>,
         \A u \in Tasks : call'[u].prev = call[u].prev /\ (call[u].prev # None => call'[u].on = call[u].on)
  PROVE  Metadata'
BY DEF StateInv, Metadata, Own

LEMMA WroteMetadata ==
  ASSUME StateInv, NEW t \in Tasks, NEW op, NEW s, Wrote(t, op, s)
  PROVE  Metadata'
<1>0. Metadata /\ StateTypes
  BY DEF StateInv
<1>1. session_id' = session_id /\ \A u \in Tasks : u # t => call'[u].prev = call[u].prev
  BY DEF Wrote, Others, Kept
<1>2. CASE op \notin Transitions
  <2>1. call[t].prev = None /\ call'[t].prev = None /\ UNCHANGED <<view, strays>>
    BY <1>2, NoPrev DEF Wrote
  <2>2. \A u \in Tasks : call'[u].prev = call[u].prev /\ (call[u].prev # None => call'[u].on = call[u].on)
    BY <1>1, <2>1 DEF Wrote, Others, Kept
  <2> QED BY <1>1, <2>1, <2>2, MetadataKept
<1>3. CASE op \in Transitions
  <2>1. /\ \A u \in Tasks : call[u].prev = None
        /\ view' = Blank /\ call'[t].prev = Snapshot
    <3>1. call[t].pc \in {"idle", "lock"} /\ \A u \in Tasks : u # t => call[u].op \notin Transitions
      BY DEF Wrote
    <3> QED BY <1>3, <3>1, NoPrev DEF Wrote
  <2>2. Snapshot.id = session_id /\ Snapshot.view = view /\ Snapshot.strays = strays /\ Snapshot # None
    BY <1>0, SnapshotIs
  <2>3. \A p \in Parts : view'[p] = None
    BY <2>1, BlankIs
  <2>4. Own(session_id, view, strays)
    BY <1>0, <2>1 DEF Metadata
  <2>5. \A u \in Tasks : call'[u].prev # None => Own(call'[u].prev.id, call'[u].prev.view, call'[u].prev.strays)
    BY <1>0, <1>1, <2>1, <2>2, <2>4 DEF Metadata
  <2>6. call'[t].prev # None
    BY <2>1, <2>2
  <2> QED BY <2>3, <2>5, <2>6 DEF Metadata
<1> QED BY <1>2, <1>3

LEMMA EndedMetadata ==
  ASSUME StateInv, NEW t \in Tasks, Ended(t), EndsSomehow(t)
  PROVE  Metadata'
<1>0. Metadata /\ StateTypes
  BY DEF StateInv
<1>1. /\ call'[t].prev = None
      /\ \A u \in Tasks : u # t => call'[u].prev = call[u].prev /\ call'[u].on = call[u].on
  BY DEF Ended, Others, Kept
<1>2. \A u \in Tasks : call[u].op \notin Transitions => call[u].prev = None
  BY NoPrev
<1>3. ASSUME \A u \in Tasks : u # t => call[u].prev = None,
             \A p \in Parts : session_id' # None /\ view'[p] # None => view'[p].of = session_id' \/ p \in strays'
      PROVE  Metadata'
  <2>1. \A u \in Tasks : call'[u].prev = None
    BY <1>1, <1>3
  <2> QED BY <1>3, <2>1 DEF Metadata, Own
<1>4. CASE EndsPlain(t)
  <2>1. call[t].prev = None /\ UNCHANGED <<session_id, view, strays>>
    BY <1>4 DEF EndsPlain
  <2>2. \A u \in Tasks : call'[u].prev = call[u].prev /\ (call[u].prev # None => call'[u].on = call[u].on)
    BY <1>1, <2>1
  <2> QED BY <2>1, <2>2, MetadataKept
<1>5. CASE EndsBack(t)
  <2>1. Own(call[t].prev.id, call[t].prev.view, call[t].prev.strays)
    BY <1>0, <1>5 DEF EndsBack, Metadata
  <2>2. session_id' = call[t].prev.id /\ view' = call[t].prev.view /\ strays' = call[t].prev.strays
    BY <1>5 DEF EndsBack, Restored
  <2>3. \A u \in Tasks : u # t => call[u].prev = None
    <3>1. \A u \in Tasks : u # t => call[u].op \notin Transitions
      BY <1>5, NoPrev DEF EndsBack, Transitions
    <3> QED BY <1>2, <3>1
  <2> QED BY <1>3, <2>1, <2>2, <2>3 DEF Own
<1>6. CASE EndsChanged(t)
  <2> DEFINE f == call[t].reply
  <2>1. /\ f.how = "ok" /\ call[t].op \in Transitions /\ call[t].pc = "answered"
        /\ session_id' = f.of /\ view' = Captured(f.new) /\ strays' = {p \in strays : f.new[p] = None}
    BY <1>6 DEF EndsChanged, Succeeds
  <2>2. /\ f \in Answers /\ Fits(f, t) /\ call[t].prev # None
    BY <2>1 DEF StateInv, Staged, Matched, Serving
  <2>3. \A u \in Tasks : u # t => call[u].prev = None
    <3>1. \A u \in Tasks : u # t => call[u].op \notin Transitions
      BY <2>2, NoPrev DEF Transitions
    <3> QED BY <1>2, <3>1
  <2>4. call[t].op = "resume" => f.of = call[t].on
    BY <2>1, <2>2 DEF Fits
  <2>5. call[t].op = "new" => call[t].on = None
    BY DEF StateInv, Staged
  <2>6. \A p \in Parts : f.new[p] # None => f.new[p].of = f.of
    BY <2>1, <2>2 DEF Fits
  <2>7. f.new \in Views
    BY <2>2, AnswerIs
  <2>8. \A p \in Parts : view'[p] = IF f.new[p] # None THEN f.new[p] ELSE view[p]
    BY <1>0, <2>1, <2>7, CapturedIs
  <2>9. \A p \in Parts : view[p] # None => view[p].of \in Sessions /\ (view[p].of = call[t].on \/ p \in strays)
    <3>1. \A p \in Parts : view[p] \in [of : Sessions, n : Nat] \cup {None}
      BY <1>0 DEF StateTypes, Views, Metas
    <3> QED BY <1>0, <2>2, <3>1 DEF Metadata
  <2> HIDE DEF f
  <2>10. ASSUME NEW p \in Parts, view'[p] # None PROVE view'[p].of = session_id' \/ p \in strays'
    <3>1. CASE f.new[p] # None
      BY <2>1, <2>6, <2>8, <3>1
    <3>2. CASE f.new[p] = None
      <4>1. view'[p] = view[p]
        BY <2>8, <3>2
      <4>2. CASE p \in strays
        BY <2>1, <3>2, <4>2
      <4>3. CASE p \notin strays
        <5>1. view[p].of = call[t].on /\ view[p].of \in Sessions
          BY <2>9, <2>10, <4>1, <4>3
        <5>2. call[t].on # None
          BY <5>1, SessionStateAssumption
        <5> QED BY <2>1, <2>4, <2>5, <4>1, <5>1, <5>2 DEF Transitions
      <4> QED BY <4>2, <4>3
    <3> QED BY <3>1, <3>2
  <2> QED BY <1>3, <2>3, <2>10
<1>7. CASE EndsClosed(t)
  <2>1. session_id' = None /\ call[t].op = "close"
    BY <1>7 DEF EndsClosed
  <2>2. \A u \in Tasks : call[u].prev = None
    BY <2>1, NoPrev DEF Transitions
  <2> QED BY <1>3, <2>1, <2>2
<1>8. CASE EndsSet(t)
  <2> DEFINE f == call[t].reply
  <2>1. /\ f.how = "ok" /\ call[t].op \in {"set_config", "set_mode"} /\ call[t].pc = "answered"
        /\ UNCHANGED <<session_id, transition>>
        /\ \/ view' = Captured(f.new)
           \/ view' = view /\ call[t].op = "set_mode"
        /\ strays' = IF call[t].op = "set_config" THEN strays \ {"options"} ELSE strays
    BY <1>8 DEF EndsSet, Succeeds
  <2>2. f \in Answers /\ Fits(f, t) /\ session_id \in {call[t].on, None}
    BY <2>1 DEF StateInv, Staged, Matched
  <2>3. /\ \A p \in Parts : f.new[p] # None => f.new[p].of = call[t].on
        /\ call[t].op = "set_config" => f.new["options"] # None
    BY <2>1, <2>2 DEF Fits
  <2>4. f.new \in Views
    BY <2>2, AnswerIs
  <2>5. \A p \in Parts : Captured(f.new)[p] = IF f.new[p] # None THEN f.new[p] ELSE view[p]
    BY <1>0, <2>4, CapturedIs
  <2>6. \A u \in Tasks : call[u].prev = None
    BY <2>1, NoPrev DEF Transitions
  <2>7. session_id # None => \A p \in Parts : view[p] # None => view[p].of = session_id \/ p \in strays
    BY <1>0, <2>6 DEF Metadata, Own
  <2> HIDE DEF f
  <2>8. ASSUME NEW p \in Parts, session_id # None, view'[p] # None
        PROVE  view'[p].of = session_id \/ p \in strays'
    <3>1. CASE view' = Captured(f.new) /\ f.new[p] # None
      BY <2>2, <2>3, <2>5, <2>8, <3>1
    <3>2. CASE view'[p] = view[p] /\ ~(call[t].op = "set_config" /\ p = "options")
      BY <2>1, <2>7, <2>8, <3>2
    <3> QED BY <2>1, <2>3, <2>5, <3>1, <3>2
  <2> QED BY <1>3, <2>1, <2>6, <2>8
<1> QED BY <1>4, <1>5, <1>6, <1>7, <1>8 DEF EndsSomehow

LEMMA UpdateMetadata ==
  ASSUME StateInv, TakesUpdate
  PROVE  Metadata'
<1> DEFINE f == wire[1]
<1>0. Metadata /\ StateTypes
  BY DEF StateInv
<1>1. /\ Takes /\ f.kind \in Parts /\ f.of \in {session_id, transition.id} /\ call' = call
      /\ session_id' = session_id /\ link = "up"
  BY DEF TakesUpdate, Takes
<1>2. wire[1] \in Frames
  BY <1>1, TakenIs
<1>3. f.of \in Sessions /\ f.of # None
  BY <1>1, <1>2, FrameIs, SessionStateAssumption
<1>4. CASE UNCHANGED <<view, strays>>
  BY <1>1, <1>4, MetadataKept
<1>5. CASE /\ view' = [view EXCEPT ![f.kind] = [of |-> f.of, n |-> f.n]]
           /\ strays' = IF transition.active /\ f.of # transition.id
                        THEN strays \cup {f.kind} ELSE strays \ {f.kind}
  <2>1. view \in [Parts -> Metas]
    BY <1>0 DEF StateTypes, Views
  <2>2. PICK m : m = [of |-> f.of, n |-> f.n]
    OBVIOUS
  <2>3. m.of = f.of
    BY <2>2
  <2>4. view'[f.kind] = m /\ \A p \in Parts : p # f.kind => view'[p] = view[p]
    BY <1>1, <1>5, <2>1, <2>2
  <2> HIDE DEF f
  <2>5. CASE \E u \in Tasks : call[u].prev # None
    <3>1. transition.active /\ \A u \in Tasks : call[u].prev # None => transition.id = call[u].on
      BY <1>1, <2>5 DEF StateInv, Changing
    <3>2. ASSUME NEW u \in Tasks, call[u].prev # None, NEW p \in Parts, view'[p] # None
          PROVE  view'[p].of = call[u].on \/ p \in strays'
      <4>1. transition.id = call[u].on /\ (view[p] # None => view[p].of = call[u].on \/ p \in strays)
        BY <1>0, <3>1, <3>2 DEF Metadata
      <4> QED BY <1>5, <2>3, <2>4, <3>1, <3>2, <4>1
    <3> QED BY <1>0, <1>1, <2>5, <3>2 DEF Metadata
  <2>6. CASE \A u \in Tasks : call[u].prev = None
    <3>1. session_id # None => \A p \in Parts : view[p] # None => view[p].of = session_id \/ p \in strays
      BY <1>0, <2>6 DEF Metadata, Own
    <3>2. ~transition.active /\ f.of = session_id
      BY <1>1, <1>3, <2>6 DEF StateInv, Changing
    <3>3. session_id # None => \A p \in Parts : view'[p] # None => view'[p].of = session_id \/ p \in strays'
      BY <1>5, <2>3, <2>4, <3>1, <3>2
    <3> QED BY <1>1, <2>6, <3>3 DEF Metadata, Own
  <2> QED BY <2>5, <2>6
<1> QED BY <1>4, <1>5 DEF TakesUpdate

LEMMA OtherMetadata ==
  ASSUME StateInv,
         \/ \E t \in Tasks : GaveUp(t) \/ \E op, s : Queues(t, op, s)
         \/ LostAll \/ Unread \/ TakesSaid \/ TakesAnswer \/ TakesNothing
  PROVE  Metadata'
<1>1. UNCHANGED <<session_id, view, strays>>
  BY DEF Queues, GaveUp, LostAll, Unread, TakesSaid, TakesAnswer, TakesNothing, Takes
<1>2. \A u \in Tasks : call'[u].prev = call[u].prev /\ (call[u].prev # None => call'[u].on = call[u].on)
  <2>1. \A u \in Tasks : call[u].op = "idle" => call[u].prev = None
    BY NoPrev DEF Transitions
  <2> QED BY <2>1
        DEF Queues, GaveUp, LostAll, Unread, TakesSaid, TakesAnswer, TakesNothing, Others, Kept
<1> QED BY <1>1, <1>2, MetadataKept

-----------------------------------------------------------------------------
(* The session: client and agent *)

LEMMA AgreesDown == ASSUME link' # "up" PROVE Agrees'
BY DEF Agrees

\* A transition is the only call there is.
LEMMA Lone ==
  ASSUME StateInv, NEW t \in Tasks, call[t].op \in Transitions
  PROVE  \A u \in Tasks : u # t => call[u].op = "idle" /\ call[u].pc = "idle"
BY DEF StateInv, Staged, Apart

\* A request of a transition is of the transition that is served.
LEMMA OrderOfTransition ==
  ASSUME StateInv, link = "up", NEW i \in 1 .. Len(requests), requests[i].op \in Transitions
  PROVE  /\ requests[i].by \in Tasks /\ call[requests[i].by].pc = "wait"
         /\ call[requests[i].by].op = requests[i].op /\ call[requests[i].by].on = requests[i].on
<1>1. requests[i].by \in Tasks /\ call[requests[i].by].pc = "wait"
  BY UnderWay DEF StateInv, Tokens
<1> QED BY <1>1 DEF StateInv, Matched

\* What agrees as long as no transition is served, and no session is deleted.
LEMMA AgreedNow ==
  ASSUME StateInv, link = "up"
  PROVE  /\ (\A t \in Tasks : call[t].op \notin Transitions) =>
              current = session_id \/ (current = None /\ \E t \in Tasks : ClosedBy(t))
         /\ \A t \in Tasks : call[t].op \in Transitions /\ call[t].pc = "lock" => current = session_id
         /\ \A i \in 1 .. Len(requests) : requests[i].op \in Transitions => current = session_id
         /\ \A k \in 1 .. Len(wire), t \in Tasks : Responds(k, t) => Bearing(wire[k], t)
         /\ \A t \in Tasks : call[t].pc = "answered" => Bearing(call[t].reply, t)
         /\ \A t \in Tasks : call[t].op = "delete" => call[t].on # current
BY DEF StateInv, Agrees

LEMMA WroteAgrees ==
  ASSUME StateInv, NEW t \in Tasks, NEW op, NEW s, Wrote(t, op, s)
  PROVE  Agrees'
<1>0. /\ link = "up" /\ link' = "up" /\ UNCHANGED <<wire, session_id, current>>
      /\ call[t].pc \in {"idle", "lock"} /\ op \in AllCalls
      /\ \/ call[t].pc = "idle" /\ call[t].op = "idle" /\ op \notin Locked
         \/ call[t].pc = "lock" /\ call[t].op = op /\ op \in Locked
      /\ \A u \in Tasks : u # t =>
            call[u].op \notin Transitions /\ (op \in Transitions => call[u].op = "idle")
      /\ call'[t].op = op /\ call'[t].on = s /\ call'[t].pc = "wait" /\ Others(t)
      /\ (op \in OfSession => s # None) /\ (op = "delete" => s # session_id)
  BY DEF Wrote
<1>1. /\ Len(requests) \in Nat /\ Len(requests') = Len(requests) + 1
      /\ \A i \in 1 .. Len(requests) : requests'[i] = requests[i]
      /\ requests'[Len(requests) + 1].op = op
  BY WroteOrder, UnderWay
<1>2. \A k \in 1 .. Len(wire) : ~Responds(k, t)
  BY <1>0, NothingOf
<1>3. \A u \in Tasks : ClosedBy(u) => u # t /\ ClosedBy(u)'
  <2> SUFFICES ASSUME NEW u \in Tasks, ClosedBy(u) PROVE u # t /\ ClosedBy(u)'
    OBVIOUS
  <2>1. u # t
    BY <1>0, <1>2 DEF ClosedBy
  <2>2. Kept(u)
    BY <1>0, <2>1 DEF Others
  <2> QED BY <1>0, <2>1, <2>2 DEF ClosedBy, Kept, Responds
<1>4. (\A u \in Tasks : call'[u].op \notin Transitions) =>
        current' = session_id' \/ (current' = None /\ \E u \in Tasks : ClosedBy(u)')
  <2>1. (\A u \in Tasks : call'[u].op \notin Transitions) => \A u \in Tasks : call[u].op \notin Transitions
    BY <1>0 DEF Transitions
  <2> QED BY <1>0, <1>3, <2>1, AgreedNow
<1>5. \A u \in Tasks : call'[u].op \in Transitions /\ call'[u].pc = "lock" => current' = session_id'
  BY <1>0 DEF Others, Kept
<1>6. \A i \in 1 .. Len(requests') : requests'[i].op \in Transitions => current' = session_id'
  <2>1. op \in Transitions => current = session_id
    <3>1. CASE op = "resume"
      BY <1>0, <3>1, AgreedNow DEF Transitions, Locked
    <3>2. CASE op = "new"
      <4>1. \A u \in Tasks : call[u].op = "idle"
        BY <1>0, <3>2 DEF Transitions, Locked
      <4> QED BY <1>0, <4>1, AgreedNow DEF ClosedBy, Transitions
    <3> QED BY <3>1, <3>2 DEF Transitions
  <2>2. \A i \in 1 .. Len(requests) : requests[i].op \in Transitions => current = session_id
    BY <1>0, AgreedNow
  <2> QED BY <1>0, <1>1, <2>1, <2>2
<1>7. \A k \in 1 .. Len(wire'), u \in Tasks : Responds(k, u)' => Bearing(wire[k], u)'
  <2> SUFFICES ASSUME NEW k \in 1 .. Len(wire'), NEW u \in Tasks, Responds(k, u)' PROVE Bearing(wire[k], u)'
    OBVIOUS
  <2>1. Responds(k, u) /\ k \in 1 .. Len(wire) /\ u # t
    BY <1>0, <1>2 DEF Responds
  <2>2. Bearing(wire[k], u) /\ Kept(u)
    BY <1>0, <2>1, AgreedNow DEF Others
  <2> QED BY <1>0, <2>2 DEF Bearing, Kept
<1>8. \A u \in Tasks : call'[u].pc = "answered" => Bearing(call[u].reply, u)'
  <2> SUFFICES ASSUME NEW u \in Tasks, call'[u].pc = "answered" PROVE Bearing(call[u].reply, u)'
    OBVIOUS
  <2>1. Kept(u)
    BY <1>0 DEF Others
  <2>2. Bearing(call[u].reply, u)
    BY <1>0, <2>1, AgreedNow DEF Kept
  <2> QED BY <1>0, <2>1, <2>2 DEF Bearing, Kept
<1>9. \A u \in Tasks : call'[u].op = "delete" => call'[u].on # current'
  <2> SUFFICES ASSUME NEW u \in Tasks, call'[u].op = "delete" PROVE call'[u].on # current'
    OBVIOUS
  <2>1. CASE u = t
    <3>1. op = "delete" /\ call[t].op = "idle"
      BY <1>0, <2>1 DEF Locked
    <3>2. \A v \in Tasks : call[v].op \notin Transitions
      BY <1>0, <3>1 DEF Transitions
    <3>3. current \in {session_id, None}
      BY <1>0, <3>2, AgreedNow
    <3> QED BY <1>0, <2>1, <3>1, <3>3 DEF OfSession
  <2>2. CASE u # t
    BY <1>0, <2>2, AgreedNow DEF Others, Kept
  <2> QED BY <2>1, <2>2
<1> QED BY <1>4, <1>5, <1>6, <1>7, <1>8, <1>9 DEF Agrees

LEMMA QueuedAgrees ==
  ASSUME StateInv, NEW t \in Tasks, NEW op, NEW s, Queues(t, op, s)
  PROVE  Agrees'
<1> SUFFICES ASSUME link' = "up" PROVE Agrees'
  BY AgreesDown
<1>0. /\ link = "up" /\ UNCHANGED <<wire, session_id, current, requests>>
      /\ op \in Locked /\ call[t].op = "idle" /\ call[t].pc = "idle"
      /\ \A u \in Tasks : u # t =>
            call[u].op \notin Transitions /\ (op \in Transitions => call[u].op = "idle")
      /\ call'[t].op = op /\ call'[t].on = s /\ call'[t].pc = "lock" /\ Others(t)
  BY DEF Queues, StateInv, Staged
<1>2. \A k \in 1 .. Len(wire) : ~Responds(k, t)
  BY <1>0, NothingOf
<1>3. \A u \in Tasks : ClosedBy(u) => u # t /\ ClosedBy(u)'
  <2> SUFFICES ASSUME NEW u \in Tasks, ClosedBy(u) PROVE u # t /\ ClosedBy(u)'
    OBVIOUS
  <2>1. u # t
    BY <1>0, <1>2 DEF ClosedBy
  <2>2. Kept(u)
    BY <1>0, <2>1 DEF Others
  <2> QED BY <1>0, <2>1, <2>2 DEF ClosedBy, Kept, Responds
<1>4. \A u \in Tasks : call[u].op \notin Transitions
  BY <1>0 DEF Transitions
<1>5. current = session_id \/ (current = None /\ \E u \in Tasks : ClosedBy(u))
  BY <1>0, <1>4, AgreedNow
<1>6. \A u \in Tasks : call'[u].op \in Transitions /\ call'[u].pc = "lock" => current' = session_id'
  <2> SUFFICES ASSUME NEW u \in Tasks, call'[u].op \in Transitions PROVE current = session_id
    BY <1>0
  <2>1. u = t
    BY <1>0, <1>4 DEF Others, Kept
  <2>2. \A v \in Tasks : call[v].op = "idle"
    BY <1>0, <2>1
  <2> QED BY <1>5, <2>2 DEF ClosedBy
<1>7. \A k \in 1 .. Len(wire'), u \in Tasks : Responds(k, u)' => Bearing(wire[k], u)'
  <2> SUFFICES ASSUME NEW k \in 1 .. Len(wire'), NEW u \in Tasks, Responds(k, u)' PROVE Bearing(wire[k], u)'
    OBVIOUS
  <2>1. Responds(k, u) /\ k \in 1 .. Len(wire) /\ u # t
    BY <1>0, <1>2 DEF Responds
  <2>2. Bearing(wire[k], u) /\ Kept(u)
    BY <1>0, <2>1, AgreedNow DEF Others
  <2> QED BY <1>0, <2>2 DEF Bearing, Kept
<1>8. \A u \in Tasks : call'[u].pc = "answered" => Bearing(call[u].reply, u)'
  <2> SUFFICES ASSUME NEW u \in Tasks, call'[u].pc = "answered" PROVE Bearing(call[u].reply, u)'
    OBVIOUS
  <2>1. Kept(u)
    BY <1>0 DEF Others
  <2>2. Bearing(call[u].reply, u)
    BY <1>0, <2>1, AgreedNow DEF Kept
  <2> QED BY <1>0, <2>1, <2>2 DEF Bearing, Kept
<1>9. \A u \in Tasks : call'[u].op = "delete" => call'[u].on # current'
  BY <1>0, AgreedNow DEF Others, Kept, Locked
<1> QED BY <1>0, <1>3, <1>5, <1>6, <1>7, <1>8, <1>9, AgreedNow DEF Agrees

\* A transition that ends leaves nothing under way.
LEMMA NothingWaits ==
  ASSUME StateInv, link = "up", \A u \in Tasks : call[u].pc # "wait"
  PROVE  /\ \A i \in 1 .. Len(requests) : FALSE
         /\ \A k \in 1 .. Len(wire), u \in Tasks : ~Responds(k, u)
<1>1. \A i \in 1 .. Len(requests) : FALSE
  BY UnderWay DEF StateInv, Tokens
<1> QED BY <1>1, NothingOf

LEMMA EndedAgrees ==
  ASSUME StateInv, NEW t \in Tasks, Ended(t), EndsSomehow(t)
  PROVE  Agrees'
<1> SUFFICES ASSUME link' = "up" PROVE Agrees'
  BY AgreesDown
<1>0. /\ link = "up" /\ UNCHANGED <<wire, current, requests>>
      /\ call[t].pc \in {"lock", "answered"} /\ call'[t].op = "idle" /\ call'[t].pc = "idle" /\ Others(t)
  BY DEF Ended, StateInv, Staged
<1>1. \A k \in 1 .. Len(wire) : ~Responds(k, t)
  BY <1>0, NothingOf
<1>2. \A u \in Tasks : call'[u].op = "delete" => call'[u].on # current'
  BY <1>0, AgreedNow DEF Others, Kept
<1>3. CASE call[t].op \in Transitions
  <2>1. \A u \in Tasks : u # t => call[u].op = "idle" /\ call[u].pc = "idle"
    BY <1>3, Lone
  <2>2. \A u \in Tasks : call'[u].op = "idle" /\ call'[u].pc = "idle" /\ call[u].pc # "wait"
    BY <1>0, <2>1 DEF Others, Kept
  <2>3. /\ \A i \in 1 .. Len(requests) : FALSE
        /\ \A k \in 1 .. Len(wire), u \in Tasks : ~Responds(k, u)
    BY <1>0, <2>2, NothingWaits
  <2>4. current = session_id'
    <3>1. CASE EndsPlain(t)
      <4>1. call[t].pc = "lock"
        BY <1>0, <1>3, <3>1, NoPrev DEF EndsPlain, Serving
      <4> QED BY <1>0, <1>3, <3>1, <4>1, AgreedNow DEF EndsPlain
    <3>2. CASE EndsBack(t)
      <4>1. call[t].pc = "answered" /\ call[t].reply.how # "ok"
        BY <1>0, <3>2, NoPrev DEF EndsBack, Succeeds
      <4>2. session_id' = session_id
        BY <3>2, EndedSession DEF EndsBack, EndsChanged, EndsClosed
      <4>3. Bearing(call[t].reply, t)
        BY <1>0, <4>1, AgreedNow
      <4> QED BY <1>3, <4>1, <4>2, <4>3 DEF Bearing
    <3>3. CASE EndsChanged(t)
      <4>1. Bearing(call[t].reply, t) /\ call[t].reply.how = "ok" /\ session_id' = call[t].reply.of
        BY <1>0, <3>3, AgreedNow DEF EndsChanged, Succeeds
      <4> QED BY <1>3, <4>1 DEF Bearing
    <3>4. ~EndsClosed(t) /\ ~EndsSet(t)
      BY <1>3 DEF EndsClosed, EndsSet, Transitions
    <3> QED BY <3>1, <3>2, <3>3, <3>4 DEF EndsSomehow
  <2>5. \A k \in 1 .. Len(wire'), u \in Tasks : ~Responds(k, u)'
    BY <1>0, <2>3 DEF Responds
  <2> QED BY <1>0, <1>2, <2>2, <2>3, <2>4, <2>5 DEF Agrees, Transitions
<1>4. CASE call[t].op \notin Transitions
  <2>1. \A u \in Tasks : call'[u].op \in Transitions => u # t /\ call[u].op \in Transitions /\ FALSE
    <3> SUFFICES ASSUME NEW u \in Tasks, call'[u].op \in Transitions PROVE FALSE
      OBVIOUS
    <3>1. u # t /\ call[u].op \in Transitions
      BY <1>0 DEF Others, Kept, Transitions
    <3>2. call[t].pc = "idle"
      BY <3>1, Lone
    <3> QED BY <1>0, <3>2
  <2>2. \A u \in Tasks : call[u].op \notin Transitions
    BY <1>0, <1>4, <2>1 DEF Others, Kept
  <2>3. \A i \in 1 .. Len(requests) : requests[i].op \notin Transitions
    BY <1>0, <2>2, OrderOfTransition
  <2>4. current = session_id \/ (current = None /\ \E u \in Tasks : ClosedBy(u))
    BY <1>0, <2>2, AgreedNow
  <2>5. session_id' = session_id \/ (EndsClosed(t) /\ session_id' = None)
    BY <1>4, EndedSession DEF EndsChanged, EndsClosed
  <2>6. CASE session_id' = session_id /\ ~EndsClosed(t)
    <3>1. \A u \in Tasks : ClosedBy(u) => u # t /\ ClosedBy(u)'
      <4> SUFFICES ASSUME NEW u \in Tasks, ClosedBy(u) PROVE u # t /\ ClosedBy(u)'
        OBVIOUS
      <4>1. u # t
        <5> SUFFICES ASSUME u = t PROVE FALSE
          OBVIOUS
        <5>1. Succeeds(t) /\ call[t].op = "close" /\ call[t].on = session_id
          BY <1>1 DEF ClosedBy, Succeeds
        <5> QED BY <2>6, <5>1 DEF EndsSomehow, EndsPlain, EndsBack, EndsChanged, EndsSet, Transitions
      <4>2. Kept(u)
        BY <1>0, <4>1 DEF Others
      <4> QED BY <1>0, <2>6, <4>1, <4>2 DEF ClosedBy, Kept, Responds
    <3>2. \A k \in 1 .. Len(wire'), u \in Tasks : Responds(k, u)' => Bearing(wire[k], u)'
      <4> SUFFICES ASSUME NEW k \in 1 .. Len(wire'), NEW u \in Tasks, Responds(k, u)' PROVE Bearing(wire[k], u)'
        OBVIOUS
      <4>1. Responds(k, u) /\ k \in 1 .. Len(wire) /\ u # t
        BY <1>0, <1>1 DEF Responds
      <4>2. Bearing(wire[k], u) /\ Kept(u)
        BY <1>0, <4>1, AgreedNow DEF Others
      <4> QED BY <1>0, <2>6, <4>2 DEF Bearing, Kept
    <3>3. \A u \in Tasks : call'[u].pc = "answered" => Bearing(call[u].reply, u)'
      <4> SUFFICES ASSUME NEW u \in Tasks, call'[u].pc = "answered" PROVE Bearing(call[u].reply, u)'
        OBVIOUS
      <4>1. Kept(u)
        BY <1>0 DEF Others
      <4>2. Bearing(call[u].reply, u)
        BY <1>0, <4>1, AgreedNow DEF Kept
      <4> QED BY <1>0, <2>6, <4>1, <4>2 DEF Bearing, Kept
    <3> QED BY <1>0, <1>2, <2>1, <2>3, <2>4, <2>6, <3>1, <3>2, <3>3 DEF Agrees
  <2>7. CASE EndsClosed(t)
    <3>1. session_id' = None /\ call[t].op = "close" /\ call[t].on = session_id /\ call[t].pc = "answered" /\ call[t].reply.how = "ok"
      BY <2>7 DEF EndsClosed, Succeeds
    <3>2. current = None
      <4>1. Bearing(call[t].reply, t)
        BY <1>0, <3>1, AgreedNow
      <4> QED BY <3>1, <4>1 DEF Bearing
    <3>3. \A u \in Tasks : call[u].op = "close" => call[u].on # None
      BY DEF StateInv, Staged, OfSession
    <3>4. \A k \in 1 .. Len(wire'), u \in Tasks : Responds(k, u)' => Bearing(wire[k], u)'
      <4> SUFFICES ASSUME NEW k \in 1 .. Len(wire'), NEW u \in Tasks, Responds(k, u)' PROVE Bearing(wire[k], u)'
        OBVIOUS
      <4>1. Kept(u)
        BY <1>0, <1>1 DEF Others, Responds
      <4> QED BY <2>2, <3>1, <3>2, <3>3, <4>1 DEF Bearing, Kept
    <3>5. \A u \in Tasks : call'[u].pc = "answered" => Bearing(call[u].reply, u)'
      <4> SUFFICES ASSUME NEW u \in Tasks, call'[u].pc = "answered" PROVE Bearing(call[u].reply, u)'
        OBVIOUS
      <4>1. Kept(u)
        BY <1>0 DEF Others
      <4> QED BY <2>2, <3>1, <3>2, <3>3, <4>1 DEF Bearing, Kept
    <3> QED BY <1>0, <1>2, <2>1, <2>3, <3>1, <3>2, <3>4, <3>5 DEF Agrees
  <2> QED BY <2>5, <2>6, <2>7
<1> QED BY <1>3, <1>4

LEMMA HandledAgrees ==
  ASSUME StateInv, NEW f, NEW n, Handled(f, n)
  PROVE  Agrees'
<1> SUFFICES ASSUME link' = "up" PROVE Agrees'
  BY AgreesDown
<1>r. requests[1] \in Orders /\ requests[1].by \in Tasks
  BY Read DEF Handled
<1>s. PICK r \in Orders, t \in Tasks : r = requests[1] /\ t = r.by
  BY <1>r
<1>0. /\ link = "up" /\ UNCHANGED <<call, session_id>> /\ f.to = r.by /\ Suits(f, r) /\ n \in {1, 2}
      /\ f.kind = "response" /\ (n = 2 => wire'[Len(wire) + 1].kind # "response")
      /\ requests # <<>> /\ requests' = Tail(requests) /\ f.of \in Names
      /\ current' = IF f.how = "ok" /\ r.op \in Transitions THEN f.of
                    ELSE IF f.how = "ok" /\ r.op \in {"close", "delete"} /\ current = r.on THEN None
                    ELSE current
  BY <1>s, AnswerIs DEF Handled, Unread
<1>1. /\ Len(requests) \in Nat /\ Len(requests) >= 1
      /\ \A i \in 1 .. Len(requests') : requests'[i] = requests[i + 1] /\ i + 1 \in 1 .. Len(requests)
      /\ t \in Tasks /\ call[t].pc = "wait"
      /\ \A k \in 1 .. Len(wire) : ~Responds(k, t)
      /\ \A i \in 1 .. Len(requests') : requests'[i].by # t
  BY <1>0, <1>s, Read
<1>2. /\ Len(wire) \in Nat /\ wire'[Len(wire) + n] = f
      /\ \A k \in 1 .. Len(wire) : wire'[k] = wire[k]
      /\ \A k \in 1 .. Len(wire') : k \in 1 .. Len(wire) \/ k = Len(wire) + n \/ (n = 2 /\ k = Len(wire) + 1)
      /\ Len(wire) + n \in 1 .. Len(wire')
      /\ \A k \in 1 .. Len(wire) : k \in 1 .. Len(wire')
  <2>1. Sends(f, n)
    BY DEF Handled
  <2> QED BY <1>0, <2>1, SentIs
<1>m. PICK m : m = Len(wire) + n
  OBVIOUS
<1>3. /\ \A u : \A k \in 1 .. Len(wire') : Responds(k, u)' => (k \in 1 .. Len(wire) /\ Responds(k, u)) \/ (k = m /\ u = t)
      /\ m \in 1 .. Len(wire') /\ wire'[m] = f /\ Responds(m, t)'
  <2>1. \A u : \A k \in 1 .. Len(wire') : Responds(k, u)' => (k \in 1 .. Len(wire) /\ Responds(k, u)) \/ (k = m /\ u = t)
    BY <1>0, <1>2, <1>s, <1>m DEF Responds
  <2>2. m \in 1 .. Len(wire') /\ wire'[m] = f
    BY <1>2, <1>m
  <2>3. Responds(m, t)'
    BY <1>0, <1>s, <2>2 DEF Responds
  <2> QED BY <2>1, <2>2, <2>3
<1>4. 1 \in 1 .. Len(requests)
  BY <1>1
<1>5. r.op = call[t].op /\ r.on = call[t].on /\ (r.op \in OfSession => r.on # None)
  BY <1>1, <1>4, <1>s DEF StateInv, Matched
<1>6. r.op \in Transitions => current = session_id
  BY <1>0, <1>4, <1>s, AgreedNow
<1>7. call[t].op # "idle" /\ \A u \in Tasks : u # t => call[u].op \notin Transitions
  BY <1>1, Lone DEF StateInv, Staged
<1>8. r.op \notin Transitions =>
        /\ \A u \in Tasks : call[u].op \notin Transitions
        /\ current = session_id \/ (current = None /\ \E u \in Tasks : ClosedBy(u))
  <2> SUFFICES ASSUME r.op \notin Transitions
               PROVE  /\ \A u \in Tasks : call[u].op \notin Transitions
                      /\ current = session_id \/ (current = None /\ \E u \in Tasks : ClosedBy(u))
    OBVIOUS
  <2>1. \A u \in Tasks : call[u].op \notin Transitions
    BY <1>5, <1>7
  <2> QED BY <1>0, <2>1, AgreedNow
<1>9. \A u \in Tasks : ClosedBy(u) => ClosedBy(u)'
  BY <1>0, <1>2 DEF ClosedBy, Responds
<1>10. r.op = "delete" => r.on # current
  BY <1>0, <1>1, <1>5, AgreedNow
<1>11. (\A u \in Tasks : call'[u].op \notin Transitions) =>
        current' = session_id' \/ (current' = None /\ \E u \in Tasks : ClosedBy(u)')
  <2> SUFFICES ASSUME \A u \in Tasks : call[u].op \notin Transitions
               PROVE  current' = session_id' \/ (current' = None /\ \E u \in Tasks : ClosedBy(u)')
    BY <1>0
  <2>1. r.op \notin Transitions
    BY <1>1, <1>5
  <2>2. CASE current' = current
    BY <1>0, <1>8, <1>9, <2>1, <2>2
  <2>3. CASE f.how = "ok" /\ r.op = "close" /\ current = r.on /\ current' = None
    <3>1. call[t].op = "close" /\ call[t].on = session_id
      BY <1>5, <1>8, <2>1, <2>3 DEF OfSession
    <3>2. ClosedBy(t)'
      BY <1>0, <1>3, <2>3, <3>1 DEF ClosedBy
    <3> QED BY <1>1, <2>3, <3>2
  <2> QED BY <1>0, <1>10, <2>1, <2>2, <2>3
<1>12. \A u \in Tasks : ~(call'[u].op \in Transitions /\ call'[u].pc = "lock")
  BY <1>0, <1>1, <1>7
<1>13. \A i \in 1 .. Len(requests') : requests'[i].op \notin Transitions
  <2> SUFFICES ASSUME NEW i \in 1 .. Len(requests'), requests'[i].op \in Transitions PROVE FALSE
    OBVIOUS
  <2>1. requests'[i] = requests[i + 1] /\ i + 1 \in 1 .. Len(requests) /\ requests'[i].by # t
    BY <1>1
  <2>2. requests[i + 1].by \in Tasks /\ call[requests[i + 1].by].op \in Transitions
    BY <1>0, <2>1, OrderOfTransition
  <2> QED BY <1>7, <2>1, <2>2
<1>14. ASSUME NEW u \in Tasks, u # t, NEW g, Bearing(g, u)
       PROVE  Bearing(g, u)'
  <2>1. call[u].op \notin Transitions
    BY <1>7, <1>14
  <2>2. ASSUME call[u].op = "close", g.how = "ok", call[u].on = session_id
        PROVE  current' = None
    <3>1. current = None
      BY <1>14, <2>2 DEF Bearing
    <3>2. r.op \notin Transitions
      <4> SUFFICES ASSUME r.op \in Transitions PROVE FALSE
        OBVIOUS
      <4>1. call[u].op = "idle"
        BY <1>1, <1>5, <1>14, Lone
      <4> QED BY <2>2, <4>1
    <3> QED BY <1>0, <3>1, <3>2
  <2> QED BY <1>0, <2>1, <2>2 DEF Bearing
<1>15. Bearing(f, t)'
  <2>1. ASSUME call[t].op \in Transitions
        PROVE  current' = IF f.how = "ok" THEN f.of ELSE session_id
    BY <1>0, <1>5, <1>6, <2>1 DEF Transitions
  <2>2. ASSUME call[t].op = "close", f.how = "ok", call[t].on = session_id
        PROVE  current' = None
    BY <1>0, <1>5, <1>8, <2>2 DEF Transitions
  <2> QED BY <1>0, <2>1, <2>2 DEF Bearing
<1>16. \A k \in 1 .. Len(wire'), u \in Tasks : Responds(k, u)' => Bearing(wire[k], u)'
  <2> SUFFICES ASSUME NEW k \in 1 .. Len(wire'), NEW u \in Tasks, Responds(k, u)' PROVE Bearing(wire[k], u)'
    OBVIOUS
  <2>1. CASE k \in 1 .. Len(wire) /\ Responds(k, u)
    <3>1. u # t /\ wire'[k] = wire[k]
      BY <1>1, <1>2, <2>1
    <3>2. Bearing(wire[k], u)
      BY <1>0, <2>1, AgreedNow
    <3>3. PICK g : g = wire[k]
      OBVIOUS
    <3>4. Bearing(g, u)'
      BY <1>14, <3>1, <3>2, <3>3
    <3> QED BY <3>1, <3>3, <3>4 DEF Bearing
  <2>2. CASE k = m /\ u = t
    BY <1>3, <1>15, <2>2 DEF Bearing
  <2> QED BY <1>3, <2>1, <2>2
<1>17. \A u \in Tasks : call'[u].pc = "answered" => Bearing(call[u].reply, u)'
  <2> SUFFICES ASSUME NEW u \in Tasks, call'[u].pc = "answered" PROVE Bearing(call[u].reply, u)'
    OBVIOUS
  <2>1. u # t /\ Bearing(call[u].reply, u)
    BY <1>0, <1>1, AgreedNow
  <2>2. PICK g : g = call[u].reply
    OBVIOUS
  <2>3. Bearing(g, u)'
    BY <1>14, <2>1, <2>2
  <2> QED BY <1>0, <2>2, <2>3 DEF Bearing
<1>18. \A u \in Tasks : call'[u].op = "delete" => call'[u].on # current'
  <2> SUFFICES ASSUME NEW u \in Tasks, call[u].op = "delete" PROVE call[u].on # current'
    BY <1>0
  <2>1. call[u].on # None /\ call[u].on # current
    BY <1>0, AgreedNow DEF StateInv, Staged, OfSession
  <2>2. r.op \notin Transitions
    <3> SUFFICES ASSUME r.op \in Transitions PROVE FALSE
      OBVIOUS
    <3>1. u # t /\ call[t].op \in Transitions
      BY <1>5 DEF Transitions
    <3>2. call[u].op = "idle"
      BY <1>1, <3>1, Lone
    <3> QED BY <3>2
  <2> QED BY <1>0, <2>1, <2>2
<1> QED BY <1>11, <1>12, <1>13, <1>16, <1>17, <1>18 DEF Agrees

\* The agent goes on with its work: nothing changes hands but prompts.
LEMMA SpokenAgrees ==
  ASSUME StateInv, NEW f, WritesText(f) \/ Concludes(f) \/ Announces(f)
  PROVE  Agrees'
<1> SUFFICES ASSUME link' = "up" PROVE Agrees'
  BY AgreesDown
<1>0. /\ link = "up" /\ UNCHANGED <<call, session_id, requests, current>> /\ Sends(f, 1)
      /\ f.kind # "response" \/ (job.to # None /\ f.kind = "response" /\ f.to = job.to)
  BY AnswerIs DEF WritesText, Concludes, Announces, Unread, Parts
<1>1. /\ Len(wire) \in Nat /\ wire'[Len(wire) + 1] = f
      /\ \A k \in 1 .. Len(wire) : wire'[k] = wire[k] /\ k \in 1 .. Len(wire')
      /\ \A k \in 1 .. Len(wire') : k \in 1 .. Len(wire) \/ k = Len(wire) + 1
  BY <1>0, SentIs
<1>2. \A k \in 1 .. Len(wire'), u \in Tasks : Responds(k, u)' => Bearing(wire[k], u)'
  <2> SUFFICES ASSUME NEW k \in 1 .. Len(wire'), NEW u \in Tasks, Responds(k, u)' PROVE Bearing(wire[k], u)'
    OBVIOUS
  <2>1. CASE k \in 1 .. Len(wire)
    <3>1. Responds(k, u) /\ wire'[k] = wire[k]
      BY <1>1, <2>1 DEF Responds
    <3>2. Bearing(wire[k], u)
      BY <1>0, <2>1, <3>1, AgreedNow
    <3> QED BY <1>0, <3>1, <3>2 DEF Bearing
  <2>2. CASE k = Len(wire) + 1
    <3>1. u = job.to /\ job.to # None
      BY <1>0, <1>1, <2>2 DEF Responds
    <3>2. call[u].op = "prompt"
      BY <1>0, <3>1, AtWork
    <3> QED BY <1>0, <3>2 DEF Bearing, Transitions
  <2> QED BY <1>1, <2>1, <2>2
<1>3. \A u \in Tasks : ClosedBy(u) => ClosedBy(u)'
  BY <1>0, <1>1 DEF ClosedBy, Responds
<1>4. \A u \in Tasks : call'[u].pc = "answered" => Bearing(call[u].reply, u)'
  BY <1>0, AgreedNow DEF Bearing
<1> QED BY <1>0, <1>2, <1>3, <1>4, AgreedNow DEF Agrees

LEMMA PromptedAgrees ==
  ASSUME StateInv, Prompted
  PROVE  Agrees'
<1> SUFFICES ASSUME link' = "up" PROVE Agrees'
  BY AgreesDown
<1>0. /\ link = "up" /\ UNCHANGED <<call, session_id, wire, current>>
      /\ requests # <<>> /\ requests' = Tail(requests)
  BY DEF Prompted, Unread
<1>1. \A i \in 1 .. Len(requests') : requests'[i] = requests[i + 1] /\ i + 1 \in 1 .. Len(requests)
  BY <1>0, Read
<1>2. \A i \in 1 .. Len(requests') : requests'[i].op \in Transitions => current' = session_id'
  BY <1>0, <1>1, AgreedNow
<1>3. \A k \in 1 .. Len(wire'), u \in Tasks : Responds(k, u)' => Bearing(wire[k], u)'
  BY <1>0, AgreedNow DEF Bearing, Responds
<1>4. \A u \in Tasks : call'[u].pc = "answered" => Bearing(call[u].reply, u)'
  BY <1>0, AgreedNow DEF Bearing
<1>5. \A u \in Tasks : ClosedBy(u) => ClosedBy(u)'
  BY <1>0 DEF ClosedBy, Responds
<1> QED BY <1>0, <1>2, <1>3, <1>4, <1>5, AgreedNow DEF Agrees

LEMMA TakenAgrees ==
  ASSUME StateInv, TakesSaid \/ TakesUpdate \/ TakesNothing \/ TakesAnswer
  PROVE  Agrees'
<1> SUFFICES ASSUME link' = "up" PROVE Agrees'
  BY AgreesDown
<1>0. Takes /\ UNCHANGED <<link, requests, session_id, current>> /\ link = "up"
  BY DEF TakesSaid, TakesUpdate, TakesAnswer, TakesNothing, Takes
<1>1. /\ Len(wire) \in Nat /\ 1 \in 1 .. Len(wire)
      /\ \A k \in 1 .. Len(wire') : wire'[k] = wire[k + 1] /\ k + 1 \in 1 .. Len(wire) /\ k + 1 # 1
      /\ \A k \in 1 .. Len(wire) : k # 1 => k - 1 \in 1 .. Len(wire') /\ wire'[k - 1] = wire[k]
      /\ \A u : \A k \in 1 .. Len(wire') : Responds(k, u)' <=> Responds(k + 1, u)
  BY <1>0, TakenIs
<1>2. \A u \in Tasks : call'[u].op = call[u].op /\ call'[u].on = call[u].on
  BY DEF TakesSaid, TakesUpdate, TakesAnswer, TakesNothing, Others, Kept
<1>3. \A u \in Tasks :
        \/ call'[u].pc = call[u].pc /\ call'[u].reply = call[u].reply
        \/ call[u].pc = "wait" /\ call'[u].pc = "answered" /\ call'[u].reply = wire[1] /\ Responds(1, u)
  BY DEF TakesSaid, TakesUpdate, TakesAnswer, TakesNothing, Others, Kept, Responds
<1>4. \A u \in Tasks : Responds(1, u) => call'[u].pc = "answered" /\ call'[u].reply = wire[1]
  BY <1>0 DEF TakesSaid, TakesUpdate, TakesAnswer, TakesNothing, Responds, Parts
<1>5. \A u \in Tasks : ClosedBy(u) => ClosedBy(u)'
  <2> SUFFICES ASSUME NEW u \in Tasks, ClosedBy(u) PROVE ClosedBy(u)'
    OBVIOUS
  <2>1. CASE call[u].pc = "answered" /\ call[u].reply.how = "ok"
    BY <1>0, <1>2, <1>3, <2>1 DEF ClosedBy
  <2>2. CASE \E k \in 1 .. Len(wire) : Responds(k, u) /\ wire[k].how = "ok"
    <3>1. PICK k \in 1 .. Len(wire) : Responds(k, u) /\ wire[k].how = "ok"
      BY <2>2
    <3>2. CASE k = 1
      BY <1>0, <1>2, <1>4, <3>1, <3>2 DEF ClosedBy
    <3>3. CASE k # 1
      <4>1. k - 1 \in 1 .. Len(wire') /\ wire'[k - 1] = wire[k]
        BY <1>1, <3>3
      <4>2. Responds(k - 1, u)'
        BY <3>1, <4>1 DEF Responds
      <4> QED BY <1>0, <1>2, <3>1, <4>1, <4>2 DEF ClosedBy
    <3> QED BY <3>2, <3>3
  <2> QED BY <2>1, <2>2 DEF ClosedBy
<1>6. \A k \in 1 .. Len(wire'), u \in Tasks : Responds(k, u)' => Bearing(wire[k], u)'
  <2> SUFFICES ASSUME NEW k \in 1 .. Len(wire'), NEW u \in Tasks, Responds(k, u)' PROVE Bearing(wire[k], u)'
    OBVIOUS
  <2>1. Responds(k + 1, u) /\ k + 1 \in 1 .. Len(wire) /\ wire'[k] = wire[k + 1]
    BY <1>1
  <2>2. Bearing(wire[k + 1], u)
    BY <1>0, <2>1, AgreedNow
  <2> QED BY <1>0, <1>2, <2>1, <2>2 DEF Bearing
<1>7. \A u \in Tasks : call'[u].pc = "answered" => Bearing(call[u].reply, u)'
  <2> SUFFICES ASSUME NEW u \in Tasks, call'[u].pc = "answered" PROVE Bearing(call[u].reply, u)'
    OBVIOUS
  <2>1. CASE call'[u].pc = call[u].pc /\ call'[u].reply = call[u].reply
    <3>1. Bearing(call[u].reply, u)
      BY <1>0, <2>1, AgreedNow
    <3> QED BY <1>0, <1>2, <2>1, <3>1 DEF Bearing
  <2>2. CASE call'[u].reply = wire[1] /\ Responds(1, u)
    <3>1. Bearing(wire[1], u)
      BY <1>0, <1>1, <2>2, AgreedNow
    <3> QED BY <1>0, <1>2, <2>2, <3>1 DEF Bearing
  <2> QED BY <1>3, <2>1, <2>2
<1>8. \A u \in Tasks : call'[u].op \in Transitions /\ call'[u].pc = "lock" => current' = session_id'
  <2> SUFFICES ASSUME NEW u \in Tasks, call'[u].op \in Transitions, call'[u].pc = "lock" PROVE current' = session_id'
    OBVIOUS
  <2>1. call[u].op \in Transitions /\ call[u].pc = "lock"
    BY <1>2, <1>3
  <2> QED BY <1>0, <2>1, AgreedNow
<1>9. (\A u \in Tasks : call'[u].op \notin Transitions) =>
        current' = session_id' \/ (current' = None /\ \E u \in Tasks : ClosedBy(u)')
  BY <1>0, <1>2, <1>5, AgreedNow
<1>10. \A u \in Tasks : call'[u].op = "delete" => call'[u].on # current'
  BY <1>0, <1>2, AgreedNow
<1>11. \A i \in 1 .. Len(requests') : requests'[i].op \in Transitions => current' = session_id'
  BY <1>0, AgreedNow
<1> QED BY <1>6, <1>7, <1>8, <1>9, <1>10, <1>11 DEF Agrees

-----------------------------------------------------------------------------
(* The session: the text of its prompts *)

LEMMA TextingDown == ASSUME link' # "up" PROVE Texting'
BY DEF Texting

\* What is known of the text under way.
LEMMA TextingNow ==
  ASSUME StateInv, link = "up"
  PROVE  /\ (\A t \in Tasks : ~Tells(t)) => Texts = {}
         /\ \A t \in Tasks : Tells(t) =>
              /\ Asks(t) => Texts = {}
              /\ \A k \in 1 .. Len(wire) : Responds(k, t) => \A j \in Texts : j < k
         /\ \A t \in Tasks : Tells(t) /\ call[t].op = "prompt" =>
              /\ \A k \in Texts : Live(wire[k], t)
              /\ \A n \in 1 .. Len(chunks) : Live(chunks[n], t)
              /\ Asks(t) => chunks = <<>>
              /\ Told(t) => job.sent = Len(chunks) + Cardinality(Texts)
         /\ \A t \in Tasks : call[t].op = "prompt" /\ call[t].pc = "answered" /\ call[t].reply.how = "ok" =>
              /\ job.to = None /\ Len(chunks) = job.sent
              /\ \A n \in 1 .. Len(chunks) : Live(chunks[n], t)
BY DEF StateInv, Texting

\* One call at a time makes the agent write text.
LEMMA OneTeller ==
  ASSUME StateInv, NEW t \in Tasks, NEW u \in Tasks,
         call[t].op \in {"prompt", "new", "resume"}, Serving(t),
         call[u].op \in {"prompt", "new", "resume"}, Serving(u)
  PROVE  t = u
<1>1. CASE call[t].op \in Transitions
  BY <1>1, Lone DEF Transitions
<1>2. CASE call[u].op \in Transitions
  BY <1>2, Lone DEF Transitions
<1>3. CASE call[t].op = "prompt" /\ call[u].op = "prompt"
  BY <1>3 DEF StateInv, Apart, Locked
<1> QED BY <1>1, <1>2, <1>3 DEF Transitions

LEMMA TextsFinite ==
  ASSUME StateInv
  PROVE  IsFiniteSet(Texts) /\ Cardinality(Texts) \in Nat /\ Texts \subseteq 1 .. Len(wire)
<1>1. Len(wire) \in Nat
  BY UnderWay
<1>2. IsFiniteSet(1 .. Len(wire)) /\ Texts \subseteq 1 .. Len(wire)
  BY <1>1, FS_Interval DEF Texts
<1>3. IsFiniteSet(Texts)
  BY <1>2, FS_Subset
<1> QED BY <1>2, <1>3, FS_CardinalityType

\* A set of positions loses its first one, and moves down.
LEMMA MovedDown ==
  ASSUME NEW S, S \subseteq Nat, IsFiniteSet(S), NEW T, T = {k - 1 : k \in S \ {1}}
  PROVE  Cardinality(T) = IF 1 \in S THEN Cardinality(S) - 1 ELSE Cardinality(S)
<1> DEFINE R == S \ {1}
           f == [k \in R |-> k - 1]
<1>1. IsFiniteSet(R) /\ Cardinality(R) = IF 1 \in S THEN Cardinality(S) - 1 ELSE Cardinality(S)
  BY FS_RemoveElement
<1>2. R \subseteq Nat /\ T = {k - 1 : k \in R}
  OBVIOUS
<1> HIDE DEF R
<1>3. f \in [R -> T]
  BY <1>2
<1>4. IsInjective(f)
  BY <1>2 DEF IsInjective
<1>5. \A x \in T : \E k \in R : f[k] = x
  BY <1>2
<1>6. f \in Bijection(R, T)
  BY <1>3, <1>4, <1>5 DEF Bijection, Injection, Surjection
<1>7. ExistsBijection(R, T)
  BY <1>6 DEF ExistsBijection
<1> QED BY <1>1, <1>7, FS_Bijection

LEMMA TextsTaken ==
  ASSUME StateInv, Takes
  PROVE  /\ \A k \in Texts' : k + 1 \in Texts /\ wire'[k] = wire[k + 1]
         /\ Cardinality(Texts') = IF wire[1].kind = "text" THEN Cardinality(Texts) - 1 ELSE Cardinality(Texts)
         /\ wire[1].kind = "text" <=> 1 \in Texts
         /\ Texts = {} => Texts' = {}
<1>1. /\ Len(wire) \in Nat /\ 1 \in 1 .. Len(wire)
      /\ \A k \in 1 .. Len(wire') : wire'[k] = wire[k + 1] /\ k + 1 \in 1 .. Len(wire) /\ k + 1 # 1
      /\ \A k \in 1 .. Len(wire) : k # 1 => k - 1 \in 1 .. Len(wire') /\ wire'[k - 1] = wire[k]
      /\ Len(wire') = Len(wire) - 1
  BY TakenIs
<1>2. PICK T : T = Texts'
  OBVIOUS
<1>3. T = {k \in 1 .. Len(wire') : wire'[k].kind = "text"}
  BY <1>2 DEF Texts
<1>4. \A k \in T : k + 1 \in Texts /\ wire'[k] = wire[k + 1]
  BY <1>1, <1>3 DEF Texts
<1>5. T = {k - 1 : k \in Texts \ {1}}
  <2>1. ASSUME NEW k \in T PROVE k \in {j - 1 : j \in Texts \ {1}}
    <3>1. k + 1 \in Texts \ {1} /\ k = (k + 1) - 1
      BY <1>1, <1>3, <1>4
    <3> QED BY <3>1
  <2>2. ASSUME NEW k \in Texts \ {1} PROVE k - 1 \in T
    BY <1>1, <1>3 DEF Texts
  <2> QED BY <2>1, <2>2
<1>6. wire[1].kind = "text" <=> 1 \in Texts
  BY <1>1 DEF Texts
<1>7. Cardinality(T) = IF 1 \in Texts THEN Cardinality(Texts) - 1 ELSE Cardinality(Texts)
  <2>1. IsFiniteSet(Texts) /\ Texts \subseteq Nat
    BY <1>1, TextsFinite
  <2> QED BY <1>5, <2>1, MovedDown
<1> QED BY <1>2, <1>4, <1>5, <1>6, <1>7

LEMMA TextsSent ==
  ASSUME StateInv, NEW f, NEW n \in {1, 2}, Sends(f, n)
  PROVE  /\ f.kind # "text" /\ (n = 2 => wire'[Len(wire) + 1].kind # "text") => Texts' = Texts
         /\ f.kind = "text" /\ n = 1 => /\ Texts' = Texts \cup {Len(wire) + 1}
                                        /\ Cardinality(Texts') = Cardinality(Texts) + 1
         /\ \A k \in Texts : wire'[k] = wire[k]
         /\ \A k \in Texts' : k \in Texts \/ k = Len(wire) + n \/ (n = 2 /\ k = Len(wire) + 1)
<1>1. /\ Len(wire) \in Nat /\ Len(wire') = Len(wire) + n /\ wire'[Len(wire) + n] = f
      /\ \A k \in 1 .. Len(wire) : wire'[k] = wire[k]
      /\ \A k \in 1 .. Len(wire') : k \in 1 .. Len(wire) \/ k = Len(wire) + n \/ (n = 2 /\ k = Len(wire) + 1)
      /\ Len(wire) + n \in 1 .. Len(wire')
  BY SentIs
<1>2. PICK T : T = Texts'
  OBVIOUS
<1>3. T = {k \in 1 .. Len(wire') : wire'[k].kind = "text"}
  BY <1>2 DEF Texts
<1>4. Texts \subseteq 1 .. Len(wire) /\ Texts \subseteq T
  BY <1>1, <1>3 DEF Texts
<1>5. f.kind # "text" /\ (n = 2 => wire'[Len(wire) + 1].kind # "text") => T = Texts
  BY <1>1, <1>3, <1>4 DEF Texts
<1>6. f.kind = "text" /\ n = 1 => T = Texts \cup {Len(wire) + 1}
  BY <1>1, <1>3, <1>4 DEF Texts
<1>7. f.kind = "text" /\ n = 1 => Cardinality(T) = Cardinality(Texts) + 1
  <2>1. IsFiniteSet(Texts) /\ Len(wire) + 1 \notin Texts
    BY <1>1, <1>4, TextsFinite
  <2> QED BY <1>6, <2>1, FS_AddElement
<1>8. \A k \in T : k \in Texts \/ k = Len(wire) + n \/ (n = 2 /\ k = Len(wire) + 1)
  BY <1>1, <1>3 DEF Texts
<1> QED BY <1>1, <1>2, <1>4, <1>5, <1>6, <1>7, <1>8

\* Calls that come and go beside the text.
LEMMA TextingKept ==
  ASSUME StateInv, link = "up", UNCHANGED <<wire, requests, chunks, job>>,
         \A u \in Tasks :
            /\ Tells(u)' <=> Tells(u)
            /\ Tells(u) => call'[u].op = call[u].op /\ call'[u].on = call[u].on
            /\ call'[u].pc = "answered" =>
                  /\ call[u].pc = "answered" /\ call'[u].op = call[u].op /\ call'[u].on = call[u].on
                  /\ call'[u].reply = call[u].reply
  PROVE  Texting'
<1>1. Texts' = Texts /\ \A u : (Asks(u)' <=> Asks(u)) /\ (Told(u)' <=> Told(u)) /\ \A k : (Responds(k, u)' <=> Responds(k, u))
  BY DEF Texts, Asks, Told, Responds
<1>2. (\A t \in Tasks : ~Tells(t)') => Texts' = {}
  BY <1>1, TextingNow
<1>3. \A t \in Tasks : Tells(t)' =>
        /\ Asks(t)' => Texts' = {}
        /\ \A k \in 1 .. Len(wire') : Responds(k, t)' => \A j \in Texts' : j < k
  BY <1>1, TextingNow
<1>4. \A t \in Tasks : Tells(t)' /\ call'[t].op = "prompt" =>
        /\ \A k \in Texts' : Live(wire[k], t)'
        /\ \A n \in 1 .. Len(chunks') : Live(chunks[n], t)'
        /\ Asks(t)' => chunks' = <<>>
        /\ Told(t)' => job'.sent = Len(chunks') + Cardinality(Texts')
  BY <1>1, TextingNow DEF Live
<1>5. \A t \in Tasks : call'[t].op = "prompt" /\ call'[t].pc = "answered" /\ call'[t].reply.how = "ok" =>
        /\ job'.to = None /\ Len(chunks') = job'.sent
        /\ \A n \in 1 .. Len(chunks') : Live(chunks[n], t)'
  BY TextingNow DEF Live
<1> QED BY <1>2, <1>3, <1>4, <1>5 DEF Texting

LEMMA QueuedTexting ==
  ASSUME StateInv, NEW t \in Tasks, NEW op, NEW s, Queues(t, op, s)
  PROVE  Texting'
<1> SUFFICES ASSUME link' = "up" PROVE Texting'
  BY TextingDown
<1>1. /\ UNCHANGED <<link, requests, wire, chunks, job>> /\ Others(t)
      /\ call'[t].pc = "lock" /\ call[t].pc = "idle"
  BY DEF Queues, StateInv, Staged
<1> QED BY <1>1, TextingKept DEF Others, Kept, Tells

LEMMA EndedTexting ==
  ASSUME StateInv, NEW t \in Tasks, Ended(t)
  PROVE  Texting'
<1> SUFFICES ASSUME link' = "up" PROVE Texting'
  BY TextingDown
<1>1. /\ UNCHANGED <<link, requests, wire, chunks, job>> /\ Others(t)
      /\ call'[t].pc = "idle" /\ call[t].pc # "wait"
  BY DEF Ended
<1> QED BY <1>1, TextingKept DEF Others, Kept, Tells

LEMMA WroteTexting ==
  ASSUME StateInv, NEW t \in Tasks, NEW op, NEW s, Wrote(t, op, s)
  PROVE  Texting'
<1>0. /\ link = "up" /\ UNCHANGED <<wire, job>>
      /\ call[t].pc \in {"idle", "lock"}
      /\ op \in Locked => \A u \in Tasks : ~(call[u].op \in Locked /\ Serving(u))
      /\ \A u \in Tasks : u # t =>
            call[u].op \notin Transitions /\ (op \in Transitions => call[u].op = "idle")
      /\ call'[t].op = op /\ call'[t].on = s /\ call'[t].pc = "wait" /\ Others(t)
      /\ chunks' = IF op = "prompt" THEN <<>> ELSE chunks
  BY DEF Wrote
<1>1. /\ Len(requests) \in Nat /\ Len(requests') = Len(requests) + 1
      /\ \A i \in 1 .. Len(requests) : requests'[i] = requests[i]
      /\ requests'[Len(requests) + 1].by = t
  BY WroteOrder, UnderWay
<1>2. /\ job.to # t
      /\ \A k \in 1 .. Len(wire) : ~Responds(k, t)
  BY <1>0, NothingOf
<1>3. Texts' = Texts /\ \A u : (Told(u)' <=> Told(u)) /\ \A k : (Responds(k, u)' <=> Responds(k, u))
  BY <1>0 DEF Texts, Told, Responds
<1>4. \A u \in Tasks : u # t => (Asks(u)' => Asks(u)) /\ (Tells(u)' <=> Tells(u)) /\ Kept(u)
  BY <1>0, <1>1 DEF Asks, Tells, Others, Kept
<1>5. ~Tells(t) /\ (Tells(t)' <=> op \in {"prompt", "new", "resume"})
  BY <1>0 DEF Tells
<1>6. op \in {"prompt", "new", "resume"} => Texts = {}
  <2> SUFFICES ASSUME op \in {"prompt", "new", "resume"}, NEW u \in Tasks, Tells(u) PROVE FALSE
    BY <1>0, TextingNow
  <2>1. u # t /\ Serving(u)
    BY <1>5 DEF Tells, Serving
  <2>2. call[u].op = "prompt"
    BY <1>0, <2>1 DEF Tells, Transitions
  <2>3. op \in Locked \/ op \in Transitions
    BY DEF Locked, Transitions
  <2> QED BY <1>0, <2>1, <2>2, <2>3 DEF Locked
<1>7. (\A u \in Tasks : ~Tells(u)') => Texts' = {}
  BY <1>0, <1>3, <1>4, <1>5, TextingNow
<1>8. \A u \in Tasks : Tells(u)' =>
        /\ Asks(u)' => Texts' = {}
        /\ \A k \in 1 .. Len(wire') : Responds(k, u)' => \A j \in Texts' : j < k
  <2> SUFFICES ASSUME NEW u \in Tasks, Tells(u)'
               PROVE  /\ Asks(u)' => Texts' = {}
                      /\ \A k \in 1 .. Len(wire') : Responds(k, u)' => \A j \in Texts' : j < k
    OBVIOUS
  <2>1. CASE u = t
    BY <1>3, <1>5, <1>6, <2>1
  <2>2. CASE u # t
    BY <1>0, <1>3, <1>4, <2>2, TextingNow
  <2> QED BY <2>1, <2>2
<1>9. \A u \in Tasks : Tells(u)' /\ call'[u].op = "prompt" =>
        /\ \A k \in Texts' : Live(wire[k], u)'
        /\ \A n \in 1 .. Len(chunks') : Live(chunks[n], u)'
        /\ Asks(u)' => chunks' = <<>>
        /\ Told(u)' => job'.sent = Len(chunks') + Cardinality(Texts')
  <2> SUFFICES ASSUME NEW u \in Tasks, Tells(u)', call'[u].op = "prompt"
               PROVE  /\ \A k \in Texts' : Live(wire[k], u)'
                      /\ \A n \in 1 .. Len(chunks') : Live(chunks[n], u)'
                      /\ Asks(u)' => chunks' = <<>>
                      /\ Told(u)' => job'.sent = Len(chunks') + Cardinality(Texts')
    OBVIOUS
  <2>1. CASE u = t
    <3>1. Texts' = {} /\ chunks' = <<>> /\ ~Told(u)'
      BY <1>0, <1>2, <1>3, <1>6, <2>1 DEF Told
    <3>2. \A n \in 1 .. Len(chunks') : FALSE
      BY <3>1
    <3> QED BY <3>1, <3>2
  <2>2. CASE u # t
    <3>1. Tells(u) /\ call[u].op = "prompt" /\ Serving(u)
      BY <1>4, <2>2 DEF Kept, Tells, Serving
    <3>2. chunks' = chunks
      BY <1>0, <3>1 DEF Locked
    <3> QED BY <1>0, <1>3, <1>4, <2>2, <3>1, <3>2, TextingNow DEF Live, Kept
  <2> QED BY <2>1, <2>2
<1>10. \A u \in Tasks : call'[u].op = "prompt" /\ call'[u].pc = "answered" /\ call'[u].reply.how = "ok" =>
        /\ job'.to = None /\ Len(chunks') = job'.sent
        /\ \A n \in 1 .. Len(chunks') : Live(chunks[n], u)'
  <2> SUFFICES ASSUME NEW u \in Tasks, call'[u].op = "prompt", call'[u].pc = "answered", call'[u].reply.how = "ok"
               PROVE  /\ job'.to = None /\ Len(chunks') = job'.sent
                      /\ \A n \in 1 .. Len(chunks') : Live(chunks[n], u)'
    OBVIOUS
  <2>1. u # t /\ call[u].op = "prompt" /\ call[u].pc = "answered" /\ call[u].reply.how = "ok" /\ call'[u].on = call[u].on
    BY <1>0 DEF Others, Kept
  <2>2. chunks' = chunks
    BY <1>0, <2>1 DEF Locked, Serving
  <2> QED BY <1>0, <2>1, <2>2, TextingNow DEF Live
<1> QED BY <1>7, <1>8, <1>9, <1>10 DEF Texting

\* The promises of the text, put together again.
LEMMA TextingThen ==
  ASSUME StateInv, link = "up", UNCHANGED call,
         (\A u \in Tasks : ~Tells(u)) => Texts' = {},
         \A u \in Tasks : Tells(u) =>
            /\ Asks(u)' => Texts' = {}
            /\ \A k \in 1 .. Len(wire') : Responds(k, u)' => \A j \in Texts' : j < k,
         \A u \in Tasks : Tells(u) /\ call[u].op = "prompt" =>
            /\ \A k \in Texts' : Live(wire'[k], u)
            /\ \A k \in 1 .. Len(chunks') : Live(chunks'[k], u)
            /\ Asks(u)' => chunks' = <<>>
            /\ Told(u)' => job'.sent = Len(chunks') + Cardinality(Texts'),
         \A u \in Tasks : call[u].op = "prompt" /\ call[u].pc = "answered" /\ call[u].reply.how = "ok" =>
            /\ job'.to = None /\ Len(chunks') = job'.sent
            /\ \A k \in 1 .. Len(chunks') : Live(chunks'[k], u)
  PROVE  Texting'
<1>1. \A u : Tells(u)' <=> Tells(u)
  BY DEF Tells
<1>2. \A u \in Tasks : Tells(u)' /\ call'[u].op = "prompt" =>
        /\ \A k \in Texts' : Live(wire[k], u)'
        /\ \A k \in 1 .. Len(chunks') : Live(chunks[k], u)'
        /\ Asks(u)' => chunks' = <<>>
        /\ Told(u)' => job'.sent = Len(chunks') + Cardinality(Texts')
  BY <1>1 DEF Live
<1>3. \A u \in Tasks : call'[u].op = "prompt" /\ call'[u].pc = "answered" /\ call'[u].reply.how = "ok" =>
        /\ job'.to = None /\ Len(chunks') = job'.sent
        /\ \A k \in 1 .. Len(chunks') : Live(chunks[k], u)'
  BY DEF Live
<1> QED BY <1>1, <1>2, <1>3 DEF Texting

LEMMA HandledTexting ==
  ASSUME StateInv, NEW f, NEW n, Handled(f, n)
  PROVE  Texting'
<1> SUFFICES ASSUME link' = "up" PROVE Texting'
  BY TextingDown
<1>r. requests[1] \in Orders /\ requests[1].by \in Tasks
  BY Read DEF Handled
<1>s. PICK r \in Orders, t \in Tasks : r = requests[1] /\ t = r.by
  BY <1>r
<1>0. /\ link = "up" /\ UNCHANGED <<call, chunks, job>> /\ f.to = r.by /\ n \in {1, 2}
      /\ f.kind = "response" /\ (n = 2 => r.op \in Transitions /\ wire'[Len(wire) + 1].kind = "text")
      /\ requests # <<>> /\ requests' = Tail(requests) /\ (r.op = "prompt" => f.how # "ok") /\ Sends(f, n)
  BY <1>s, AnswerIs DEF Handled, Unread
<1>1. /\ \A i \in 1 .. Len(requests') : requests'[i] = requests[i + 1] /\ i + 1 \in 1 .. Len(requests)
      /\ Len(requests) \in Nat /\ Len(requests) >= 1
      /\ call[t].pc = "wait"
      /\ \A k \in 1 .. Len(wire) : ~Responds(k, t)
      /\ \A i \in 1 .. Len(requests') : requests'[i].by # t
  BY <1>0, <1>s, Read
<1>2. /\ Len(wire) \in Nat /\ wire'[Len(wire) + n] = f
      /\ \A k \in 1 .. Len(wire) : wire'[k] = wire[k]
      /\ \A k \in 1 .. Len(wire') : k \in 1 .. Len(wire) \/ k = Len(wire) + n \/ (n = 2 /\ k = Len(wire) + 1)
      /\ Len(wire) + n \in 1 .. Len(wire')
  BY <1>0, SentIs
<1>m. PICK m : m = Len(wire) + n
  OBVIOUS
<1>3. \A u : \A k \in 1 .. Len(wire') : Responds(k, u)' => (k \in 1 .. Len(wire) /\ Responds(k, u)) \/ (k = m /\ u = t)
  BY <1>0, <1>2, <1>s, <1>m DEF Responds
<1>4. r.op = call[t].op
  BY <1>1, <1>s DEF StateInv, Matched
<1>5. n = 2 => Tells(t) /\ \A u \in Tasks : u # t => ~Tells(u)
  <2>1. n = 2 => call[t].op \in Transitions
    BY <1>0, <1>4
  <2> QED BY <1>1, <2>1, Lone DEF Tells, Transitions
<1>6. /\ n = 1 => Texts' = Texts
      /\ \A k \in Texts : wire'[k] = wire[k]
      /\ \A k \in Texts' : k \in Texts \/ k = Len(wire) + n \/ (n = 2 /\ k = Len(wire) + 1)
      /\ Texts \subseteq 1 .. Len(wire)
  BY <1>0, TextsSent, TextsFinite
<1>7. \A u \in Tasks : Asks(u)' => Asks(u) /\ u # t
  BY <1>1 DEF Asks
<1>8. (\A u \in Tasks : ~Tells(u)) => Texts' = {}
  BY <1>0, <1>5, <1>6, TextingNow
<1>9. \A u \in Tasks : Tells(u) =>
        /\ Asks(u)' => Texts' = {}
        /\ \A k \in 1 .. Len(wire') : Responds(k, u)' => \A j \in Texts' : j < k
  <2> SUFFICES ASSUME NEW u \in Tasks, Tells(u)
               PROVE  /\ Asks(u)' => Texts' = {}
                      /\ \A k \in 1 .. Len(wire') : Responds(k, u)' => \A j \in Texts' : j < k
    OBVIOUS
  <2>1. Asks(u)' => Texts' = {}
    BY <1>0, <1>5, <1>6, <1>7, TextingNow
  <2>2. ASSUME NEW k \in 1 .. Len(wire'), Responds(k, u)', NEW j \in Texts' PROVE j < k
    <3>1. CASE k \in 1 .. Len(wire) /\ Responds(k, u)
      <4>1. n = 1
        BY <1>0, <1>1, <1>5, <3>1
      <4> QED BY <1>0, <1>6, <3>1, <4>1, TextingNow
    <3>2. CASE k = m /\ u = t
      <4>1. j # m
        BY <1>0, <1>2, <1>m DEF Texts
      <4>2. j \in Texts \/ j = m \/ (n = 2 /\ j = Len(wire) + 1)
        BY <1>6, <1>m
      <4>3. CASE j \in Texts
        <5>1. j \in 1 .. Len(wire)
          BY <1>6, <4>3
        <5> QED BY <1>0, <1>2, <1>m, <3>2, <5>1
      <4>4. CASE n = 2 /\ j = Len(wire) + 1
        BY <1>2, <1>m, <3>2, <4>4
      <4> QED BY <4>1, <4>2, <4>3, <4>4
    <3> QED BY <1>3, <2>2, <3>1, <3>2
  <2> QED BY <2>1, <2>2
<1>10. \A u \in Tasks : Tells(u) /\ call[u].op = "prompt" =>
        /\ \A k \in Texts' : Live(wire'[k], u)
        /\ \A k \in 1 .. Len(chunks') : Live(chunks'[k], u)
        /\ Asks(u)' => chunks' = <<>>
        /\ Told(u)' => job'.sent = Len(chunks') + Cardinality(Texts')
  <2> SUFFICES ASSUME NEW u \in Tasks, Tells(u), call[u].op = "prompt"
               PROVE  /\ \A k \in Texts' : Live(wire'[k], u)
                      /\ \A k \in 1 .. Len(chunks') : Live(chunks'[k], u)
                      /\ Asks(u)' => chunks' = <<>>
                      /\ Told(u)' => job'.sent = Len(chunks') + Cardinality(Texts')
    OBVIOUS
  <2>1. n = 1
    BY <1>0, <1>4, <1>5 DEF Transitions
  <2>2. Texts' = Texts
    BY <1>6, <2>1
  <2>3. Told(u)' => Told(u)
    <3> SUFFICES ASSUME NEW k \in 1 .. Len(wire'), Responds(k, u)', wire'[k].how = "ok" PROVE Told(u)
      BY <1>0 DEF Told
    <3>1. CASE k \in 1 .. Len(wire) /\ Responds(k, u)
      BY <1>2, <3>1 DEF Told
    <3>2. CASE k = m /\ u = t
      BY <1>0, <1>2, <1>4, <1>m, <3>2
    <3> QED BY <1>3, <3>1, <3>2
  <2> QED BY <1>0, <1>6, <1>7, <2>2, <2>3, TextingNow
<1>11. \A u \in Tasks : call[u].op = "prompt" /\ call[u].pc = "answered" /\ call[u].reply.how = "ok" =>
        /\ job'.to = None /\ Len(chunks') = job'.sent
        /\ \A k \in 1 .. Len(chunks') : Live(chunks'[k], u)
  BY <1>0, TextingNow
<1> QED BY <1>0, <1>8, <1>9, <1>10, <1>11, TextingThen

LEMMA PromptedTexting ==
  ASSUME StateInv, Prompted
  PROVE  Texting'
<1> SUFFICES ASSUME link' = "up" PROVE Texting'
  BY TextingDown
<1>r. requests[1] \in Orders /\ requests[1].by \in Tasks
  BY Read DEF Prompted
<1>s. PICK t \in Tasks : t = requests[1].by
  BY <1>r
<1>0. /\ link = "up" /\ UNCHANGED <<call, chunks, wire>>
      /\ requests # <<>> /\ requests' = Tail(requests) /\ requests[1].op = "prompt"
      /\ job'.to = t /\ job'.sent = 0
  BY <1>s DEF Prompted, Unread
<1>1. /\ \A i \in 1 .. Len(requests') : requests'[i] = requests[i + 1] /\ i + 1 \in 1 .. Len(requests)
      /\ Len(requests) \in Nat /\ Len(requests) >= 1
      /\ call[t].pc = "wait"
      /\ \A k \in 1 .. Len(wire) : ~Responds(k, t)
  BY <1>0, <1>s, Read
<1>2. call[t].op = "prompt" /\ Tells(t) /\ Asks(t) /\ Serving(t)
  BY <1>0, <1>1, <1>s DEF StateInv, Matched, Tells, Asks, Serving
<1>3. Texts = {} /\ chunks = <<>> /\ Texts' = {}
  BY <1>0, <1>2, TextingNow DEF Texts
<1>4. Cardinality({}) = 0 /\ Len(chunks) = 0
  BY <1>3, FS_EmptySet
<1>5. \A u \in Tasks : Serving(u) /\ call[u].op = "prompt" => u = t
  BY <1>2, OneTeller
<1>6. \A u \in Tasks : Tells(u) /\ call[u].op = "prompt" =>
        /\ \A k \in Texts' : Live(wire'[k], u)
        /\ \A k \in 1 .. Len(chunks') : Live(chunks'[k], u)
        /\ Asks(u)' => chunks' = <<>>
        /\ Told(u)' => job'.sent = Len(chunks') + Cardinality(Texts')
  BY <1>0, <1>3, <1>4
<1>7. \A u \in Tasks : ~(call[u].op = "prompt" /\ call[u].pc = "answered")
  BY <1>1, <1>5 DEF Serving
<1> QED BY <1>0, <1>3, <1>6, <1>7, TextingThen

LEMMA ToldTexting ==
  ASSUME StateInv, NEW f, WritesText(f)
  PROVE  Texting'
<1> SUFFICES ASSUME link' = "up" PROVE Texting'
  BY TextingDown
<1>0. /\ link = "up" /\ UNCHANGED <<call, chunks, requests>> /\ Sends(f, 1)
      /\ f.kind = "text" /\ f.of = job.on /\ f.live = TRUE
      /\ job.to # None /\ job'.to = job.to /\ job'.sent = job.sent + 1
  BY DEF WritesText, Unread
<1>1. /\ job.to \in Tasks /\ call[job.to].pc = "wait" /\ call[job.to].op = "prompt"
      /\ call[job.to].on = job.on
      /\ \A k \in 1 .. Len(wire) : ~Responds(k, job.to)
      /\ \A i \in 1 .. Len(requests) : requests[i].by # job.to
  BY <1>0, AtWork
<1>s. PICK t \in Tasks : t = job.to
  BY <1>1
<1>2. /\ Len(wire) \in Nat /\ wire'[Len(wire) + 1] = f
      /\ \A k \in 1 .. Len(wire) : wire'[k] = wire[k]
      /\ \A k \in 1 .. Len(wire') : k \in 1 .. Len(wire) \/ k = Len(wire) + 1
  BY <1>0, SentIs
<1>3. /\ Texts' = Texts \cup {Len(wire) + 1} /\ Cardinality(Texts') = Cardinality(Texts) + 1
      /\ \A k \in Texts : wire'[k] = wire[k]
      /\ Cardinality(Texts) \in Nat
  BY <1>0, TextsSent, TextsFinite
<1>4. Tells(t) /\ Serving(t) /\ Told(t)
  BY <1>1, <1>s DEF Tells, Serving, Told
<1>5. \A u \in Tasks : Serving(u) /\ call[u].op \in {"prompt", "new", "resume"} => u = t
  BY <1>1, <1>4, <1>s, OneTeller
<1>6. \A u \in Tasks : Tells(u) => u = t
  BY <1>5 DEF Tells, Serving
<1>7. ~Asks(t)' /\ ~Asks(t) /\ \A k \in 1 .. Len(wire') : ~Responds(k, t)'
  <2>1. ~Asks(t)' /\ ~Asks(t)
    BY <1>0, <1>1, <1>s DEF Asks
  <2>2. ASSUME NEW k \in 1 .. Len(wire'), Responds(k, t)' PROVE FALSE
    BY <1>0, <1>1, <1>2, <1>s, <2>2 DEF Responds
  <2> QED BY <2>1, <2>2
<1>8. Live(f, t)
  BY <1>0, <1>1, <1>s DEF Live
<1>9. \A u \in Tasks : Tells(u) /\ call[u].op = "prompt" =>
        /\ \A k \in Texts' : Live(wire'[k], u)
        /\ \A k \in 1 .. Len(chunks') : Live(chunks'[k], u)
        /\ Asks(u)' => chunks' = <<>>
        /\ Told(u)' => job'.sent = Len(chunks') + Cardinality(Texts')
  <2>1. /\ \A k \in Texts : Live(wire[k], t)
        /\ \A k \in 1 .. Len(chunks) : Live(chunks[k], t)
        /\ job.sent = Len(chunks) + Cardinality(Texts)
    BY <1>0, <1>1, <1>4, <1>s, TextingNow
  <2>2. Len(chunks) \in Nat
    BY UnderWay
  <2>3. job'.sent = Len(chunks') + Cardinality(Texts')
    BY <1>0, <1>3, <2>1, <2>2
  <2>4. \A k \in Texts' : Live(wire'[k], t)
    BY <1>2, <1>3, <1>8, <2>1
  <2> QED BY <1>0, <1>6, <1>7, <2>1, <2>3, <2>4
<1>10. \A u \in Tasks : ~(call[u].op = "prompt" /\ call[u].pc = "answered")
  BY <1>1, <1>5, <1>s DEF Serving
<1> QED BY <1>0, <1>4, <1>6, <1>7, <1>9, <1>10, TextingThen

\* An answer, and an update, come after the text.
LEMMA SpokenTexting ==
  ASSUME StateInv, NEW f, Concludes(f) \/ Announces(f)
  PROVE  Texting'
<1> SUFFICES ASSUME link' = "up" PROVE Texting'
  BY TextingDown
<1>0. /\ link = "up" /\ UNCHANGED <<call, chunks, requests>> /\ Sends(f, 1) /\ f.kind # "text"
      /\ \/ f.kind = "response" /\ f.to = job.to /\ job.to # None /\ job'.to = None /\ job'.sent = job.sent
         \/ f.kind # "response" /\ job' = job
  BY AnswerIs DEF Concludes, Announces, Unread, Parts
<1>2. /\ Len(wire) \in Nat /\ wire'[Len(wire) + 1] = f
      /\ \A k \in 1 .. Len(wire) : wire'[k] = wire[k]
      /\ \A k \in 1 .. Len(wire') : k \in 1 .. Len(wire) \/ k = Len(wire) + 1
  BY <1>0, SentIs
<1>3. /\ Texts' = Texts /\ Texts \subseteq 1 .. Len(wire)
      /\ \A k \in Texts : wire'[k] = wire[k]
  BY <1>0, TextsSent, TextsFinite
<1>4. \A u : Asks(u)' <=> Asks(u)
  BY <1>0 DEF Asks
<1>5. \A u : \A k \in 1 .. Len(wire') : Responds(k, u)' =>
        (k \in 1 .. Len(wire) /\ Responds(k, u)) \/ (k = Len(wire) + 1 /\ f.kind = "response" /\ u = job.to)
  BY <1>0, <1>2 DEF Responds
<1>6. \A u \in Tasks : Told(u)' => Told(u)
  <2> SUFFICES ASSUME NEW u \in Tasks, Told(u)', job.to # u PROVE Told(u)
    BY DEF Told
  <2>1. job'.to # u
    BY <1>0, NamesAssumption
  <2>2. PICK k \in 1 .. Len(wire') : Responds(k, u)' /\ wire'[k].how = "ok"
    BY <2>1 DEF Told
  <2>3. k \in 1 .. Len(wire) /\ Responds(k, u) /\ wire[k].how = "ok"
    BY <1>2, <1>5, <2>2
  <2> QED BY <2>3 DEF Told
<1>7. \A u \in Tasks : Tells(u) =>
        /\ Asks(u)' => Texts' = {}
        /\ \A k \in 1 .. Len(wire') : Responds(k, u)' => \A j \in Texts' : j < k
  <2> SUFFICES ASSUME NEW u \in Tasks, Tells(u), NEW k \in 1 .. Len(wire'), Responds(k, u)', NEW j \in Texts
               PROVE  j < k
    BY <1>0, <1>3, <1>4, TextingNow
  <2>1. CASE k \in 1 .. Len(wire) /\ Responds(k, u)
    BY <1>0, <2>1, TextingNow
  <2>2. CASE k = Len(wire) + 1
    BY <1>2, <1>3, <2>2
  <2> QED BY <1>5, <2>1, <2>2
<1>8. \A u \in Tasks : Tells(u) /\ call[u].op = "prompt" =>
        /\ \A k \in Texts' : Live(wire'[k], u)
        /\ \A k \in 1 .. Len(chunks') : Live(chunks'[k], u)
        /\ Asks(u)' => chunks' = <<>>
        /\ Told(u)' => job'.sent = Len(chunks') + Cardinality(Texts')
  BY <1>0, <1>3, <1>4, <1>6, TextingNow
<1>9. \A u \in Tasks : call[u].op = "prompt" /\ call[u].pc = "answered" /\ call[u].reply.how = "ok" =>
        /\ job'.to = None /\ Len(chunks') = job'.sent
        /\ \A k \in 1 .. Len(chunks') : Live(chunks'[k], u)
  BY <1>0, TextingNow
<1> QED BY <1>0, <1>3, <1>7, <1>8, <1>9, TextingNow, TextingThen

\* The first frame is gone, and was no answer.
LEMMA ReadTexting ==
  ASSUME StateInv, TakesSaid \/ TakesUpdate \/ TakesNothing
  PROVE  Texting'
<1> SUFFICES ASSUME link' = "up" PROVE Texting'
  BY TextingDown
<1>0. /\ Takes /\ link = "up" /\ UNCHANGED <<call, requests, job>>
      /\ \/ /\ wire[1].kind = "text"
            /\ chunks' = IF transition.id = None THEN Append(chunks, wire[1]) ELSE chunks
         \/ wire[1].kind # "text" /\ chunks' = chunks
  BY DEF TakesSaid, TakesUpdate, TakesNothing, Takes, Parts
<1>1. /\ Len(wire) \in Nat /\ 1 \in 1 .. Len(wire)
      /\ \A k \in 1 .. Len(wire') : wire'[k] = wire[k + 1] /\ k + 1 \in 1 .. Len(wire) /\ k \in Nat
      /\ \A u : \A k \in 1 .. Len(wire') : Responds(k, u)' <=> Responds(k + 1, u)
  BY <1>0, TakenIs
<1>2. /\ \A k \in Texts' : k + 1 \in Texts /\ wire'[k] = wire[k + 1]
      /\ Cardinality(Texts') = IF wire[1].kind = "text" THEN Cardinality(Texts) - 1 ELSE Cardinality(Texts)
      /\ wire[1].kind = "text" <=> 1 \in Texts
      /\ Texts = {} => Texts' = {}
  BY <1>0, TextsTaken
<1>3. Cardinality(Texts) \in Nat /\ Len(chunks) \in Nat /\ chunks \in Seq(Pieces) /\ Texts' \subseteq Nat
  <2>1. \A k \in Texts' : k \in Nat
    BY <1>1 DEF Texts
  <2> QED BY <2>1, TextsFinite, UnderWay
<1>4. \A u : (Asks(u)' <=> Asks(u)) /\ (Told(u)' => Told(u))
  <2>1. \A u : Asks(u)' <=> Asks(u)
    BY <1>0 DEF Asks
  <2>2. ASSUME NEW u, Told(u)' PROVE Told(u)
    <3>1. CASE job'.to = u
      BY <1>0, <3>1 DEF Told
    <3>2. CASE \E k \in 1 .. Len(wire') : Responds(k, u)' /\ wire'[k].how = "ok"
      <4>1. PICK k \in 1 .. Len(wire') : Responds(k, u)' /\ wire'[k].how = "ok"
        BY <3>2
      <4>2. k + 1 \in 1 .. Len(wire) /\ Responds(k + 1, u) /\ wire[k + 1].how = "ok"
        BY <1>1, <4>1
      <4> QED BY <4>2 DEF Told
    <3> QED BY <2>2, <3>1, <3>2 DEF Told
  <2> QED BY <2>1, <2>2
<1>5. \A u \in Tasks : call[u].op = "prompt" /\ Serving(u) => transition.id = None
  <2> SUFFICES ASSUME NEW u \in Tasks, call[u].op = "prompt", transition.active PROVE FALSE
    BY DEF StateInv, Changing
  <2>1. PICK v \in Tasks : call[v].prev # None
    BY DEF StateInv, Changing
  <2>2. call[v].op \in Transitions
    BY <2>1 DEF StateInv, Staged
  <2> QED BY <2>2, Lone DEF Transitions
<1>6. wire[1].kind = "text" => \E v \in Tasks : Tells(v)
  BY <1>0, <1>2, TextingNow
<1>7. \A u \in Tasks : Tells(u) =>
        /\ Asks(u)' => Texts' = {}
        /\ \A k \in 1 .. Len(wire') : Responds(k, u)' => \A j \in Texts' : j < k
  <2> SUFFICES ASSUME NEW u \in Tasks, Tells(u), NEW k \in 1 .. Len(wire'), Responds(k, u)', NEW j \in Texts'
               PROVE  j < k
    BY <1>0, <1>2, <1>4, TextingNow
  <2>1. k + 1 \in 1 .. Len(wire) /\ Responds(k + 1, u) /\ j + 1 \in Texts
    BY <1>1, <1>2
  <2>2. j + 1 < k + 1
    BY <1>0, <2>1, TextingNow
  <2> QED BY <1>1, <1>3, <2>2
<1>8. \A u \in Tasks : Tells(u) /\ call[u].op = "prompt" =>
        /\ \A k \in Texts' : Live(wire'[k], u)
        /\ \A k \in 1 .. Len(chunks') : Live(chunks'[k], u)
        /\ Asks(u)' => chunks' = <<>>
        /\ Told(u)' => job'.sent = Len(chunks') + Cardinality(Texts')
  <2> SUFFICES ASSUME NEW u \in Tasks, Tells(u), call[u].op = "prompt"
               PROVE  /\ \A k \in Texts' : Live(wire'[k], u)
                      /\ \A k \in 1 .. Len(chunks') : Live(chunks'[k], u)
                      /\ Asks(u)' => chunks' = <<>>
                      /\ Told(u)' => job'.sent = Len(chunks') + Cardinality(Texts')
    OBVIOUS
  <2>1. /\ \A k \in Texts : Live(wire[k], u)
        /\ \A k \in 1 .. Len(chunks) : Live(chunks[k], u)
        /\ Asks(u) => Texts = {} /\ chunks = <<>>
        /\ Told(u) => job.sent = Len(chunks) + Cardinality(Texts)
    BY <1>0, TextingNow
  <2>2. \A k \in Texts' : Live(wire'[k], u)
    BY <1>2, <2>1
  <2>3. CASE wire[1].kind = "text"
    <3>1. transition.id = None
      BY <1>5 DEF Tells, Serving
    <3>2. chunks' = Append(chunks, wire[1]) /\ 1 \in Texts /\ Live(wire[1], u) /\ ~Asks(u)
      BY <1>0, <1>2, <2>1, <2>3, <3>1
    <3>3. PICK c, d, f : c = chunks /\ d = chunks' /\ f = wire[1]
      OBVIOUS
    <3>4. Len(d) = Len(c) + 1 /\ d[Len(c) + 1] = f /\ \A k \in 1 .. Len(c) : d[k] = c[k]
      BY <1>3, <3>2, <3>3, Appended
    <3>5. \A k \in 1 .. Len(chunks') : Live(chunks'[k], u)
      BY <1>3, <2>1, <3>2, <3>3, <3>4
    <3>6. Told(u)' => job'.sent = Len(chunks') + Cardinality(Texts')
      BY <1>0, <1>2, <1>3, <1>4, <2>1, <2>3, <3>3, <3>4
    <3> QED BY <1>4, <2>2, <3>2, <3>5, <3>6
  <2>4. CASE wire[1].kind # "text"
    BY <1>0, <1>2, <1>4, <2>1, <2>2, <2>4
  <2> QED BY <2>3, <2>4
<1>9. \A u \in Tasks : call[u].op = "prompt" /\ call[u].pc = "answered" /\ call[u].reply.how = "ok" =>
        /\ job'.to = None /\ Len(chunks') = job'.sent
        /\ \A k \in 1 .. Len(chunks') : Live(chunks'[k], u)
  <2> SUFFICES ASSUME NEW u \in Tasks, call[u].op = "prompt", call[u].pc = "answered", call[u].reply.how = "ok"
               PROVE  /\ job'.to = None /\ Len(chunks') = job'.sent
                      /\ \A k \in 1 .. Len(chunks') : Live(chunks'[k], u)
    OBVIOUS
  <2>1. \A v \in Tasks : ~Tells(v)
    BY OneTeller DEF Tells, Serving
  <2>2. chunks' = chunks
    BY <1>0, <1>6, <2>1
  <2> QED BY <1>0, <2>2, TextingNow
<1> QED BY <1>0, <1>2, <1>7, <1>8, <1>9, TextingNow, TextingThen

\* The reader brings an answer.
LEMMA AnsweredTexting ==
  ASSUME StateInv, TakesAnswer
  PROVE  Texting'
<1> SUFFICES ASSUME link' = "up" PROVE Texting'
  BY TextingDown
<1>0. /\ Takes /\ link = "up" /\ UNCHANGED <<requests, job, chunks>> /\ wire[1].kind = "response"
  BY DEF TakesAnswer, Takes
<1>1. /\ Len(wire) \in Nat /\ 1 \in 1 .. Len(wire)
      /\ \A k \in 1 .. Len(wire') : wire'[k] = wire[k + 1] /\ k + 1 \in 1 .. Len(wire) /\ k \in Nat
      /\ \A u : \A k \in 1 .. Len(wire') : Responds(k, u)' <=> Responds(k + 1, u)
  BY <1>0, TakenIs
<1>2. /\ \A k \in Texts' : k + 1 \in Texts /\ wire'[k] = wire[k + 1]
      /\ Cardinality(Texts') = Cardinality(Texts)
      /\ Texts = {} => Texts' = {}
      /\ Texts' \subseteq Nat /\ Texts \subseteq 1 .. Len(wire)
  <2>1. \A k \in Texts' : k \in Nat
    BY <1>1 DEF Texts
  <2> QED BY <1>0, <2>1, TextsTaken, TextsFinite
<1>3. PICK t \in Tasks : t = wire[1].to
  BY <1>0, <1>1, UnderWay
<1>4. /\ call[t].pc = "wait" /\ Responds(1, t)
      /\ call'[t].op = call[t].op /\ call'[t].on = call[t].on /\ call'[t].pc = "answered"
      /\ call'[t].reply = wire[1] /\ Others(t)
  BY <1>0, <1>3 DEF TakesAnswer, Responds
<1>5. \A u : (Asks(u)' <=> Asks(u)) /\ (Told(u)' => Told(u))
  <2>1. \A u : Asks(u)' <=> Asks(u)
    BY <1>0 DEF Asks
  <2>2. ASSUME NEW u, Told(u)' PROVE Told(u)
    <3>1. CASE job'.to = u
      BY <1>0, <3>1 DEF Told
    <3>2. CASE \E k \in 1 .. Len(wire') : Responds(k, u)' /\ wire'[k].how = "ok"
      <4>1. PICK k \in 1 .. Len(wire') : Responds(k, u)' /\ wire'[k].how = "ok"
        BY <3>2
      <4>2. k + 1 \in 1 .. Len(wire) /\ Responds(k + 1, u) /\ wire[k + 1].how = "ok"
        BY <1>1, <4>1
      <4> QED BY <4>2 DEF Told
    <3> QED BY <2>2, <3>1, <3>2 DEF Told
  <2> QED BY <2>1, <2>2
<1>6. \A u \in Tasks : Tells(u)' <=> Tells(u) /\ u # t
  BY <1>4 DEF Others, Kept, Tells
<1>7. Tells(t) => Texts = {}
  <2> SUFFICES ASSUME Tells(t), NEW j \in Texts PROVE FALSE
    OBVIOUS
  <2>1. j < 1
    BY <1>0, <1>1, <1>4, TextingNow
  <2> QED BY <1>1, <1>2, <2>1
<1>8. (\A u \in Tasks : ~Tells(u)') => Texts' = {}
  <2> SUFFICES ASSUME \A u \in Tasks : ~Tells(u)' PROVE Texts' = {}
    OBVIOUS
  <2>1. CASE Tells(t)
    BY <1>2, <1>7, <2>1
  <2>2. CASE ~Tells(t)
    BY <1>0, <1>2, <1>6, <2>2, TextingNow
  <2> QED BY <2>1, <2>2
<1>9. \A u \in Tasks : Tells(u)' =>
        /\ Asks(u)' => Texts' = {}
        /\ \A k \in 1 .. Len(wire') : Responds(k, u)' => \A j \in Texts' : j < k
  <2> SUFFICES ASSUME NEW u \in Tasks, Tells(u), NEW k \in 1 .. Len(wire'), Responds(k, u)', NEW j \in Texts'
               PROVE  j < k
    BY <1>0, <1>2, <1>5, <1>6, TextingNow
  <2>1. k + 1 \in 1 .. Len(wire) /\ Responds(k + 1, u) /\ j + 1 \in Texts
    BY <1>1, <1>2
  <2>2. j + 1 < k + 1
    BY <1>0, <2>1, TextingNow
  <2> QED BY <1>1, <1>2, <2>2
<1>10. \A u \in Tasks : Tells(u)' /\ call'[u].op = "prompt" =>
        /\ \A k \in Texts' : Live(wire[k], u)'
        /\ \A k \in 1 .. Len(chunks') : Live(chunks[k], u)'
        /\ Asks(u)' => chunks' = <<>>
        /\ Told(u)' => job'.sent = Len(chunks') + Cardinality(Texts')
  <2> SUFFICES ASSUME NEW u \in Tasks, Tells(u)', call'[u].op = "prompt"
               PROVE  /\ \A k \in Texts' : Live(wire[k], u)'
                      /\ \A k \in 1 .. Len(chunks') : Live(chunks[k], u)'
                      /\ Asks(u)' => chunks' = <<>>
                      /\ Told(u)' => job'.sent = Len(chunks') + Cardinality(Texts')
    OBVIOUS
  <2>1. Tells(u) /\ call[u].op = "prompt" /\ call'[u].on = call[u].on
    BY <1>4, <1>6 DEF Others, Kept
  <2>2. /\ \A k \in Texts : Live(wire[k], u)
        /\ \A k \in 1 .. Len(chunks) : Live(chunks[k], u)
        /\ Asks(u) => chunks = <<>>
        /\ Told(u) => job.sent = Len(chunks) + Cardinality(Texts)
    BY <1>0, <2>1, TextingNow
  <2>3. \A k \in Texts' : Live(wire[k], u)'
    BY <1>2, <2>1, <2>2 DEF Live
  <2>4. \A k \in 1 .. Len(chunks') : Live(chunks[k], u)'
    BY <1>0, <2>1, <2>2 DEF Live
  <2> QED BY <1>0, <1>2, <1>5, <2>2, <2>3, <2>4
<1>11. \A u \in Tasks : call'[u].op = "prompt" /\ call'[u].pc = "answered" /\ call'[u].reply.how = "ok" =>
        /\ job'.to = None /\ Len(chunks') = job'.sent
        /\ \A k \in 1 .. Len(chunks') : Live(chunks[k], u)'
  <2> SUFFICES ASSUME NEW u \in Tasks, call'[u].op = "prompt", call'[u].pc = "answered", call'[u].reply.how = "ok"
               PROVE  /\ job'.to = None /\ Len(chunks') = job'.sent
                      /\ \A k \in 1 .. Len(chunks') : Live(chunks[k], u)'
    OBVIOUS
  <2>1. CASE u # t
    BY <1>0, <1>4, <2>1, TextingNow DEF Others, Kept, Live
  <2>2. CASE u = t
    <3>1. call[t].op = "prompt" /\ Tells(t) /\ Serving(t) /\ Told(t)
      BY <1>1, <1>4, <2>2 DEF Tells, Serving, Told
    <3>2. Texts = {} /\ job.sent = Len(chunks) + Cardinality(Texts)
          /\ \A k \in 1 .. Len(chunks) : Live(chunks[k], t)
      BY <1>0, <1>7, <3>1, TextingNow
    <3>3. Len(chunks) = job.sent
      BY <3>2, FS_EmptySet, UnderWay
    <3>4. job.to = None
      <4> SUFFICES ASSUME job.to # None PROVE FALSE
        OBVIOUS
      <4>1. /\ job.to \in Tasks /\ call[job.to].pc = "wait" /\ call[job.to].op = "prompt"
            /\ \A k \in 1 .. Len(wire) : ~Responds(k, job.to)
        BY <1>0, AtWork
      <4>2. job.to = t
        BY <3>1, <4>1, OneTeller DEF Serving
      <4> QED BY <1>1, <1>4, <4>1, <4>2
    <3>5. \A k \in 1 .. Len(chunks') : Live(chunks[k], t)'
      BY <1>0, <1>4, <3>2 DEF Live
    <3> QED BY <1>0, <2>2, <3>3, <3>4, <3>5
  <2> QED BY <2>1, <2>2
<1> QED BY <1>8, <1>9, <1>10, <1>11 DEF Texting

-----------------------------------------------------------------------------
(* The session: its specification keeps its invariant *)

LEMMA StateInvStarts ==
  ASSUME Init
  PROVE  StateInv
<1>0. /\ link = "up" /\ requests = <<>> /\ wire = <<>> /\ chunks = <<>>
      /\ session_id = None /\ view = Blank /\ transition = [active |-> FALSE, id |-> None]
      /\ call = [t \in Tasks |-> Idle] /\ current = None /\ opened = {} /\ deleted = {}
      /\ version = [s \in Sessions |-> [p \in Parts |-> 0]]
      /\ job = [to |-> None, on |-> None, sent |-> 0] /\ strays = {}
  BY DEF Init
<1>1. \A t \in Tasks :
        /\ call[t] \in CallRecords /\ call[t].op = "idle" /\ call[t].pc = "idle" /\ call[t].prev = None
  BY <1>0, CallIdle
<1>2. StateTypes
  <2>1. call \in [Tasks -> CallRecords]
    BY <1>0, CallIdle
  <2>2. view \in Views
    BY <1>0, BlankIs
  <2>3. version \in [Sessions -> [Parts -> Nat]]
    BY <1>0
  <2>4. job \in [to : Tasks \cup {None}, on : Names, sent : Nat]
    BY <1>0 DEF Names
  <2>5. transition \in [active : BOOLEAN, id : Names]
    BY <1>0 DEF Names
  <2>6. requests \in Seq(Orders) /\ wire \in Seq(Frames) /\ chunks \in Seq(Pieces)
    BY <1>0
  <2> QED BY <1>0, <2>1, <2>2, <2>3, <2>4, <2>5, <2>6 DEF StateTypes, Names
<1>3. Staged
  BY <1>1 DEF Staged, Transitions, OfSession
<1>4. Apart /\ Changing
  <2>1. transition.active = FALSE /\ transition.id = None
    BY <1>0
  <2> QED BY <1>1, <2>1 DEF Apart, Changing, Transitions, Locked
<1>5. /\ \A i \in 1 .. Len(requests) : FALSE
      /\ \A k \in 1 .. Len(wire) : FALSE
      /\ job.to = None
  BY <1>0
<1>6. Matched /\ Tokens
  BY <1>1, <1>5 DEF Matched, Tokens
<1>7. Metadata
  BY <1>0, <1>1 DEF Metadata, Own
<1>8. Agrees
  BY <1>0, <1>1, <1>5 DEF Agrees, Transitions
<1>9. Texting
  BY <1>1, <1>5 DEF Texting, Texts, Tells
<1> QED BY <1>2, <1>3, <1>4, <1>6, <1>7, <1>8, <1>9 DEF StateInv

\* Calls that begin, proceed and end.
LEMMA WroteKeeps ==
  ASSUME StateInv, NEW t \in Tasks, NEW op, NEW s, Wrote(t, op, s), StateTypes'
  PROVE  StateInv'
BY WroteCalls, WroteWay, WroteMetadata, WroteAgrees, WroteTexting DEF StateInv

LEMMA QueuedKeeps ==
  ASSUME StateInv, NEW t \in Tasks, NEW op, NEW s, Queues(t, op, s), StateTypes'
  PROVE  StateInv'
<1>1. Metadata'
  BY OtherMetadata
<1> QED BY <1>1, QueuedCalls, QueuedWay, QueuedAgrees, QueuedTexting DEF StateInv

LEMMA EndedKeeps ==
  ASSUME StateInv, NEW t \in Tasks, Ended(t), EndsSomehow(t), StateTypes'
  PROVE  StateInv'
BY EndedCalls, EndedWay, EndedMetadata, EndedAgrees, EndedTexting DEF StateInv

LEMMA GaveUpKeeps ==
  ASSUME StateInv, NEW t \in Tasks, GaveUp(t), StateTypes'
  PROVE  StateInv'
<1>1. Metadata'
  BY OtherMetadata
<1>2. link' # "up"
  BY DEF GaveUp
<1>3. Staged' /\ Apart' /\ Changing'
  BY GaveUpSteady, SteadyKeeps
<1> QED BY <1>1, <1>2, <1>3, GaveUpWay, AgreesDown, TextingDown DEF StateInv

LEMMA LostKeeps ==
  ASSUME StateInv, LostAll, StateTypes'
  PROVE  StateInv'
<1>1. link' # "up"
  BY DEF LostAll
<1>2. Staged' /\ Apart' /\ Changing'
  BY LostSteady, SteadyKeeps
<1> QED BY <1>1, <1>2, LostWay, OtherMetadata, AgreesDown, TextingDown DEF StateInv

\* The agent.
LEMMA AgentKeeps ==
  ASSUME StateInv, StateTypes',
         \/ Prompted \/ \E f, n : Handled(f, n)
         \/ \E f : WritesText(f) \/ Concludes(f) \/ Announces(f)
  PROVE  StateInv'
<1>1. Unread
  BY DEF Prompted, Handled, WritesText, Concludes, Announces
<1>2. Staged' /\ Apart' /\ Changing' /\ Metadata'
  BY <1>1, UnreadSteady, SteadyKeeps, OtherMetadata
<1>3. Matched' /\ Tokens'
  <2>1. CASE \E f : WritesText(f)
    <3>1. PICK f : WritesText(f)
      BY <2>1
    <3>2. Sends(f, 1) /\ f.kind # "response" /\ UNCHANGED <<call, link, requests>>
          /\ job'.to = job.to /\ job'.on = job.on
      BY <3>1 DEF WritesText, Unread
    <3> QED BY <3>2, SaidWay
  <2>2. CASE \E f : Announces(f)
    <3>1. PICK f : Announces(f)
      BY <2>2
    <3>2. Sends(f, 1) /\ f.kind # "response" /\ UNCHANGED <<call, link, requests>>
          /\ job'.to = job.to /\ job'.on = job.on
      BY <3>1 DEF Announces, Unread, Parts
    <3> QED BY <3>2, SaidWay
  <2> QED BY <2>1, <2>2, PromptedWay, HandledWay, ConcludedWay
<1>4. Agrees'
  BY PromptedAgrees, HandledAgrees, SpokenAgrees
<1>5. Texting'
  BY PromptedTexting, HandledTexting, ToldTexting, SpokenTexting
<1> QED BY <1>2, <1>3, <1>4, <1>5 DEF StateInv

\* The reader.
LEMMA TakenKeeps ==
  ASSUME StateInv, StateTypes', TakesSaid \/ TakesUpdate \/ TakesAnswer \/ TakesNothing
  PROVE  StateInv'
<1>1. Staged' /\ Apart' /\ Changing'
  BY TakenSteady, SteadyKeeps
<1>2. Metadata'
  BY UpdateMetadata, OtherMetadata
<1>3. Matched' /\ Tokens'
  BY TakenWay
<1>4. Agrees'
  BY TakenAgrees
<1>5. Texting'
  BY ReadTexting, AnsweredTexting
<1> QED BY <1>1, <1>2, <1>3, <1>4, <1>5 DEF StateInv

LEMMA StateInvStays ==
  ASSUME StateInv, UNCHANGED vars
  PROVE  StateInv'
<1>1. /\ UNCHANGED <<link, requests, wire, session_id, view, transition, call, chunks>>
      /\ UNCHANGED <<current, opened, deleted, version, job, strays>>
  BY DEF vars, clientVars, agentVars
<1>2. StateTypes'
  BY <1>1 DEF StateInv, StateTypes
<1>3. Steady
  BY <1>1 DEF Steady, StateInv, Staged
<1>4. Staged' /\ Apart' /\ Changing'
  BY <1>3, SteadyKeeps
<1>5. Matched' /\ Tokens'
  BY <1>1, WayKept
<1>6. Metadata'
  BY <1>1, MetadataKept
<1>7. Agrees'
  BY <1>1 DEF StateInv, Agrees, Responds, Bearing, ClosedBy
<1>8. Texting'
  <2>1. CASE link = "up"
    BY <1>1, <2>1, TextingKept DEF Tells
  <2>2. CASE link # "up"
    BY <1>1, <2>2, TextingDown
  <2> QED BY <2>1, <2>2
<1> QED BY <1>2, <1>4, <1>5, <1>6, <1>7, <1>8 DEF StateInv

LEMMA StateInvKept ==
  ASSUME StateInv, ~Concurrent, [Next]_vars
  PROVE  StateInv'
<1>1. ASSUME NEW t \in Tasks, Start(t) PROVE StateInv'
  <2>1. PICK op \in Calls, s \in Sessions \cup {None} : Starts(t, op, s)
    BY <1>1 DEF Start
  <2>2. op \in AllCalls /\ s \in Names
    BY SessionStateAssumption DEF Names
  <2>3. CASE op \in Locked
    BY <2>1, <2>2, <2>3, StartsWaiting, QueuedKeeps
  <2>4. CASE op \notin Locked
    BY <2>1, <2>2, <2>4, StartsWrite, WroteKeeps
  <2> QED BY <2>3, <2>4
<1>2. ASSUME NEW t \in Tasks, CallStep(t) PROVE StateInv'
  <2>1. CASE Completes(t)
    BY <2>1, CompletesEnds, EndedKeeps DEF EndsSomehow
  <2>2. CASE Refused(t)
    BY <2>2, RefusedEnds, EndedKeeps DEF EndsSomehow
  <2>3. CASE Rejected(t)
    BY <2>3, UncertainGives, GaveUpKeeps DEF Rejected, Malformed
  <2>4. CASE Fails(t)
    BY <2>4, FailsEnds, EndedKeeps DEF EndsSomehow
  <2>5. CASE LockTaken(t)
    BY <2>5, LockWrites, WroteKeeps
  <2>6. CASE LockWasted(t)
    BY <2>6, WastedEnds, EndedKeeps DEF EndsSomehow
  <2> QED BY <1>2, <2>1, <2>2, <2>3, <2>4, <2>5, <2>6 DEF CallStep
<1>3. ASSUME NEW t \in Tasks, Interrupted(t) PROVE StateInv'
  BY <1>3, UncertainGives, GaveUpKeeps DEF Interrupted
<1>4. ASSUME AgentStep PROVE StateInv'
  <2>1. CASE AgentHandles
    BY <2>1, AgentHandlesIs, AgentKeeps
  <2>2. CASE AgentText
    BY <2>2, AgentTextIs, AgentKeeps
  <2>3. CASE \E how \in {"ok", "refused", "malformed"} : AgentAnswers(how)
    BY <2>3, AgentAnswersIs, AgentKeeps
  <2>4. CASE \E p \in Parts : AgentUpdates(p)
    BY <2>4, AgentUpdatesIs, AgentKeeps
  <2> QED BY <1>4, <2>1, <2>2, <2>3, <2>4 DEF AgentStep
<1>5. ASSUME Dispatch PROVE StateInv'
  BY <1>5, DispatchIs, LostKeeps, TakenKeeps
<1>6. ASSUME UpdateRejected \/ ReaderEnds \/ Disconnects PROVE StateInv'
  BY <1>6, LostLoses, LostKeeps DEF UpdateRejected, ReaderEnds
<1>7. ASSUME Done \/ UNCHANGED vars PROVE StateInv'
  BY <1>7, StateInvStays DEF Done
<1> QED BY <1>1, <1>2, <1>3, <1>4, <1>5, <1>6, <1>7 DEF Next

LEMMA StateInvAlways ==
  ASSUME ~Concurrent
  PROVE  StateSpec => []StateInv
<1>1. StateInit => StateInv
  BY StateInvStarts DEF StateInit
<1>2. StateInv /\ [StateNext]_allVars => StateInv'
  <2>1. [StateNext]_allVars => [Next]_vars
    BY DEF StateNext, allVars
  <2> QED BY <2>1, StateInvKept
<1> QED BY <1>1, <1>2, PTL DEF StateSpec

\* IdentityAgrees: whatever failed before, a client whose connection is usable and that
\* waits for nothing has the session that the agent has, or none when it has none, as long
\* as its session is changed by one call at a time (_complete_rpc_lifecycle,
\* _finish_rpc_lifecycle, _retire_interrupted_connection).
THEOREM IdentitiesAgree ==
  ASSUME ~Concurrent
  PROVE  StateSpec => []IdentityAgrees
<1>1. StateInv => IdentityAgrees
  <2> SUFFICES ASSUME StateInv, Quiet PROVE session_id = current
    BY DEF IdentityAgrees
  <2>1. link = "up" /\ \A t \in Tasks : call[t].pc \in {"idle", "lock"}
    BY DEF Quiet
  <2>2. \A k \in 1 .. Len(wire) : wire[k].kind # "response"
    BY UnderWay DEF Quiet
  <2>3. \A t \in Tasks : ~ClosedBy(t)
    BY <2>1, <2>2 DEF ClosedBy, Responds
  <2>4. CASE \A t \in Tasks : call[t].op \notin Transitions
    BY <2>1, <2>3, <2>4, AgreedNow
  <2>5. CASE \E t \in Tasks : call[t].op \in Transitions
    <3>1. PICK t \in Tasks : call[t].op \in Transitions
      BY <2>5
    <3>2. call[t].pc = "lock"
      BY <2>1, <3>1 DEF StateInv, Staged, Transitions
    <3> QED BY <2>1, <3>1, <3>2, AgreedNow
  <2> QED BY <2>4, <2>5
<1> QED BY <1>1, StateInvAlways, PTL

\* OwnMetadata: when no change of session is under way, neither committed nor restored, the
\* options, the mode and the other metadata that a client shows for its session are of that
\* session, or of an update that arrived while the session changed; whatever disconnected
\* the client in between (_clear_session_state, _snapshot_session_state,
\* _restore_session_state, _disconnect_locked).
THEOREM MetadataOwn ==
  ASSUME ~Concurrent
  PROVE  StateSpec => []OwnMetadata
<1>1. StateInv => OwnMetadata
  BY DEF StateInv, Metadata, Own, OwnMetadata, Settled
<1> QED BY <1>1, StateInvAlways, PTL

\* WholeAnswer: a prompt that returns over a connection that is up returns all the text
\* that the agent sent for it, none of a replayed history and none of another session
\* (_query_lock, _chunks, _handle_session_update).
THEOREM AnswersWhole ==
  ASSUME ~Concurrent
  PROVE  StateSpec => WholeAnswer
<1>1. StateInv => \A t \in Tasks :
        (call[t].op = "prompt" /\ Completes(t) /\ link = "up") =>
            /\ Len(chunks) = job.sent
            /\ \A n \in DOMAIN chunks : chunks[n].live /\ chunks[n].of = call[t].on
  <2> SUFFICES ASSUME StateInv, NEW t \in Tasks, call[t].op = "prompt", Completes(t), link = "up"
               PROVE  /\ Len(chunks) = job.sent
                      /\ \A n \in DOMAIN chunks : chunks[n].live /\ chunks[n].of = call[t].on
    OBVIOUS
  <2>1. call[t].pc = "answered" /\ call[t].reply.how = "ok"
    BY DEF Completes
  <2>2. Len(chunks) = job.sent /\ \A n \in 1 .. Len(chunks) : Live(chunks[n], t)
    BY <2>1, TextingNow
  <2>3. DOMAIN chunks = 1 .. Len(chunks)
    BY UnderWay
  <2> QED BY <2>2, <2>3 DEF Live
<1>2. StateInv /\ [StateNext]_allVars =>
        [\A t \in Tasks :
            (call[t].op = "prompt" /\ Completes(t) /\ link = "up") =>
                /\ Len(chunks) = job.sent
                /\ \A n \in DOMAIN chunks : chunks[n].live /\ chunks[n].of = call[t].on]_vars
  BY <1>1
<1> QED BY <1>2, StateInvAlways, PTL DEF StateSpec, WholeAnswer
=============================================================================
