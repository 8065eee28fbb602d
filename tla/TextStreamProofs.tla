-------------------------- MODULE TextStreamProofs --------------------------
(***************************************************************************)
(* What the consumer of a Cursor stream gets is a beginning of what the    *)
(* agent said, for any text, any number of events and any limits; and a    *)
(* wait for owned work, also that of a file request for its thread, ends   *)
(* after the work and loses no cancellation.  Both are shown of the        *)
(* parts side by side, as MCTextStreams has them.                          *)
(***************************************************************************)
EXTENDS MCTextStreams, TLAPS, SequenceTheorems

-----------------------------------------------------------------------------
(* The stream: its invariant *)

\* The text s is a beginning of the text t.
Begins(s, t) == Len(s) <= Len(t) /\ \A j \in 1 .. Len(s) : s[j] = t[j]

Events ==
    [type : {"assistant", "content", "result", "other", "failure", "malformed"},
     text : Seq(Pieces), time : BOOLEAN, call : BOOLEAN]

\* Every variable that StreamWhole depends on keeps its type.
StreamTypes ==
    /\ style \in {"stamped", "plain", "legacy", "rogue"}
    /\ agent \in {"talks", "concluded", "done", "exited"}
    /\ said \in Seq(Pieces) /\ text \in Seq(Pieces) /\ wire \in Seq(Events)
    /\ stamped \in BOOLEAN
    /\ at \in {"read", "yield", "last", "over"} /\ (at # "over" => outcome = "none")

\* What an event tells: it takes the text from its first a pieces to its first b.
Told(e, a, b) ==
    LET Fresh == b = a + 1 /\ e.text = <<said[b]>>
        Entire == Len(e.text) = b /\ Begins(e.text, said)
    IN
      \/ style = "stamped" /\ e.type = "assistant" /\ e.time /\ ~e.call /\ Fresh
      \/ style = "plain" /\ e.type = "assistant" /\ ~e.time /\ ~e.call /\ Fresh
      \/ style = "legacy" /\ e.type = "content" /\ b = a + 1 /\ Entire
      \/ style = "stamped" /\ e.type = "assistant" /\ (e.time <=> e.call) /\ a = b /\ b > 0 /\ Entire
      \/ e.type = "result" /\ a <= b /\ Entire

\* How much of the text each event on the wire tells, from what was yielded to
\* all that was said.
Follows(m) ==
    /\ m[0] = Len(text) /\ m[Len(wire)] = Len(said)
    /\ \A i \in 1 .. Len(wire) : Told(wire[i], m[i - 1], m[i])
Marks == [0 .. Len(wire) -> 0 .. Len(said)]
InStep == style # "rogue" /\ at \in {"read", "yield"} => \E m \in Marks : Follows(m)

\* The result is the last event and has the whole text.
ResultLast ==
    \A i \in 1 .. Len(wire) : wire[i].type = "result" =>
        i = Len(wire) /\ wire[i].text = said /\ agent \in {"done", "exited"}

\* What the consumer got.
GotBeginning ==
    /\ style # "rogue" => Begins(text, said) /\ outcome \notin {"disagrees", "malformed", "failure"}
    /\ at = "last" \/ outcome = "done" => text = said /\ agent \in {"done", "exited"}

\* A delta with a timestamp was seen before the first snapshot.
Stamps ==
    /\ style \in {"plain", "legacy"} => ~stamped
    /\ style = "stamped" /\ at \in {"read", "yield"} /\ Len(text) > 0 => stamped

StreamInv == StreamTypes /\ InStep /\ ResultLast /\ GotBeginning /\ Stamps

-----------------------------------------------------------------------------
(* Beginnings of texts *)

\* str.startswith: a text starts with another if that is a beginning of it.
LEMMA StartsIs ==
  ASSUME NEW S, NEW s \in Seq(S), NEW t \in Seq(S)
  PROVE  Stream!Starts(t, s) <=> Begins(s, t)
<1>1. CASE Len(s) <= Len(t)
  <2> DEFINE r == SubSeq(t, 1, Len(s))
  <2>1. r \in Seq(S) /\ Len(r) = Len(s) /\ \A j \in 1 .. Len(s) : r[j] = t[j]
    BY <1>1
  <2> HIDE DEF r
  <2>2. r = s <=> \A j \in 1 .. Len(s) : s[j] = r[j]
    BY <2>1
  <2> QED BY <1>1, <2>1, <2>2 DEF Stream!Starts, Begins, r
<1>2. CASE ~(Len(s) <= Len(t))
  BY <1>2 DEF Stream!Starts, Begins
<1> QED BY <1>1, <1>2

\* A text is the one before it and the rest.
LEMMA RestIs ==
  ASSUME NEW S, NEW s \in Seq(S), NEW t \in Seq(S), Begins(s, t), NEW r, r = Stream!After(t, s)
  PROVE  r \in Seq(S) /\ Len(r) = Len(t) - Len(s) /\ s \o r = t
<1>1. Len(s) \in Nat /\ Len(t) \in Nat /\ Len(s) <= Len(t)
  BY DEF Begins
<1>2. /\ r \in Seq(S) /\ Len(r) = Len(t) - Len(s)
      /\ \A j \in 1 .. Len(t) - Len(s) : r[j] = t[Len(s) + j]
  BY <1>1 DEF Stream!After
<1>3. /\ s \o r \in Seq(S) /\ Len(s \o r) = Len(s) + Len(r)
      /\ \A j \in 1 .. Len(s) + Len(r) : (s \o r)[j] = IF j <= Len(s) THEN s[j] ELSE r[j - Len(s)]
  BY <1>2, ConcatProperties, Zenon
<1>4. Len(s) + Len(r) = Len(t)
  BY <1>1, <1>2
<1>5. ASSUME NEW j \in 1 .. Len(t) PROVE (s \o r)[j] = t[j]
  <2>1. CASE j <= Len(s)
    <3>1. j \in 1 .. Len(s) + Len(r) /\ j \in 1 .. Len(s)
      BY <1>1, <1>4, <2>1
    <3>2. (s \o r)[j] = s[j]
      BY <1>3, <2>1, <3>1
    <3>3. s[j] = t[j]
      BY <3>1 DEF Begins
    <3> QED BY <3>2, <3>3
  <2>2. CASE ~(j <= Len(s))
    <3>1. j - Len(s) \in 1 .. Len(t) - Len(s) /\ Len(s) + (j - Len(s)) = j
      BY <1>1, <2>2
    <3> QED BY <1>2, <1>3, <1>4, <2>2, <3>1
  <2> QED BY <2>1, <2>2
<1>6. Len(s \o r) = Len(t)
  BY <1>3, <1>4
<1> HIDE DEF Stream!After
<1>7. s \o r = t
  BY <1>3, <1>5, <1>6, SeqEqual
<1> QED BY <1>2, <1>7

\* The same of the text of an agent.
LEMMA RestOf ==
  ASSUME NEW s \in Seq(Pieces), NEW t \in Seq(Pieces), Begins(s, t)
  PROVE  LET r == Stream!After(t, s)
         IN  r \in Seq(Pieces) /\ Len(r) = Len(t) - Len(s) /\ s \o r = t
<1>1. PICK r : r = Stream!After(t, s)
  OBVIOUS
<1>2. r \in Seq(Pieces) /\ Len(r) = Len(t) - Len(s) /\ s \o r = t
  BY <1>1, RestIs
<1> QED BY <1>1, <1>2

\* A beginning that is followed by the next piece is a beginning.
LEMMA NextPiece ==
  ASSUME NEW S, NEW s \in Seq(S), NEW t \in Seq(S), Begins(s, t), Len(s) + 1 <= Len(t),
         NEW r, r = s \o <<t[Len(s) + 1]>>
  PROVE  r \in Seq(S) /\ Len(r) = Len(s) + 1 /\ Begins(r, t)
<1> DEFINE p == t[Len(s) + 1]
<1>1. Len(s) \in Nat /\ p \in S
  OBVIOUS
<1>2. <<p>> \in Seq(S) /\ Len(<<p>>) = 1 /\ <<p>>[1] = p
  BY <1>1
<1>3. /\ r \in Seq(S) /\ Len(r) = Len(s) + 1
      /\ \A j \in 1 .. Len(s) + 1 : r[j] = IF j <= Len(s) THEN s[j] ELSE <<p>>[j - Len(s)]
  <2> HIDE DEF p
  <2>1. r = s \o <<p>>
    BY DEF p
  <2>2. /\ s \o <<p>> \in Seq(S) /\ Len(s \o <<p>>) = Len(s) + Len(<<p>>)
        /\ \A j \in 1 .. Len(s) + Len(<<p>>) :
             (s \o <<p>>)[j] = IF j <= Len(s) THEN s[j] ELSE <<p>>[j - Len(s)]
    <3>1. <<p>> \in Seq(S)
      BY <1>2
    <3> QED BY <3>1, ConcatProperties, Zenon
  <2> QED BY <1>2, <2>1, <2>2
<1>4. ASSUME NEW j \in 1 .. Len(s) + 1 PROVE r[j] = t[j]
  <2>1. CASE j <= Len(s)
    BY <1>1, <1>3, <2>1 DEF Begins
  <2>2. CASE ~(j <= Len(s))
    <3>1. j = Len(s) + 1 /\ j - Len(s) = 1
      BY <1>1, <2>2
    <3> QED BY <1>2, <1>3, <2>2, <3>1
  <2> QED BY <2>1, <2>2
<1> QED BY <1>3, <1>4 DEF Begins

\* A text that begins another of its length is that one.
LEMMA WholeBeginning ==
  ASSUME NEW S, NEW s \in Seq(S), NEW t \in Seq(S), Begins(s, t), Len(s) = Len(t)
  PROVE  s = t
BY SeqEqual DEF Begins

-----------------------------------------------------------------------------
(* What is on the wire *)

\* What an event tells of what was said stays true when more is said.
LEMMA ToldOn ==
  ASSUME StreamInv, NEW e \in Events, NEW a \in Nat, NEW b \in 0 .. Len(said), Told(e, a, b),
         e.type # "result" \/ said' = said, style' = style, said' \in Seq(Pieces), Begins(said, said')
  PROVE  Told(e, a, b)'
<1>1. e.text \in Seq(Pieces) /\ said \in Seq(Pieces)
  BY DEF StreamInv, StreamTypes, Events
<1>2. Begins(e.text, said) => Begins(e.text, said')
  BY <1>1 DEF Begins
<1>3. b > 0 => said'[b] = said[b]
  BY <1>1 DEF Begins
<1>4. e.text = <<said[b]>> => e.text = <<said'[b]>>
  <2>1. CASE b > 0
    BY <1>3, <2>1
  <2>2. CASE b = 0
    <3>1. b # a + 1
      BY <2>2
    <3>2. e.text = <<said[b]>> => Len(e.text) = 1
      OBVIOUS
    <3> QED BY <2>2, <3>1, <3>2 DEF Told
  <2> QED BY <2>1, <2>2
<1> QED BY <1>2, <1>3, <1>4 DEF Told

\* What the agent writes of all it has said follows what it wrote before.
LEMMA WritesOn ==
  ASSUME StreamInv, style # "rogue", NEW m \in Marks, Follows(m),
         \A i \in 1 .. Len(wire) : wire[i].type # "result",
         NEW e \in Events, wire' = Append(wire, e), UNCHANGED <<style, text>>,
         said' \in Seq(Pieces), Begins(said, said'),
         NEW a, NEW b, a = Len(said), b = Len(said'), Told(e, a, b)'
  PROVE  \E n \in Marks' : Follows(n)'
<1>1. /\ wire \in Seq(Events) /\ Len(wire) \in Nat /\ Len(said) \in Nat /\ Len(said') \in Nat
      /\ Len(said) <= Len(said') /\ Len(wire') = Len(wire) + 1 /\ wire'[Len(wire) + 1] = e
      /\ \A i \in 1 .. Len(wire) : wire'[i] = wire[i]
  BY DEF StreamInv, StreamTypes, Begins
<1>2. /\ \A i \in 0 .. Len(wire) : m[i] \in 0 .. Len(said)
      /\ m[0] = Len(text) /\ m[Len(wire)] = Len(said)
  BY DEF Marks, Follows
<1>3. PICK n : n = [i \in 0 .. Len(wire) + 1 |-> IF i <= Len(wire) THEN m[i] ELSE b]
  OBVIOUS
<1>4. /\ \A i \in 0 .. Len(wire) : n[i] = m[i]
      /\ n[Len(wire) + 1] = b
  BY <1>1, <1>3
<1>5. n \in Marks'
  <2>1. \A i \in 0 .. Len(wire) + 1 : n[i] \in 0 .. Len(said')
    BY <1>1, <1>2, <1>3
  <2> QED BY <1>1, <1>3, <2>1 DEF Marks
<1>6. ASSUME NEW i \in 1 .. Len(wire') PROVE Told(wire[i], n[i - 1], n[i])'
  <2>1. CASE i \in 1 .. Len(wire)
    <3>1. i - 1 \in 0 .. Len(wire) /\ i \in 0 .. Len(wire)
      BY <1>1, <2>1
    <3>2. /\ Told(wire[i], m[i - 1], m[i]) /\ wire[i].type # "result" /\ wire[i] \in Events
          /\ m[i - 1] \in Nat /\ m[i] \in 0 .. Len(said)
      BY <1>1, <1>2, <2>1, <3>1 DEF Follows
    <3>3. PICK w, x, y : w = wire[i] /\ x = m[i - 1] /\ y = m[i]
      OBVIOUS
    <3>4. Told(w, x, y)'
      BY <3>2, <3>3, ToldOn
    <3>5. n[i - 1] = x /\ n[i] = y /\ wire'[i] = w
      BY <1>1, <1>4, <2>1, <3>1, <3>3
    <3> QED BY <3>4, <3>5
  <2>2. CASE i = Len(wire) + 1
    <3>1. n[i - 1] = a /\ n[i] = b /\ wire'[i] = e
      BY <1>1, <1>2, <1>4, <2>2
    <3> QED BY <3>1
  <2> QED BY <1>1, <2>1, <2>2
<1>7. n[0] = Len(text') /\ n[Len(wire')] = Len(said')
  BY <1>1, <1>2, <1>4
<1> QED BY <1>5, <1>6, <1>7 DEF Follows

\* What the reader takes is what was not yielded yet.
LEMMA ReadsOn ==
  ASSUME StreamInv, NEW m \in Marks, Follows(m), wire # <<>>, wire' = Tail(wire),
         UNCHANGED <<style, said>>, Len(text') = m[1]
  PROVE  \E n \in Marks' : Follows(n)'
<1>1. /\ wire \in Seq(Events) /\ Len(wire) \in Nat /\ Len(wire) >= 1 /\ Len(wire') = Len(wire) - 1
      /\ \A i \in 1 .. Len(wire') : wire'[i] = wire[i + 1]
  BY DEF StreamInv, StreamTypes
<1>2. PICK n : n = [i \in 0 .. Len(wire) - 1 |-> m[i + 1]]
  OBVIOUS
<1>3. n \in Marks'
  <2>1. \A i \in 0 .. Len(wire') : i + 1 \in 0 .. Len(wire)
    BY <1>1
  <2>2. \A i \in 0 .. Len(wire) : m[i] \in 0 .. Len(said)
    BY DEF Marks
  <2>3. \A i \in 0 .. Len(wire') : m[i + 1] \in 0 .. Len(said')
    BY <2>1, <2>2
  <2> QED BY <1>1, <1>2, <2>3 DEF Marks
<1>4. /\ \A i \in 0 .. Len(wire') : n[i] = m[i + 1]
      /\ n[0] = m[1] /\ n[Len(wire')] = m[Len(wire)]
  BY <1>1, <1>2
<1>5. ASSUME NEW i \in 1 .. Len(wire') PROVE Told(wire[i], n[i - 1], n[i])'
  <2>1. i + 1 \in 1 .. Len(wire) /\ i - 1 \in 0 .. Len(wire') /\ i \in 0 .. Len(wire') /\ (i + 1) - 1 = i
    BY <1>1
  <2>2. n[i - 1] = m[i] /\ n[i] = m[i + 1] /\ wire'[i] = wire[i + 1]
    BY <1>1, <1>4, <2>1
  <2>3. Told(wire[i + 1], m[i], m[i + 1])
    BY <2>1 DEF Follows
  <2>4. PICK w, x, y : w = wire[i + 1] /\ x = m[i] /\ y = m[i + 1]
    OBVIOUS
  <2>5. Told(w, x, y)'
    BY <2>3, <2>4 DEF Told, Begins
  <2> QED BY <2>2, <2>4, <2>5
<1>6. n[0] = Len(text') /\ n[Len(wire')] = Len(said')
  BY <1>1, <1>4 DEF Follows
<1> QED BY <1>3, <1>5, <1>6 DEF Follows

-----------------------------------------------------------------------------
(* The steps *)

\* An agent that follows the protocol writes one more event.
LEMMA WritesKeep ==
  ASSUME StreamInv, style # "rogue", agent \in {"talks", "concluded"},
         agent' \in {"talks", "concluded", "done"}, UNCHANGED <<style, Stream!streamVars>>,
         NEW e \in Events, wire' = Append(wire, e), said' \in Seq(Pieces), Begins(said, said'),
         NEW a, NEW b, a = Len(said), b = Len(said'), Told(e, a, b)',
         e.type = "result" => e.text = said' /\ agent' = "done"
  PROVE  StreamInv'
<1>1. UNCHANGED <<style, text, chunks, stamped, events, at, outcome>>
  BY DEF Stream!streamVars
<1>2. \A i \in 1 .. Len(wire) : wire[i].type # "result"
  BY DEF StreamInv, ResultLast
<1>3. StreamTypes'
  BY <1>1 DEF StreamInv, StreamTypes
<1>4. InStep'
  <2> SUFFICES ASSUME at \in {"read", "yield"} PROVE \E n \in Marks' : Follows(n)'
    BY <1>1 DEF InStep
  <2>1. PICK m \in Marks : Follows(m)
    BY DEF StreamInv, InStep
  <2> QED BY <1>1, <1>2, <2>1, WritesOn
<1>5. ResultLast'
  <2>1. /\ Len(wire') = Len(wire) + 1 /\ wire'[Len(wire) + 1] = e /\ Len(wire) \in Nat
        /\ \A i \in 1 .. Len(wire) : wire'[i] = wire[i]
    BY DEF StreamInv, StreamTypes
  <2>2. ASSUME NEW i \in 1 .. Len(wire'), wire'[i].type = "result" PROVE i = Len(wire) + 1
    BY <1>2, <2>1, <2>2
  <2> QED BY <2>1, <2>2 DEF ResultLast
<1>6. GotBeginning'
  <2>1. at # "last" /\ outcome # "done"
    BY DEF StreamInv, GotBeginning
  <2>2. Begins(text, said) /\ outcome \notin {"disagrees", "malformed", "failure"}
    BY DEF StreamInv, GotBeginning
  <2>3. Begins(text, said')
    BY <2>2 DEF Begins, StreamInv, StreamTypes
  <2> QED BY <1>1, <2>1, <2>2, <2>3 DEF GotBeginning
<1>7. Stamps'
  BY <1>1 DEF StreamInv, Stamps
<1> QED BY <1>3, <1>4, <1>5, <1>6, <1>7 DEF StreamInv

\* A beginning of a text, and the text with one more piece.
LEMMA Longer ==
  ASSUME NEW s \in Seq(Pieces), NEW p \in Pieces, NEW t, t = Append(s, p)
  PROVE  /\ t \in Seq(Pieces) /\ Len(t) = Len(s) + 1 /\ t[Len(t)] = p /\ Begins(s, t)
         /\ Begins(t, t) /\ Begins(s, s) /\ Len(s) \in Nat
BY DEF Begins

\* The events of the agents.
LEMMA EventIs ==
  ASSUME NEW type \in {"assistant", "content", "result", "other", "failure", "malformed"},
         NEW content \in Seq(Pieces), NEW e, e = Stream!Event(type, content)
  PROVE  e \in Events /\ e.type = type /\ e.text = content /\ ~e.time /\ ~e.call
BY DEF Stream!Event, Events

\* A delta with a timestamp.
LEMMA DeltaIs ==
  ASSUME NEW content \in Seq(Pieces), NEW e, e = Stream!Delta(content)
  PROVE  e \in Events /\ e.type = "assistant" /\ e.text = content /\ e.time /\ ~e.call
<1>1. PICK d : d = Stream!Event("assistant", content)
  OBVIOUS
<1>2. d \in Events /\ d.type = "assistant" /\ d.text = content /\ ~d.call
  BY <1>1, EventIs
<1>3. e = [d EXCEPT !.time = TRUE]
  BY <1>1 DEF Stream!Delta
<1> QED BY <1>2, <1>3 DEF Events

\* A snapshot before the use of a tool.
LEMMA SnapshotIs ==
  ASSUME NEW content \in Seq(Pieces), NEW e, e = Stream!ToolSnapshot(content)
  PROVE  e \in Events /\ e.type = "assistant" /\ e.text = content /\ e.time /\ e.call
<1>1. PICK d : d = Stream!Delta(content)
  OBVIOUS
<1>2. d \in Events /\ d.type = "assistant" /\ d.text = content /\ d.time
  BY <1>1, DeltaIs
<1>3. e = [d EXCEPT !.call = TRUE]
  BY <1>1 DEF Stream!ToolSnapshot
<1> QED BY <1>2, <1>3 DEF Events

\* A delta, or all the text of a legacy agent, tells one piece.
LEMMA SaysKeeps == ASSUME StreamInv, NEW piece \in Pieces, Stream!Says(piece) PROVE StreamInv'
<1>1. /\ agent = "talks" /\ style # "rogue" /\ said' = Append(said, piece)
      /\ UNCHANGED <<style, agent, Stream!streamVars>>
  BY DEF Stream!Says
<1>2. said \in Seq(Pieces) /\ style \in {"stamped", "plain", "legacy"} /\ <<piece>> \in Seq(Pieces)
  BY <1>1 DEF StreamInv, StreamTypes
<1>3. /\ said' \in Seq(Pieces) /\ Len(said') = Len(said) + 1 /\ said'[Len(said')] = piece /\ Begins(said, said')
      /\ Begins(said', said') /\ Len(said) \in Nat
  BY <1>1, <1>2, Longer
<1>4. PICK a, b : a = Len(said) /\ b = Len(said')
  OBVIOUS
<1>5. style' = style /\ b = a + 1 /\ <<said'[b]>> = <<piece>> /\ Len(said') = b
  BY <1>1, <1>3, <1>4
<1>6. \E e \in Events : wire' = Append(wire, e) /\ e.type # "result" /\ Told(e, a, b)'
  <2>1. CASE style = "stamped"
    <3>1. PICK e : e = Stream!Delta(<<piece>>)
      OBVIOUS
    <3>2. e \in Events /\ e.type = "assistant" /\ e.text = <<piece>> /\ e.time /\ ~e.call
      BY <1>2, <3>1, DeltaIs
    <3>3. Told(e, a, b)'
      BY <1>5, <2>1, <3>2 DEF Told
    <3> QED BY <2>1, <3>1, <3>2, <3>3 DEF Stream!Says, Stream!Writes
  <2>2. CASE style = "plain"
    <3>1. PICK c, e : c = <<piece>> /\ e = Stream!Event("assistant", c)
      OBVIOUS
    <3>2. e \in Events /\ e.type = "assistant" /\ e.text = c /\ ~e.time /\ ~e.call
      <4>1. c \in Seq(Pieces) /\ e = Stream!Event("assistant", c)
        BY <1>2, <3>1
      <4> QED BY <4>1, EventIs
    <3>3. Told(e, a, b)'
      BY <1>5, <2>2, <3>1, <3>2 DEF Told
    <3> QED BY <2>2, <3>1, <3>2, <3>3 DEF Stream!Says, Stream!Writes
  <2>3. CASE style = "legacy"
    <3>1. PICK e : e = Stream!Event("content", said')
      OBVIOUS
    <3>2. e \in Events /\ e.type = "content" /\ e.text = said'
      BY <1>3, <3>1, EventIs
    <3>3. Told(e, a, b)'
      BY <1>3, <1>5, <2>3, <3>2 DEF Told
    <3> QED BY <2>3, <3>1, <3>2, <3>3 DEF Stream!Says, Stream!Writes
  <2> QED BY <1>2, <2>1, <2>2, <2>3
<1> QED BY <1>1, <1>3, <1>4, <1>6, WritesKeep

\* A snapshot tells nothing new.
LEMMA SnapshotKeeps == ASSUME StreamInv, Stream!UsesTool \/ Stream!Concludes PROVE StreamInv'
<1>1. /\ style = "stamped" /\ agent = "talks" /\ said # <<>> /\ UNCHANGED <<style, said, Stream!streamVars>>
      /\ agent' \in {"talks", "concluded"}
  BY DEF Stream!UsesTool, Stream!Concludes
<1>2. said \in Seq(Pieces) /\ Len(said) \in Nat /\ Len(said) > 0 /\ Begins(said, said)
  BY <1>1 DEF StreamInv, StreamTypes, Begins
<1>3. PICK e : /\ wire' = Append(wire, e) /\ e \in Events /\ e.type = "assistant" /\ e.text = said
               /\ (e.time <=> e.call)
  <2>1. CASE Stream!UsesTool
    BY <1>2, <2>1, SnapshotIs DEF Stream!UsesTool, Stream!Writes
  <2>2. CASE Stream!Concludes
    BY <1>2, <2>2, EventIs DEF Stream!Concludes, Stream!Writes
  <2> QED BY <2>1, <2>2
<1>4. PICK a, b : a = Len(said) /\ b = Len(said')
  OBVIOUS
<1>5. Told(e, a, b)'
  BY <1>1, <1>2, <1>3, <1>4 DEF Told
<1> QED BY <1>1, <1>2, <1>3, <1>4, <1>5, WritesKeep

\* The result tells the rest.
LEMMA ResultKeeps == ASSUME StreamInv, Stream!GivesResult PROVE StreamInv'
<1>1. /\ style # "rogue" /\ agent \in {"talks", "concluded"} /\ agent' = "done"
      /\ UNCHANGED <<style, Stream!streamVars>>
  BY DEF Stream!GivesResult
<1>2. said \in Seq(Pieces) /\ Len(said) \in Nat
  BY DEF StreamInv, StreamTypes
<1>3. said' \in Seq(Pieces) /\ Begins(said, said') /\ Begins(said', said')
  <2>1. PICK rest \in Stream!Texts : said' = said \o rest
    BY DEF Stream!GivesResult
  <2>2. CASE rest = <<>>
    BY <1>2, <2>1, <2>2 DEF Begins
  <2>3. CASE \E piece \in Pieces : rest = <<piece>>
    BY <1>2, <2>1, <2>3 DEF Begins
  <2> QED BY <2>2, <2>3 DEF Stream!Texts
<1>4. PICK e, a, b : /\ wire' = Append(wire, e) /\ e = Stream!Event("result", said')
                    /\ a = Len(said) /\ b = Len(said')
  BY DEF Stream!GivesResult, Stream!Writes
<1>5. e \in Events /\ e.type = "result" /\ e.text = said'
  BY <1>3, <1>4, EventIs
<1>6. Told(e, a, b)'
  BY <1>2, <1>3, <1>4, <1>5 DEF Told, Begins
<1> QED BY <1>1, <1>3, <1>4, <1>5, <1>6, WritesKeep

\* An agent that follows no protocol has nothing to keep but its result.
LEMMA RogueKeeps == ASSUME StreamInv, Stream!WritesAnything PROVE StreamInv'
<1>1. PICK e \in Stream!RogueEvents :
        /\ wire' = Append(wire, e)
        /\ IF e.type = "result" THEN said' = e.text /\ agent' = "done" ELSE UNCHANGED <<said, agent>>
  BY DEF Stream!WritesAnything, Stream!Writes
<1>2. style = "rogue" /\ agent = "talks" /\ UNCHANGED <<style, text, stamped, at, outcome>>
  BY DEF Stream!WritesAnything, Stream!streamVars
<1>3. ASSUME NEW content \in Stream!Texts PROVE content \in Seq(Pieces)
  <2>1. CASE content = <<>>
    BY <2>1
  <2>2. ASSUME NEW piece \in Pieces, content = <<piece>> PROVE content \in Seq(Pieces)
    BY <2>2
  <2> QED BY <2>1, <2>2 DEF Stream!Texts
<1>4. e \in Events
  <2>1. <<>> \in Seq(Pieces)
    OBVIOUS
  <2>2. CASE e \in [type : {"assistant"}, text : Stream!Texts, time : BOOLEAN, call : BOOLEAN]
    BY <1>3, <2>2 DEF Events
  <2>3. ASSUME NEW type \in {"content", "result"}, NEW content \in Stream!Texts, e = Stream!Event(type, content)
        PROVE  e \in Events
    BY <1>3, <2>3 DEF Stream!Event, Events
  <2>4. ASSUME NEW type \in {"other", "failure", "malformed"}, e = Stream!Event(type, <<>>)
        PROVE  e \in Events
    BY <2>1, <2>4 DEF Stream!Event, Events
  <2> QED BY <1>1, <2>2, <2>3, <2>4 DEF Stream!RogueEvents
<1>5. StreamTypes'
  BY <1>1, <1>2, <1>4 DEF StreamInv, StreamTypes, Events
<1>6. ResultLast'
  <2>1. /\ Len(wire') = Len(wire) + 1 /\ wire'[Len(wire) + 1] = e /\ Len(wire) \in Nat
        /\ \A i \in 1 .. Len(wire) : wire'[i] = wire[i]
    BY <1>1, <1>4 DEF StreamInv, StreamTypes
  <2>2. \A i \in 1 .. Len(wire) : wire[i].type # "result"
    BY <1>2 DEF StreamInv, ResultLast
  <2>3. ASSUME NEW i \in 1 .. Len(wire'), wire'[i].type = "result" PROVE i = Len(wire) + 1
    BY <2>1, <2>2, <2>3
  <2> QED BY <1>1, <2>1, <2>3 DEF ResultLast
<1>7. InStep' /\ GotBeginning' /\ Stamps'
  BY <1>2 DEF StreamInv, InStep, GotBeginning, Stamps
<1> QED BY <1>5, <1>6, <1>7 DEF StreamInv

\* Nobody speaks after the end of the process.
LEMMA ExitsKeeps == ASSUME StreamInv, Stream!Exits PROVE StreamInv'
<1>1. agent' = "exited" /\ UNCHANGED <<style, said, wire, text, stamped, at, outcome>>
  BY DEF Stream!Exits, Stream!streamVars
<1>2. InStep'
  BY <1>1 DEF StreamInv, InStep, Marks, Follows, Told, Begins
<1> QED BY <1>1, <1>2 DEF StreamInv, StreamTypes, ResultLast, GotBeginning, Stamps, Begins

\* The stream goes on or ends without another event.
LEMMA RestsKeep ==
  ASSUME StreamInv, Stream!Resumes \/ Stream!Leaves \/ Stream!TimesOut \/ Stream!OutputEnds
  PROVE  StreamInv'
<1>1. /\ UNCHANGED <<agent, style, said, wire, text, stamped>>
      /\ \/ at = "yield" /\ at' = "read" /\ outcome' = outcome
         \/ at = "last" /\ at' = "over" /\ outcome' = "done"
         \/ at' = "over" /\ outcome' \in {"left", "timeout", "held", "ended"}
  BY DEF Stream!Resumes, Stream!Leaves, Stream!TimesOut, Stream!OutputEnds, Stream!Over, Stream!agentVars
<1>2. InStep'
  BY <1>1 DEF StreamInv, InStep, Marks, Follows, Told, Begins
<1> QED BY <1>1, <1>2 DEF StreamInv, StreamTypes, ResultLast, GotBeginning, Stamps, Begins

-----------------------------------------------------------------------------
(* The reader *)

\* _record_delta: the text grows by the delta, or its limit ends the stream.
LEMMA YieldsOr ==
  ASSUME NEW delta, NEW then, Stream!Yields(delta, then)
  PROVE  \/ text' = text \o delta /\ at' = then /\ outcome' = outcome
         \/ text' = text /\ at' = "over" /\ outcome' = "limit"
BY DEF Stream!Yields, Stream!Over

\* A stream ends with the result only if it was whole, whoever wrote it.
LEMMA ResultReads ==
  ASSUME StreamInv, at = "read", NEW e \in Events, e.text = said, Stream!Result(e)
  PROVE  \/ text' = text /\ at' = "over" /\ outcome' = "disagrees" /\ ~Begins(text, said)
         \/ text' = text /\ at' = "over" /\ outcome' = "done" /\ text = said
         \/ text' = text /\ at' = "over" /\ outcome' = "limit"
         \/ text' = said /\ at' = "last" /\ outcome' = outcome
<1>1. said \in Seq(Pieces) /\ text \in Seq(Pieces)
  BY DEF StreamInv, StreamTypes
<1>2. Stream!Starts(e.text, text) <=> Begins(text, said)
  BY <1>1, StartsIs
<1>3. CASE ~Begins(text, said)
  BY <1>2, <1>3 DEF Stream!Result, Stream!Over
<1>4. CASE Begins(text, said) /\ text = said
  BY <1>2, <1>4 DEF Stream!Result, Stream!Over
<1>5. CASE Begins(text, said) /\ text # said
  <2>1. PICK r : r = Stream!After(said, text)
    OBVIOUS
  <2>2. text \o r = said
    BY <1>1, <1>5, <2>1, RestOf
  <2>3. Stream!Yields(r, "last")
    BY <1>2, <1>5, <2>1 DEF Stream!Result
  <2> QED BY <2>2, <2>3, YieldsOr
<1> QED BY <1>3, <1>4, <1>5

\* What the reader makes of an event that tells the text from a to b.
LEMMA TellsReads ==
  ASSUME StreamInv, style # "rogue", Stream!Reads, NEW a, NEW b, a = Len(text), b \in 0 .. Len(said),
         Told(wire[1], a, b), wire[1].type # "result"
  PROVE  \/ text' = text /\ at' = "over" /\ outcome' = "limit"
         \/ /\ at' \in {"read", "yield"} /\ outcome' = outcome
            /\ text' \in Seq(Pieces) /\ Begins(text', said) /\ Len(text') = b
            /\ style = "stamped" /\ b > 0 => stamped'
<1> DEFINE e == wire[1]
<1>1. /\ said \in Seq(Pieces) /\ text \in Seq(Pieces) /\ wire \in Seq(Events) /\ e \in Events
      /\ at = "read" /\ outcome = "none" /\ Begins(text, said) /\ stamped \in BOOLEAN
      /\ a \in Nat /\ b \in Nat /\ b <= Len(said) /\ e.text \in Seq(Pieces)
      /\ e.time \in BOOLEAN /\ e.call \in BOOLEAN
  <2>1. /\ said \in Seq(Pieces) /\ text \in Seq(Pieces) /\ wire \in Seq(Events) /\ wire # <<>>
        /\ at = "read" /\ outcome = "none" /\ stamped \in BOOLEAN
    BY DEF Stream!Reads, StreamInv, StreamTypes
  <2>2. Begins(text, said)
    BY DEF StreamInv, GotBeginning
  <2>3. e \in Events
    BY <2>1
  <2>4. e.text \in Seq(Pieces) /\ e.time \in BOOLEAN /\ e.call \in BOOLEAN
    BY <2>3 DEF Events
  <2>5. a \in Nat /\ b \in Nat /\ b <= Len(said)
    BY <2>1
  <2> QED BY <2>1, <2>2, <2>3, <2>4, <2>5
<1>2. \/ e.type = "assistant" /\ style \in {"stamped", "plain"}
      \/ e.type = "content" /\ style = "legacy"
  BY DEF Told
<1>3. /\ stamped' = (stamped \/ (e.type = "assistant" /\ e.time /\ ~e.call))
      /\ IF events >= EventLimit THEN Stream!Over("limit") /\ UNCHANGED <<text, chunks>>
         ELSE IF (e.type = "assistant" /\ Stream!Buffered(e)) \/ Stream!Extracted(e) = <<>> THEN Stream!Passes
         ELSE Stream!Yields(Stream!Extracted(e), "yield")
  BY <1>2 DEF Stream!Reads
<1>4. CASE events >= EventLimit
  BY <1>3, <1>4 DEF Stream!Over
<1>5. ASSUME ~(events >= EventLimit), e.type = "assistant", ~(e.time <=> e.call) \/ style = "plain",
             b = a + 1, e.text = <<said[b]>>, ~e.call, style = "stamped" => e.time
      PROVE  \/ text' = text /\ at' = "over" /\ outcome' = "limit"
             \/ /\ at' \in {"read", "yield"} /\ outcome' = outcome
                /\ text' \in Seq(Pieces) /\ Begins(text', said) /\ Len(text') = b
                /\ style = "stamped" /\ b > 0 => stamped'
  <2>1. ~Stream!Buffered(e)
    BY <1>1, <1>2, <1>5 DEF Stream!Buffered, StreamInv, Stamps
  <2>2. Stream!Extracted(e) = <<said[b]>> /\ Stream!Extracted(e) # <<>>
    BY <1>5 DEF Stream!Extracted
  <2>3. Stream!Yields(<<said[b]>>, "yield")
    BY <1>3, <1>5, <2>1, <2>2
  <2>4. PICK r : r = text \o <<said[Len(text) + 1]>>
    OBVIOUS
  <2>5. r \in Seq(Pieces) /\ Len(r) = Len(text) + 1 /\ Begins(r, said)
    BY ZenonT(40), <1>1, <1>5, <2>4, NextPiece
  <2>6. \/ text' = r /\ at' = "yield" /\ outcome' = outcome
        \/ text' = text /\ at' = "over" /\ outcome' = "limit"
    BY <1>5, <2>3, <2>4, YieldsOr
  <2>7. style = "stamped" => stamped'
    BY <1>3, <1>5
  <2> QED BY <1>5, <2>5, <2>6, <2>7
<1>6. ASSUME ~(events >= EventLimit), style = "legacy", e.type = "content", b = a + 1,
             Len(e.text) = b, Begins(e.text, said)
      PROVE  \/ text' = text /\ at' = "over" /\ outcome' = "limit"
             \/ /\ at' \in {"read", "yield"} /\ outcome' = outcome
                /\ text' \in Seq(Pieces) /\ Begins(text', said) /\ Len(text') = b
                /\ style = "stamped" /\ b > 0 => stamped'
  <2>1. Begins(text, e.text)
    <3>1. Len(text) <= Len(e.text) /\ Len(text) \in Nat
      BY <1>1, <1>6
    <3>2. ASSUME NEW j \in 1 .. Len(text) PROVE text[j] = e.text[j]
      <4>1. text[j] = said[j]
        BY <1>1 DEF Begins
      <4>2. j \in 1 .. Len(e.text)
        BY <3>1
      <4>3. e.text[j] = said[j]
        BY <1>6, <4>2 DEF Begins
      <4> QED BY <4>1, <4>3
    <3> QED BY <3>1, <3>2 DEF Begins
  <2>2. Stream!Starts(e.text, text)
    BY <1>1, <2>1, StartsIs
  <2>3. PICK r : r = Stream!After(e.text, text)
    OBVIOUS
  <2>4. r \in Seq(Pieces) /\ Len(r) = Len(e.text) - Len(text) /\ text \o r = e.text
    BY <1>1, <2>1, <2>3, RestOf
  <2>5. Len(r) = 1
    BY <1>1, <1>6, <2>4
  <2>6. Stream!Extracted(e) = r /\ r # <<>>
    <3>1. r # <<>>
      <4>1. Len(<<>>) = 0
        OBVIOUS
      <4> QED BY <2>5, <4>1
    <3>2. Stream!Extracted(e) = IF Stream!Starts(e.text, text) THEN Stream!After(e.text, text) ELSE <<>>
      BY <1>6 DEF Stream!Extracted
    <3> QED BY <2>2, <2>3, <3>1, <3>2
  <2>7. Stream!Yields(r, "yield")
    BY <1>3, <1>6, <2>6
  <2> QED BY <1>1, <1>6, <2>4, <2>7, YieldsOr
<1>7. ASSUME ~(events >= EventLimit), style = "stamped", e.type = "assistant", e.time <=> e.call,
             a = b, b > 0
      PROVE  /\ at' \in {"read", "yield"} /\ outcome' = outcome
             /\ text' \in Seq(Pieces) /\ Begins(text', said) /\ Len(text') = b
             /\ style = "stamped" /\ b > 0 => stamped'
  <2>1. stamped
    BY <1>1, <1>7 DEF StreamInv, Stamps
  <2>2. Stream!Buffered(e)
    BY <1>1, <1>7, <2>1 DEF Stream!Buffered
  <2>3. Stream!Passes
    BY <1>3, <1>7, <2>2
  <2> QED BY <1>1, <1>3, <1>7, <2>1, <2>3 DEF Stream!Passes
<1> QED BY <1>4, <1>5, <1>6, <1>7 DEF Told

\* One event is read.
LEMMA ReadsKeep == ASSUME StreamInv, Stream!Reads PROVE StreamInv'
<1>1. /\ at = "read" /\ outcome = "none" /\ wire # <<>> /\ wire' = Tail(wire)
      /\ UNCHANGED <<style, agent, said>>
      /\ wire \in Seq(Events) /\ said \in Seq(Pieces) /\ text \in Seq(Pieces) /\ stamped \in BOOLEAN
  BY DEF Stream!Reads, StreamInv, StreamTypes
<1>2. /\ Len(wire) \in Nat /\ Len(wire) >= 1 /\ wire[1] \in Events /\ wire' \in Seq(Events)
      /\ Len(wire') = Len(wire) - 1 /\ \A i \in 1 .. Len(wire') : wire'[i] = wire[i + 1]
  BY <1>1
<1>3. PICK e \in Events : e = wire[1]
  BY <1>2
<1>4. ResultLast'
  <2>1. ASSUME NEW i \in 1 .. Len(wire'), wire'[i].type = "result"
        PROVE  i = Len(wire') /\ wire'[i].text = said' /\ agent' \in {"done", "exited"}
    <3>1. i + 1 \in 1 .. Len(wire) /\ wire'[i] = wire[i + 1]
      BY <1>2
    <3>2. i + 1 = Len(wire) /\ wire[i + 1].text = said /\ agent \in {"done", "exited"}
      BY <2>1, <3>1 DEF StreamInv, ResultLast
    <3>3. i = Len(wire')
      BY <1>2, <3>2
    <3>4. wire'[i].text = said'
      BY <1>1, <3>1, <3>2
    <3> QED BY <1>1, <3>2, <3>3, <3>4
  <2> QED BY <2>1 DEF ResultLast
<1>5. style = "rogue" \/ Begins(text, said)
  BY DEF StreamInv, GotBeginning
<1>6. stamped' = (stamped \/ (e.type = "assistant" /\ e.time /\ ~e.call))
  BY <1>3 DEF Stream!Reads
<1>7. stamped' \in BOOLEAN
  BY <1>1, <1>6
<1>8. CASE e.type = "result"
  <2>1. e.text = said /\ Len(wire) = 1 /\ agent \in {"done", "exited"}
    BY <1>2, <1>3, <1>8 DEF StreamInv, ResultLast
  <2>2. IF events >= EventLimit THEN Stream!Over("limit") /\ UNCHANGED <<text, chunks>> ELSE Stream!Result(e)
    BY <1>3, <1>8 DEF Stream!Reads
  <2>3. \/ text' = text /\ at' = "over" /\ outcome' = "disagrees" /\ ~Begins(text, said)
        \/ text' = text /\ at' = "over" /\ outcome' = "done" /\ text = said
        \/ text' = text /\ at' = "over" /\ outcome' = "limit"
        \/ text' = said /\ at' = "last" /\ outcome' = outcome
    <3>1. CASE events >= EventLimit
      BY <2>2, <3>1 DEF Stream!Over
    <3>2. CASE ~(events >= EventLimit)
      <4>1. Stream!Result(e)
        BY <2>2, <3>2
      <4> QED BY <1>1, <2>1, <4>1, ResultReads
    <3> QED BY <3>1, <3>2
  <2>4. StreamTypes'
    BY <1>1, <1>2, <1>7, <2>3 DEF StreamInv, StreamTypes
  <2>5. InStep'
    BY <2>3 DEF InStep
  <2>6. GotBeginning'
    BY <1>1, <1>5, <2>1, <2>3 DEF GotBeginning, Begins
  <2>7. Stamps'
    <3>1. style \in {"plain", "legacy"} => ~stamped'
      BY <1>6, <1>8 DEF StreamInv, Stamps
    <3> QED BY <1>1, <2>3, <3>1 DEF Stamps
  <2> QED BY <1>4, <2>4, <2>5, <2>6, <2>7 DEF StreamInv
<1>9. CASE e.type # "result" /\ style # "rogue"
  <2>1. PICK m \in Marks : Follows(m)
    BY <1>1, <1>9 DEF StreamInv, InStep
  <2>2. PICK a, b : a = Len(text) /\ b = m[1]
    OBVIOUS
  <2>3. b \in 0 .. Len(said) /\ Told(wire[1], a, b)
    <3>1. m[0] = Len(text) /\ Told(wire[1], m[1 - 1], m[1])
      BY <1>2, <2>1 DEF Follows
    <3>2. m[1] \in 0 .. Len(said)
      BY <1>2 DEF Marks
    <3>3. m[1 - 1] = m[0]
      OBVIOUS
    <3> QED BY <2>2, <3>1, <3>2, <3>3
  <2>4. \/ text' = text /\ at' = "over" /\ outcome' = "limit"
        \/ /\ at' \in {"read", "yield"} /\ outcome' = outcome
           /\ text' \in Seq(Pieces) /\ Begins(text', said) /\ Len(text') = b
           /\ style = "stamped" /\ b > 0 => stamped'
    BY <1>3, <1>9, <2>2, <2>3, TellsReads
  <2>5. StreamTypes'
    BY <1>1, <1>2, <1>7, <2>4 DEF StreamInv, StreamTypes
  <2>6. InStep'
    <3>1. CASE at' = "over"
      BY <3>1 DEF InStep
    <3>2. CASE Len(text') = m[1]
      BY <1>1, <2>1, <3>2, ReadsOn DEF InStep
    <3> QED BY <2>2, <2>4, <3>1, <3>2
  <2>7. GotBeginning'
    BY <1>1, <1>5, <1>9, <2>4 DEF GotBeginning, Begins
  <2>8. Stamps'
    <3>1. style \in {"plain", "legacy"} => ~stamped'
      <4>1. style \in {"plain", "legacy"} => ~(e.type = "assistant" /\ e.time /\ ~e.call)
        BY <1>3, <1>9, <2>3 DEF Told
      <4> QED BY <1>6, <4>1 DEF StreamInv, Stamps
    <3> QED BY <1>1, <2>4, <3>1 DEF Stamps
  <2> QED BY <1>4, <2>5, <2>6, <2>7, <2>8 DEF StreamInv
<1>10. CASE e.type # "result" /\ style = "rogue"
  <2>1. /\ text' \in Seq(Pieces)
        /\ \/ at' = "over" /\ outcome' \in {"limit", "malformed", "failure"}
           \/ at' \in {"read", "yield"} /\ outcome' = outcome
    <3>1. CASE Stream!Passes
      BY <1>1, <3>1 DEF Stream!Passes
    <3>2. CASE Stream!Yields(Stream!Extracted(e), "yield")
      <4>1. Stream!Extracted(e) \in Seq(Pieces)
        <5>1. e.text \in Seq(Pieces) /\ <<>> \in Seq(Pieces)
          BY DEF Events
        <5>2. Stream!Starts(e.text, text) => Stream!After(e.text, text) \in Seq(Pieces)
          <6>1. Stream!Starts(e.text, text) => Begins(text, e.text)
            BY <1>1, <5>1, StartsIs
          <6> QED BY <1>1, <5>1, <6>1, RestOf
        <5> QED BY <5>1, <5>2 DEF Stream!Extracted
      <4>2. PICK r : r = Stream!Extracted(e)
        OBVIOUS
      <4>3. r \in Seq(Pieces) /\ text \o r \in Seq(Pieces)
        BY <1>1, <4>1, <4>2
      <4>4. Stream!Yields(r, "yield")
        BY <3>2, <4>2
      <4> QED BY <1>1, <4>3, <4>4, YieldsOr
    <3>3. CASE \E how \in {"limit", "malformed", "failure"} : Stream!Over(how) /\ text' = text
      BY <1>1, <3>3 DEF Stream!Over
    <3> QED BY <1>3, <1>10, <3>1, <3>2, <3>3 DEF Stream!Reads
  <2>2. StreamTypes'
    BY <1>1, <1>2, <1>7, <2>1 DEF StreamInv, StreamTypes
  <2>3. InStep' /\ GotBeginning' /\ Stamps'
    BY <1>1, <1>10, <2>1 DEF InStep, GotBeginning, Stamps
  <2> QED BY <1>4, <2>2, <2>3 DEF StreamInv
<1> QED BY <1>8, <1>9, <1>10

\* At the beginning nothing was said.
LEMMA StreamInvInit == Stream!Init => StreamInv
<1> SUFFICES ASSUME Stream!Init PROVE StreamInv
  OBVIOUS
<1>1. StreamTypes
  <2>1. <<>> \in Seq(Pieces) /\ <<>> \in Seq(Events)
    OBVIOUS
  <2> QED BY <2>1 DEF Stream!Init, StreamTypes
<1>2. Len(<<>>) = 0
  OBVIOUS
<1>3. InStep
  <2>1. Len(wire) = 0 /\ Len(said) = 0 /\ Len(text) = 0
    BY <1>2 DEF Stream!Init
  <2>2. PICK m : m = [i \in 0 .. 0 |-> 0]
    OBVIOUS
  <2>3. m \in Marks /\ m[0] = 0
    BY <2>1, <2>2 DEF Marks
  <2>4. Follows(m)
    BY <2>1, <2>3 DEF Follows
  <2> QED BY <2>3, <2>4 DEF InStep
<1>4. ResultLast /\ GotBeginning /\ Stamps
  BY <1>2 DEF Stream!Init, ResultLast, GotBeginning, Stamps, Begins
<1> QED BY <1>1, <1>3, <1>4 DEF StreamInv

\* Nothing that the invariant is about changes.
LEMMA StillKeeps ==
  ASSUME StreamInv, UNCHANGED <<style, agent, said, wire, text, stamped, at, outcome>>
  PROVE  StreamInv'
<1>1. InStep'
  BY DEF StreamInv, InStep, Marks, Follows, Told, Begins
<1>2. StreamTypes' /\ ResultLast'
  BY DEF StreamInv, StreamTypes, ResultLast
<1>3. GotBeginning' /\ Stamps'
  BY DEF StreamInv, GotBeginning, Stamps, Begins
<1> QED BY <1>1, <1>2, <1>3 DEF StreamInv

\* Every step keeps the invariant,
LEMMA StreamInvNext == StreamInv /\ [Stream!Next]_(Stream!vars) => StreamInv'
<1> SUFFICES ASSUME StreamInv, [Stream!Next]_(Stream!vars) PROVE StreamInv'
  OBVIOUS
<1>1. CASE UNCHANGED Stream!vars
  <2>1. UNCHANGED <<style, agent, said, wire, text, stamped, at, outcome>>
    BY <1>1 DEF Stream!vars, Stream!agentVars, Stream!streamVars
  <2> QED BY <2>1, StillKeeps
<1>2. ASSUME NEW piece \in Pieces, Stream!Says(piece) PROVE StreamInv'
  BY <1>2, SaysKeeps
<1>3. CASE Stream!UsesTool \/ Stream!Concludes
  BY <1>3, SnapshotKeeps
<1>4. CASE Stream!Resumes \/ Stream!Leaves \/ Stream!TimesOut \/ Stream!OutputEnds
  BY <1>4, RestsKeep
<1>5. CASE Stream!GivesResult
  BY <1>5, ResultKeeps
<1>6. CASE Stream!WritesAnything
  BY <1>6, RogueKeeps
<1>7. CASE Stream!Exits
  BY <1>7, ExitsKeeps
<1>8. CASE Stream!Reads
  BY <1>8, ReadsKeep
<1> QED BY <1>1, <1>2, <1>3, <1>4, <1>5, <1>6, <1>7, <1>8 DEF Stream!Next

\* and it gives the consumer a beginning of what the agent said.
LEMMA StreamInvHolds == StreamInv => Stream!StreamWhole
<1> SUFFICES ASSUME StreamInv PROVE Stream!StreamWhole
  OBVIOUS
<1>1. said \in Seq(Pieces) /\ text \in Seq(Pieces)
  BY DEF StreamInv, StreamTypes
<1>2. Begins(text, said) => Stream!Starts(said, text)
  BY <1>1, StartsIs
<1> QED BY <1>2 DEF StreamInv, GotBeginning, Stream!StreamWhole

-----------------------------------------------------------------------------
(* The wait: its invariant *)

\* What makes OwnedToTheEnd inductive: until the caller is done, every
\* cancellation is about to be raised or was kept; a caller that is about to
\* run has a reason; one that gives up was cancelled or too late.
AwaitInv ==
    /\ Files!AwaitTypeOK
    /\ caller # "over" => ending = "none"
    /\ cut /\ caller # "over" => thrown \/ cancelled
    /\ thrown \/ cancelled => cut
    /\ helper = "timed" /\ caller = "waits" => ~cancelled
    /\ helper = "timed" /\ caller = "waits" /\ woken => thrown \/ expired \/ work # "runs"
    /\ caller = "retrieves" => cancelled \/ expired
    /\ Files!OwnedToTheEnd

\* The invariant holds at the beginning of a wait.
LEMMA AwaitInvInit == Files!AwaitInit => AwaitInv
BY DEF Files!AwaitInit, AwaitInv, Files!AwaitTypeOK, Files!OwnedToTheEnd, Files!Endings

\* The end of the work, and what happens to it, keeps the invariant.
LEMMA WorkStep ==
    ASSUME AwaitInv, Files!WorkCancelled \/ \E how \in Files!Endings : Files!WorkEnds(how)
    PROVE AwaitInv'
<1> USE DEF AwaitInv, Files!AwaitTypeOK, Files!OwnedToTheEnd, Files!Endings
<1>1. CASE Files!WorkCancelled
  BY <1>1 DEF Files!WorkCancelled
<1>2. ASSUME NEW how \in Files!Endings, Files!WorkEnds(how) PROVE AwaitInv'
  BY <1>2 DEF Files!WorkEnds
<1> QED BY <1>1, <1>2

\* So does what happens to the caller while it waits.
LEMMA WaitStep ==
    ASSUME AwaitInv, Files!Notices \/ Files!Expires \/ Files!Cancels
    PROVE AwaitInv'
<1> USE DEF AwaitInv, Files!AwaitTypeOK, Files!OwnedToTheEnd, Files!Endings
<1>1. CASE Files!Notices
  BY <1>1 DEF Files!Notices
<1>2. CASE Files!Expires
  BY <1>2 DEF Files!Expires
<1>3. CASE Files!Cancels
  BY <1>3 DEF Files!Cancels
<1> QED BY <1>1, <1>2, <1>3

\* And every turn of the caller itself.
LEMMA CallerKeeps ==
    ASSUME AwaitInv, Files!CallerStep
    PROVE AwaitInv'
<1> USE DEF AwaitInv, Files!AwaitTypeOK, Files!OwnedToTheEnd, Files!Endings, Files!Runs
<1>1. CASE Files!TimedReturns
  BY <1>1 DEF Files!TimedReturns, Files!Returns
<1>2. CASE Files!TimedGivesUp
  BY <1>2 DEF Files!TimedGivesUp
<1>3. CASE Files!Retrieves
  <2>1. CASE Files!Kept
    <3>1. cancelled' = TRUE /\ cut = TRUE /\ work' = work
      BY <1>3, <2>1 DEF Files!Retrieves, Files!Kept
    <3>2. (caller' = "retrieves" /\ ending' = ending) \/ (caller' = "over" /\ ending' = "cancelled" /\ work # "runs")
      BY <1>3, <2>1 DEF Files!Retrieves
    <3> QED BY <1>3, <3>1, <3>2 DEF Files!Retrieves
  <2>2. CASE ~Files!Kept
    <3>1. cancelled' = FALSE /\ cut = FALSE /\ work # "runs" /\ caller' = "over" /\ ending' = "timeout" /\ expired
      BY <1>3, <2>2 DEF Files!Retrieves, Files!Kept
    <3> QED BY <1>3, <3>1 DEF Files!Retrieves
  <2> QED BY <2>1, <2>2
<1>4. CASE Files!ShieldReturns
  BY <1>4 DEF Files!ShieldReturns, Files!Kept
<1>5. CASE Files!ShieldAgain
  BY <1>5 DEF Files!ShieldAgain
<1> QED BY <1>1, <1>2, <1>3, <1>4, <1>5 DEF Files!CallerStep

\* A file request asks for its work first, and waits for a thread that runs
\* until it is done.
FilesInv ==
    /\ AwaitInv
    /\ part = "files" => (stage # "over" => work = "runs") /\ (stage = "call" => ~cut)

\* A request that is refused ends at once: nobody was cancelled.
LEMMA CallsKeep ==
    ASSUME FilesInv, part = "files", Files!Calls
    PROVE AwaitInv' /\ (stage' # "over" => work' = "runs") /\ stage' # "call"
<1> USE DEF FilesInv, AwaitInv, Files!AwaitTypeOK, Files!OwnedToTheEnd, Files!Endings
<1>1. CASE Files!Refused
  BY <1>1 DEF Files!Calls
<1>2. CASE ~Files!Refused
  BY <1>2 DEF Files!Calls, Files!awaitVars
<1> QED BY <1>1, <1>2

\* A step of the thread ends the work at most, as it may end.
LEMMA ThreadStepIs ==
    ASSUME Files!ThreadStep
    PROVE /\ stage \notin {"call", "over"} /\ stage' # "call"
          /\ \/ UNCHANGED Files!awaitVars
             \/ stage' = "over" /\ work' \in {"ok", "error"} /\ Files!Unawaited
<1> USE DEF Files!Goes, Files!Fails, Files!Succeeds
<1>1. CASE Files!Checks
  BY <1>1 DEF Files!Checks
<1>2. CASE Files!Opens
  BY <1>2 DEF Files!Opens
<1>3. CASE Files!Sizes
  BY <1>3 DEF Files!Sizes
<1>4. CASE Files!ReadsMore
  BY <1>4 DEF Files!ReadsMore
<1>5. CASE Files!TakesLine
  BY <1>5 DEF Files!TakesLine
<1>6. CASE Files!ReadEnds \/ Files!WriteEnds
  BY <1>6 DEF Files!ReadEnds, Files!WriteEnds
<1>7. CASE Files!Truncates
  BY <1>7 DEF Files!Truncates
<1>8. CASE Files!WritesSome
  BY <1>8 DEF Files!WritesSome
<1> QED BY <1>1, <1>2, <1>3, <1>4, <1>5, <1>6, <1>7, <1>8 DEF Files!ThreadStep

\* The thread of a file request keeps the invariant of the wait for it.
LEMMA ThreadKeeps ==
    ASSUME FilesInv, part = "files", Files!ThreadStep
    PROVE AwaitInv' /\ (stage' # "over" => work' = "runs") /\ stage' # "call"
<1>1. /\ stage \notin {"call", "over"} /\ stage' # "call"
      /\ \/ UNCHANGED Files!awaitVars
         \/ stage' = "over" /\ work' \in {"ok", "error"} /\ Files!Unawaited
  BY ThreadStepIs
<1>2. work = "runs" /\ AwaitInv
  BY <1>1 DEF FilesInv
<1>3. CASE UNCHANGED Files!awaitVars
  BY <1>1, <1>2, <1>3 DEF AwaitInv, Files!AwaitTypeOK, Files!OwnedToTheEnd, Files!awaitVars
<1>4. CASE stage' = "over" /\ work' \in {"ok", "error"} /\ Files!Unawaited
  BY <1>1, <1>2, <1>4 DEF AwaitInv, Files!AwaitTypeOK, Files!OwnedToTheEnd, Files!Endings, Files!Unawaited
<1> QED BY <1>1, <1>3, <1>4

\* The invariant of the waits, over the steps of every part.
LEMMA FilesInvNext == FilesInv /\ [TextNext]_<<part, vars, streamVars, ownVars, awaitVars>> => FilesInv'
<1> SUFFICES ASSUME FilesInv, [TextNext]_<<part, vars, streamVars, ownVars, awaitVars>> PROVE FilesInv'
  OBVIOUS
<1>1. ASSUME UNCHANGED <<part, awaitVars>>, stage' = stage PROVE FilesInv'
  BY <1>1 DEF FilesInv, AwaitInv, Files!AwaitTypeOK, Files!OwnedToTheEnd, awaitVars
<1>2. ASSUME part = "files", part' = part, UNCHANGED stage, UNCHANGED work, AwaitInv', stage # "call"
      PROVE FilesInv'
  BY <1>2 DEF FilesInv
<1>3. CASE part = "files" /\ Files!Next /\ part' = part
  <2>1. CASE Files!Calls \/ Files!ThreadStep
    BY <1>3, <2>1, CallsKeep, ThreadKeeps DEF FilesInv
  <2>2. CASE Files!Exchanges \/ Files!Rewrites
    BY <1>1, <1>3, <2>2 DEF Files!Exchanges, Files!Rewrites, Files!awaitVars, Files!threadVars, awaitVars
  <2>3. CASE Files!Awaits
    <3>1. Files!AwaitStep /\ UNCHANGED stage /\ stage # "call"
      BY <2>3 DEF Files!Awaits, Files!threadVars
    <3>2. AwaitInv'
      BY <3>1, WaitStep, CallerKeeps DEF FilesInv, Files!AwaitStep
    <3>3. UNCHANGED work
      BY <3>1 DEF Files!AwaitStep, Files!CallerStep, Files!Notices, Files!Expires, Files!Cancels,
         Files!TimedReturns, Files!TimedGivesUp, Files!Retrieves, Files!ShieldReturns, Files!ShieldAgain,
         Files!Returns, Files!Runs
    <3> QED BY <1>2, <1>3, <3>1, <3>2, <3>3
  <2> QED BY <1>3, <2>1, <2>2, <2>3 DEF Files!Next
<1>4. CASE part = "await" /\ Files!AwaitNext /\ part' = part
  <2>1. AwaitInv'
    BY <1>4, WorkStep, WaitStep, CallerKeeps DEF FilesInv, Files!AwaitNext, Files!AwaitStep
  <2> QED BY <1>4, <2>1 DEF FilesInv
<1>5. CASE \/ part = "terminal" /\ UNCHANGED <<part, streamVars, ownVars, awaitVars>>
           \/ part = "stream" /\ UNCHANGED <<part, vars, ownVars, awaitVars>>
           \/ UNCHANGED <<part, vars, streamVars, ownVars, awaitVars>>
  BY <1>1, <1>5 DEF ownVars
<1> QED BY <1>3, <1>4, <1>5 DEF TextNext

\* It holds at the beginning.
LEMMA FilesInvInit == TextInit => FilesInv
<1> SUFFICES ASSUME TextInit PROVE FilesInv
  OBVIOUS
<1>1. Files!AwaitInit
  BY DEF TextInit, NoAwait, Files!Init
<1>2. part = "files" => stage = "call"
  BY DEF TextInit, Files!Init, Files!FileInit
<1> QED BY <1>1, <1>2, AwaitInvInit DEF FilesInv, Files!AwaitInit

-----------------------------------------------------------------------------
(* The theorems *)

\* query_stream: at every moment the consumer has got a beginning of what the
\* agent said, and all of it when the stream succeeds; an agent that follows one
\* of the documented protocols is never refused.
THEOREM StreamsWhole == TextSpec => []StreamWhole
<1>1. TextInit => StreamInv
  BY StreamInvInit DEF TextInit, NoStream
<1>2. StreamInv /\ [TextNext]_<<part, vars, streamVars, ownVars, awaitVars>> => StreamInv'
  <2> SUFFICES ASSUME StreamInv, [TextNext]_<<part, vars, streamVars, ownVars, awaitVars>>
               PROVE  StreamInv'
    OBVIOUS
  <2>1. CASE Stream!Next
    BY <2>1, StreamInvNext
  <2>2. CASE UNCHANGED streamVars
    BY <2>2, StillKeeps DEF streamVars
  <2>3. CASE part = "files" /\ UNCHANGED streamVars
    BY <2>2, <2>3
  <2> QED BY <2>1, <2>2 DEF TextNext
<1>3. StreamInv => StreamWhole
  BY StreamInvHolds DEF StreamWhole
<1> QED BY <1>1, <1>2, <1>3, PTL DEF TextSpec

\* wait_for_owned, and the loops around asyncio.shield: nothing that a caller
\* owns runs on after it has gone on, and no cancellation of it is lost, for any
\* number of cancellations at any moments.
THEOREM WaitsToTheEnd == TextSpec => []OwnedToTheEnd
<1>1. FilesInv => OwnedToTheEnd
  BY DEF FilesInv, AwaitInv, OwnedToTheEnd
<1> QED BY <1>1, FilesInvInit, FilesInvNext, PTL DEF TextSpec
=============================================================================
