----------------------------- MODULE QueueLemmas -----------------------------
(* What the FIFO queues of the pool and the lines of the user locks rely on: *)
(* taking one waiter out, or adding one at the end, leaves the others there, *)
(* once each and in their order.                                             *)
EXTENDS Naturals, Sequences, SequencesExt, SequenceTheorems, WellFoundedInduction, TLAPS

Distinct(s) == \A i, j \in 1 .. Len(s) : s[i] = s[j] => i = j

\* A set of positions has a first one.
LEMMA Least ==
    ASSUME NEW I \in SUBSET Nat, I # {}
    PROVE  Min(I) \in I /\ \A i \in I : Min(I) <= i
<1> DEFINE Less == {ss \in Nat \X Nat : ss[1] < ss[2]}
<1>1. IsWellFoundedOn(Less, Nat)
  BY NatLessThanWellFounded DEF OpToRel
<1>2. PICK x \in I : \A y \in I : <<y, x>> \notin Less
  <2> HIDE DEF Less
  <2> QED BY <1>1, WFMin
<1>3. ASSUME NEW y \in I
      PROVE x <= y
  <2>1. x \in Nat /\ y \in Nat
    OBVIOUS
  <2>2. ~(y < x)
    BY <1>2, <2>1
  <2> QED BY <2>1, <2>2
<1> QED BY <1>3 DEF Min

\* RemoveAt closes the gap it makes.
LEMMA RemoveAtFacts ==
    ASSUME NEW S, NEW s \in Seq(S), NEW k \in 1 .. Len(s)
    PROVE  /\ RemoveAt(s, k) \in Seq(S)
           /\ Len(RemoveAt(s, k)) = Len(s) - 1
           /\ \A j \in 1 .. Len(s) - 1 : RemoveAt(s, k)[j] = IF j < k THEN s[j] ELSE s[j + 1]
<1> DEFINE front == SubSeq(s, 1, k - 1)
           back == SubSeq(s, k + 1, Len(s))
<1>1. /\ front \in Seq(S) /\ Len(front) = k - 1
      /\ \A j \in 1 .. k - 1 : front[j] = s[j]
  OBVIOUS
<1>2. /\ back \in Seq(S) /\ Len(back) = Len(s) - k
      /\ \A j \in 1 .. Len(s) - k : back[j] = s[k + j]
  OBVIOUS
<1> HIDE DEF front, back
<1>3. RemoveAt(s, k) = front \o back
  BY DEF RemoveAt, front, back
<1>4. /\ front \o back \in Seq(S) /\ Len(front \o back) = Len(s) - 1
      /\ \A j \in 1 .. Len(s) - 1 :
           (front \o back)[j] = IF j <= k - 1 THEN front[j] ELSE back[j - (k - 1)]
  <2>1. Len(s) \in Nat /\ Len(front) + Len(back) = Len(s) - 1
    BY <1>1, <1>2
  <2>2. /\ front \o back \in Seq(S) /\ Len(front \o back) = Len(front) + Len(back)
        /\ \A j \in 1 .. Len(front) + Len(back) :
             (front \o back)[j] = IF j <= Len(front) THEN front[j] ELSE back[j - Len(front)]
    <3>1. front \in Seq(S) /\ back \in Seq(S)
      BY <1>1, <1>2
    <3> QED BY <3>1, ConcatProperties, Zenon
  <2>3. Len(front) = k - 1
    BY <1>1
  <2> QED BY <2>1, <2>2, <2>3
<1>5. ASSUME NEW j \in 1 .. Len(s) - 1
      PROVE  (front \o back)[j] = IF j < k THEN s[j] ELSE s[j + 1]
  <2>1. ASSUME j < k PROVE (front \o back)[j] = s[j]
    BY <1>1, <1>4, <2>1
  <2>2. ASSUME ~(j < k) PROVE (front \o back)[j] = s[j + 1]
    <3>1. Len(s) \in Nat /\ j \in Nat /\ k \in Nat
      OBVIOUS
    <3>2. j - (k - 1) \in 1 .. Len(s) - k /\ k + (j - (k - 1)) = j + 1 /\ ~(j <= k - 1)
      BY <2>2, <3>1
    <3>3. (front \o back)[j] = back[j - (k - 1)]
      BY <1>4, <3>2
    <3>4. back[j - (k - 1)] = s[k + (j - (k - 1))]
      BY <1>2, <3>2
    <3> QED BY <2>2, <3>1, <3>2, <3>3, <3>4
  <2> QED BY <2>1, <2>2
<1> QED BY <1>3, <1>4, <1>5

\* RemoveFirst takes out one element, or there is none to take out.
LEMMA RemoveFirstIs ==
    ASSUME NEW S, NEW s \in Seq(S), NEW e
    PROVE  \/ RemoveFirst(s, e) = s /\ \A i \in 1 .. Len(s) : s[i] # e
           \/ \E k \in 1 .. Len(s) : s[k] = e /\ RemoveFirst(s, e) = RemoveAt(s, k)
<1> DEFINE I == {i \in 1 .. Len(s) : s[i] = e}
<1>1. CASE I # {}
  <2>1. RemoveFirst(s, e) = RemoveAt(s, Min(I))
    BY <1>1, Zenon DEF RemoveFirst, SelectInSeq
  <2>2. Min(I) \in I
    <3>1. I \in SUBSET Nat
      OBVIOUS
    <3> HIDE DEF I
    <3> QED BY <1>1, <3>1, Least
  <2> QED BY <2>1, <2>2
<1>2. CASE I = {}
  BY <1>2 DEF RemoveFirst
<1> QED BY <1>1, <1>2

\* What is left of a queue is a queue.
LEMMA RemoveFirstType ==
    ASSUME NEW S, NEW s \in Seq(S), NEW e
    PROVE  RemoveFirst(s, e) \in Seq(S)
BY RemoveFirstIs, RemoveAtFacts

\* The others stay, once each.
LEMMA RemoveFirstKeeps ==
    ASSUME NEW S, NEW s \in Seq(S), NEW e, Distinct(s)
    PROVE  /\ Distinct(RemoveFirst(s, e))
           /\ Range(RemoveFirst(s, e)) = Range(s) \ {e}
<1> DEFINE r == RemoveFirst(s, e)
<1>1. CASE r = s /\ \A i \in 1 .. Len(s) : s[i] # e
  BY <1>1 DEF Range
<1>2. ASSUME NEW k \in 1 .. Len(s), s[k] = e, r = RemoveAt(s, k)
      PROVE  Distinct(r) /\ Range(r) = Range(s) \ {e}
  <2>1. /\ r \in Seq(S) /\ Len(r) = Len(s) - 1
        /\ \A j \in 1 .. Len(s) - 1 : r[j] = IF j < k THEN s[j] ELSE s[j + 1]
    BY <1>2, RemoveAtFacts
  <2> HIDE DEF r
  <2>2. Distinct(r)
    BY <2>1 DEF Distinct
  <2>3. Range(r) \subseteq Range(s) \ {e}
    BY <1>2, <2>1 DEF Range, Distinct
  <2>4. ASSUME NEW i \in 1 .. Len(s), s[i] # e PROVE s[i] \in Range(r)
    <3>1. CASE i < k
      <4>1. i \in 1 .. Len(r) /\ r[i] = s[i]
        BY <2>1, <3>1
      <4> QED BY <2>1, <4>1 DEF Range
    <3>2. CASE i > k
      <4>1. i - 1 \in 1 .. Len(r) /\ r[i - 1] = s[i]
        BY <2>1, <3>2
      <4> QED BY <2>1, <4>1 DEF Range
    <3> QED BY <1>2, <2>4, <3>1, <3>2
  <2>5. \A v \in Range(s) : \E i \in 1 .. Len(s) : v = s[i]
    BY DEF Range
  <2> QED BY <2>2, <2>3, <2>4, <2>5
<1> QED BY <1>1, <1>2, RemoveFirstIs

\* Whoever is first and does not leave stays first.
LEMMA RemoveFirstHead ==
    ASSUME NEW S, NEW s \in Seq(S), NEW e, s # <<>>, Head(s) # e
    PROVE  RemoveFirst(s, e) # <<>> /\ Head(RemoveFirst(s, e)) = Head(s)
<1>1. ASSUME NEW k \in 1 .. Len(s), s[k] = e
      PROVE  RemoveAt(s, k) # <<>> /\ Head(RemoveAt(s, k)) = Head(s)
  <2>1. k > 1
    BY <1>1
  <2>2. RemoveAt(s, k) \in Seq(S) /\ Len(RemoveAt(s, k)) = Len(s) - 1
    BY RemoveAtFacts
  <2>3. RemoveAt(s, k)[1] = s[1]
    BY <2>1, RemoveAtFacts
  <2> QED BY <2>1, <2>2, <2>3
<1> QED BY <1>1, RemoveFirstIs

\* Whoever was not in the queue is in it once.
LEMMA AppendKeeps ==
    ASSUME NEW S, NEW s \in Seq(S), NEW e \in S \ Range(s), Distinct(s)
    PROVE  /\ Distinct(Append(s, e))
           /\ Range(Append(s, e)) = Range(s) \cup {e}
           /\ s # <<>> => Head(Append(s, e)) = Head(s)
<1> DEFINE a == Append(s, e)
<1>1. /\ a \in Seq(S) /\ Len(a) = Len(s) + 1 /\ a[Len(s) + 1] = e
      /\ \A i \in 1 .. Len(s) : a[i] = s[i]
  OBVIOUS
<1>2. \A i \in 1 .. Len(s) : s[i] # e
  BY DEF Range
<1> HIDE DEF a
<1>3. Distinct(a)
  BY <1>1, <1>2 DEF Distinct
<1>4. Range(a) = Range(s) \cup {e}
  BY <1>1 DEF Range
<1>5. s # <<>> => Head(a) = Head(s)
  BY <1>1
<1> QED BY <1>3, <1>4, <1>5 DEF a
=============================================================================
