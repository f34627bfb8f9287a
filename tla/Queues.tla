------------------------------- MODULE Queues -------------------------------
(***************************************************************************)
(* Facts about first-in-first-out queues whose elements are different: the *)
(* waiters of an asyncio.Lock and the events on their way to the listener; *)
(* and what is meant by at most one.                                       *)
(***************************************************************************)
EXTENDS WaitQueue, SequenceTheorems, FiniteSetTheorems, TLAPS

Distinct(q) == \A i, j \in 1..Len(q) : q[i] = q[j] => i = j
In(t, q) == \E i \in 1..Len(q) : q[i] = t

\* Every a in the queue is ahead of every b.
Before(a, b, q) == \A i, j \in 1..Len(q) : q[i] = a /\ q[j] = b => i < j

\* Joining the queue.
LEMMA QueueAppend ==
  ASSUME NEW T, NEW q \in Seq(T), Distinct(q), NEW t \in T, ~In(t, q)
  PROVE  /\ Append(q, t) \in Seq(T) /\ Distinct(Append(q, t))
         /\ Append(q, t) # <<>>
         /\ \A u : In(u, Append(q, t)) <=> In(u, q) \/ u = t
         /\ q # <<>> => Head(Append(q, t)) = Head(q)
PROOF
<1>1. /\ Append(q, t) \in Seq(T) /\ Append(q, t) # <<>> /\ Len(q) \in Nat
      /\ Len(Append(q, t)) = Len(q) + 1
      /\ \A i \in 1..Len(q) : Append(q, t)[i] = q[i]
      /\ Append(q, t)[Len(q) + 1] = t
  BY AppendProperties, LenProperties
<1>2. Distinct(Append(q, t))
  BY <1>1 DEF Distinct, In
<1>3. ASSUME NEW u
      PROVE  In(u, Append(q, t)) <=> In(u, q) \/ u = t
  <2>1. ASSUME NEW i \in 1..Len(q), q[i] = u PROVE In(u, Append(q, t))
    BY <1>1, <2>1 DEF In
  <2>2. In(t, Append(q, t))
    BY <1>1 DEF In
  <2>3. ASSUME NEW i \in 1..Len(Append(q, t)), Append(q, t)[i] = u, u # t
        PROVE  In(u, q)
    <3>1. i \in 1..Len(q)
      BY <1>1, <2>3
    <3> QED BY <1>1, <2>3, <3>1 DEF In
  <2> QED BY <2>1, <2>2, <2>3 DEF In
<1>4. q # <<>> => Head(Append(q, t)) = Head(q)
  BY HeadTailAppend
<1> QED BY <1>1, <1>2, <1>3, <1>4

\* Leaving at the head.
LEMMA QueueTail ==
  ASSUME NEW T, NEW q \in Seq(T), Distinct(q), q # <<>>
  PROVE  /\ Tail(q) \in Seq(T) /\ Distinct(Tail(q)) /\ Head(q) \in T
         /\ In(Head(q), q) /\ ~In(Head(q), Tail(q))
         /\ \A u : In(u, Tail(q)) <=> In(u, q) /\ u # Head(q)
PROOF
<1>1. /\ Tail(q) \in Seq(T) /\ Len(q) \in Nat \ {0} /\ Len(Tail(q)) = Len(q) - 1
      /\ \A i \in 1..(Len(q) - 1) : Tail(q)[i] = q[i + 1]
      /\ Head(q) = q[1] /\ Head(q) \in T
  BY HeadTailProperties, EmptySeq
<1>2. Distinct(Tail(q))
  <2> SUFFICES ASSUME NEW i \in 1..(Len(q) - 1), NEW j \in 1..(Len(q) - 1),
                      q[i + 1] = q[j + 1]
               PROVE  i = j
    BY <1>1 DEF Distinct
  <2>1. i + 1 \in 1..Len(q) /\ j + 1 \in 1..Len(q)
    BY <1>1
  <2> QED BY <2>1 DEF Distinct
<1>3. In(Head(q), q)
  BY <1>1 DEF In
<1>4. ASSUME NEW u
      PROVE  In(u, Tail(q)) <=> In(u, q) /\ u # Head(q)
  <2>1. ASSUME NEW i \in 1..(Len(q) - 1), q[i + 1] = u
        PROVE  In(u, q) /\ u # Head(q)
    <3>1. i + 1 \in 1..Len(q) /\ 1 \in 1..Len(q) /\ i + 1 # 1
      BY <1>1
    <3> QED BY <1>1, <2>1, <3>1 DEF In, Distinct
  <2>2. ASSUME NEW i \in 1..Len(q), q[i] = u, u # Head(q)
        PROVE  In(u, Tail(q))
    <3>1. i - 1 \in 1..(Len(q) - 1) /\ (i - 1) + 1 = i
      BY <1>1, <2>2
    <3> QED BY <1>1, <2>2, <3>1 DEF In
  <2> QED BY <1>1, <2>1, <2>2 DEF In
<1> QED BY <1>1, <1>2, <1>3, <1>4

\* Giving up one's place.
LEMMA QueueWithout ==
  ASSUME NEW T, NEW q \in Seq(T), Distinct(q), NEW t
  PROVE  /\ Without(q, t) \in Seq(T) /\ Distinct(Without(q, t))
         /\ \A u : In(u, Without(q, t)) <=> In(u, q) /\ u # t
         /\ q # <<>> /\ Head(q) # t =>
              Without(q, t) # <<>> /\ Head(Without(q, t)) = Head(q)
PROOF
<1> DEFINE w == Without(q, t)
<1>1. CASE ~In(t, q)
  <2>1. w = q
    BY <1>1 DEF In, Without
  <2> QED BY <1>1, <2>1
<1>2. CASE In(t, q)
  <2> DEFINE k == CHOOSE i \in 1..Len(q) : q[i] = t
  <2>1. k \in 1..Len(q) /\ q[k] = t
    BY <1>2 DEF In
  <2>2. w = SubSeq(q, 1, k - 1) \o SubSeq(q, k + 1, Len(q))
    BY <1>2 DEF In, Without
  <2> HIDE DEF w, k
  <2>3. Len(q) \in Nat /\ \A i \in 1..Len(q) : q[i] \in T
    BY ElementOfSeq, LenProperties
  <2>4. /\ SubSeq(q, 1, k - 1) \in Seq(T) /\ Len(SubSeq(q, 1, k - 1)) = k - 1
        /\ \A i \in 1..(k - 1) : SubSeq(q, 1, k - 1)[i] = q[i]
    BY <2>1, <2>3, SubSeqProperties
  <2>5. /\ SubSeq(q, k + 1, Len(q)) \in Seq(T)
        /\ Len(SubSeq(q, k + 1, Len(q))) = Len(q) - k
        /\ \A i \in 1..(Len(q) - k) : SubSeq(q, k + 1, Len(q))[i] = q[k + i]
    BY <2>1, <2>3, SubSeqProperties
  <2>6. /\ w \in Seq(T) /\ Len(w) = Len(q) - 1
        /\ \A i \in 1..(Len(q) - 1) : w[i] = IF i < k THEN q[i] ELSE q[i + 1]
    <3>1. /\ w \in Seq(T) /\ Len(w) = (k - 1) + (Len(q) - k)
          /\ \A i \in 1..((k - 1) + (Len(q) - k)) : w[i] =
               IF i <= k - 1 THEN SubSeq(q, 1, k - 1)[i]
                             ELSE SubSeq(q, k + 1, Len(q))[i - (k - 1)]
      BY <2>2, <2>4, <2>5, ConcatProperties
    <3>2. ASSUME NEW i \in 1..(Len(q) - 1)
          PROVE  w[i] = IF i < k THEN q[i] ELSE q[i + 1]
      <4>1. CASE i < k
        BY <2>1, <2>3, <2>4, <3>1, <4>1
      <4>2. CASE i >= k
        <5>1. i - (k - 1) \in 1..(Len(q) - k) /\ k + (i - (k - 1)) = i + 1
          BY <2>1, <2>3, <4>2
        <5> QED BY <2>1, <2>3, <2>5, <3>1, <4>2, <5>1
      <4> QED BY <2>1, <4>1, <4>2
    <3> QED BY <2>1, <2>3, <3>1, <3>2
  <2>7. Distinct(w)
    <3> SUFFICES ASSUME NEW i \in 1..(Len(q) - 1), NEW j \in 1..(Len(q) - 1),
                        w[i] = w[j]
                 PROVE  i = j
      BY <2>6 DEF Distinct
    <3> DEFINE at(n) == IF n < k THEN n ELSE n + 1
    <3>1. /\ at(i) \in 1..Len(q) /\ at(j) \in 1..Len(q)
          /\ w[i] = q[at(i)] /\ w[j] = q[at(j)]
      BY <2>1, <2>3, <2>6
    <3>2. at(i) = at(j)
      BY <3>1 DEF Distinct
    <3> QED BY <2>1, <3>2
  <2>8. ASSUME NEW u
        PROVE  In(u, w) <=> In(u, q) /\ u # t
    <3>1. ASSUME NEW i \in 1..(Len(q) - 1), w[i] = u
          PROVE  In(u, q) /\ u # t
      <4>1. CASE i < k
        BY <2>1, <2>3, <2>6, <3>1, <4>1 DEF In, Distinct
      <4>2. CASE i >= k
        <5>1. i + 1 \in 1..Len(q) /\ i + 1 # k /\ w[i] = q[i + 1]
          BY <2>1, <2>3, <2>6, <4>2
        <5> QED BY <2>1, <3>1, <5>1 DEF In, Distinct
      <4> QED BY <2>1, <4>1, <4>2
    <3>2. ASSUME NEW i \in 1..Len(q), q[i] = u, u # t
          PROVE  In(u, w)
      <4>1. CASE i < k
        <5>1. i \in 1..(Len(q) - 1) /\ w[i] = u
          BY <2>1, <2>3, <2>6, <3>2, <4>1
        <5> QED BY <2>6, <5>1 DEF In
      <4>2. CASE i > k
        <5>1. i - 1 \in 1..(Len(q) - 1) /\ w[i - 1] = u
          BY <2>1, <2>3, <2>6, <3>2, <4>2
        <5> QED BY <2>6, <5>1 DEF In
      <4> QED BY <2>1, <3>2, <4>1, <4>2
    <3> QED BY <2>6, <3>1, <3>2 DEF In
  <2>9. q # <<>> /\ Head(q) # t => w # <<>> /\ Head(w) = Head(q)
    <3> SUFFICES ASSUME q # <<>>, Head(q) # t
                 PROVE  w # <<>> /\ Head(w) = Head(q)
      OBVIOUS
    <3>1. k > 1 /\ 1 \in 1..(Len(q) - 1) /\ w[1] = q[1]
      BY <2>1, <2>3, <2>6
    <3> QED BY <2>6, <3>1
  <2> QED BY <2>6, <2>7, <2>8, <2>9 DEF w
<1> QED BY <1>1, <1>2

\* What joins is behind everything.
LEMMA BeforeAppend ==
  ASSUME NEW T, NEW q \in Seq(T), NEW e \in T, NEW a, NEW b, Before(a, b, q),
         e # a \/ (e # b /\ ~In(b, q))
  PROVE  Before(a, b, Append(q, e))
PROOF
<1>1. /\ Len(q) \in Nat /\ Len(Append(q, e)) = Len(q) + 1
      /\ \A i \in 1..Len(q) : Append(q, e)[i] = q[i]
      /\ Append(q, e)[Len(q) + 1] = e
  BY AppendProperties, LenProperties
<1> SUFFICES ASSUME NEW i \in 1..(Len(q) + 1), NEW j \in 1..(Len(q) + 1),
                    Append(q, e)[i] = a, Append(q, e)[j] = b
             PROVE  i < j
  BY <1>1 DEF Before
<1>2. CASE e # a
  <2>1. i \in 1..Len(q) /\ q[i] = a
    BY <1>1, <1>2
  <2>2. CASE j = Len(q) + 1
    BY <1>1, <2>1, <2>2
  <2>3. CASE j # Len(q) + 1
    <3>1. j \in 1..Len(q) /\ q[j] = b
      BY <1>1, <2>3
    <3> QED BY <2>1, <3>1 DEF Before
  <2> QED BY <2>2, <2>3
<1>3. CASE e # b /\ ~In(b, q)
  <2>1. j \in 1..Len(q) /\ q[j] = b
    BY <1>1, <1>3
  <2> QED BY <1>3, <2>1 DEF In
<1> QED BY <1>2, <1>3

\* Leaving at the head changes no order; what is behind something is not at the
\* head.
LEMMA BeforeTail ==
  ASSUME NEW T, NEW q \in Seq(T), q # <<>>, NEW a, NEW b, Before(a, b, q)
  PROVE  /\ Before(a, b, Tail(q))
         /\ Head(q) = b => ~In(a, q)
PROOF
<1>1. /\ Len(q) \in Nat \ {0} /\ Len(Tail(q)) = Len(q) - 1
      /\ \A i \in 1..(Len(q) - 1) : Tail(q)[i] = q[i + 1]
      /\ Head(q) = q[1]
  BY HeadTailProperties, EmptySeq
<1>2. Before(a, b, Tail(q))
  <2> SUFFICES ASSUME NEW i \in 1..(Len(q) - 1), NEW j \in 1..(Len(q) - 1),
                      q[i + 1] = a, q[j + 1] = b
               PROVE  i < j
    BY <1>1 DEF Before
  <2>1. i + 1 \in 1..Len(q) /\ j + 1 \in 1..Len(q)
    BY <1>1
  <2>2. i + 1 < j + 1
    BY <2>1 DEF Before
  <2> QED BY <2>2
<1>3. ASSUME Head(q) = b, NEW i \in 1..Len(q), q[i] = a
      PROVE  FALSE
  <2>1. 1 \in 1..Len(q) /\ q[1] = b
    BY <1>1, <1>3
  <2>2. i < 1
    BY <1>3, <2>1 DEF Before
  <2> QED BY <1>1, <2>2
<1> QED BY <1>2, <1>3 DEF In

\* A queue of which every element is in a set is a queue over that set.
LEMMA QueueOver ==
  ASSUME NEW S, NEW T, NEW q \in Seq(S), \A i \in 1..Len(q) : q[i] \in T
  PROVE  q \in Seq(T)
PROOF
<1>1. Len(q) \in Nat /\ q \in [1..Len(q) -> S] /\ DOMAIN q = 1..Len(q)
  BY LenProperties
<1>2. q \in [1..Len(q) -> T]
  BY <1>1
<1> QED BY <1>1, <1>2, SeqDef

\* A set without two different elements has at most one.
LEMMA AtMostOne ==
  ASSUME NEW S, \A x, y \in S : x = y
  PROVE  Cardinality(S) \in {0, 1} /\ (Cardinality(S) = 1 => S # {})
PROOF
<1>1. CASE S = {}
  BY <1>1, FS_EmptySet
<1>2. CASE S # {}
  <2>1. PICK x \in S : S = {x}
    BY <1>2
  <2> QED BY <2>1, FS_Singleton
<1> QED BY <1>1, <1>2
=============================================================================
