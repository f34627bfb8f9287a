----------------------------- MODULE WaitQueue ------------------------------
(***************************************************************************)
(* The queue of an asyncio.Lock: the task that holds the lock first, then  *)
(* those who wait, in the order in which they came.  Whoever releases the  *)
(* lock leaves at the head; a cancelled task leaves wherever it is.        *)
(***************************************************************************)
EXTENDS Integers, Sequences

\* t gives up its place in the queue, which it has at most once.
Without(q, t) ==
  IF \E i \in 1..Len(q) : q[i] = t
    THEN LET i == CHOOSE i \in 1..Len(q) : q[i] = t
         IN  SubSeq(q, 1, i - 1) \o SubSeq(q, i + 1, Len(q))
    ELSE q
=============================================================================
