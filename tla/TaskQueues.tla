----------------------------- MODULE TaskQueues -----------------------------
(***************************************************************************)
(* The queue helpers of kern/task.c.  A circular doubly linked taskqueue   *)
(* (or cdnode list) is the sequence of its elements, from queue->start to  *)
(* queue->start->prev: enqueueing appends, taskqueue_peek is Head, and     *)
(* dequeueing takes an element out of the middle and leaves the others in  *)
(* their order.                                                            *)
(***************************************************************************)
EXTENDS Integers, Sequences, FiniteSets, Functions

(* The elements of s that lie in S, in the order they have in s: the k-th  *)
(* of them is the one with k-1 of them before it.                          *)
Keep(s, S) ==
    LET at == {k \in DOMAIN s : s[k] \in S}
    IN  [n \in 1 .. Cardinality(at) |->
            s[CHOOSE k \in at : Cardinality({j \in at : j <= k}) = n]]

WithoutFirst(s, S) ==     \* mutant: only the first element can leave
    IF s # <<>> /\ Head(s) \in S THEN Tail(s) ELSE s

(* s after each element of S was dequeued from it. *)
Without(s, S) ==
    IF Range(s) \cap S = {} THEN s ELSE Keep(s, Range(s) \ S)

(* task_move of the tasks ts, one after the other, each from the queue it  *)
(* is on (if any) to the end of queue dest[i].                             *)
Requeue(queue, ts, dest) ==
    [q \in DOMAIN queue |->
        Without(queue[q], Range(ts)) \o
            Keep(ts, {i \in Range(ts) : dest[i] = q})]

=============================================================================
