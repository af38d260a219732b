---------------------------- MODULE CircularQueue ----------------------------
(***************************************************************************)
(* The queues of lib/lib.c (QUEUE): an array used in a circle.  Elements   *)
(* is what a queue stands for; Console.tla and Network.tla keep their      *)
(* queues as that sequence, which LibProofs.tla justifies.                 *)
(***************************************************************************)
EXTENDS Integers, Sequences

\* The queues of a size.
Queue(Val, max) ==
    [arr : [0 .. max - 1 -> Val], idx : 0 .. max - 1, len : 0 .. max, max : {max}]

\* The place in the array n places after the front.
At(q, n) == (q.idx + n) % q.max

QueueOf(arr, max) == [arr |-> arr, idx |-> 0, len |-> 0, max |-> max]

Push(q, v) == [arr |-> [q.arr EXCEPT ![At(q, q.len)] = v],
               idx |-> q.idx, len |-> q.len + 1, max |-> q.max]
Pop(q)   == [arr |-> q.arr, idx |-> At(q, 1), len |-> q.len - 1, max |-> q.max]
Front(q) == q.arr[q.idx]
Empty(q) == q.len = 0
Full(q)  == q.len = q.max

Elements(q) == [k \in 1 .. q.len |-> q.arr[At(q, k - 1)]]
=============================================================================
