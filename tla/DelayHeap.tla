----------------------------- MODULE DelayHeap ------------------------------
(***************************************************************************)
(* The heap of delays of servers/clock.c: an array of [tid, time] records  *)
(* whose elements 0 to n - 1 are in use, the least time first.             *)
(***************************************************************************)
EXTENDS Integers

Parent(i) == (i - 1) \div 2

\* The child that would move up into i, of the heap's first n elements.
LesserChild(a, n, i) ==
    IF 2 * i + 2 < n /\ a[2 * i + 2].time < a[2 * i + 1].time
    THEN 2 * i + 2 ELSE 2 * i + 1

\* The places from i up to the root.
Path[i \in Nat] == IF i = 0 THEN {0} ELSE {i} \cup Path[Parent(i)]

\* (A mutant: the value stays at the end.)
PushUnsifted(a, n, value) ==
    [i \in 0 .. n |-> IF i = n THEN value ELSE a[i]]

\* delayinfoheap_push: ancestors that are later than the value move down.
Push(a, n, value) ==
    LET Place[i \in Nat] ==
            IF i > 0 /\ value.time < a[Parent(i)].time
            THEN Place[Parent(i)] ELSE i
        place == Place[n]
        moved == Path[n] \ Path[place]
    IN  [i \in 0 .. n |->
            IF i = place THEN value
            ELSE IF i \in moved THEN a[Parent(i)] ELSE a[i]]

\* (A mutant: the last element is not taken off.)
PopCopies(a, n) ==
    [i \in 0 .. (n - 1) |-> IF i = 0 THEN a[n - 1] ELSE a[i]]

\* delayinfoheap_pop: the last element takes the place of the first, and the
\* lesser children move up until it fits.
Pop(a, n) ==
    LET current == a[n - 1]
        Place[i \in Nat] ==
            IF 2 * i + 1 < n - 1
               /\ current.time > a[LesserChild(a, n - 1, i)].time
            THEN Place[LesserChild(a, n - 1, i)] ELSE i
        place == Place[0]
        moved == Path[place] \ {place}
    IN  [i \in 0 .. (n - 2) |->
            IF i = place THEN current
            ELSE IF i \in moved THEN a[LesserChild(a, n - 1, i)] ELSE a[i]]

\* An array is a heap when nobody is later than its children.
IsHeap(a, n) == \A i \in 1 .. (n - 1) : a[Parent(i)].time <= a[i].time
=============================================================================
