---------------------------- MODULE ClockProofs -----------------------------
(***************************************************************************)
(* Theorems about the clock server, for any number of clients and any      *)
(* delays: the heap of servers/clock.c stays in order and loses nobody,    *)
(* and who sleeps is woken in time, not before.                            *)
(***************************************************************************)
EXTENDS ClockServer, MessageProofs

-----------------------------------------------------------------------------
(* Parents and paths.                                                      *)

LEMMA ParentIs ==
    ASSUME NEW i \in Nat, i # 0
    PROVE  /\ Parent(i) \in Nat /\ Parent(i) < i
           /\ i = 2 * Parent(i) + 1 \/ i = 2 * Parent(i) + 2
BY DEF Parent

LEMMA PathIs ==
    \A i \in Nat : /\ Path[i] = IF i = 0 THEN {0} ELSE {i} \cup Path[Parent(i)]
                   /\ Path[i] \in SUBSET Nat
<1> DEFINE V == SUBSET Nat
           rank == [i \in Nat |-> i]
           nxt == [i \in Nat |-> IF i = 0 THEN 0 ELSE Parent(i)]
           base == [i \in Nat |-> {i}]
           step == [x \in Nat \X V |-> {x[1]} \cup x[2]]
<1>1. Ranked(Nat, V, {0}, rank, nxt, base, step)
  <2>1. \A i \in Nat : i # 0 => Parent(i) \in Nat /\ Parent(i) < i
    BY ParentIs
  <2>2. rank \in [Nat -> Nat] /\ nxt \in [Nat -> Nat]
    BY <2>1
  <2>3. base \in [Nat -> V] /\ step \in [Nat \X V -> V]
    OBVIOUS
  <2>4. \A i \in Nat : i \notin {0} => rank[nxt[i]] < rank[i]
    BY <2>1
  <2> QED
    BY <2>2, <2>3, <2>4 DEF Ranked
<1>2. PICK f \in [Nat -> V] : Recursion(f, Nat, {0}, nxt, base, step)
  BY <1>1, RecursionDefines
<1>3. \A i \in Nat : f[i] = IF i = 0 THEN {0} ELSE {i} \cup f[Parent(i)]
  <2> TAKE i \in Nat
  <2>1. f[i] = IF i \in {0} THEN base[i] ELSE step[<<i, f[nxt[i]]>>]
    BY <1>2 DEF Recursion
  <2>2. i # 0 => Parent(i) \in Nat
    BY ParentIs
  <2>3. i # 0 => f[Parent(i)] \in V
    BY <2>2
  <2> QED
    BY <2>1, <2>2, <2>3
<1>4. f = [i \in Nat |-> IF i = 0 THEN {0} ELSE {i} \cup f[Parent(i)]]
  BY <1>3
<1>5. Path = [i \in Nat |-> IF i = 0 THEN {0} ELSE {i} \cup Path[Parent(i)]]
  BY <1>4, Zenon DEF Path
<1>6. \A i \in Nat : Path[i] = IF i = 0 THEN {0} ELSE {i} \cup Path[Parent(i)]
  BY <1>5
<1> DEFINE P == {i \in Nat : Path[i] \in V}
<1>7. ASSUME NEW i \in Nat, \A j \in Nat : rank[j] < rank[i] => j \in P
      PROVE  i \in P
  <2>1. i # 0 => Parent(i) \in Nat /\ Parent(i) < i
    BY ParentIs
  <2>2. i # 0 => Path[Parent(i)] \in V
    BY <1>7, <2>1
  <2> QED
    BY <1>6, <2>2
<1>8. rank \in [Nat -> Nat]
  OBVIOUS
<1>9. \A i \in Nat : i \in P
  <2> HIDE DEF P, rank
  <2> QED
    BY <1>7, <1>8, RankInduction
<1> QED
  BY <1>6, <1>9

(* Induction on the places of a heap, with the property given as a set.    *)
LEMMA PlaceInduction ==
    ASSUME NEW P, 0 \in P, \A i \in Nat : i # 0 /\ Parent(i) \in P => i \in P
    PROVE  \A i \in Nat : i \in P
<1> DEFINE rank == [i \in Nat |-> i]
<1>1. rank \in [Nat -> Nat]
  OBVIOUS
<1>2. ASSUME NEW i \in Nat, \A j \in Nat : rank[j] < rank[i] => j \in P
      PROVE  i \in P
  BY <1>2, ParentIs
<1> HIDE DEF rank
<1> QED
  BY <1>1, <1>2, RankInduction

(* A path goes up without gaps, and does not branch.                       *)
PathUp(n) ==
    /\ n \in Path[n] /\ 0 \in Path[n]
    /\ \A j \in Path[n] : j \in Nat /\ j <= n /\ Path[j] \subseteq Path[n]
    /\ \A j, k \in Path[n] : j < k => j \in Path[Parent(k)]
    /\ \A j \in Path[n] : j # n => \E k \in Path[n] : k # 0 /\ Parent(k) = j

LEMMA PathGoesUp == \A n \in Nat : PathUp(n)
<1> DEFINE P == {n \in Nat : PathUp(n)}
<1>1. 0 \in P
  <2>1. Path[0] = {0}
    BY PathIs
  <2> QED
    BY <2>1 DEF PathUp
<1>2. ASSUME NEW n \in Nat, n # 0, Parent(n) \in P PROVE n \in P
  <2> DEFINE m == Parent(n)
  <2>1. m \in Nat /\ m < n /\ PathUp(m) /\ Path[n] = {n} \cup Path[m]
    BY <1>2, ParentIs, PathIs
  <2> HIDE DEF m
  <2>2. n \in Path[n] /\ 0 \in Path[n]
    BY <2>1 DEF PathUp
  <2>3. \A j \in Path[n] : j \in Nat /\ j <= n /\ Path[j] \subseteq Path[n]
    BY <2>1 DEF PathUp
  <2>4. ASSUME NEW j \in Path[n], NEW k \in Path[n], j < k
        PROVE  j \in Path[Parent(k)]
    <3>1. j # n /\ j \in Path[m]
      BY <2>1, <2>3, <2>4
    <3>2. CASE k = n
      BY <3>1, <3>2 DEF m
    <3>3. CASE k # n
      BY <2>1, <2>4, <3>1, <3>3 DEF PathUp
    <3> QED
      BY <3>2, <3>3
  <2>5. ASSUME NEW j \in Path[n], j # n
        PROVE  \E k \in Path[n] : k # 0 /\ Parent(k) = j
    <3>1. CASE j = m
      BY <1>2, <2>2, <3>1 DEF m
    <3>2. CASE j # m
      BY <2>1, <2>5, <3>2 DEF PathUp
    <3> QED
      BY <3>1, <3>2
  <2> QED
    BY <2>2, <2>3, <2>4, <2>5 DEF PathUp
<1>3. \A n \in Nat : n \in P
  <2> HIDE DEF P
  <2> QED
    BY <1>1, <1>2, PlaceInduction
<1> QED
  BY <1>3

(* The same, as it is used.                                                *)
LEMMA OnPath ==
    ASSUME NEW n \in Nat, NEW j \in Path[n]
    PROVE  /\ j \in 0 .. n /\ j \in Path[j]
           /\ j # 0 => Parent(j) \in Path[n] /\ Parent(j) \in Path[j]
           /\ j # n => \E k \in Path[n] : k # 0 /\ Parent(k) = j
           /\ \A k \in Path[n] : j < k => j <= Parent(k) /\ j \in Path[k] /\ k \notin Path[j]
           /\ \A k \in Path[n] : j # 0 /\ k # 0 /\ Parent(j) = Parent(k) => j = k
<1>1. PathUp(n) /\ j \in Nat /\ j <= n
  BY PathGoesUp DEF PathUp
<1>2. PathUp(j)
  BY <1>1, PathGoesUp
<1>3. j # 0 => Parent(j) \in Nat /\ Parent(j) < j /\ Parent(j) \in Path[j]
  <2>1. j # 0 => Parent(j) \in Nat /\ Parent(j) < j /\ Path[j] = {j} \cup Path[Parent(j)]
    BY <1>1, ParentIs, PathIs
  <2>2. j # 0 => PathUp(Parent(j))
    BY <2>1, PathGoesUp
  <2> QED
    BY <2>1, <2>2 DEF PathUp
<1>4. ASSUME NEW k \in Path[n], j < k
      PROVE  j <= Parent(k) /\ j \in Path[k] /\ k \notin Path[j]
  <2>1. k \in Nat /\ k # 0 /\ j \in Path[Parent(k)]
    BY <1>1, <1>4 DEF PathUp
  <2>2. Parent(k) \in Nat /\ PathUp(Parent(k)) /\ Path[k] = {k} \cup Path[Parent(k)]
    BY <2>1, ParentIs, PathIs, PathGoesUp
  <2>3. j <= Parent(k) /\ j \in Path[k]
    BY <2>1, <2>2 DEF PathUp
  <2>4. k \notin Path[j]
    BY <1>1, <1>2, <1>4, <2>1 DEF PathUp
  <2> QED
    BY <2>3, <2>4
<1>5. ASSUME NEW k \in Path[n], j # 0, k # 0, Parent(j) = Parent(k)
      PROVE  j = k
  <2>1. k \in Nat /\ Parent(k) < k
    BY <1>1, <1>5, ParentIs DEF PathUp
  <2>2. j < k => j <= Parent(k)
    BY <1>4
  <2>3. k < j => k \in Path[Parent(j)]
    BY <1>1 DEF PathUp
  <2>4. k < j => k <= Parent(j)
    <3>1. PathUp(Parent(j))
      BY <1>3, <1>5, PathGoesUp
    <3> QED
      BY <2>3, <3>1 DEF PathUp
  <2> QED
    BY <1>1, <1>3, <1>5, <2>1, <2>2, <2>4
<1>6. j # 0 => Parent(j) \in Path[n]
  BY <1>1, <1>3 DEF PathUp
<1>7. j \in Path[j] /\ (j # n => \E k \in Path[n] : k # 0 /\ Parent(k) = j)
  BY <1>1, <1>2 DEF PathUp
<1> QED
  BY <1>1, <1>3, <1>4, <1>5, <1>6, <1>7

-----------------------------------------------------------------------------
(* Push and Pop.                                                           *)

Item == [tid : Fd, time : Int]

\* What the loop of Push finds, with the recursion that it is.
PlaceUp(p, a, value) ==
    /\ p \in [Nat -> Nat]
    /\ \A i \in Nat : p[i] = IF i > 0 /\ value.time < a[Parent(i)].time
                             THEN p[Parent(i)] ELSE i

PushedAt(p, a, n, value) ==
    [i \in 0 .. n |->
        IF i = p[n] THEN value
        ELSE IF i \in Path[n] \ Path[p[n]] THEN a[Parent(i)] ELSE a[i]]

LEMMA PushIs ==
    ASSUME NEW a, NEW n \in Nat, NEW value
    PROVE  \E p : PlaceUp(p, a, value) /\ Push(a, n, value) = PushedAt(p, a, n, value)
<1> DEFINE Stop == {i \in Nat : ~(i > 0 /\ value.time < a[Parent(i)].time)}
           rank == [i \in Nat |-> i]
           nxt == [i \in Nat |-> IF i = 0 THEN 0 ELSE Parent(i)]
           base == [i \in Nat |-> i]
           step == [x \in Nat \X Nat |-> x[2]]
           Place == CHOOSE f : f = [i \in Nat |->
                        IF i > 0 /\ value.time < a[Parent(i)].time
                        THEN f[Parent(i)] ELSE i]
<1>1. \A i \in Nat : i # 0 => Parent(i) \in Nat /\ Parent(i) < i
  BY ParentIs
<1>2. Ranked(Nat, Nat, Stop, rank, nxt, base, step)
  <2>1. rank \in [Nat -> Nat] /\ nxt \in [Nat -> Nat] /\ base \in [Nat -> Nat]
    BY <1>1
  <2>2. step \in [Nat \X Nat -> Nat]
    OBVIOUS
  <2>3. \A i \in Nat : i \notin Stop => rank[nxt[i]] < rank[i]
    BY <1>1
  <2> QED
    BY <2>1, <2>2, <2>3 DEF Ranked
<1>3. PICK f \in [Nat -> Nat] : Recursion(f, Nat, Stop, nxt, base, step)
  BY <1>2, RecursionDefines
<1>4. \A i \in Nat : f[i] = IF i > 0 /\ value.time < a[Parent(i)].time
                            THEN f[Parent(i)] ELSE i
  <2> TAKE i \in Nat
  <2>1. f[i] = IF i \in Stop THEN base[i] ELSE step[<<i, f[nxt[i]]>>]
    BY <1>3 DEF Recursion
  <2>2. CASE i \in Stop
    BY <2>1, <2>2
  <2>3. CASE i \notin Stop
    <3>1. i > 0 /\ value.time < a[Parent(i)].time /\ nxt[i] = Parent(i)
      BY <2>3
    <3>2. f[Parent(i)] \in Nat
      BY <1>1, <3>1
    <3>3. f[i] = step[<<i, f[Parent(i)]>>]
      BY <2>1, <2>3, <3>1
    <3> HIDE DEF Stop
    <3> QED
      BY <3>1, <3>2, <3>3
  <2> QED
    BY <2>2, <2>3
<1>5. f = [i \in Nat |-> IF i > 0 /\ value.time < a[Parent(i)].time
                         THEN f[Parent(i)] ELSE i]
  BY <1>4
<1>6. Place = [i \in Nat |-> IF i > 0 /\ value.time < a[Parent(i)].time
                             THEN Place[Parent(i)] ELSE i]
  BY <1>5, Zenon
<1>7. Push(a, n, value) = PushedAt(Place, a, n, value)
  BY Zenon DEF Push, PushedAt
<1> HIDE DEF Place
<1>8. Place = f
  <2> DEFINE P == {i \in Nat : Place[i] = f[i]}
  <2>1. \A i \in Nat : Place[i] = IF i > 0 /\ value.time < a[Parent(i)].time
                                  THEN Place[Parent(i)] ELSE i
    BY <1>6
  <2>2. 0 \in P
    BY <1>4, <2>1
  <2>3. \A i \in Nat : i # 0 /\ Parent(i) \in P => i \in P
    BY <1>4, <2>1
  <2>4. \A i \in Nat : i \in P
    <3> HIDE DEF P
    <3> QED
      BY <2>2, <2>3, PlaceInduction
  <2> QED
    BY <1>6, <2>4
<1> QED
  BY <1>4, <1>7, <1>8 DEF PlaceUp

(* Where the value of Push goes: its ancestors are not later, and those    *)
(* that it passes are.                                                     *)
LEMMA PushPlace ==
    ASSUME NEW a, NEW value, NEW p, PlaceUp(p, a, value)
    PROVE  \A i \in Nat :
              /\ p[i] \in Path[i]
              /\ p[i] # 0 => ~(value.time < a[Parent(p[i])].time)
              /\ \A j \in Path[i] \ Path[p[i]] :
                    j # 0 /\ value.time < a[Parent(j)].time
<1> DEFINE Good(i) == /\ p[i] \in Path[i]
                      /\ p[i] # 0 => ~(value.time < a[Parent(p[i])].time)
                      /\ \A j \in Path[i] \ Path[p[i]] :
                            j # 0 /\ value.time < a[Parent(j)].time
           P == {i \in Nat : Good(i)}
<1>1. \A i \in Nat : ~(i > 0 /\ value.time < a[Parent(i)].time) => i \in P
  <2> SUFFICES ASSUME NEW i \in Nat, ~(i > 0 /\ value.time < a[Parent(i)].time)
               PROVE  Good(i)
    OBVIOUS
  <2>1. p[i] = i
    BY DEF PlaceUp
  <2>2. i \in Path[i]
    BY PathGoesUp DEF PathUp
  <2> QED
    BY <2>1, <2>2
<1>2. ASSUME NEW i \in Nat, i # 0, Parent(i) \in P PROVE i \in P
  <2>1. CASE ~(value.time < a[Parent(i)].time)
    BY <1>1, <2>1
  <2>2. CASE value.time < a[Parent(i)].time
    <3>1. i > 0 /\ p[i] = p[Parent(i)]
      BY <1>2, <2>2 DEF PlaceUp
    <3>1a. Path[i] = {i} \cup Path[Parent(i)]
      BY <1>2, PathIs
    <3>2. Good(Parent(i))
      BY <1>2
    <3> QED
      BY <1>2, <2>2, <3>1, <3>1a, <3>2
  <2> QED
    BY <2>1, <2>2
<1>3. 0 \in P
  BY <1>1
<1>4. \A i \in Nat : i \in P
  <2> HIDE DEF P
  <2> QED
    BY <1>2, <1>3, PlaceInduction
<1> QED
  BY <1>4

\* A heap of n items, and what is in it.
HeapOf(a, n) == n \in Nat /\ a \in [0 .. (n - 1) -> Item] /\ IsHeap(a, n)
OneEach(a) == \A i, j \in DOMAIN a : a[i].tid = a[j].tid => i = j
ItemsOf(a) == {a[i] : i \in DOMAIN a}

LEMMA PushKeeps ==
    ASSUME NEW a, NEW n, HeapOf(a, n), OneEach(a), NEW value \in Item,
           \A i \in DOMAIN a : a[i].tid # value.tid
    PROVE  /\ HeapOf(Push(a, n, value), n + 1)
           /\ OneEach(Push(a, n, value))
           /\ ItemsOf(Push(a, n, value)) = ItemsOf(a) \cup {value}
<1>1. n \in Nat /\ a \in [0 .. (n - 1) -> Item] /\ IsHeap(a, n)
  BY DEF HeapOf
<1>2. PICK f : PlaceUp(f, a, value) /\ Push(a, n, value) = PushedAt(f, a, n, value)
  BY <1>1, PushIs
<1> DEFINE p == f[n]
           b == Push(a, n, value)
           Moved == Path[n] \ Path[p]
<1>3. /\ p \in Path[n]
      /\ p # 0 => ~(value.time < a[Parent(p)].time)
      /\ \A j \in Moved : j # 0 /\ value.time < a[Parent(j)].time
  BY <1>1, <1>2, PushPlace
<1>4. b = [i \in 0 .. n |-> IF i = p THEN value
                            ELSE IF i \in Moved THEN a[Parent(i)] ELSE a[i]]
  BY <1>2 DEF PushedAt
<1> HIDE DEF p, b
<1>5. n \in Path[n] /\ n \in Nat /\ p \in 0 .. n /\ p \in Path[p]
  BY <1>1, <1>3, OnPath, PathGoesUp DEF PathUp
<1>6. \A j \in Path[p] : j \in 0 .. p /\ j \in Path[n]
  <2>1. p \in Nat /\ PathUp(n)
    BY <1>5, PathGoesUp
  <2> QED
    BY <1>3, <2>1, OnPath DEF PathUp
<1>7. \A j \in Moved : /\ j \in 1 .. n /\ p < j /\ Parent(j) \in p .. (n - 1)
                       /\ Parent(j) \in Path[n]
                       /\ (Parent(j) = p \/ Parent(j) \in Moved)
  <2> SUFFICES ASSUME NEW j \in Moved
               PROVE  /\ j \in 1 .. n /\ p < j /\ Parent(j) \in p .. (n - 1)
                      /\ Parent(j) \in Path[n]
                      /\ (Parent(j) = p \/ Parent(j) \in Moved)
    OBVIOUS
  <2>1. j \in 0 .. n /\ j # 0 /\ j # p /\ Parent(j) \in Path[n]
    BY <1>3, <1>5, OnPath
  <2>2. p < j
    <3>1. j < p => j \in Path[p]
      BY <1>1, <1>3, OnPath
    <3> QED
      BY <1>5, <2>1, <3>1
  <2>3. p <= Parent(j) /\ Parent(j) \in Nat /\ Parent(j) < j
    BY <1>1, <1>3, <2>1, <2>2, OnPath, ParentIs
  <2>4. Parent(j) \in Path[p] => Parent(j) <= p
    BY <1>6
  <2> QED
    BY <1>5, <2>1, <2>2, <2>3, <2>4
<1>8. n = p \/ n \in Moved
  <2>1. n \in Path[p] => n <= p
    BY <1>6
  <2> QED
    BY <1>5, <2>1
<1> DEFINE src == [i \in 0 .. n |-> IF i = p THEN n ELSE IF i \in Moved THEN Parent(i) ELSE i]
           a1 == [i \in 0 .. n |-> IF i = n THEN value ELSE a[i]]
<1> HIDE DEF Moved
<1>9. src \in [0 .. n -> 0 .. n] /\ \A i \in 0 .. n : src[i] = n <=> i = p
  BY <1>1, <1>5, <1>7, <1>8
<1>10. \A i \in 0 .. n : b[i] = a1[src[i]]
  <2> TAKE i \in 0 .. n
  <2>1. src[i] \in 0 .. n /\ (src[i] = n <=> i = p)
    BY <1>9
  <2> QED
    BY <1>4, <2>1
<1>11. \A i, j \in 0 .. n : src[i] = src[j] => i = j
  <2> SUFFICES ASSUME NEW i \in 0 .. n, NEW j \in 0 .. n, src[i] = src[j], i # p, j # p
               PROVE  i = j
    BY <1>9
  <2>1. ASSUME NEW x \in Moved, NEW y \in 0 .. n, y # p, y \notin Moved PROVE Parent(x) # y
    BY <1>7, <2>1
  <2>2. CASE i \in Moved /\ j \in Moved
    <3>1. i \in Path[n] /\ j \in Path[n] /\ i # 0 /\ j # 0 /\ Parent(i) = Parent(j)
      BY <1>7, <2>2 DEF Moved
    <3> QED
      BY <1>1, <3>1, OnPath
  <2>3. CASE i \in Moved /\ j \notin Moved
    BY <2>1, <2>3
  <2>4. CASE i \notin Moved /\ j \in Moved
    BY <2>1, <2>4
  <2>5. CASE i \notin Moved /\ j \notin Moved
    BY <2>5
  <2> QED
    BY <2>2, <2>3, <2>4, <2>5
<1>12. \A k \in 0 .. n : \E i \in 0 .. n : src[i] = k
  <2> SUFFICES ASSUME NEW k \in 0 .. n, k # n
               PROVE  \E i \in 0 .. n : src[i] = k
    BY <1>5, <1>9
  <2>1. CASE k = p \/ k \in Moved
    <3>1. k \in Path[n] /\ p <= k
      BY <1>3, <1>5, <1>7, <2>1 DEF Moved
    <3>2. PICK j \in Path[n] : j # 0 /\ Parent(j) = k
      BY <1>1, <3>1, OnPath
    <3>3. j \in Nat /\ j \in 0 .. n /\ Parent(j) < j
      BY <1>1, <3>2, OnPath, ParentIs
    <3>4. j \in Moved
      BY <1>5, <1>6, <3>1, <3>2, <3>3 DEF Moved
    <3>5. j # p
      BY <1>7, <3>4
    <3>6. src[j] = k
      BY <3>2, <3>3, <3>4, <3>5
    <3> QED
      BY <3>3, <3>6
  <2>2. CASE k # p /\ k \notin Moved
    BY <2>2
  <2> QED
    BY <2>1, <2>2
<1>13. a1 \in [0 .. n -> Item] /\ DOMAIN a = 0 .. (n - 1)
  BY <1>1
<1>14. b \in [0 .. n -> Item]
  BY <1>4, <1>9, <1>10, <1>13
<1>15. \A i, j \in 0 .. n : a1[i].tid = a1[j].tid => i = j
  BY <1>1, <1>13 DEF OneEach
<1>16. OneEach(b)
  <2>1. DOMAIN b = 0 .. n
    BY <1>14
  <2> HIDE DEF a1, src
  <2> QED
    BY <1>9, <1>10, <1>11, <1>15, <2>1 DEF OneEach
<1>17. ItemsOf(b) = ItemsOf(a) \cup {value}
  <2>1. DOMAIN b = 0 .. n
    BY <1>14
  <2>2. ItemsOf(b) = {a1[k] : k \in 0 .. n}
    <3>1. \A i \in 0 .. n : src[i] \in 0 .. n
      BY <1>9
    <3> HIDE DEF a1, src
    <3>2. ASSUME NEW x \in ItemsOf(b) PROVE x \in {a1[k] : k \in 0 .. n}
      BY <1>10, <2>1, <3>1 DEF ItemsOf
    <3>3. ASSUME NEW k \in 0 .. n PROVE a1[k] \in ItemsOf(b)
      BY <1>10, <1>12, <2>1 DEF ItemsOf
    <3> QED
      BY <3>2, <3>3
  <2>3. {a1[k] : k \in 0 .. n} = ItemsOf(a) \cup {value}
    <3>1. \A k \in 0 .. n : k # n => k \in 0 .. (n - 1) /\ a1[k] = a[k]
      BY <1>1
    <3>2. \A k \in 0 .. (n - 1) : k \in 0 .. n /\ a1[k] = a[k]
      BY <1>1
    <3>3. n \in 0 .. n /\ a1[n] = value
      BY <1>1
    <3> HIDE DEF a1
    <3> QED
      BY <1>13, <3>1, <3>2, <3>3 DEF ItemsOf
  <2> QED
    BY <2>2, <2>3
<1>18. IsHeap(b, n + 1)
  <2> SUFFICES ASSUME NEW i \in 1 .. n
               PROVE  b[Parent(i)].time <= b[i].time
    BY <1>1 DEF IsHeap
  <2> DEFINE q == Parent(i)
  <2>1. i \in Nat /\ q \in Nat /\ q < i /\ q \in 0 .. n /\ q \in 0 .. (n - 1) /\ i \in 0 .. n
    <3>1. i \in Nat /\ i # 0 /\ i <= n
      BY <1>1
    <3> QED
      BY <1>1, <3>1, ParentIs
  <2>2. \A k \in 0 .. (n - 1) : a[k].time \in Int
    BY <1>1 DEF Item
  <2>2a. \A k \in 0 .. (n - 1) : k # 0 => a[Parent(k)].time <= a[k].time /\ Parent(k) \in 0 .. (n - 1)
    <3> TAKE k \in 0 .. (n - 1)
    <3>1. k # 0 => k \in 1 .. (n - 1) /\ Parent(k) \in Nat /\ Parent(k) < k
      BY <1>1, ParentIs
    <3> QED
      BY <1>1, <3>1 DEF IsHeap
  <2>3. value.time \in Int
    BY DEF Item
  <2>4. b[i] = IF i = p THEN value ELSE IF i \in Moved THEN a[q] ELSE a[i]
    BY <1>4, <2>1
  <2>5. b[q] = IF q = p THEN value ELSE IF q \in Moved THEN a[Parent(q)] ELSE a[q]
    BY <1>4, <2>1
  <2>6. CASE i = p
    <3>1. q # p /\ q \notin Moved
      BY <1>7, <2>1, <2>6
    <3>2. ~(value.time < a[q].time)
      BY <1>3, <2>1, <2>6
    <3> QED
      BY <2>1, <2>2, <2>3, <2>4, <2>5, <2>6, <3>1, <3>2
  <2>7. CASE i \in Moved
    <3>1. i # p /\ value.time < a[q].time /\ (q = p \/ q \in Moved)
      BY <1>3, <1>7, <2>7 DEF Moved
    <3>2. CASE q = p
      BY <2>2, <2>3, <2>4, <2>5, <2>7, <2>1, <3>1, <3>2
    <3>3. CASE q \in Moved /\ q # p
      <4>1. q # 0 /\ a[Parent(q)].time <= a[q].time
        BY <1>7, <2>1, <2>2a, <3>3
      <4> QED
        BY <2>4, <2>5, <2>7, <3>1, <3>3, <4>1
    <3> QED
      BY <3>1, <3>2, <3>3
  <2>8. CASE i # p /\ i \notin Moved
    <3>1. i # n /\ i \in 0 .. (n - 1) /\ i # 0 /\ b[i] = a[i]
      <4>1. i # n
        BY <1>8, <2>8
      <4> QED
        BY <1>1, <2>4, <2>8, <4>1
    <3>2. a[q].time <= a[i].time
      BY <2>2a, <3>1
    <3>3. CASE q = p
      <4>1. PICK j \in Path[n] : j # 0 /\ Parent(j) = p
        BY <1>1, <1>3, <2>1, <3>3, OnPath
      <4>2. j \in Nat /\ Parent(j) < j
        BY <1>1, <4>1, OnPath, ParentIs
      <4>3. j \in Moved
        BY <1>5, <1>6, <4>1, <4>2 DEF Moved
      <4>4. value.time < a[p].time
        BY <1>3, <4>1, <4>3 DEF Moved
      <4> QED
        BY <2>1, <2>2, <2>3, <2>5, <3>1, <3>2, <3>3, <4>4
    <3>4. CASE q # p /\ q \in Moved
      <4>1. q # 0 /\ a[Parent(q)].time <= a[q].time /\ Parent(q) \in 0 .. (n - 1)
        BY <1>7, <2>1, <2>2a, <3>4
      <4> QED
        BY <2>1, <2>2, <2>5, <3>1, <3>2, <3>4, <4>1
    <3>5. CASE q # p /\ q \notin Moved
      BY <2>5, <3>1, <3>2, <3>5
    <3> QED
      BY <3>3, <3>4, <3>5
  <2> QED
    BY <2>6, <2>7, <2>8
<1>19. HeapOf(b, n + 1)
  <2>1. n + 1 \in Nat /\ (n + 1) - 1 = n
    BY <1>1
  <2> QED
    BY <1>14, <1>18, <2>1 DEF HeapOf
<1> QED
  BY <1>16, <1>17, <1>19 DEF b

\* What the loop of Pop finds in the n elements that it keeps.
PlaceDown(p, a, n) ==
    /\ p \in [Nat -> Nat]
    /\ \A i \in Nat : p[i] = IF 2 * i + 1 < n /\ a[n].time > a[LesserChild(a, n, i)].time
                             THEN p[LesserChild(a, n, i)] ELSE i

PlaceDownOf(a, n) ==
    CHOOSE f : f = [i \in Nat |->
        IF 2 * i + 1 < n /\ a[n].time > a[LesserChild(a, n, i)].time
        THEN f[LesserChild(a, n, i)] ELSE i]

PoppedAt(p, a, n) ==
    [i \in 0 .. (n - 2) |->
        IF i = p[0] THEN a[n - 1]
        ELSE IF i \in Path[p[0]] \ {p[0]} THEN a[LesserChild(a, n - 1, i)] ELSE a[i]]

LEMMA PopAt ==
    ASSUME NEW a, NEW n
    PROVE  Pop(a, n) = PoppedAt(PlaceDownOf(a, n - 1), a, n)
BY Zenon DEF Pop, PoppedAt, PlaceDownOf

LEMMA LesserChildIs ==
    ASSUME NEW a, NEW n \in Nat, NEW i \in Nat, 2 * i + 1 < n
    PROVE  LET c == LesserChild(a, n, i) IN
           /\ c \in 1 .. (n - 1) /\ c > i /\ Parent(c) = i
           /\ c = 2 * i + 1 \/ c = 2 * i + 2
BY DEF LesserChild, Parent

LEMMA LesserChildLeast ==
    ASSUME NEW a, NEW n \in Nat, \A k \in 0 .. (n - 1) : a[k].time \in Int,
           NEW j \in 1 .. (n - 1)
    PROVE  /\ 2 * Parent(j) + 1 < n
           /\ a[LesserChild(a, n, Parent(j))].time <= a[j].time
<1> DEFINE i == Parent(j)
<1>1. i \in Nat /\ (j = 2 * i + 1 \/ j = 2 * i + 2) /\ j < n /\ j \in Nat
  <2>1. j \in Nat /\ j # 0 /\ j < n
    OBVIOUS
  <2> QED
    BY <2>1, ParentIs
<1> HIDE DEF i
<1>2. 2 * i + 1 < n /\ 2 * i + 1 \in 0 .. (n - 1)
  BY <1>1
<1>3. 2 * i + 2 < n => 2 * i + 2 \in 0 .. (n - 1)
  BY <1>1
<1>4. a[LesserChild(a, n, i)].time <= a[j].time
  <2>1. a[2 * i + 1].time \in Int
    BY <1>2
  <2>2. 2 * i + 2 < n => a[2 * i + 2].time \in Int
    BY <1>3
  <2> QED
    BY <1>1, <2>1, <2>2 DEF LesserChild
<1> QED
  BY <1>2, <1>4 DEF i

(* Induction down to the first n places.                                   *)
DownClosed(n, P) ==
    \A i \in Nat : (\A j \in Nat : i < j /\ j < n => j \in P) => i \in P

LEMMA DownInduction ==
    ASSUME NEW n \in Nat, NEW P, DownClosed(n, P)
    PROVE  \A i \in Nat : i \in P
<1> DEFINE rank == [i \in Nat |-> IF i < n THEN n - i ELSE 0]
<1>1. rank \in [Nat -> Nat]
  OBVIOUS
<1>2. ASSUME NEW i \in Nat, \A j \in Nat : rank[j] < rank[i] => j \in P
      PROVE  i \in P
  <2>1. \A j \in Nat : i < j /\ j < n => rank[j] < rank[i]
    OBVIOUS
  <2> HIDE DEF rank
  <2> QED
    BY <1>2, <2>1 DEF DownClosed
<1> HIDE DEF rank
<1> QED
  BY <1>1, <1>2, RankInduction

LEMMA PopIs ==
    ASSUME NEW a, NEW n \in Nat
    PROVE  \E p : PlaceDown(p, a, n) /\ Pop(a, n + 1) = PoppedAt(p, a, n + 1)
<1> DEFINE Down(i) == 2 * i + 1 < n /\ a[n].time > a[LesserChild(a, n, i)].time
           Stop == {i \in Nat : ~Down(i)}
           rank == [i \in Nat |-> IF i < n THEN n - i ELSE 0]
           nxt == [i \in Nat |-> IF Down(i) THEN LesserChild(a, n, i) ELSE 0]
           base == [i \in Nat |-> i]
           step == [x \in Nat \X Nat |-> x[2]]
           Place == PlaceDownOf(a, n)
<1>1. \A i \in Nat : Down(i) =>
         /\ LesserChild(a, n, i) \in Nat
         /\ i < LesserChild(a, n, i) /\ LesserChild(a, n, i) < n
  BY LesserChildIs
<1>2. Ranked(Nat, Nat, Stop, rank, nxt, base, step)
  <2> HIDE DEF Down
  <2>1. rank \in [Nat -> Nat] /\ nxt \in [Nat -> Nat] /\ base \in [Nat -> Nat]
    BY <1>1
  <2>2. step \in [Nat \X Nat -> Nat]
    OBVIOUS
  <2>3. \A i \in Nat : i \notin Stop => rank[nxt[i]] < rank[i]
    BY <1>1
  <2> QED
    BY <2>1, <2>2, <2>3 DEF Ranked
<1>3. PICK f \in [Nat -> Nat] : Recursion(f, Nat, Stop, nxt, base, step)
  BY <1>2, RecursionDefines
<1> HIDE DEF Down
<1>4. \A i \in Nat : f[i] = IF Down(i) THEN f[LesserChild(a, n, i)] ELSE i
  <2> TAKE i \in Nat
  <2>1. f[i] = IF i \in Stop THEN base[i] ELSE step[<<i, f[nxt[i]]>>]
    BY <1>3 DEF Recursion
  <2>2. CASE i \in Stop
    BY <2>1, <2>2
  <2>3. CASE i \notin Stop
    <3>1. Down(i) /\ nxt[i] = LesserChild(a, n, i)
      BY <2>3
    <3>2. f[LesserChild(a, n, i)] \in Nat
      BY <1>1, <3>1
    <3>3. f[i] = step[<<i, f[LesserChild(a, n, i)]>>]
      BY <2>1, <2>3, <3>1
    <3> HIDE DEF Stop
    <3> QED
      BY <3>1, <3>2, <3>3
  <2> QED
    BY <2>2, <2>3
<1>5. f = [i \in Nat |-> IF 2 * i + 1 < n /\ a[n].time > a[LesserChild(a, n, i)].time
                         THEN f[LesserChild(a, n, i)] ELSE i]
  BY <1>4 DEF Down
<1>6. Place = [i \in Nat |-> IF 2 * i + 1 < n /\ a[n].time > a[LesserChild(a, n, i)].time
                             THEN Place[LesserChild(a, n, i)] ELSE i]
  BY <1>5, Zenon DEF PlaceDownOf
<1>7. Pop(a, n + 1) = PoppedAt(Place, a, n + 1)
  <2>1. (n + 1) - 1 = n
    OBVIOUS
  <2> QED
    BY <2>1, PopAt
<1> HIDE DEF Place
<1>8. Place = f
  <2> DEFINE P == {i \in Nat : Place[i] = f[i]}
  <2>1. \A i \in Nat : Place[i] = IF Down(i) THEN Place[LesserChild(a, n, i)] ELSE i
    BY <1>6 DEF Down
  <2>2. ASSUME NEW i \in Nat, \A j \in Nat : i < j /\ j < n => j \in P
        PROVE  i \in P
    <3>1. CASE ~Down(i)
      BY <1>4, <2>1, <3>1
    <3>2. CASE Down(i)
      <4>1. LesserChild(a, n, i) \in P
        BY <1>1, <2>2, <3>2
      <4> QED
        BY <1>4, <2>1, <3>2, <4>1
    <3> QED
      BY <3>1, <3>2
  <2>4. \A i \in Nat : i \in P
    <3> HIDE DEF P
    <3> QED
      BY <2>2, DownInduction DEF DownClosed
  <2> QED
    BY <1>6, <2>4
<1> QED
  BY <1>4, <1>7, <1>8 DEF PlaceDown, Down

(* Where the last element goes: what moves up instead of it is earlier.    *)
LEMMA PopPlace ==
    ASSUME NEW a, NEW n \in Nat, NEW p, PlaceDown(p, a, n)
    PROVE  LET q == p[0] IN
           /\ q \in Nat /\ (n > 0 => q < n)
           /\ 2 * q + 1 < n => ~(a[n].time > a[LesserChild(a, n, q)].time)
           /\ \A j \in Path[q] \ {q} :
                 /\ j \in Nat /\ j < q /\ 2 * j + 1 < n
                 /\ LesserChild(a, n, j) \in Path[q]
                 /\ a[n].time > a[LesserChild(a, n, j)].time
<1> DEFINE L(i) == LesserChild(a, n, i)
           Down(i) == 2 * i + 1 < n /\ a[n].time > a[L(i)].time
           Good(i) == /\ p[i] \in Nat /\ i \in Path[p[i]]
                      /\ i < n => p[i] < n
                      /\ ~Down(p[i])
                      /\ \A j \in Path[p[i]] : i <= j /\ j # p[i] =>
                            Down(j) /\ L(j) \in Path[p[i]]
           P == {i \in Nat : Good(i)}
<1> HIDE DEF L
<1>1. \A i \in Nat : 2 * i + 1 < n => L(i) \in Nat /\ i < L(i) /\ L(i) < n /\ Parent(L(i)) = i
  BY LesserChildIs DEF L
<1>2. \A i \in Nat : p[i] \in Nat /\ p[i] = IF Down(i) THEN p[L(i)] ELSE i
  BY DEF PlaceDown, L
<1>3. \A j \in Nat : PathUp(j)
  BY PathGoesUp
<1>4. ASSUME NEW i \in Nat, \A j \in Nat : i < j /\ j < n => j \in P
      PROVE  i \in P
  <2>1. CASE ~Down(i)
    <3>1. p[i] = i
      BY <1>2, <2>1
    <3>2. PathUp(i)
      BY <1>3
    <3> HIDE DEF Down
    <3> QED
      BY <2>1, <3>1, <3>2 DEF PathUp
  <2>2. CASE Down(i)
    <3>1. L(i) \in Nat /\ i < L(i) /\ L(i) < n /\ Parent(L(i)) = i
      BY <1>1, <2>2
    <3>2. Good(L(i))
      BY <1>4, <3>1
    <3>3. p[i] = p[L(i)] /\ p[i] \in Nat
      BY <1>2, <2>2
    <3> DEFINE q == p[i]
    <3> HIDE DEF Down, q
    <3>4. q \in Nat /\ L(i) \in Path[q] /\ q < n /\ ~Down(q) /\ q = p[i]
      BY <3>1, <3>2, <3>3 DEF q
    <3>5. i \in Path[q]
      <4>1. L(i) # 0
        BY <3>1
      <4> QED
        BY <3>1, <3>4, <4>1, OnPath
    <3>6. ASSUME NEW j \in Path[q], i <= j, j # q PROVE Down(j) /\ L(j) \in Path[q]
      <4>1. j \in Nat
        BY <3>4, OnPath
      <4>2. CASE j = i
        BY <2>2, <3>4, <4>2
      <4>3. CASE L(i) <= j
        BY <3>2, <3>3, <3>6, <4>3 DEF q
      <4>4. j < L(i) => j <= i
        BY <3>1, <3>4, OnPath
      <4> QED
        BY <3>1, <3>6, <4>1, <4>2, <4>3, <4>4
    <3> QED
      BY <3>4, <3>5, <3>6
  <2> QED
    BY <2>1, <2>2
<1>5. Good(0)
  <2>1. \A i \in Nat : i \in P
    <3> HIDE DEF P
    <3> QED
      BY <1>4, DownInduction DEF DownClosed
  <2> QED
    BY <2>1
<1>6. \A j \in Path[p[0]] : j \in 0 .. p[0]
  BY <1>5, OnPath
<1> QED
  BY <1>5, <1>6 DEF L

LEMMA PopKeeps ==
    ASSUME NEW a, NEW n \in Nat, HeapOf(a, n + 1), OneEach(a)
    PROVE  /\ HeapOf(Pop(a, n + 1), n)
           /\ OneEach(Pop(a, n + 1))
           /\ ItemsOf(Pop(a, n + 1)) = ItemsOf(a) \ {a[0]}
<1>1. a \in [0 .. n -> Item] /\ IsHeap(a, n + 1)
  BY DEF HeapOf
<1>1a. \A k \in 0 .. n : a[k].time \in Int
  BY <1>1 DEF Item
<1>2. PICK f : PlaceDown(f, a, n) /\ Pop(a, n + 1) = PoppedAt(f, a, n + 1)
  BY PopIs
<1> DEFINE L(i) == LesserChild(a, n, i)
           p == f[0]
           b == Pop(a, n + 1)
           Moved == Path[p] \ {p}
<1>3. /\ p \in Nat /\ (n > 0 => p < n)
      /\ 2 * p + 1 < n => ~(a[n].time > a[L(p)].time)
      /\ \A j \in Moved : /\ j \in Nat /\ j < p /\ 2 * j + 1 < n
                          /\ L(j) \in Path[p] /\ a[n].time > a[L(j)].time
  BY <1>2, PopPlace
<1>4. b = [i \in 0 .. (n - 1) |-> IF i = p THEN a[n]
                                  ELSE IF i \in Moved THEN a[L(i)] ELSE a[i]]
  <2>1. (n + 1) - 1 = n /\ (n + 1) - 2 = n - 1
    OBVIOUS
  <2>2. b = PoppedAt(f, a, n + 1)
    BY <1>2
  <2> QED
    BY <2>1, <2>2 DEF PoppedAt
<1>5. \A i \in Nat : 2 * i + 1 < n => L(i) \in 1 .. (n - 1) /\ Parent(L(i)) = i /\ L(i) > i
  BY LesserChildIs
<1>6. \A j \in 1 .. (n - 1) : 2 * Parent(j) + 1 < n /\ a[L(Parent(j))].time <= a[j].time
  <2>1. \A k \in 0 .. (n - 1) : a[k].time \in Int
    BY <1>1a
  <2> QED
    BY <2>1, LesserChildLeast
<1> HIDE DEF L, p, b
<1>7. /\ p \in Path[p] /\ 0 \in Path[p]
      /\ \A j \in Path[p] : j \in 0 .. p
      /\ \A j \in Path[p] : j # 0 => Parent(j) \in Path[p] /\ Parent(j) # p
      /\ \A j, k \in Path[p] : j # 0 /\ k # 0 /\ Parent(j) = Parent(k) => j = k
  <2>1. PathUp(p)
    BY <1>3, PathGoesUp
  <2>2. \A j \in Path[p] : j \in 0 .. p /\ (j # 0 => Parent(j) \in Path[p])
    BY <1>3, OnPath
  <2>3. \A j \in Path[p] : j # 0 => Parent(j) # p
    BY <1>3, <2>2, ParentIs
  <2>4. \A j, k \in Path[p] : j # 0 /\ k # 0 /\ Parent(j) = Parent(k) => j = k
    BY <1>3, OnPath
  <2> QED
    BY <2>1, <2>2, <2>3, <2>4 DEF PathUp
\* A child on the path is the lesser one.
<1>8. \A j \in Path[p] : j # 0 => Parent(j) \in Moved /\ L(Parent(j)) = j
  <2> SUFFICES ASSUME NEW j \in Path[p], j # 0
               PROVE  Parent(j) \in Moved /\ L(Parent(j)) = j
    OBVIOUS
  <2>1. Parent(j) \in Moved
    BY <1>7
  <2>2. /\ L(Parent(j)) \in Path[p] /\ L(Parent(j)) # 0
        /\ Parent(L(Parent(j))) = Parent(j)
    <3>1. Parent(j) \in Nat /\ 2 * Parent(j) + 1 < n /\ L(Parent(j)) \in Path[p]
      BY <1>3, <2>1
    <3> QED
      BY <1>5, <3>1
  <2> QED
    BY <1>7, <2>1, <2>2
<1>9. \A j \in Moved : /\ j \in 0 .. (n - 1) /\ L(j) \in 1 .. (n - 1) /\ Parent(L(j)) = j
                       /\ (L(j) = p \/ L(j) \in Moved)
  BY <1>3, <1>5
<1>10. 0 = p \/ 0 \in Moved
  BY <1>7
<1> DEFINE src == [i \in 0 .. (n - 1) |-> IF i = p THEN n ELSE IF i \in Moved THEN L(i) ELSE i]
<1> HIDE DEF Moved
<1>11. src \in [0 .. (n - 1) -> 1 .. n] /\ \A i \in 0 .. (n - 1) : src[i] = n <=> i = p
  <2>1. \A i \in 0 .. (n - 1) : i # p /\ i \notin Moved => i \in 1 .. (n - 1)
    BY <1>10
  <2>2. \A i \in 0 .. (n - 1) : src[i] \in 1 .. n /\ (src[i] = n <=> i = p)
    BY <1>9, <2>1
  <2> QED
    BY <2>2
<1>12. \A i \in 0 .. (n - 1) : b[i] = a[src[i]]
  BY <1>4
<1>13. \A i, j \in 0 .. (n - 1) : src[i] = src[j] => i = j
  <2> SUFFICES ASSUME NEW i \in 0 .. (n - 1), NEW j \in 0 .. (n - 1),
                      src[i] = src[j], i # p, j # p
               PROVE  i = j
    BY <1>11
  <2>1. CASE i \in Moved /\ j \in Moved
    <3>1. L(i) = L(j)
      BY <2>1
    <3> QED
      BY <1>9, <2>1, <3>1
  <2>2. CASE i \in Moved /\ j \notin Moved
    BY <1>9, <2>2
  <2>3. CASE i \notin Moved /\ j \in Moved
    BY <1>9, <2>3
  <2>4. CASE i \notin Moved /\ j \notin Moved
    BY <2>4
  <2> QED
    BY <2>1, <2>2, <2>3, <2>4
<1>14. \A k \in 1 .. n : n > 0 => \E i \in 0 .. (n - 1) : src[i] = k
  <2> SUFFICES ASSUME NEW k \in 1 .. n
               PROVE  \E i \in 0 .. (n - 1) : src[i] = k
    OBVIOUS
  <2>1. CASE k = n
    <3>1. p \in 0 .. (n - 1)
      BY <1>3
    <3> QED
      BY <2>1, <3>1
  <2>2. CASE k # n /\ k \in Path[p]
    <3>1. Parent(k) \in Moved /\ L(Parent(k)) = k /\ Parent(k) # p
      BY <1>7, <1>8, <2>2
    <3>2. Parent(k) \in 0 .. (n - 1)
      BY <1>9, <3>1
    <3>3. src[Parent(k)] = k
      BY <3>1, <3>2
    <3> QED
      BY <3>2, <3>3
  <2>3. CASE k # n /\ k \notin Path[p]
    <3>1. k \notin Moved /\ k # p /\ k \in 0 .. (n - 1)
      BY <1>7, <2>3 DEF Moved
    <3>2. src[k] = k
      BY <3>1
    <3> QED
      BY <3>1, <3>2
  <2> QED
    BY <2>1, <2>2, <2>3
<1>15. DOMAIN b = 0 .. (n - 1) /\ DOMAIN a = 0 .. n
  BY <1>1, <1>4
<1>16. b \in [0 .. (n - 1) -> Item]
  <2>1. \A i \in 0 .. (n - 1) : src[i] \in 0 .. n
    BY <1>11
  <2>2. \A i \in 0 .. (n - 1) : b[i] \in Item
    BY <1>1, <1>12, <2>1
  <2>3. b = [i \in 0 .. (n - 1) |-> b[i]]
    BY <1>4
  <2> QED
    BY <2>2, <2>3
<1>17. OneEach(b)
  <2>1. \A i \in 0 .. (n - 1) : src[i] \in 0 .. n
    BY <1>11
  <2> HIDE DEF src
  <2> QED
    BY <1>12, <1>13, <1>15, <2>1 DEF OneEach
<1>18. ItemsOf(b) = ItemsOf(a) \ {a[0]}
  <2>1. \A i \in 0 .. (n - 1) : src[i] \in 0 .. n /\ src[i] # 0
    BY <1>11
  <2>2. \A k \in 0 .. n : k # 0 => \E i \in 0 .. (n - 1) : src[i] = k
    BY <1>14
  <2>3. \A k \in 0 .. n : a[k] = a[0] => k = 0
    BY <1>15 DEF OneEach
  <2> HIDE DEF src
  <2>4. ASSUME NEW x \in ItemsOf(b) PROVE x \in ItemsOf(a) \ {a[0]}
    <3>1. PICK i \in 0 .. (n - 1) : x = b[i]
      BY <1>15 DEF ItemsOf
    <3>2. x = a[src[i]] /\ src[i] \in 0 .. n /\ src[i] # 0
      BY <1>12, <2>1, <3>1
    <3> QED
      BY <1>15, <2>3, <3>2 DEF ItemsOf
  <2>5. ASSUME NEW x \in ItemsOf(a), x # a[0] PROVE x \in ItemsOf(b)
    <3>1. PICK k \in 0 .. n : x = a[k]
      BY <1>15 DEF ItemsOf
    <3>2. PICK i \in 0 .. (n - 1) : src[i] = k
      BY <2>2, <2>5, <3>1
    <3> QED
      BY <1>12, <1>15, <3>1, <3>2 DEF ItemsOf
  <2> QED
    BY <2>4, <2>5
<1>19. IsHeap(b, n)
  <2> SUFFICES ASSUME NEW i \in 1 .. (n - 1)
               PROVE  b[Parent(i)].time <= b[i].time
    BY DEF IsHeap
  <2> DEFINE q == Parent(i)
  <2>1. i \in 0 .. (n - 1) /\ i # 0 /\ i \in 0 .. n
    OBVIOUS
  <2>2. q \in Nat /\ q < i
    BY <2>1, ParentIs
  <2>3. q \in 0 .. (n - 1) /\ q \in 0 .. n
    BY <2>1, <2>2
  <2>4. \A k \in 1 .. n : a[Parent(k)].time <= a[k].time
    BY <1>1 DEF IsHeap
  <2>5. b[i] = IF i = p THEN a[n] ELSE IF i \in Moved THEN a[L(i)] ELSE a[i]
    BY <1>4, <2>1
  <2>6. b[q] = IF q = p THEN a[n] ELSE IF q \in Moved THEN a[L(q)] ELSE a[q]
    BY <1>4, <2>3
  <2>7. 2 * q + 1 < n /\ a[L(q)].time <= a[i].time /\ L(q) \in 0 .. n
    <3>1. 2 * q + 1 < n /\ a[L(q)].time <= a[i].time
      BY <1>6
    <3> QED
      BY <1>5, <2>2, <3>1
  <2>8. a[n].time \in Int /\ a[i].time \in Int /\ a[q].time \in Int /\ a[L(q)].time \in Int
    BY <1>1a, <2>1, <2>3, <2>7
  <2> HIDE DEF q
  <2>9. CASE i \in Path[p]
    <3>1. q \in Moved /\ L(q) = i /\ q # p
      BY <1>7, <1>8, <2>1, <2>9 DEF q
    <3>2. b[q] = a[i] /\ a[n].time > a[i].time
      BY <1>3, <2>6, <3>1 DEF Moved
    <3>3. CASE i = p
      BY <2>5, <2>8, <3>2, <3>3 DEF q
    <3>4. CASE i # p
      <4>1. i \in Moved /\ L(i) \in 1 .. n /\ Parent(L(i)) = i
        BY <1>9, <2>9, <3>4 DEF Moved
      <4>2. a[i].time <= a[L(i)].time
        BY <2>4, <4>1
      <4> QED
        BY <2>5, <3>2, <3>4, <4>1, <4>2 DEF q
    <3> QED
      BY <3>3, <3>4
  <2>10. CASE i \notin Path[p]
    <3>1. b[i] = a[i]
      BY <1>7, <2>5, <2>10 DEF Moved
    <3>2. CASE q = p
      <4>1. ~(a[n].time > a[L(q)].time)
        BY <1>3, <2>7, <3>2
      <4> QED
        BY <2>6, <2>7, <2>8, <3>1, <3>2, <4>1 DEF q
    <3>3. CASE q # p /\ q \in Moved
      BY <2>6, <2>7, <3>1, <3>3 DEF q
    <3>4. CASE q # p /\ q \notin Moved
      <4>1. a[q].time <= a[i].time
        BY <2>1, <2>4 DEF q
      <4> QED
        BY <2>6, <3>1, <3>4, <4>1 DEF q
    <3> QED
      BY <3>2, <3>3, <3>4
  <2> QED
    BY <2>9, <2>10
<1>20. HeapOf(b, n)
  BY <1>16, <1>19 DEF HeapOf
<1> QED
  BY <1>17, <1>18, <1>20 DEF b

(* Nobody in the heap is earlier than its first element.                   *)
LEMMA RootIsFirst ==
    ASSUME NEW a, NEW n, HeapOf(a, n)
    PROVE  \A i \in 0 .. (n - 1) : a[0].time <= a[i].time
<1> DEFINE P == {i \in Nat : i < n => a[0].time <= a[i].time}
<1>1. n \in Nat /\ \A i \in 0 .. (n - 1) : a[i].time \in Int
  BY DEF HeapOf, Item
<1>2. 0 \in P
  BY <1>1
<1>3. ASSUME NEW i \in Nat, i # 0, Parent(i) \in P PROVE i \in P
  <2> SUFFICES ASSUME i < n PROVE a[0].time <= a[i].time
    OBVIOUS
  <2>1. Parent(i) \in Nat /\ Parent(i) < i
    BY <1>3, ParentIs
  <2>2. i \in 1 .. (n - 1) /\ 0 \in 0 .. (n - 1) /\ Parent(i) \in 0 .. (n - 1) /\ i \in 0 .. (n - 1)
    BY <1>1, <1>3, <2>1
  <2>3. a[Parent(i)].time <= a[i].time
    BY <2>2 DEF HeapOf, IsHeap
  <2>4. a[0].time <= a[Parent(i)].time
    BY <1>1, <1>3, <2>1
  <2> QED
    BY <1>1, <2>2, <2>3, <2>4
<1>4. \A i \in Nat : i \in P
  <2> HIDE DEF P
  <2> QED
    BY <1>2, <1>3, PlaceInduction
<1> QED
  BY <1>1, <1>4

-----------------------------------------------------------------------------
(* The loop of the server when a tick comes.                               *)

Pops == {v \in [heap : UNION {[0 .. (m - 1) -> Item] : m \in 0 .. num_delays},
                n : 0 .. num_delays, woken : SUBSET Fd] :
            HeapOf(v.heap, v.n) /\ OneEach(v.heap)}

PopOne(v, time) ==
    IF v.n > 0 /\ Due(v.heap[0], time)
    THEN [heap |-> Pop(v.heap, v.n), n |-> v.n - 1,
          woken |-> v.woken \cup {v.heap[0].tid}]
    ELSE v

LEMMA PopOneIs ==
    ASSUME num_delays \in Nat, NEW v \in Pops, NEW time
    PROVE  /\ PopOne(v, time) \in Pops
           /\ v.n > 0 /\ Due(v.heap[0], time) =>
                 /\ PopOne(v, time).n = v.n - 1
                 /\ ItemsOf(PopOne(v, time).heap) = ItemsOf(v.heap) \ {v.heap[0]}
                 /\ v.heap[0] \in ItemsOf(v.heap)
                 /\ PopOne(v, time).woken = v.woken \cup {v.heap[0].tid}
<1>1. CASE ~(v.n > 0 /\ Due(v.heap[0], time))
  BY <1>1 DEF PopOne
<1>2. CASE v.n > 0 /\ Due(v.heap[0], time)
  <2>1. /\ v.n \in 0 .. num_delays /\ v.woken \in SUBSET Fd
        /\ HeapOf(v.heap, v.n) /\ OneEach(v.heap)
    BY DEF Pops
  <2>2. v.heap \in [0 .. (v.n - 1) -> Item] /\ v.n - 1 \in Nat /\ (v.n - 1) + 1 = v.n
    BY <1>2, <2>1 DEF HeapOf
  <2>3. v.heap[0] \in Item /\ v.heap[0].tid \in Fd /\ v.heap[0] \in ItemsOf(v.heap)
    BY <2>2 DEF Item, ItemsOf
  <2> DEFINE h == Pop(v.heap, v.n)
             m == v.n - 1
  <2>4. HeapOf(h, m) /\ OneEach(h) /\ ItemsOf(h) = ItemsOf(v.heap) \ {v.heap[0]}
    BY <2>1, <2>2, PopKeeps
  <2>5. PopOne(v, time) = [heap |-> h, n |-> m, woken |-> v.woken \cup {v.heap[0].tid}]
    BY <1>2 DEF PopOne
  <2>6. m \in 0 .. num_delays
    BY <2>1, <2>2
  <2> HIDE DEF h, m
  <2>7. h \in [0 .. (m - 1) -> Item]
    BY <2>4 DEF HeapOf
  <2>8. h \in UNION {[0 .. (k - 1) -> Item] : k \in 0 .. num_delays}
    BY <2>6, <2>7
  <2>9. PopOne(v, time) \in Pops
    BY <2>1, <2>3, <2>4, <2>5, <2>6, <2>8 DEF Pops
  <2> QED
    BY <2>3, <2>4, <2>5, <2>9 DEF m
<1> QED
  BY <1>1, <1>2

AfterOf(time) ==
    CHOOSE f : f = [k \in Nat |->
        IF k = 0 THEN [heap |-> delays, n |-> num_delays, woken |-> {}]
        ELSE IF f[k - 1].n > 0 /\ Due(f[k - 1].heap[0], time)
             THEN [heap |-> Pop(f[k - 1].heap, f[k - 1].n), n |-> f[k - 1].n - 1,
                   woken |-> f[k - 1].woken \cup {f[k - 1].heap[0].tid}]
             ELSE f[k - 1]]

LEMMA PoppedAfter ==
    ASSUME NEW time
    PROVE  Popped(time) = AfterOf(time)[num_delays]
BY Zenon DEF Popped, AfterOf

LEMMA AfterIs ==
    ASSUME HeapOf(delays, num_delays), OneEach(delays), NEW time
    PROVE  LET v0 == [heap |-> delays, n |-> num_delays, woken |-> {}] IN
           /\ v0 \in Pops
           /\ AfterOf(time)[0] = v0
           /\ \A k \in Nat : AfterOf(time)[k + 1] = PopOne(AfterOf(time)[k], time)
<1> DEFINE v0 == [heap |-> delays, n |-> num_delays, woken |-> {}]
           rank == [k \in Nat |-> k]
           nxt == [k \in Nat |-> IF k = 0 THEN 0 ELSE k - 1]
           base == [k \in Nat |-> v0]
           step == [x \in Nat \X Pops |-> PopOne(x[2], time)]
<1>1. num_delays \in Nat /\ delays \in [0 .. (num_delays - 1) -> Item]
  BY DEF HeapOf
<1>2. v0 \in Pops
  <2>1. delays \in UNION {[0 .. (m - 1) -> Item] : m \in 0 .. num_delays}
    <3>1. num_delays \in 0 .. num_delays
      BY <1>1
    <3> QED
      BY <1>1, <3>1
  <2>2. num_delays \in 0 .. num_delays /\ {} \in SUBSET Fd
    BY <1>1
  <2> QED
    BY <2>1, <2>2 DEF Pops
<1> HIDE DEF v0
<1>3. Ranked(Nat, Pops, {0}, rank, nxt, base, step)
  <2>1. rank \in [Nat -> Nat] /\ nxt \in [Nat -> Nat] /\ base \in [Nat -> Pops]
    BY <1>2
  <2>2. step \in [Nat \X Pops -> Pops]
    <3>1. \A x \in Nat \X Pops : PopOne(x[2], time) \in Pops
      BY <1>1, PopOneIs
    <3> QED
      BY <3>1
  <2>3. \A i \in Nat : i \notin {0} => rank[nxt[i]] < rank[i]
    OBVIOUS
  <2> QED
    BY <2>1, <2>2, <2>3 DEF Ranked
<1>4. PICK f \in [Nat -> Pops] : Recursion(f, Nat, {0}, nxt, base, step)
  BY <1>3, RecursionDefines
<1>5. \A k \in Nat : f[k] = IF k = 0 THEN v0 ELSE PopOne(f[k - 1], time)
  <2> TAKE k \in Nat
  <2>1. f[k] = IF k \in {0} THEN base[k] ELSE step[<<k, f[nxt[k]]>>]
    BY <1>4 DEF Recursion
  <2>2. CASE k = 0
    BY <2>1, <2>2
  <2>3. CASE k # 0
    <3>1. nxt[k] = k - 1 /\ k - 1 \in Nat
      BY <2>3
    <3>2. f[k - 1] \in Pops
      BY <3>1
    <3>3. f[k] = step[<<k, f[k - 1]>>]
      BY <2>1, <2>3, <3>1
    <3> QED
      BY <2>3, <3>2, <3>3
  <2> QED
    BY <2>2, <2>3
<1>6. f = [k \in Nat |->
        IF k = 0 THEN [heap |-> delays, n |-> num_delays, woken |-> {}]
        ELSE IF f[k - 1].n > 0 /\ Due(f[k - 1].heap[0], time)
             THEN [heap |-> Pop(f[k - 1].heap, f[k - 1].n), n |-> f[k - 1].n - 1,
                   woken |-> f[k - 1].woken \cup {f[k - 1].heap[0].tid}]
             ELSE f[k - 1]]
  <2>1. f = [k \in Nat |-> IF k = 0 THEN v0 ELSE PopOne(f[k - 1], time)]
    BY <1>5
  <2> QED
    BY <2>1, Zenon DEF PopOne, v0
<1> DEFINE g == AfterOf(time)
<1>7. g = [k \in Nat |->
        IF k = 0 THEN [heap |-> delays, n |-> num_delays, woken |-> {}]
        ELSE IF g[k - 1].n > 0 /\ Due(g[k - 1].heap[0], time)
             THEN [heap |-> Pop(g[k - 1].heap, g[k - 1].n), n |-> g[k - 1].n - 1,
                   woken |-> g[k - 1].woken \cup {g[k - 1].heap[0].tid}]
             ELSE g[k - 1]]
  BY <1>6, Zenon DEF AfterOf
<1> HIDE DEF g
<1>8. \A k \in Nat : g[k] = IF k = 0 THEN v0 ELSE PopOne(g[k - 1], time)
  <2>1. g = [k \in Nat |-> IF k = 0 THEN v0 ELSE PopOne(g[k - 1], time)]
    BY <1>7, Zenon DEF PopOne, v0
  <2> QED
    BY <2>1
<1>9. \A k \in Nat : g[k + 1] = PopOne(g[k], time)
  <2> TAKE k \in Nat
  <2>1. k + 1 \in Nat /\ k + 1 # 0 /\ (k + 1) - 1 = k
    OBVIOUS
  <2> QED
    BY <1>8, <2>1
<1> QED
  BY <1>2, <1>8, <1>9 DEF g, v0

(* What the loop leaves, and whom it answers.                              *)
LEMMA PoppedIs ==
    ASSUME HeapOf(delays, num_delays), OneEach(delays), NEW time \in Int
    PROVE  LET p    == Popped(time)
               gone == ItemsOf(delays) \ ItemsOf(p.heap)
           IN  /\ HeapOf(p.heap, p.n) /\ OneEach(p.heap) /\ p.n <= num_delays
               /\ ItemsOf(p.heap) \subseteq ItemsOf(delays)
               /\ p.woken = {x.tid : x \in gone}
               /\ \A x \in gone : x.time <= time
               /\ \A x \in ItemsOf(p.heap) : x.time > time
<1> DEFINE A == AfterOf(time)
           Gone(k) == ItemsOf(delays) \ ItemsOf(A[k].heap)
           Good(k) == /\ A[k] \in Pops
                      /\ ItemsOf(A[k].heap) \subseteq ItemsOf(delays)
                      /\ A[k].woken = {x.tid : x \in Gone(k)}
                      /\ \A x \in Gone(k) : x.time <= time
                      /\ \/ A[k].n + k = num_delays
                         \/ A[k].n = 0
                         \/ ~(A[k].heap[0].time <= time)
           P == {k \in Nat : Good(k)}
<1>1. /\ A[0] = [heap |-> delays, n |-> num_delays, woken |-> {}]
      /\ A[0] \in Pops
      /\ \A k \in Nat : A[k + 1] = PopOne(A[k], time)
  BY AfterIs
<1>2. num_delays \in Nat
  BY DEF HeapOf
<1> HIDE DEF A
<1>3. 0 \in P
  <2>1. Gone(0) = {} /\ A[0].heap = delays /\ A[0].woken = {} /\ A[0].n + 0 = num_delays
    BY <1>1, <1>2
  <2> QED
    BY <1>1, <2>1
<1>4. ASSUME NEW k \in Nat, k \in P PROVE k + 1 \in P
  <2> DEFINE v == A[k]
             w == A[k + 1]
  <2>1. Good(k) /\ w = PopOne(v, time)
    BY <1>1, <1>4
  <2>2. v.n \in Nat /\ v \in Pops
    BY <2>1 DEF Pops
  <2>3. CASE v.n > 0 /\ Due(v.heap[0], time)
    <3>1. /\ w \in Pops /\ w.n = v.n - 1
          /\ ItemsOf(w.heap) = ItemsOf(v.heap) \ {v.heap[0]}
          /\ v.heap[0] \in ItemsOf(v.heap)
          /\ w.woken = v.woken \cup {v.heap[0].tid}
      BY <1>2, <2>1, <2>3, PopOneIs
    <3>2. Gone(k + 1) = Gone(k) \cup {v.heap[0]}
      BY <2>1, <3>1
    <3>3. v.heap[0].time <= time
      BY <2>3 DEF Due
    <3>4. w.n + (k + 1) = num_delays \/ w.n = 0
      BY <1>2, <2>1, <2>2, <2>3, <3>1, <3>3
    <3>5. w.woken = {x.tid : x \in Gone(k + 1)}
      <4>1. {x.tid : x \in Gone(k) \cup {v.heap[0]}}
            = {x.tid : x \in Gone(k)} \cup {v.heap[0].tid}
        OBVIOUS
      <4> QED
        BY <2>1, <3>1, <3>2, <4>1
    <3>6. \A x \in Gone(k + 1) : x.time <= time
      BY <2>1, <3>2, <3>3
    <3>7. ItemsOf(w.heap) \subseteq ItemsOf(delays)
      BY <2>1, <3>1
    <3> QED
      BY <3>1, <3>4, <3>5, <3>6, <3>7
  <2>4. CASE ~(v.n > 0 /\ Due(v.heap[0], time))
    <3>1. w = v
      BY <2>1, <2>4 DEF PopOne
    <3>2. v.n = 0 \/ ~(v.heap[0].time <= time)
      BY <2>2, <2>4 DEF Due
    <3> QED
      BY <2>1, <3>1, <3>2
  <2> QED
    BY <2>3, <2>4
<1>5. Good(num_delays)
  <2> HIDE DEF Good
  <2>1. \A k \in Nat : k \in P
    <3> HIDE DEF P
    <3> QED
      BY <1>3, <1>4, NatInduct
  <2> QED
    BY <1>2, <2>1
<1> DEFINE p == Popped(time)
<1>6. p = A[num_delays]
  BY PoppedAfter DEF A
<1> HIDE DEF p
<1>7. HeapOf(p.heap, p.n) /\ OneEach(p.heap) /\ p.n \in Nat /\ p.n <= num_delays
  BY <1>2, <1>5, <1>6 DEF Pops
<1>8. p.n = 0 \/ p.heap[0].time > time
  <2>1. p.n + num_delays = num_delays \/ p.n = 0 \/ ~(p.heap[0].time <= time)
    BY <1>5, <1>6
  <2>2. ASSUME p.n # 0 PROVE p.heap[0].time > time
    <3>1. 0 \in 0 .. (p.n - 1) /\ p.heap \in [0 .. (p.n - 1) -> Item]
      BY <1>7, <2>2 DEF HeapOf
    <3>2. p.heap[0].time \in Int
      BY <3>1 DEF Item
    <3>3. ~(p.heap[0].time <= time)
      BY <1>2, <1>7, <2>1, <2>2
    <3> QED
      BY <3>2, <3>3
  <2> QED
    BY <2>2
<1>9. \A x \in ItemsOf(p.heap) : x.time > time
  <2> SUFFICES ASSUME NEW i \in 0 .. (p.n - 1)
               PROVE  p.heap[i].time > time
    BY <1>7 DEF HeapOf, ItemsOf
  <2>1. p.n # 0 /\ 0 \in 0 .. (p.n - 1)
    BY <1>7
  <2>2. p.heap[0].time <= p.heap[i].time
    BY <1>7, RootIsFirst
  <2>3. p.heap[0].time \in Int /\ p.heap[i].time \in Int
    BY <1>7, <2>1 DEF HeapOf, Item
  <2> QED
    BY <1>8, <2>1, <2>2, <2>3
<1> QED
  BY <1>5, <1>6, <1>7, <1>9 DEF p

-----------------------------------------------------------------------------
(***************************************************************************)
(* The invariant of the server.                                            *)
(***************************************************************************)

Sleep == [code : {"DELAY"}, data : Msecs]
Requests == Sleep \cup {[code |-> "DELAY", data |-> NoData],
                        [code |-> "OTHER", data |-> 0],
                        [code |-> "TIME", data |-> 0]}

ClockTypes ==
    /\ now \in 0 .. IntMax
    /\ num_delays \in 0 .. DELAYS
    /\ waiting \in BOOLEAN
    /\ elapsed \in [Client -> 0 .. IntMax]

(* Nobody sends to another server.                                         *)
OnlyClock ==
    \A s \in Server : s # Clock =>
        inbox[s] = <<>> /\ \A fd \in Fd : tids[s][fd] = Nobody

(* Who is in a call, and in which: only sleepers are kept waiting.         *)
Callers ==
    \A c \in Client : /\ phase[c] \in {"ready", "sending", "waiting"}
                      /\ phase[c] # "ready" => msg[c] \in Requests
                      /\ phase[c] = "waiting" => msg[c] \in Sleep

(* The notifier waits for a tick, or one is under way to the server.       *)
Ticking ==
    /\ phase[Notifier] \in {"ready", "sending"}
    /\ waiting => phase[Notifier] = "ready"
    /\ phase[Notifier] = "sending" => msg[Notifier].code = "NOTIFY"
    /\ ~waiting => now < IntMax

(* The descriptors that the server keeps are those in the heap.            *)
HeapKept ==
    /\ HeapOf(delays, num_delays) /\ OneEach(delays)
    /\ \A fd \in Fd : tids[Clock][fd] # Nobody <=> \E x \in ItemsOf(delays) : x.tid = fd

(* A client before the notifier in the inbox has seen the tick that the    *)
(* notifier reports.                                                       *)
Asks(c) == InSleep(c) /\ msg[c].data # NoData
TickBehind(i) ==
    \/ NotifierReady
    \/ \E j \in DOMAIN inbox[Clock] : i < j /\ inbox[Clock][j] = Notifier
TickSeen ==
    \A i \in DOMAIN inbox[Clock] : \A c \in Client :
        c = inbox[Clock][i] /\ Asks(c) /\ TickBehind(i) => elapsed[c] >= 1

(* What a sleeper has slept and what the server will let it sleep are      *)
(* what it asked for, with the tick under way to the server.               *)
Coming == IF waiting THEN 0 ELSE 1
SleptBy(x, c) ==
    \/ elapsed[c] >= msg[c].data
    \/ now + msg[c].data > IntMax
    \/ elapsed[c] + x.time >= (now + msg[c].data) + Coming
Slept == \A x \in ItemsOf(delays) : \A c \in Client :
             tids[Clock][x.tid] = c => SleptBy(x, c)

ClockInv ==
    /\ MsgInv /\ ClockTypes /\ OnlyClock /\ Callers /\ Ticking
    /\ HeapKept /\ NoneOverdue /\ TickSeen /\ Slept

LEMMA ClockFacts ==
    /\ Client \subseteq Task /\ Notifier \in Task /\ Notifier \notin Client
    /\ \A t \in Task : t \in Client \/ t = Notifier
    /\ Clock \in Server /\ DELAYS \in Nat /\ IntMax \in Nat
    /\ \A m \in Msecs : m \in 1 .. IntMax
BY ClockAssumption

LEMMA RequestsAre ==
    \A m \in Requests :
        /\ m.code \in {"DELAY", "OTHER", "TIME"} /\ m.data \in -1 .. IntMax
        /\ m.code = "DELAY" => m.data = -1 \/ (m.data \in 1 .. IntMax /\ m \in Sleep)
        /\ m \in Sleep => m.code = "DELAY" /\ m.data \in 1 .. IntMax
BY ClockFacts DEF Requests, Sleep, NoData

(* Who has sent what the server receives.                                  *)
LEMMA SenderOf ==
    ASSUME ClockInv, Incoming(Clock)
    PROVE  /\ Sender(Clock) \in Client => Request(Clock) \in Requests
           /\ Sender(Clock) \notin Client =>
                 Sender(Clock) = Notifier /\ Request(Clock).code = "NOTIFY"
<1>1. Sender(Clock) \in Task /\ phase[Sender(Clock)] = "sending"
  BY SenderIs, ClockFacts DEF ClockInv
<1> QED
  BY <1>1, ClockFacts DEF ClockInv, Callers, Ticking, Request

(* Whom the server keeps.                                                  *)
LEMMA KeptByClock ==
    ASSUME ClockInv, NEW t \in Task, phase[t] = "waiting"
    PROVE  /\ t \in Client /\ msg[t] \in Sleep
           /\ \E x \in ItemsOf(delays) : x \in Item /\ tids[Clock][x.tid] = t
<1>1. t \in Client /\ msg[t] \in Sleep
  BY ClockFacts DEF ClockInv, Callers, Ticking
<1>2. PICK s \in Server, fd \in Fd : tids[s][fd] = t
  BY DEF ClockInv, MsgInv, PhaseTells, Kept
<1>3. s = Clock
  BY <1>2, NobodyAssumption DEF ClockInv, OnlyClock
<1>4. PICK x \in ItemsOf(delays) : x.tid = fd
  BY <1>2, <1>3, NobodyAssumption DEF ClockInv, HeapKept
<1>5. x \in Item
  BY DEF ClockInv, HeapKept, HeapOf, ItemsOf
<1> QED
  BY <1>1, <1>2, <1>3, <1>4, <1>5

LEMMA ClockInit ==
    ASSUME Init
    PROVE  ClockInv
<1>1. MsgInv
  BY MsgInitKeeps DEF Init
<1>2. /\ now = 0 /\ delays = [i \in {} |-> 0] /\ num_delays = 0 /\ waiting = TRUE
      /\ elapsed = [c \in Client |-> 0]
      /\ phase = [t \in Task |-> "ready"]
      /\ inbox = [s \in Server |-> <<>>]
      /\ tids = [s \in Server |-> [fd \in Fd |-> Nobody]]
  BY DEF Init, MsgInit
<1>3. ClockTypes
  BY <1>2, ClockFacts DEF ClockTypes
<1>4. OnlyClock
  BY <1>2 DEF OnlyClock
<1>5. Callers /\ Ticking
  BY <1>2, ClockFacts DEF Callers, Ticking
<1>6. HeapKept
  <2>1. ItemsOf(delays) = {} /\ DOMAIN delays = {}
    BY <1>2 DEF ItemsOf
  <2>2. HeapOf(delays, num_delays)
    <3>1. 0 .. (0 - 1) = {} /\ 1 .. (0 - 1) = {}
      OBVIOUS
    <3> QED
      BY <1>2, <3>1 DEF HeapOf, IsHeap
  <2>3. OneEach(delays)
    BY <2>1 DEF OneEach
  <2>4. \A fd \in Fd : tids[Clock][fd] = Nobody
    BY <1>2, ClockFacts
  <2> QED
    BY <2>1, <2>2, <2>3, <2>4 DEF HeapKept
<1>7. NoneOverdue
  BY <1>2 DEF NoneOverdue
<1>8. TickSeen
  <2>1. inbox[Clock] = <<>>
    BY <1>2, ClockFacts
  <2> QED
    BY <2>1 DEF TickSeen
<1>9. Slept
  BY <1>2 DEF Slept, ItemsOf
<1> QED
  BY <1>1, <1>3, <1>4, <1>5, <1>6, <1>7, <1>8, <1>9 DEF ClockInv

-----------------------------------------------------------------------------
(* Every step keeps it.                                                    *)

LEMMA TickKeeps ==
    ASSUME ClockInv, Tick
    PROVE  ClockInv'
<1>1. /\ waiting' = FALSE /\ now < IntMax
      /\ elapsed' = [c \in Client |->
            IF InSleep(c) /\ elapsed[c] < msg[c].data
            THEN elapsed[c] + 1 ELSE elapsed[c]]
      /\ UNCHANGED <<phase, msg, status, inbox, tids, crashed, now, delays, num_delays>>
  BY DEF Tick, msgVars
<1>2. MsgInv'
  BY <1>1, MsgUnchanged DEF ClockInv, MsgInv, MsgTypeOK
<1>3. \A c \in Client : InSleep(c) => msg[c].data \in -1 .. IntMax
  BY RequestsAre DEF ClockInv, Callers, InSleep
<1>4. \A c \in Client : elapsed[c] \in 0 .. IntMax
  BY DEF ClockInv, ClockTypes
<1>5. \A c \in Client : /\ elapsed'[c] = IF InSleep(c) /\ elapsed[c] < msg[c].data
                                         THEN elapsed[c] + 1 ELSE elapsed[c]
                        /\ elapsed'[c] \in 0 .. IntMax
  <2> TAKE c \in Client
  <2>1. elapsed'[c] = IF InSleep(c) /\ elapsed[c] < msg[c].data
                      THEN elapsed[c] + 1 ELSE elapsed[c]
    BY <1>1
  <2>2. IntMax \in Nat
    BY ClockFacts
  <2> QED
    BY <1>3, <1>4, <2>1, <2>2
<1>6. ClockTypes'
  BY <1>1, <1>5 DEF ClockInv, ClockTypes
<1>7. OnlyClock' /\ Callers'
  BY <1>1 DEF ClockInv, OnlyClock, Callers
<1>8. Ticking'
  BY <1>1 DEF ClockInv, Ticking
<1>9. HeapKept' /\ NoneOverdue'
  BY <1>1 DEF ClockInv, HeapKept, NoneOverdue
<1>10. TickSeen'
  <2> SUFFICES ASSUME NEW c \in Client, Asks(c) PROVE elapsed'[c] >= 1
    BY <1>1 DEF TickSeen, Asks, InSleep
  <2>1. InSleep(c) /\ msg[c].data \in 1 .. IntMax
    BY RequestsAre DEF ClockInv, Callers, Asks, InSleep, NoData
  <2> QED
    BY <1>4, <1>5, <2>1
<1>11. Slept'
  <2> SUFFICES ASSUME NEW x \in ItemsOf(delays), NEW c \in Client, tids[Clock][x.tid] = c
               PROVE  SleptBy(x, c)'
    BY <1>1 DEF Slept, ItemsOf
  <2>1. x \in Item /\ x.time \in Int /\ x.tid \in Fd
    BY DEF ClockInv, HeapKept, HeapOf, ItemsOf, Item
  <2>2. phase[c] = "waiting"
    BY <2>1, ClockFacts DEF ClockInv, MsgInv, PhaseTells, Kept
  <2>3. InSleep(c) /\ msg[c].data \in 1 .. IntMax
    BY <2>2, RequestsAre DEF ClockInv, Callers, InSleep
  <2>4. SleptBy(x, c)
    BY DEF ClockInv, Slept
  <2>5. now \in Int /\ IntMax \in Int
    BY ClockFacts DEF ClockInv, ClockTypes
  <2>6. Coming \in {0, 1} /\ Coming' = 1
    BY <1>1 DEF Coming
  <2> DEFINE e == elapsed[c]
             d == msg[c].data
             T == x.time
             k == Coming
  <2>7. elapsed'[c] = IF e < d THEN e + 1 ELSE e
    BY <1>5, <2>3
  <2>8. e \in Int /\ d \in Int /\ T \in Int /\ k \in {0, 1}
    BY <1>4, <2>1, <2>3, <2>6
  <2>9. e >= d \/ now + d > IntMax \/ e + T >= (now + d) + k
    BY <2>4 DEF SleptBy
  <2> HIDE DEF e, d, T, k
  <2>10. elapsed'[c] >= d \/ now + d > IntMax \/ elapsed'[c] + T >= (now + d) + 1
    BY <2>5, <2>7, <2>8, <2>9
  <2> QED
    BY <1>1, <2>6, <2>10 DEF SleptBy, d, T
<1> QED
  BY <1>2, <1>6, <1>7, <1>8, <1>9, <1>10, <1>11 DEF ClockInv

LEMMA SendStep ==
    ASSUME ClockInv, NEW t \in Task, NEW m, MsgSend(t, Clock, m)
    PROVE  /\ MsgInv' /\ OnlyClock' /\ tids' = tids
           /\ phase[t] = "ready" /\ phase'[t] = "sending" /\ msg'[t] = m
           /\ \A c \in Task : c # t => phase'[c] = phase[c] /\ msg'[c] = msg[c]
           /\ \E n \in Nat : /\ DOMAIN inbox[Clock] = 1 .. n
                             /\ DOMAIN inbox'[Clock] = 1 .. (n + 1)
                             /\ inbox'[Clock][n + 1] = t
                             /\ \A i \in 1 .. n : inbox'[Clock][i] = inbox[Clock][i]
                                                  /\ inbox[Clock][i] # t
<1>1. MsgInv /\ MsgTypeOK /\ DOMAIN msg = Task
  BY DEF ClockInv, MsgInv
<1>2. MsgInv'
  BY <1>1, ClockFacts, MsgSendKeeps
<1>3. /\ phase[t] = "ready" /\ phase' = [phase EXCEPT ![t] = "sending"]
      /\ msg' = [msg EXCEPT ![t] = m]
      /\ inbox' = [inbox EXCEPT ![Clock] = Append(@, t)] /\ tids' = tids
  BY DEF MsgSend
<1>4. /\ \A q \in Server : q # Clock => inbox'[q] = inbox[q]
      /\ Len(inbox'[Clock]) = Len(inbox[Clock]) + 1
      /\ \A i \in DOMAIN inbox[Clock] : inbox'[Clock][i] = inbox[Clock][i]
      /\ inbox'[Clock][Len(inbox[Clock]) + 1] = t
      /\ DOMAIN inbox'[Clock] = DOMAIN inbox[Clock] \cup {Len(inbox[Clock]) + 1}
  BY <1>1, <1>3, ClockFacts, InboxAppend
<1>5. OnlyClock'
  BY <1>3, <1>4 DEF ClockInv, OnlyClock
<1>6. \A i \in DOMAIN inbox[Clock] : inbox[Clock][i] # t
  BY <1>1, <1>3, ClockFacts DEF MsgInv, PhaseTells, Queued
<1>7. Len(inbox[Clock]) \in Nat /\ DOMAIN inbox[Clock] = 1 .. Len(inbox[Clock])
  BY <1>1, ClockFacts DEF MsgTypeOK
<1>8. /\ phase'[t] = "sending" /\ msg'[t] = m
      /\ \A c \in Task : c # t => phase'[c] = phase[c] /\ msg'[c] = msg[c]
  BY <1>1, <1>3 DEF MsgTypeOK
<1>9. DOMAIN inbox'[Clock] = 1 .. (Len(inbox[Clock]) + 1)
  BY <1>4, <1>7
<1> QED
  BY <1>2, <1>3, <1>4, <1>5, <1>6, <1>7, <1>8, <1>9

(* A send leaves alone what the server keeps.                              *)
LEMMA SendKeepsSlept ==
    ASSUME ClockInv, NEW t \in Task, NEW m, MsgSend(t, Clock, m), UNCHANGED clockVars
    PROVE  ClockTypes' /\ HeapKept' /\ NoneOverdue' /\ Slept'
<1>1. /\ tids' = tids /\ phase[t] = "ready"
      /\ \A c \in Task : c # t => phase'[c] = phase[c] /\ msg'[c] = msg[c]
  BY SendStep
<1>2. UNCHANGED <<now, delays, num_delays, waiting, elapsed>>
  BY DEF clockVars
<1>3. ClockTypes' /\ HeapKept' /\ NoneOverdue'
  BY <1>1, <1>2 DEF ClockInv, ClockTypes, HeapKept, NoneOverdue
<1>4. Slept'
  <2> SUFFICES ASSUME NEW x \in ItemsOf(delays), NEW c \in Client, tids[Clock][x.tid] = c
               PROVE  SleptBy(x, c)'
    BY <1>1, <1>2 DEF Slept, ItemsOf
  <2>1. x.tid \in Fd
    BY DEF ClockInv, HeapKept, HeapOf, ItemsOf, Item
  <2>2. phase[c] = "waiting"
    BY <2>1, ClockFacts DEF ClockInv, MsgInv, PhaseTells, Kept
  <2>3. msg'[c] = msg[c]
    BY <1>1, <2>2, ClockFacts
  <2>4. SleptBy(x, c)
    BY DEF ClockInv, Slept
  <2> QED
    BY <1>2, <2>3, <2>4 DEF SleptBy, Coming
<1> QED
  BY <1>3, <1>4

LEMMA NotifyKeeps ==
    ASSUME ClockInv, Notify
    PROVE  ClockInv'
<1> DEFINE m == [code |-> "NOTIFY", data |-> 0]
<1>1. NotifierReady /\ MsgSend(Notifier, Clock, m) /\ UNCHANGED clockVars
  BY DEF Notify
<1> HIDE DEF m
<1>2. ClockTypes' /\ HeapKept' /\ NoneOverdue' /\ Slept'
  BY <1>1, ClockFacts, SendKeepsSlept
<1>3. /\ MsgInv' /\ OnlyClock'
      /\ phase'[Notifier] = "sending" /\ msg'[Notifier] = m
      /\ \A c \in Task : c # Notifier => phase'[c] = phase[c] /\ msg'[c] = msg[c]
  BY <1>1, ClockFacts, SendStep
<1>4. PICK n \in Nat : /\ DOMAIN inbox[Clock] = 1 .. n
                       /\ DOMAIN inbox'[Clock] = 1 .. (n + 1)
                       /\ inbox'[Clock][n + 1] = Notifier
                       /\ \A i \in 1 .. n : inbox'[Clock][i] = inbox[Clock][i]
  BY <1>1, ClockFacts, SendStep
<1>5. UNCHANGED <<now, delays, num_delays, waiting, elapsed>>
  BY <1>1 DEF clockVars
<1>6. Callers'
  <2>1. \A c \in Client : phase'[c] = phase[c] /\ msg'[c] = msg[c]
    BY <1>3, ClockFacts
  <2> QED
    BY <2>1 DEF ClockInv, Callers
<1>7. Ticking'
  <2>1. ~waiting' /\ now < IntMax
    BY <1>1, <1>5 DEF NotifierReady, ClockInv, Ticking
  <2> QED
    BY <1>3, <1>5, <2>1 DEF Ticking, m
<1>8. TickSeen'
  <2> SUFFICES ASSUME NEW i \in DOMAIN inbox'[Clock], NEW c \in Client,
                      c = inbox'[Clock][i], Asks(c)'
               PROVE  elapsed'[c] >= 1
    BY DEF TickSeen
  <2>1. phase'[c] = phase[c] /\ msg'[c] = msg[c] /\ c # Notifier
    BY <1>3, ClockFacts
  <2>2. i \in DOMAIN inbox[Clock] /\ c = inbox[Clock][i]
    BY <1>4, <2>1
  <2>3. Asks(c)
    BY <2>1 DEF Asks, InSleep
  <2> QED
    BY <1>1, <1>5, <2>2, <2>3 DEF ClockInv, TickSeen, TickBehind
<1> QED
  BY <1>2, <1>3, <1>6, <1>7, <1>8 DEF ClockInv

LEMMA CallKeeps ==
    ASSUME ClockInv, NEW c \in Client, NEW m \in Requests, Call(c, m)
    PROVE  ClockInv'
<1>1. ~NotifierReady /\ MsgSend(c, Clock, m) /\ UNCHANGED clockVars /\ c \in Task
  BY ClockFacts DEF Call
<1>2. ClockTypes' /\ HeapKept' /\ NoneOverdue' /\ Slept'
  BY <1>1, SendKeepsSlept
<1>3. /\ MsgInv' /\ OnlyClock'
      /\ phase'[c] = "sending" /\ msg'[c] = m
      /\ \A t \in Task : t # c => phase'[t] = phase[t] /\ msg'[t] = msg[t]
  BY <1>1, SendStep
<1>4. PICK n \in Nat : /\ DOMAIN inbox[Clock] = 1 .. n
                       /\ DOMAIN inbox'[Clock] = 1 .. (n + 1)
                       /\ inbox'[Clock][n + 1] = c
                       /\ \A i \in 1 .. n : inbox'[Clock][i] = inbox[Clock][i]
                                            /\ inbox[Clock][i] # c
  BY <1>1, SendStep
<1>5. UNCHANGED <<now, delays, num_delays, waiting, elapsed>>
  BY <1>1 DEF clockVars
<1>6. Callers'
  BY <1>3, ClockFacts DEF ClockInv, Callers
<1>7. Ticking' /\ NotifierReady' = NotifierReady
  <2>1. phase'[Notifier] = phase[Notifier] /\ msg'[Notifier] = msg[Notifier]
    BY <1>3, ClockFacts
  <2> QED
    BY <1>5, <2>1 DEF ClockInv, Ticking, NotifierReady
<1>8. TickSeen'
  <2> SUFFICES ASSUME NEW i \in DOMAIN inbox'[Clock], NEW d \in Client,
                      d = inbox'[Clock][i], Asks(d)', TickBehind(i)'
               PROVE  elapsed'[d] >= 1
    BY DEF TickSeen
  <2>1. PICK j \in DOMAIN inbox'[Clock] : i < j /\ inbox'[Clock][j] = Notifier
    BY <1>1, <1>7 DEF TickBehind
  <2>2. j \in DOMAIN inbox[Clock] /\ inbox[Clock][j] = Notifier
    BY <1>4, <2>1, ClockFacts
  <2>3. i \in DOMAIN inbox[Clock] /\ d = inbox[Clock][i] /\ d # c
    BY <1>4, <2>1, <2>2
  <2>4. Asks(d)
    BY <1>3, <2>3, ClockFacts DEF Asks, InSleep
  <2>5. TickBehind(i)
    BY <2>1, <2>2 DEF TickBehind
  <2> QED
    BY <1>5, <2>3, <2>4, <2>5 DEF ClockInv, TickSeen
<1> QED
  BY <1>2, <1>3, <1>6, <1>7, <1>8 DEF ClockInv

(* What every handler does.                                                *)
ClockAnswers(replies, t) == Answered(Clock, replies, t)

LEMMA ServeClock ==
    ASSUME ClockInv, Incoming(Clock), NEW replies, DOMAIN replies \subseteq Fd,
           \A f \in DOMAIN replies : replies[f] \in Int, Serve(Clock, replies)
    PROVE  /\ MsgInv' /\ OnlyClock' /\ Tid(Clock) \in Fd /\ tids[Clock][Tid(Clock)] = Nobody
           /\ \A t \in Task :
                 /\ phase'[t] = IF ClockAnswers(replies, t) THEN "ready"
                                ELSE IF t = Sender(Clock) THEN "waiting" ELSE phase[t]
                 /\ msg'[t] = IF ClockAnswers(replies, t) THEN None ELSE msg[t]
                 /\ ClockAnswers(replies, t) => t = Sender(Clock) \/ phase[t] = "waiting"
           /\ \A fd \in Fd :
                 tids'[Clock][fd] = IF fd \in DOMAIN replies THEN Nobody
                                    ELSE IF fd = Tid(Clock) THEN Sender(Clock)
                                    ELSE tids[Clock][fd]
           /\ \A i \in DOMAIN inbox'[Clock] :
                 /\ i \in Nat /\ i + 1 \in DOMAIN inbox[Clock]
                 /\ inbox'[Clock][i] = inbox[Clock][i + 1]
                 /\ inbox'[Clock][i] # Sender(Clock)
<1>1. MsgInv /\ Clock \in Server /\ MsgTypeOK
  BY ClockFacts DEF ClockInv, MsgInv
<1>2. MsgInv'
  BY <1>1, ServeKeeps
<1>3. /\ FreeFds(Clock) # {} /\ Tid(Clock) \in Fd /\ tids[Clock][Tid(Clock)] = Nobody
      /\ tids' = [tids EXCEPT ![Clock] =
            [f \in Fd |-> IF f \in DOMAIN replies THEN Nobody ELSE Got(Clock)[f]]]
      /\ phase' = [t \in Task |->
            IF Answered(Clock, replies, t) THEN "ready"
            ELSE IF t = Sender(Clock) THEN "waiting" ELSE phase[t]]
      /\ msg' = [t \in Task |-> IF Answered(Clock, replies, t) THEN None ELSE msg[t]]
      /\ inbox' = [inbox EXCEPT ![Clock] = Tail(@)]
  BY <1>1, ServeEffect
<1>4. /\ Got(Clock)[Tid(Clock)] = Sender(Clock)
      /\ \A f \in Fd : f # Tid(Clock) => Got(Clock)[f] = tids[Clock][f]
  BY <1>1, <1>3, GotIs
<1>5. \A t \in Task : ClockAnswers(replies, t) => t = Sender(Clock) \/ phase[t] = "waiting"
  BY <1>1, <1>4 DEF ClockAnswers, Answered, MsgInv, PhaseTells, Kept
<1>6. \A t \in Task :
         /\ phase'[t] = IF ClockAnswers(replies, t) THEN "ready"
                        ELSE IF t = Sender(Clock) THEN "waiting" ELSE phase[t]
         /\ msg'[t] = IF ClockAnswers(replies, t) THEN None ELSE msg[t]
  BY <1>3 DEF ClockAnswers
<1>7. /\ \A q \in Server : q # Clock => tids'[q] = tids[q]
      /\ \A fd \in Fd : tids'[Clock][fd] = IF fd \in DOMAIN replies THEN Nobody
                                           ELSE Got(Clock)[fd]
  BY <1>1, <1>3 DEF MsgTypeOK
<1>8. \A fd \in Fd :
         tids'[Clock][fd] = IF fd \in DOMAIN replies THEN Nobody
                            ELSE IF fd = Tid(Clock) THEN Sender(Clock)
                            ELSE tids[Clock][fd]
  BY <1>4, <1>7
<1>9. /\ \A q \in Server : q # Clock => inbox'[q] = inbox[q]
      /\ Len(inbox[Clock]) \in Nat
      /\ DOMAIN inbox'[Clock] = 1 .. (Len(inbox[Clock]) - 1)
      /\ \A i \in DOMAIN inbox'[Clock] : i + 1 \in DOMAIN inbox[Clock]
                                         /\ inbox'[Clock][i] = inbox[Clock][i + 1]
  BY <1>1, <1>3, InboxTail
<1>10. OnlyClock'
  BY <1>7, <1>9 DEF ClockInv, OnlyClock
<1>11. \A i \in DOMAIN inbox'[Clock] : i \in Nat /\ inbox'[Clock][i] # Sender(Clock)
  <2> TAKE i \in DOMAIN inbox'[Clock]
  <2>1. i \in Nat /\ i # 0 /\ i + 1 \in DOMAIN inbox[Clock] /\ inbox'[Clock][i] = inbox[Clock][i + 1]
    BY <1>9
  <2>2. 1 \in DOMAIN inbox[Clock] /\ inbox[Clock][1] = Sender(Clock)
    BY <1>1, SenderIs
  <2>3. QueuedOnce
    BY <1>1 DEF MsgInv
  <2>4. inbox[Clock][i + 1] = inbox[Clock][1] => i + 1 = 1
    BY <1>1, <2>1, <2>2, <2>3 DEF QueuedOnce
  <2> QED
    BY <2>1, <2>2, <2>4
<1> QED
  BY <1>2, <1>3, <1>5, <1>6, <1>8, <1>9, <1>10, <1>11

(* The clients in the inbox have seen the tick behind them after a         *)
(* handler that is not the notifier's.                                     *)
LEMMA ServeKeepsTickSeen ==
    ASSUME ClockInv, Incoming(Clock), NEW replies, DOMAIN replies \subseteq Fd,
           \A f \in DOMAIN replies : replies[f] \in Int, Serve(Clock, replies),
           Sender(Clock) \in Client, ~NotifierReady, waiting' = waiting,
           \A c \in Client : phase'[c] # "ready" => elapsed'[c] = elapsed[c]
    PROVE  /\ TickSeen' /\ ~NotifierReady'
           /\ phase'[Notifier] = phase[Notifier] /\ msg'[Notifier] = msg[Notifier]
<1>1. \A t \in Task :
         /\ phase'[t] = IF ClockAnswers(replies, t) THEN "ready"
                        ELSE IF t = Sender(Clock) THEN "waiting" ELSE phase[t]
         /\ msg'[t] = IF ClockAnswers(replies, t) THEN None ELSE msg[t]
         /\ ClockAnswers(replies, t) => t = Sender(Clock) \/ phase[t] = "waiting"
  BY ServeClock
<1>2. \A i \in DOMAIN inbox'[Clock] :
         /\ i \in Nat /\ i + 1 \in DOMAIN inbox[Clock]
         /\ inbox'[Clock][i] = inbox[Clock][i + 1]
         /\ inbox'[Clock][i] # Sender(Clock)
  BY ServeClock
<1>3. phase'[Notifier] = phase[Notifier] /\ msg'[Notifier] = msg[Notifier]
  <2>1. phase[Notifier] # "waiting"
    BY DEF ClockInv, Ticking
  <2> QED
    BY <1>1, <2>1, ClockFacts
<1>4. ~NotifierReady'
  BY <1>3 DEF NotifierReady
<1>5. TickSeen'
  <2> SUFFICES ASSUME NEW i \in DOMAIN inbox'[Clock], NEW c \in Client,
                      c = inbox'[Clock][i], Asks(c)', TickBehind(i)'
               PROVE  elapsed'[c] >= 1
    BY DEF TickSeen
  <2>1. i + 1 \in DOMAIN inbox[Clock] /\ c = inbox[Clock][i + 1] /\ c # Sender(Clock) /\ c \in Task
    BY <1>2, ClockFacts
  <2>2. phase[c] = "sending"
    BY <2>1, ClockFacts DEF ClockInv, MsgInv, PhaseTells, Queued
  <2>3. phase'[c] = "sending" /\ msg'[c] = msg[c]
    BY <1>1, <2>1, <2>2
  <2>4. Asks(c) /\ elapsed'[c] = elapsed[c]
    BY <2>2, <2>3 DEF Asks, InSleep
  <2>5. PICK j \in DOMAIN inbox'[Clock] : i < j /\ inbox'[Clock][j] = Notifier
    BY <1>4 DEF TickBehind
  <2>6. j + 1 \in DOMAIN inbox[Clock] /\ i + 1 < j + 1 /\ inbox[Clock][j + 1] = Notifier
    BY <1>2, <2>5
  <2>7. TickBehind(i + 1)
    BY <2>6 DEF TickBehind
  <2> QED
    BY <2>1, <2>4, <2>7 DEF ClockInv, TickSeen
<1> QED
  BY <1>3, <1>4, <1>5

(* A handler that answers the client it received and changes nothing else. *)
LEMMA ReplyKeeps ==
    ASSUME ClockInv, Incoming(Clock), NEW st \in Int, Serve(Clock, Reply(Clock, st)),
           Sender(Clock) \in Client, ~NotifierReady,
           UNCHANGED <<now, delays, num_delays, waiting>>,
           elapsed' \in [Client -> 0 .. IntMax],
           \A c \in Client : phase'[c] # "ready" => elapsed'[c] = elapsed[c]
    PROVE  /\ ClockInv'
           /\ \A c \in Client : InSleep(c) /\ ~InSleep(c)' =>
                 c = Sender(Clock) /\ status'[c] = st
<1> DEFINE replies == Reply(Clock, st)
           c0 == Sender(Clock)
<1>1. FreeFds(Clock) # {} /\ Tid(Clock) \in Fd /\ tids[Clock][Tid(Clock)] = Nobody
  BY TidIsFree DEF Serve
<1>2. /\ DOMAIN replies = {Tid(Clock)} /\ replies[Tid(Clock)] = st
      /\ DOMAIN replies \subseteq Fd /\ \A f \in DOMAIN replies : replies[f] \in Int
  BY <1>1 DEF Reply
<1> HIDE DEF replies
<1>3. Serve(Clock, replies)
  BY DEF replies
<1>4. Got(Clock)[Tid(Clock)] = c0
  BY <1>1, GotIs, ClockFacts DEF ClockInv
<1>5. \A t : ClockAnswers(replies, t) <=> t = c0
  BY <1>2, <1>4 DEF ClockAnswers, Answered
<1>6. /\ MsgInv' /\ OnlyClock'
      /\ \A t \in Task :
            /\ phase'[t] = IF ClockAnswers(replies, t) THEN "ready"
                           ELSE IF t = c0 THEN "waiting" ELSE phase[t]
            /\ msg'[t] = IF ClockAnswers(replies, t) THEN None ELSE msg[t]
      /\ \A fd \in Fd :
            tids'[Clock][fd] = IF fd \in DOMAIN replies THEN Nobody
                               ELSE IF fd = Tid(Clock) THEN c0 ELSE tids[Clock][fd]
  BY <1>2, <1>3, ServeClock
<1>7. status'[c0] = st
  <2>1. \A f \in DOMAIN replies : Got(Clock)[f] \in Task => status'[Got(Clock)[f]] = replies[f]
    BY <1>2, <1>3, ServeEffect, ClockFacts DEF ClockInv
  <2> QED
    BY <1>2, <1>4, <2>1, ClockFacts
<1>8. \A fd \in Fd : tids'[Clock][fd] = tids[Clock][fd]
  BY <1>1, <1>2, <1>6
<1>9. phase'[c0] = "ready" /\ \A t \in Task : t # c0 => phase'[t] = phase[t] /\ msg'[t] = msg[t]
  BY <1>5, <1>6, ClockFacts
<1>10. /\ TickSeen' /\ ~NotifierReady'
       /\ phase'[Notifier] = phase[Notifier] /\ msg'[Notifier] = msg[Notifier]
  BY <1>2, <1>3, ServeKeepsTickSeen
<1>11. ClockTypes' /\ NoneOverdue'
  BY DEF ClockInv, ClockTypes, NoneOverdue
<1>12. Callers'
  BY <1>9, ClockFacts DEF ClockInv, Callers
<1>13. Ticking'
  BY <1>10 DEF ClockInv, Ticking
<1>14. HeapKept'
  BY <1>8 DEF ClockInv, HeapKept
<1>15. Slept'
  <2> SUFFICES ASSUME NEW x \in ItemsOf(delays), NEW c \in Client, tids'[Clock][x.tid] = c
               PROVE  SleptBy(x, c)'
    BY DEF Slept, ItemsOf
  <2>1. x.tid \in Fd
    BY DEF ClockInv, HeapKept, HeapOf, ItemsOf, Item
  <2>2. tids[Clock][x.tid] = c
    BY <1>8, <2>1
  <2>3. phase[c] = "waiting"
    BY <2>1, <2>2, ClockFacts DEF ClockInv, MsgInv, PhaseTells, Kept
  <2>4. phase[c0] = "sending"
    BY SenderIs, ClockFacts DEF ClockInv
  <2>5. msg'[c] = msg[c] /\ phase'[c] = "waiting"
    BY <1>9, <2>3, <2>4, ClockFacts
  <2>6. SleptBy(x, c)
    BY <2>2 DEF ClockInv, Slept
  <2>7. elapsed'[c] = elapsed[c]
    BY <2>5
  <2> QED
    BY <2>5, <2>6, <2>7 DEF SleptBy, Coming
<1>16. \A c \in Client : InSleep(c) /\ ~InSleep(c)' => c = c0
  BY <1>9, ClockFacts DEF InSleep
<1> QED
  BY <1>6, <1>7, <1>10, <1>11, <1>12, <1>13, <1>14, <1>15, <1>16 DEF ClockInv

(* What msleep promises of a step.                                         *)
NotEarlyStep ==
    \A c \in Client :
        /\ InSleep(c) /\ ~InSleep(c)'
        /\ status'[c] = 0
        /\ now' + msg[c].data <= IntMax
        => elapsed[c] >= msg[c].data

LEMMA AwakeIs ==
    ASSUME ClockInv, Awake
    PROVE  /\ elapsed' \in [Client -> 0 .. IntMax]
           /\ \A c \in Client : phase'[c] # "ready" => elapsed'[c] = elapsed[c]
<1>1. IntMax \in Nat /\ elapsed \in [Client -> 0 .. IntMax]
  BY ClockFacts DEF ClockInv, ClockTypes
<1> QED
  BY <1>1 DEF Awake

(* A client goes to sleep.                                                 *)
LEMMA PushesSleeper ==
    ASSUME ClockInv, Incoming(Clock), ~NotifierReady, Sender(Clock) \in Client,
           Request(Clock) \in Sleep, NEW time \in Sums(Request(Clock).data),
           num_delays < DELAYS, Serve(Clock, NoReply),
           delays' = Push(delays, num_delays, [tid |-> Tid(Clock), time |-> time]),
           num_delays' = num_delays + 1, UNCHANGED <<now, waiting>>, Awake,
           time > now \/ time < 0
    PROVE  ClockInv' /\ \A c \in Client : InSleep(c) => InSleep(c)'
<1> DEFINE c0 == Sender(Clock)
           new == [tid |-> Tid(Clock), time |-> time]
           d == msg[c0].data
<1>1. DOMAIN NoReply = {}
  BY DEF NoReply
<1>2. \A t : ~ClockAnswers(NoReply, t)
  BY <1>1 DEF ClockAnswers, Answered
<1>3. /\ MsgInv' /\ OnlyClock' /\ Tid(Clock) \in Fd /\ tids[Clock][Tid(Clock)] = Nobody
      /\ \A t \in Task :
            /\ phase'[t] = IF t = c0 THEN "waiting" ELSE phase[t]
            /\ msg'[t] = msg[t]
      /\ \A fd \in Fd : tids'[Clock][fd] = IF fd = Tid(Clock) THEN c0 ELSE tids[Clock][fd]
  BY <1>1, <1>2, ServeClock
<1>4. /\ TickSeen' /\ phase'[Notifier] = phase[Notifier] /\ msg'[Notifier] = msg[Notifier]
      /\ elapsed' \in [Client -> 0 .. IntMax]
      /\ \A c \in Client : phase'[c] # "ready" => elapsed'[c] = elapsed[c]
  BY <1>1, AwakeIs, ServeKeepsTickSeen
<1>5. /\ d \in 1 .. IntMax /\ msg[c0] \in Sleep /\ msg[c0].code = "DELAY" /\ IntMax \in Nat
      /\ now \in 0 .. IntMax /\ num_delays \in Nat /\ DELAYS \in Nat
  BY RequestsAre, ClockFacts DEF Request, Requests, ClockInv, ClockTypes
<1>6. \/ time = now + d /\ now + d <= IntMax
      \/ now + d > IntMax /\ time = (now + d) - 2 * (IntMax + 1)
  <2>1. now + d - 2 * (IntMax + 1) = (now + d) - 2 * (IntMax + 1)
    BY <1>5
  <2>2. time \in Sums(d)
    BY DEF Request
  <2> HIDE DEF d
  <2>3. CASE now + d <= IntMax
    <3>1. Sums(d) = {now + d}
      BY <2>3 DEF Sums
    <3> QED
      BY <1>5, <2>2, <2>3, <3>1
  <2>4. CASE ~(now + d <= IntMax)
    <3>1. Sums(d) = {now + d - 2 * (IntMax + 1)}
      BY <2>4 DEF Sums
    <3> QED
      BY <1>5, <2>1, <2>2, <2>4, <3>1
  <2> QED
    BY <2>3, <2>4
<1>7. time \in Int
  BY <1>5, <1>6
<1>8. phase[c0] = "sending" /\ c0 \in Task /\ c0 # Nobody
  BY SenderIs, ClockFacts DEF ClockInv
<1>9. new \in Item /\ new.tid = Tid(Clock) /\ new.time = time
  BY <1>3, <1>7 DEF Item
<1> HIDE DEF new, d
<1>10. /\ HeapOf(delays, num_delays) /\ OneEach(delays)
       /\ \A fd \in Fd : tids[Clock][fd] # Nobody <=> \E x \in ItemsOf(delays) : x.tid = fd
  BY DEF ClockInv, HeapKept
<1>11. \A i \in DOMAIN delays : delays[i].tid # new.tid
  BY <1>3, <1>9, <1>10 DEF ItemsOf
<1>12. /\ HeapOf(delays', num_delays') /\ OneEach(delays')
       /\ ItemsOf(delays') = ItemsOf(delays) \cup {new}
  <2>1. delays' = Push(delays, num_delays, new) /\ num_delays' = num_delays + 1
    BY DEF new
  <2>2. /\ HeapOf(Push(delays, num_delays, new), num_delays + 1)
        /\ OneEach(Push(delays, num_delays, new))
        /\ ItemsOf(Push(delays, num_delays, new)) = ItemsOf(delays) \cup {new}
    <3>1. new \in Item /\ HeapOf(delays, num_delays) /\ OneEach(delays)
      BY <1>9, <1>10
    <3> QED
      BY <1>11, <3>1, PushKeeps
  <2> QED
    BY <2>1, <2>2
<1>13. HeapKept'
  <2>1. ASSUME NEW fd \in Fd
        PROVE  tids'[Clock][fd] # Nobody <=> \E x \in ItemsOf(delays') : x.tid = fd
    BY <1>3, <1>8, <1>9, <1>10, <1>12
  <2>2. ItemsOf(delays)' = ItemsOf(delays')
    BY DEF ItemsOf
  <2> QED
    BY <1>12, <2>1, <2>2 DEF HeapKept, HeapOf, IsHeap, OneEach
<1>14. ClockTypes'
  BY <1>4, <1>5 DEF ClockInv, ClockTypes
<1>15. Callers'
  <2>1. \A c \in Client : /\ phase'[c] = IF c = c0 THEN "waiting" ELSE phase[c]
                          /\ msg'[c] = msg[c]
    BY <1>3, ClockFacts
  <2>2. msg[c0] \in Sleep /\ msg[c0] \in Requests
    BY <1>5 DEF Requests
  <2>3. Callers
    BY DEF ClockInv
  <2> QED
    BY <2>1, <2>2, <2>3 DEF Callers
<1>16. Ticking'
  BY <1>4 DEF ClockInv, Ticking
<1>17. \A x \in ItemsOf(delays) : x.time > now \/ x.time < 0
  BY DEF ClockInv, NoneOverdue, ItemsOf
<1>18. NoneOverdue'
  <2>1. \A x \in ItemsOf(delays') : x.time > now \/ x.time < 0
    BY <1>9, <1>12, <1>17
  <2> QED
    BY <2>1 DEF NoneOverdue, ItemsOf
<1>19. ASSUME ~waiting PROVE elapsed[c0] >= 1
  <2>1. phase[Notifier] = "sending"
    BY <1>19 DEF NotifierReady, ClockInv, Ticking
  <2>2. PICK s \in Server : \E i \in DOMAIN inbox[s] : inbox[s][i] = Notifier
    BY <2>1, ClockFacts DEF ClockInv, MsgInv, PhaseTells, Queued
  <2>3. PICK j \in DOMAIN inbox[s] : inbox[s][j] = Notifier
    BY <2>2
  <2>4. s = Clock
    BY <2>3 DEF ClockInv, OnlyClock
  <2>5. 1 \in DOMAIN inbox[Clock] /\ inbox[Clock][1] = c0
    BY SenderIs, ClockFacts DEF ClockInv
  <2>6. j \in Nat /\ 1 < j
    <3>1. DOMAIN inbox[Clock] = 1 .. Len(inbox[Clock]) /\ Len(inbox[Clock]) \in Nat
      BY ClockFacts DEF ClockInv, MsgInv, MsgTypeOK
    <3>2. j # 1
      BY <2>3, <2>4, <2>5, ClockFacts
    <3> QED
      BY <2>3, <2>4, <3>1, <3>2
  <2>7. TickBehind(1)
    BY <2>3, <2>4, <2>6 DEF TickBehind
  <2>8. Asks(c0)
    BY <1>5, <1>8 DEF Asks, InSleep, NoData, d
  <2> QED
    BY <2>5, <2>7, <2>8 DEF ClockInv, TickSeen
<1>20. Slept'
  <2> SUFFICES ASSUME NEW x \in ItemsOf(delays'), NEW c \in Client, tids'[Clock][x.tid] = c
               PROVE  SleptBy(x, c)'
    BY DEF Slept, ItemsOf
  <2>1. CASE x = new
    <3>1. c = c0
      BY <1>3, <1>9, <2>1
    <3>2. elapsed'[c0] = elapsed[c0] /\ msg'[c0] = msg[c0] /\ now' = now /\ elapsed[c0] \in Nat
      <4>1. phase'[c0] = "waiting"
        BY <1>3, <1>8
      <4> QED
        BY <1>3, <1>4, <1>8, <4>1 DEF ClockInv, ClockTypes
    <3>3. Coming' = Coming /\ (Coming = 0 \/ (Coming = 1 /\ elapsed[c0] >= 1))
      BY <1>19 DEF Coming
    <3> DEFINE e == elapsed[c0]
               k == Coming
    <3>4. now + d > IntMax \/ e + time >= (now + d) + k
      <4>1. e \in Nat /\ (k = 0 \/ (k = 1 /\ e >= 1))
        BY <3>2, <3>3
      <4> HIDE DEF e, k
      <4> QED
        BY <1>5, <1>6, <4>1
    <3> QED
      BY <1>9, <2>1, <3>1, <3>2, <3>3, <3>4 DEF SleptBy, d
  <2>2. CASE x \in ItemsOf(delays) /\ x # new
    <3>1. x.tid \in Fd /\ x.tid # Tid(Clock)
      BY <1>9, <1>10, <1>11, <2>2 DEF ItemsOf, HeapOf, Item
    <3>2. tids[Clock][x.tid] = c
      BY <1>3, <3>1
    <3>3. phase[c] = "waiting"
      BY <3>1, <3>2, ClockFacts DEF ClockInv, MsgInv, PhaseTells, Kept
    <3>4. phase'[c] = "waiting" /\ msg'[c] = msg[c]
      BY <1>3, <3>3, ClockFacts
    <3>5. elapsed'[c] = elapsed[c]
      BY <1>4, <3>4
    <3>6. SleptBy(x, c)
      BY <2>2, <3>2 DEF ClockInv, Slept
    <3> QED
      BY <3>4, <3>5, <3>6 DEF SleptBy, Coming
  <2> QED
    BY <1>12, <2>1, <2>2
<1>21. \A c \in Client : InSleep(c) => InSleep(c)'
  BY <1>3, ClockFacts DEF InSleep
<1> QED
  BY <1>3, <1>4, <1>13, <1>14, <1>15, <1>16, <1>18, <1>20, <1>21 DEF ClockInv

LEMMA ServeDelayKeeps ==
    ASSUME ClockInv, ServeDelay
    PROVE  ClockInv' /\ NotEarlyStep
<1> DEFINE msec == Request(Clock).data
           c0 == Sender(Clock)
<1>1. /\ ~NotifierReady /\ Incoming(Clock) /\ Request(Clock).code = "DELAY"
      /\ UNCHANGED <<now, waiting>> /\ Awake
  BY DEF ServeDelay, Incoming_
<1>2. c0 \in Client /\ Request(Clock) \in Requests /\ phase[c0] = "sending"
  BY <1>1, SenderOf, SenderIs, ClockFacts DEF ClockInv
<1>3. /\ elapsed' \in [Client -> 0 .. IntMax]
      /\ \A c \in Client : phase'[c] # "ready" => elapsed'[c] = elapsed[c]
  BY <1>1, AwakeIs
<1>4. now \in 0 .. IntMax /\ IntMax \in Nat /\ c0 \in Client
  BY <1>2, ClockFacts DEF ClockInv, ClockTypes
<1>5. ASSUME NEW st \in Int, Serve(Clock, Reply(Clock, st)), UNCHANGED <<delays, num_delays>>,
             st = 0 => now + msec > IntMax
      PROVE  ClockInv' /\ NotEarlyStep
  <2>1. /\ ClockInv'
        /\ \A c \in Client : InSleep(c) /\ ~InSleep(c)' => c = c0 /\ status'[c] = st
    BY <1>1, <1>2, <1>3, <1>5, ReplyKeeps
  <2>2. NotEarlyStep
    <3> SUFFICES ASSUME NEW c \in Client, InSleep(c), ~InSleep(c)', status'[c] = 0,
                        now' + msg[c].data <= IntMax
                 PROVE  FALSE
      BY DEF NotEarlyStep
    <3>1. c = c0 /\ st = 0
      BY <2>1
    <3>2. msg[c].data = msec /\ now' = now
      BY <1>1, <3>1 DEF Request
    <3>3. msec \in -1 .. IntMax
      BY <1>2, RequestsAre
    <3> HIDE DEF msec
    <3> QED
      BY <1>4, <1>5, <3>1, <3>2, <3>3
  <2> QED
    BY <2>1, <2>2
<1>6. CASE msec = NoData
  <2>1. Serve(Clock, Reply(Clock, EINVAL)) /\ UNCHANGED <<delays, num_delays>>
    BY <1>6 DEF ServeDelay
  <2> QED
    BY <1>5, <2>1 DEF EINVAL
<1>7. CASE msec # NoData
  <2>1. PICK time \in Sums(msec) :
             \/ /\ time <= now
                /\ Serve(Clock, Reply(Clock, 0))
                /\ UNCHANGED <<delays, num_delays>>
             \/ /\ num_delays = DELAYS
                /\ Serve(Clock, Reply(Clock, ENOMEM))
                /\ UNCHANGED <<delays, num_delays>>
             \/ /\ num_delays < DELAYS
                /\ Serve(Clock, NoReply)
                /\ delays' = Push(delays, num_delays,
                                  [tid |-> Tid(Clock), time |-> time])
                /\ num_delays' = num_delays + 1
    BY <1>7 DEF ServeDelay
  <2>2. Request(Clock) \in Sleep /\ msec \in 1 .. IntMax
    BY <1>1, <1>2, <1>7, RequestsAre DEF NoData
  <2>3. (time <= now => now + msec > IntMax) /\ (time > now \/ time < 0)
    <3>0. msec \in 1 .. IntMax /\ time \in Sums(msec)
      BY <2>2
    <3> HIDE DEF msec
    <3>1. CASE now + msec <= IntMax
      <4>1. Sums(msec) = {now + msec}
        BY <3>1 DEF Sums
      <4> QED
        BY <1>4, <3>0, <3>1, <4>1
    <3>2. CASE ~(now + msec <= IntMax)
      <4>1. Sums(msec) = {now + msec - 2 * (IntMax + 1)}
        BY <3>2 DEF Sums
      <4> QED
        BY <1>4, <3>0, <3>2, <4>1
    <3> QED
      BY <3>1, <3>2
  <2>4. CASE /\ time <= now
             /\ Serve(Clock, Reply(Clock, 0))
             /\ UNCHANGED <<delays, num_delays>>
    BY <1>5, <2>3, <2>4
  <2>5. CASE /\ num_delays = DELAYS
             /\ Serve(Clock, Reply(Clock, ENOMEM))
             /\ UNCHANGED <<delays, num_delays>>
    BY <1>5, <2>5 DEF ENOMEM
  <2>6. CASE /\ num_delays < DELAYS
             /\ Serve(Clock, NoReply)
             /\ delays' = Push(delays, num_delays, [tid |-> Tid(Clock), time |-> time])
             /\ num_delays' = num_delays + 1
    <3>1. ClockInv' /\ \A c \in Client : InSleep(c) => InSleep(c)'
      BY <1>1, <1>2, <2>2, <2>3, <2>6, PushesSleeper
    <3> QED
      BY <3>1 DEF NotEarlyStep
  <2> QED
    BY <2>1, <2>4, <2>5, <2>6
<1> QED
  BY <1>6, <1>7

LEMMA ServeQuestionKeeps ==
    ASSUME ClockInv, ServeTime \/ ServeOther
    PROVE  ClockInv' /\ NotEarlyStep
<1>1. PICK st \in Int : Serve(Clock, Reply(Clock, st))
  <2>1. now \in Int /\ ENOFUNC \in Int
    BY ClockFacts DEF ClockInv, ClockTypes, ENOFUNC
  <2> QED
    BY <2>1 DEF ServeTime, ServeOther
<1>2. /\ ~NotifierReady /\ Incoming(Clock) /\ Request(Clock).code \in {"TIME", "OTHER"}
      /\ UNCHANGED <<now, delays, num_delays, waiting, elapsed>>
  BY DEF ServeTime, ServeOther, Incoming_, clockVars
<1>3. Sender(Clock) \in Client
  BY <1>2, SenderOf
<1>4. elapsed' \in [Client -> 0 .. IntMax]
  BY <1>2 DEF ClockInv, ClockTypes
<1>5. /\ ClockInv'
      /\ \A c \in Client : InSleep(c) /\ ~InSleep(c)' => c = Sender(Clock)
  BY <1>1, <1>2, <1>3, <1>4, ReplyKeeps
<1>6. ~InSleep(Sender(Clock))
  BY <1>2 DEF InSleep, Request
<1> QED
  BY <1>5, <1>6 DEF NotEarlyStep

LEMMA ServeNotifyKeeps ==
    ASSUME ClockInv, ServeNotify
    PROVE  ClockInv' /\ NotEarlyStep
<1> DEFINE p == Popped(now + 1)
           replies == [fd \in p.woken \cup {Tid(Clock)} |-> 0]
           gone == ItemsOf(delays) \ ItemsOf(p.heap)
<1>1. /\ Incoming(Clock) /\ Request(Clock).code = "NOTIFY"
      /\ Serve(Clock, replies)
      /\ now' = now + 1 /\ delays' = p.heap /\ num_delays' = p.n
      /\ waiting' = TRUE /\ Awake
  BY DEF ServeNotify, Incoming_
<1>2. Sender(Clock) = Notifier /\ phase[Notifier] = "sending"
  BY <1>1, SenderOf, SenderIs, RequestsAre, ClockFacts DEF ClockInv
<1>3. /\ now \in 0 .. IntMax /\ now < IntMax /\ IntMax \in Nat /\ ~waiting
      /\ num_delays \in Nat /\ DELAYS \in Nat /\ num_delays <= DELAYS
  BY <1>2, ClockFacts DEF ClockInv, ClockTypes, Ticking
<1>4. /\ HeapOf(delays, num_delays) /\ OneEach(delays)
      /\ \A fd \in Fd : tids[Clock][fd] # Nobody <=> \E x \in ItemsOf(delays) : x.tid = fd
  BY DEF ClockInv, HeapKept
<1>5. /\ HeapOf(p.heap, p.n) /\ OneEach(p.heap) /\ p.n <= num_delays
      /\ ItemsOf(p.heap) \subseteq ItemsOf(delays)
      /\ p.woken = {x.tid : x \in gone}
      /\ \A x \in gone : x.time <= now + 1
      /\ \A x \in ItemsOf(p.heap) : x.time > now + 1
  <2>1. now + 1 \in Int
    BY <1>3
  <2> QED
    BY <1>4, <2>1, PoppedIs
<1>6. Tid(Clock) \in Fd /\ tids[Clock][Tid(Clock)] = Nobody
  BY <1>1, TidIsFree DEF Serve
<1>7. \A x \in ItemsOf(delays) : x \in Item /\ x.tid \in Fd /\ x.time \in Int
  BY <1>4 DEF HeapOf, ItemsOf, Item
<1>8. \A x, y \in ItemsOf(delays) : x.tid = y.tid => x = y
  BY <1>4 DEF OneEach, ItemsOf
<1> HIDE DEF p
<1>9. /\ DOMAIN replies = p.woken \cup {Tid(Clock)}
      /\ DOMAIN replies \subseteq Fd /\ \A f \in DOMAIN replies : replies[f] \in Int
  BY <1>5, <1>6, <1>7
<1> HIDE DEF replies
<1>10. /\ MsgInv' /\ OnlyClock'
       /\ \A t \in Task :
             /\ phase'[t] = IF ClockAnswers(replies, t) THEN "ready"
                            ELSE IF t = Sender(Clock) THEN "waiting" ELSE phase[t]
             /\ msg'[t] = IF ClockAnswers(replies, t) THEN None ELSE msg[t]
             /\ ClockAnswers(replies, t) => t = Sender(Clock) \/ phase[t] = "waiting"
       /\ \A fd \in Fd :
             tids'[Clock][fd] = IF fd \in DOMAIN replies THEN Nobody
                                ELSE IF fd = Tid(Clock) THEN Sender(Clock)
                                ELSE tids[Clock][fd]
       /\ \A i \in DOMAIN inbox'[Clock] : inbox'[Clock][i] # Sender(Clock)
  BY <1>1, <1>9, ServeClock
<1>11. /\ Got(Clock)[Tid(Clock)] = Notifier
       /\ \A f \in Fd : f # Tid(Clock) => Got(Clock)[f] = tids[Clock][f]
  BY <1>1, <1>2, GotIs, ClockFacts DEF ClockInv, Serve
<1>12. ClockAnswers(replies, Notifier)
  BY <1>9, <1>11 DEF ClockAnswers, Answered
<1>13. \A c \in Client : ClockAnswers(replies, c) =>
          \E x \in gone : tids[Clock][x.tid] = c
  <2> SUFFICES ASSUME NEW c \in Client, ClockAnswers(replies, c)
               PROVE  \E x \in gone : tids[Clock][x.tid] = c
    OBVIOUS
  <2>1. PICK f \in DOMAIN replies : Got(Clock)[f] = c
    BY DEF ClockAnswers, Answered
  <2>2. f # Tid(Clock) /\ f \in p.woken /\ tids[Clock][f] = c
    BY <1>9, <1>11, <2>1, ClockFacts
  <2> QED
    BY <1>5, <2>2
<1>14. /\ elapsed' \in [Client -> 0 .. IntMax]
       /\ \A c \in Client : phase'[c] # "ready" => elapsed'[c] = elapsed[c]
  BY <1>1, AwakeIs
<1>15. ClockTypes'
  <2>1. now' \in 0 .. IntMax
    BY <1>1, <1>3
  <2>2. num_delays' \in 0 .. DELAYS
    <3>1. p.n \in Nat
      BY <1>5 DEF HeapOf
    <3> QED
      BY <1>1, <1>3, <1>5, <3>1
  <2> QED
    BY <1>1, <1>14, <2>1, <2>2 DEF ClockTypes
<1>16. Callers'
  <2>1. \A c \in Client :
           /\ phase'[c] = IF ClockAnswers(replies, c) THEN "ready" ELSE phase[c]
           /\ ~ClockAnswers(replies, c) => msg'[c] = msg[c]
    BY <1>2, <1>10, ClockFacts
  <2>2. Callers
    BY DEF ClockInv
  <2> QED
    BY <2>1, <2>2 DEF Callers
<1>17. Ticking'
  <2>1. phase'[Notifier] = "ready"
    BY <1>10, <1>12, ClockFacts
  <2> QED
    BY <1>1, <2>1 DEF Ticking
<1>18. HeapKept'
  <2>1. ASSUME NEW fd \in Fd
        PROVE  tids'[Clock][fd] # Nobody <=> \E x \in ItemsOf(p.heap) : x.tid = fd
    <3>1. ASSUME fd \in DOMAIN replies PROVE ~\E x \in ItemsOf(p.heap) : x.tid = fd
      <4>1. CASE fd = Tid(Clock)
        BY <1>4, <1>5, <1>6, <4>1
      <4>2. CASE fd # Tid(Clock)
        <5>1. PICK y \in gone : y.tid = fd
          BY <1>5, <1>9, <3>1, <4>2
        <5> QED
          BY <1>5, <1>8, <5>1
      <4> QED
        BY <4>1, <4>2
    <3>2. ASSUME fd \notin DOMAIN replies
          PROVE  tids'[Clock][fd] # Nobody <=> \E x \in ItemsOf(p.heap) : x.tid = fd
      <4>1. tids'[Clock][fd] = tids[Clock][fd] /\ fd \notin p.woken
        BY <1>9, <1>10, <3>2
      <4>2. (\E x \in ItemsOf(delays) : x.tid = fd) <=> (\E x \in ItemsOf(p.heap) : x.tid = fd)
        BY <1>5, <4>1
      <4> QED
        BY <1>4, <4>1, <4>2
    <3>3. fd \in DOMAIN replies => tids'[Clock][fd] = Nobody
      BY <1>10
    <3> QED
      BY <3>1, <3>2, <3>3
  <2>2. /\ HeapOf(delays, num_delays)' <=> HeapOf(p.heap, p.n)
        /\ OneEach(delays)' <=> OneEach(p.heap)
        /\ ItemsOf(delays)' = ItemsOf(p.heap)
    BY <1>1 DEF HeapOf, IsHeap, OneEach, ItemsOf
  <2> QED
    BY <1>5, <2>1, <2>2 DEF HeapKept
<1>19. NoneOverdue'
  BY <1>1, <1>5 DEF NoneOverdue, ItemsOf
<1>20. TickSeen'
  <2>1. ~NotifierReady'
    BY <1>1 DEF NotifierReady
  <2>2. \A i : ~TickBehind(i)'
    BY <1>2, <1>10, <2>1 DEF TickBehind
  <2> QED
    BY <2>2 DEF TickSeen
<1>21. \A x \in ItemsOf(delays) : \A c \in Client : tids[Clock][x.tid] = c =>
          /\ phase[c] = "waiting" /\ elapsed[c] \in Int /\ msg[c].data \in Int
          /\ \/ elapsed[c] >= msg[c].data
             \/ now + msg[c].data > IntMax
             \/ elapsed[c] + x.time >= (now + msg[c].data) + 1
  <2> SUFFICES ASSUME NEW x \in ItemsOf(delays), NEW c \in Client, tids[Clock][x.tid] = c
               PROVE  /\ phase[c] = "waiting" /\ elapsed[c] \in Int /\ msg[c].data \in Int
                      /\ \/ elapsed[c] >= msg[c].data
                         \/ now + msg[c].data > IntMax
                         \/ elapsed[c] + x.time >= (now + msg[c].data) + 1
    OBVIOUS
  <2>1. phase[c] = "waiting"
    BY <1>7, ClockFacts DEF ClockInv, MsgInv, PhaseTells, Kept
  <2>2. msg[c].data \in Int
    BY <2>1, RequestsAre DEF ClockInv, Callers
  <2>3. SleptBy(x, c) /\ Coming = 1 /\ elapsed[c] \in Int
    BY <1>3 DEF ClockInv, Slept, Coming, ClockTypes
  <2> QED
    BY <2>1, <2>2, <2>3 DEF SleptBy
<1>22. Slept'
  <2> SUFFICES ASSUME NEW x \in ItemsOf(p.heap), NEW c \in Client, tids'[Clock][x.tid] = c
               PROVE  SleptBy(x, c)'
    BY <1>1 DEF Slept, ItemsOf
  <2>1. x \in ItemsOf(delays) /\ x.tid \in Fd /\ x.time \in Int
    BY <1>5, <1>7
  <2>2. x.tid \notin DOMAIN replies /\ tids[Clock][x.tid] = c
    BY <1>2, <1>10, <2>1, ClockFacts, NobodyAssumption DEF ClockInv
  <2>3. ~ClockAnswers(replies, c)
    <3> SUFFICES ASSUME ClockAnswers(replies, c) PROVE FALSE
      OBVIOUS
    <3>1. PICK y \in gone : tids[Clock][y.tid] = c
      BY <1>13
    <3>2. y.tid \in Fd /\ KeptOnce /\ c # Nobody
      BY <1>7, <3>1, ClockFacts, NobodyAssumption DEF ClockInv, MsgInv
    <3>3. y.tid = x.tid
      BY <2>1, <2>2, <3>1, <3>2, ClockFacts DEF KeptOnce
    <3> QED
      BY <1>8, <2>1, <3>1, <3>3
  <2>4. phase[c] = "waiting" /\ phase'[c] = "waiting" /\ msg'[c] = msg[c]
    BY <1>2, <1>10, <1>21, <2>1, <2>2, <2>3, ClockFacts
  <2>5. elapsed'[c] = elapsed[c]
    BY <1>14, <2>4
  <2> DEFINE e == elapsed[c]
             d == msg[c].data
             T == x.time
  <2>6. e \in Int /\ d \in Int /\ T \in Int /\ now \in Int /\ IntMax \in Int
    BY <1>3, <1>21, <2>1, <2>2
  <2>7. e >= d \/ now + d > IntMax \/ e + T >= (now + d) + 1
    BY <1>21, <2>1, <2>2
  <2>8. Coming' = 0
    BY <1>1 DEF Coming
  <2> HIDE DEF e, d, T
  <2>9. e >= d \/ (now + 1) + d > IntMax \/ e + T >= ((now + 1) + d) + 0
    BY <2>6, <2>7
  <2> QED
    BY <1>1, <2>4, <2>5, <2>8, <2>9 DEF SleptBy, e, d, T
<1>23. NotEarlyStep
  <2> SUFFICES ASSUME NEW c \in Client, InSleep(c), ~InSleep(c)',
                      now' + msg[c].data <= IntMax
               PROVE  elapsed[c] >= msg[c].data
    BY DEF NotEarlyStep
  <2>1. ClockAnswers(replies, c)
    BY <1>2, <1>10, ClockFacts DEF InSleep
  <2>2. PICK x \in gone : tids[Clock][x.tid] = c
    BY <1>13, <2>1
  <2>3. x \in ItemsOf(delays) /\ x.time <= now + 1 /\ x.time \in Int
    BY <1>5, <1>7, <2>2
  <2> DEFINE e == elapsed[c]
             d == msg[c].data
             T == x.time
  <2>4. e \in Int /\ d \in Int /\ T \in Int /\ now \in Int /\ IntMax \in Int /\ T <= now + 1
    BY <1>3, <1>21, <2>2, <2>3
  <2>5. e >= d \/ now + d > IntMax \/ e + T >= (now + d) + 1
    BY <1>21, <2>2, <2>3
  <2>6. (now + 1) + d <= IntMax
    BY <1>1
  <2> HIDE DEF e, d, T
  <2>7. e >= d
    BY <2>4, <2>5, <2>6
  <2> QED
    BY <2>7 DEF e, d
<1> QED
  BY <1>10, <1>15, <1>16, <1>17, <1>18, <1>19, <1>20, <1>22, <1>23 DEF ClockInv

LEMMA CrashKeeps ==
    ASSUME ClockInv, OutOfFds(Clock), UNCHANGED clockVars
    PROVE  ClockInv' /\ NotEarlyStep
<1>1. MsgInv'
  BY OutOfFdsKeeps DEF ClockInv
<1>2. /\ UNCHANGED <<phase, msg, status, inbox, tids>>
      /\ UNCHANGED <<now, delays, num_delays, waiting, elapsed>>
  BY DEF OutOfFds, clockVars
<1>3. ClockTypes' /\ OnlyClock' /\ Callers' /\ Ticking' /\ HeapKept' /\ NoneOverdue'
  BY <1>2 DEF ClockInv, ClockTypes, OnlyClock, Callers, Ticking, HeapKept, NoneOverdue
<1>4. TickSeen'
  BY <1>2 DEF ClockInv, TickSeen, TickBehind, NotifierReady, Asks, InSleep
<1>5. Slept'
  BY <1>2 DEF ClockInv, Slept, SleptBy, Coming, ItemsOf
<1>6. NotEarlyStep
  BY <1>2 DEF NotEarlyStep, InSleep
<1> QED
  BY <1>1, <1>3, <1>4, <1>5, <1>6 DEF ClockInv

LEMMA SendNotEarly ==
    ASSUME ClockInv, NEW t \in Task, NEW m, MsgSend(t, Clock, m)
    PROVE  NotEarlyStep
<1>1. /\ phase[t] = "ready"
      /\ \A c \in Task : c # t => phase'[c] = phase[c] /\ msg'[c] = msg[c]
  BY SendStep
<1>2. \A c \in Client : InSleep(c) => InSleep(c)'
  BY <1>1, ClockFacts DEF InSleep
<1> QED
  BY <1>2 DEF NotEarlyStep

LEMMA ClientCalls ==
    ASSUME NEW c, Msleep(c) \/ Time(c) \/ Other(c)
    PROVE  \E m \in Requests : Call(c, m)
<1>1. CASE Msleep(c)
  <2>1. PICK d \in Msecs : Call(c, [code |-> "DELAY", data |-> d])
    BY <1>1 DEF Msleep
  <2>2. [code |-> "DELAY", data |-> d] \in Requests
    BY DEF Requests, Sleep
  <2> QED
    BY <2>1, <2>2
<1>2. CASE Time(c) \/ Other(c)
  <2> DEFINE Asked == {[code |-> "DELAY", data |-> NoData],
                       [code |-> "OTHER", data |-> 0],
                       [code |-> "TIME", data |-> 0]}
  <2>1. Asked \subseteq Requests
    BY DEF Requests
  <2>2. \E m \in Asked : Call(c, m)
    BY <1>2, Zenon DEF Time, Other
  <2> QED
    BY <2>1, <2>2
<1> QED
  BY <1>1, <1>2

LEMMA NextKeepsClock ==
    ASSUME ClockInv, [Next]_vars
    PROVE  ClockInv' /\ (Next => NotEarlyStep)
<1>1. CASE Tick
  <2>1. ClockInv'
    BY <1>1, TickKeeps
  <2>2. NotEarlyStep
    BY <1>1 DEF NotEarlyStep, Tick, InSleep, msgVars
  <2> QED
    BY <2>1, <2>2
<1>2. CASE Notify
  <2>1. NotEarlyStep
    BY <1>2, SendNotEarly, ClockFacts DEF Notify
  <2> QED
    BY <1>2, <2>1, NotifyKeeps
<1>3. ASSUME NEW c \in Client, Msleep(c) \/ Time(c) \/ Other(c)
      PROVE  ClockInv' /\ NotEarlyStep
  <2>1. PICK m \in Requests : Call(c, m)
    BY <1>3, ClientCalls
  <2>2. NotEarlyStep
    BY <2>1, SendNotEarly, ClockFacts DEF Call
  <2> QED
    BY <2>1, <2>2, CallKeeps
<1>4. CASE ServerStep
  <2>1. CASE ServeNotify
    BY <2>1, ServeNotifyKeeps
  <2>2. CASE ServeDelay
    BY <2>2, ServeDelayKeeps
  <2>3. CASE ServeTime \/ ServeOther
    BY <2>3, ServeQuestionKeeps
  <2>4. CASE ~NotifierReady /\ OutOfFds(Clock) /\ UNCHANGED clockVars
    BY <2>4, CrashKeeps
  <2> QED
    BY <1>4, <2>1, <2>2, <2>3, <2>4 DEF ServerStep
<1>5. CASE UNCHANGED vars
  <2>1. UNCHANGED <<phase, msg, status, inbox, tids, crashed>> /\ UNCHANGED clockVars
    BY <1>5 DEF vars, msgVars
  <2>2. MsgInv'
    BY <2>1, MsgUnchanged DEF ClockInv, MsgInv, MsgTypeOK
  <2>3. UNCHANGED <<now, delays, num_delays, waiting, elapsed>>
    BY <2>1 DEF clockVars
  <2>4. ClockTypes' /\ OnlyClock' /\ Callers' /\ Ticking' /\ HeapKept' /\ NoneOverdue'
    BY <2>1, <2>3 DEF ClockInv, ClockTypes, OnlyClock, Callers, Ticking, HeapKept, NoneOverdue
  <2>5. TickSeen'
    BY <2>1, <2>3 DEF ClockInv, TickSeen, TickBehind, NotifierReady, Asks, InSleep
  <2>6. Slept'
    BY <2>1, <2>3 DEF ClockInv, Slept, SleptBy, Coming, ItemsOf
  <2>7. ClockInv'
    BY <2>2, <2>4, <2>5, <2>6 DEF ClockInv
  <2>8. NotEarlyStep
    BY <2>1 DEF NotEarlyStep, InSleep
  <2> QED
    BY <2>7, <2>8
<1> QED
  <2>1. Askers \subseteq Client
    BY ClockAssumption
  <2> QED
    BY <1>1, <1>2, <1>3, <1>4, <1>5, <2>1 DEF Next

LEMMA ClockInvHolds == Spec => []ClockInv
<1>1. Init => ClockInv
  BY ClockInit
<1>2. ClockInv /\ [Next]_vars => ClockInv'
  BY NextKeepsClock
<1> QED
  BY <1>1, <1>2, PTL DEF Spec

-----------------------------------------------------------------------------
(***************************************************************************)
(* The theorems.                                                           *)
(***************************************************************************)

(* The variables keep their types: the heap's elements are descriptors     *)
(* with times, and never more than there is room for (clock.c:109).        *)
THEOREM ClockTypeOK == Spec => []TypeOK
<1>1. ClockInv => TypeOK
  BY DEF ClockInv, ClockTypes, MsgInv, HeapKept, HeapOf, Item, TypeOK
<1> QED
  BY <1>1, ClockInvHolds, PTL

(* The array is a heap and holds the descriptors that the server keeps,    *)
(* each of them once, whatever was pushed and popped (clock.c:100-115).    *)
THEOREM SleepersAreInHeap == Spec => []SleepersInHeap
<1>1. ASSUME ClockInv PROVE SleepersInHeap
  <2>1. /\ IsHeap(delays, num_delays) /\ OneEach(delays)
        /\ \A fd \in Fd : tids[Clock][fd] # Nobody <=> \E x \in ItemsOf(delays) : x.tid = fd
    BY <1>1 DEF ClockInv, HeapKept, HeapOf
  <2>2. ASSUME NEW fd \in Fd
        PROVE  Cardinality({i \in DOMAIN delays : delays[i].tid = fd})
               = (IF fd \in FreeFds(Clock) THEN 0 ELSE 1)
    <3> DEFINE S == {i \in DOMAIN delays : delays[i].tid = fd}
    <3>1. \A i, j \in S : i = j
      BY <2>1 DEF OneEach
    <3>2. fd \notin FreeFds(Clock) => S # {}
      <4> SUFFICES ASSUME tids[Clock][fd] # Nobody PROVE S # {}
        BY DEF FreeFds
      <4>1. PICK x \in ItemsOf(delays) : x.tid = fd
        BY <2>1
      <4>2. PICK i \in DOMAIN delays : x = delays[i]
        BY <4>1 DEF ItemsOf
      <4> QED
        BY <4>1, <4>2
    <3>3. fd \in FreeFds(Clock) => S = {}
      BY <2>1 DEF FreeFds, ItemsOf
    <3> DEFINE b == fd \notin FreeFds(Clock)
    <3>4. b \in BOOLEAN /\ (b => S # {}) /\ (~b => S = {})
      BY <3>2, <3>3
    <3> HIDE DEF S
    <3>5. Cardinality(S) = (IF b THEN 1 ELSE 0)
      <4> HIDE DEF b
      <4> QED
        BY <3>1, <3>4, OneOrNone
    <3> QED
      BY <3>5 DEF S
  <2> QED
    BY <2>1, <2>2 DEF SleepersInHeap
<1> QED
  BY <1>1, ClockInvHolds, PTL

(* After a tick nobody is in the heap whose time has come                  *)
(* (clock.c:93-96): the root is the least, and the loop pops until it is   *)
(* not due.                                                                *)
THEOREM NobodyOverdue == Spec => []NoneOverdue
<1>1. ClockInv => NoneOverdue
  BY DEF ClockInv
<1> QED
  BY <1>1, ClockInvHolds, PTL

(* msleep returns 0 only after as many ticks as it asked for, unless the   *)
(* sum overflows (clock.c:103).                                            *)
THEOREM NobodyWakesEarly == Spec => NotEarly
<1>1. ClockInv /\ [Next]_vars => [NotEarlyStep]_vars
  BY NextKeepsClock
<1>2. Spec => [][NotEarlyStep]_vars
  BY <1>1, ClockInvHolds, PTL DEF Spec
<1> QED
  BY <1>2 DEF NotEarly, NotEarlyStep

(* A client that calls is in the inbox or kept by the server, once: no     *)
(* reply of the clock server reaches another one, whatever order it        *)
(* answers in (msg.c:58).                                                  *)
THEOREM ClockNamesOnce == Spec => []ClientsNamedOnce
<1>1. ClockInv => ClientsNamedOnce
  BY NamedOnce DEF ClockInv
<1> QED
  BY <1>1, ClockInvHolds, PTL
=============================================================================
