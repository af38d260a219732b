---------------------------- MODULE KernelProofs ----------------------------
(***************************************************************************)
(* Theorems about the kernel, for every number of tasks, descriptors,      *)
(* channels, priorities and events and whatever the user programs call.    *)
(***************************************************************************)
EXTENDS KernelSafety, FiniteSetTheorems, SequenceTheorems, TLAPS

-----------------------------------------------------------------------------
(* What the queue helpers of kern/task.c return.                           *)

(* Counting from the left: of two elements of a finite set of numbers the  *)
(* larger one has more of them up to and including itself.                 *)
LEMMA RanksDiffer ==
    ASSUME NEW m \in Nat, NEW at \in SUBSET (1 .. m),
           NEW j \in at, NEW k \in at, j # k
    PROVE  Cardinality({i \in at : i <= j}) # Cardinality({i \in at : i <= k})
<1>1. IsFiniteSet(1 .. m)
  BY FS_Interval
<1>2. IsFiniteSet(at)
  BY <1>1, FS_Subset
<1>3. \A i \in at : i \in Int
  OBVIOUS
<1>4. ASSUME NEW a \in at, NEW b \in at, a < b
      PROVE  Cardinality({i \in at : i <= a}) # Cardinality({i \in at : i <= b})
  <2> DEFINE A == {i \in at : i <= a}
             B == {i \in at : i <= b}
  <2>1. A \in SUBSET B
    <3>1. a \in Int /\ b \in Int
      BY <1>3
    <3>2. \A i \in at : i <= a => i <= b
      BY <1>3, <1>4, <3>1
    <3> QED
      BY <3>2
  <2>2. b \in B /\ b \notin A
    BY <1>3, <1>4
  <2>3. B \in SUBSET at
    OBVIOUS
  <2> HIDE DEF A, B
  <2>4. IsFiniteSet(B)
    BY <1>2, <2>3, FS_Subset
  <2>5. Cardinality(B) = Cardinality(A) => B = A
    BY <2>1, <2>4, FS_Subset
  <2>6. Cardinality(A) # Cardinality(B)
    BY <2>2, <2>5
  <2> QED
    BY <2>6 DEF A, B
<1>5. j < k \/ k < j
  BY <1>3
<1> QED
  BY <1>4, <1>5

(* ... and for every n up to their number, one has n of them.              *)
LEMMA RankedElement ==
    ASSUME NEW m \in Nat, NEW at \in SUBSET (1 .. m)
    PROVE  /\ IsFiniteSet(at) /\ Cardinality(at) \in Nat
           /\ \A n \in 1 .. Cardinality(at) :
                 \E k \in at : Cardinality({j \in at : j <= k}) = n
           /\ \A k \in at :
                 Cardinality({j \in at : j <= k}) \in 1 .. Cardinality(at)
<1> DEFINE upto(k) == {j \in at : j <= k}
           rank == [k \in at |-> Cardinality(upto(k))]
           size == Cardinality(at)
<1>0. IsFiniteSet(1 .. m)
  BY FS_Interval
<1>1. IsFiniteSet(at)
  BY <1>0, FS_Subset
<1>2. size \in Nat
  BY <1>1, FS_CardinalityType
<1>3. ASSUME NEW k \in at
      PROVE  Cardinality(upto(k)) \in 1 .. size
  <2>1. upto(k) \in SUBSET at
    OBVIOUS
  <2>2. k \in upto(k)
    OBVIOUS
  <2> HIDE DEF upto
  <2>3. IsFiniteSet(upto(k)) /\ Cardinality(upto(k)) <= size
    BY <1>1, <2>1, FS_Subset
  <2>4. Cardinality(upto(k)) # 0
    BY <2>2, <2>3, FS_EmptySet
  <2>5. Cardinality(upto(k)) \in Nat
    BY <2>3, FS_CardinalityType
  <2> HIDE DEF size
  <2> QED
    BY <1>2, <2>3, <2>4, <2>5
<1>4. rank \in [at -> 1 .. size]
  BY <1>3
<1>5. \A j, k \in at : rank[j] = rank[k] => j = k
  BY RanksDiffer
<1>6. rank \in Injection(at, 1 .. size)
  BY <1>4, <1>5 DEF Injection, IsInjective
<1>7. IsFiniteSet(1 .. size)
  BY <1>2, FS_Interval
<1>8. Cardinality(1 .. size) = size
  <2> HIDE DEF size
  <2>1. Cardinality(1 .. size) = IF 1 > size THEN 0 ELSE size - 1 + 1
    BY <1>2, FS_Interval
  <2> QED
    BY <1>2, <2>1
<1>9. rank \in Surjection(at, 1 .. size)
  <2> HIDE DEF rank
  <2>1. Cardinality(at) = Cardinality(1 .. size)
    BY <1>8
  <2> QED
    BY <1>6, <1>7, <2>1, FS_Injection
<1>10. \A n \in 1 .. size : \E k \in at : rank[k] = n
  BY <1>9 DEF Surjection
<1> QED
  BY <1>1, <1>2, <1>3, <1>10

(* Keep(s, S) is a sequence of elements of s, and exactly of those in S.   *)
LEMMA KeepProperties ==
    ASSUME NEW T, NEW s \in Seq(T), NEW S
    PROVE  /\ Keep(s, S) \in Seq(T)
           /\ Range(Keep(s, S)) = Range(s) \cap S
<1> DEFINE at == {k \in DOMAIN s : s[k] \in S}
           upto(k) == Cardinality({j \in at : j <= k})
           pick(n) == CHOOSE k \in at : upto(k) = n
           size == Cardinality(at)
<1>1. at \in SUBSET (1 .. Len(s)) /\ Len(s) \in Nat
  BY LenProperties
<1>2. \A k \in at : s[k] \in T /\ s[k] \in Range(s) \cap S
  BY <1>1, ElementOfSeq DEF Range
<1>3. \A x \in Range(s) \cap S : \E k \in at : s[k] = x
  BY DEF Range
<1>4. Keep(s, S) = [n \in 1 .. size |-> s[pick(n)]]
  BY DEF Keep
<1> HIDE DEF at
<1>5. size \in Nat
  BY <1>1, RankedElement
<1>6. \A n \in 1 .. size : \E k \in at : upto(k) = n
  BY <1>1, RankedElement
<1>7. \A k \in at : upto(k) \in 1 .. size
  BY <1>1, RankedElement
<1>8. \A j, k \in at : upto(j) = upto(k) => j = k
  BY <1>1, RanksDiffer
<1> HIDE DEF size, upto
<1>9. \A n \in 1 .. size : pick(n) \in at /\ upto(pick(n)) = n
  BY <1>6
<1>10. \A k \in at : pick(upto(k)) = k
  BY <1>7, <1>8, <1>9
<1> HIDE DEF pick
<1>11. \A n \in 1 .. size : s[pick(n)] \in T
  BY <1>2, <1>9
<1>12. Keep(s, S) \in Seq(T)
  BY <1>4, <1>5, <1>11, IsASeq
<1>13. Range(Keep(s, S)) \subseteq Range(s) \cap S
  BY <1>2, <1>4, <1>9 DEF Range
<1>14. Range(s) \cap S \subseteq Range(Keep(s, S))
  BY <1>3, <1>4, <1>7, <1>10 DEF Range
<1> QED
  BY <1>12, <1>13, <1>14

(* A sequence without elements is the empty one. *)
LEMMA EmptyRange ==
    ASSUME NEW T, NEW s \in Seq(T)
    PROVE  Range(s) = {} <=> s = <<>>
<1>1. DOMAIN s = 1 .. Len(s) /\ Len(s) \in Nat
  BY LenProperties
<1>2. CASE s = <<>>
  BY <1>2 DEF Range
<1>3. CASE s # <<>>
  <2>1. 1 \in DOMAIN s
    BY <1>1, <1>3, EmptySeq
  <2>2. s[1] \in Range(s)
    BY <2>1 DEF Range
  <2> QED
    BY <1>3, <2>2
<1> QED
  BY <1>2, <1>3

(* Nothing is kept of an empty queue, and nothing of one without S.        *)
LEMMA WithoutProperties ==
    ASSUME NEW T, NEW s \in Seq(T), NEW S
    PROVE  /\ Without(s, S) \in Seq(T)
           /\ Range(Without(s, S)) = Range(s) \ S
<1>1. CASE Range(s) \cap S = {}
  BY <1>1 DEF Without
<1>2. CASE Range(s) \cap S # {}
  <2>1. Without(s, S) = Keep(s, Range(s) \ S)
    BY <1>2 DEF Without
  <2> QED
    BY <2>1, KeepProperties
<1> QED
  BY <1>1, <1>2

(* The elements of a concatenation. *)
LEMMA RangeConcat ==
    ASSUME NEW T, NEW s \in Seq(T), NEW t \in Seq(T)
    PROVE  Range(s \o t) = Range(s) \cup Range(t)
<1>1. /\ s \o t \in Seq(T) /\ Len(s \o t) = Len(s) + Len(t)
      /\ \A i \in 1 .. Len(s) + Len(t) :
            (s \o t)[i] = IF i <= Len(s) THEN s[i] ELSE t[i - Len(s)]
  BY ConcatProperties
<1>2. /\ DOMAIN s = 1 .. Len(s) /\ Len(s) \in Nat
      /\ DOMAIN t = 1 .. Len(t) /\ Len(t) \in Nat
      /\ DOMAIN (s \o t) = 1 .. Len(s) + Len(t)
  BY <1>1, LenProperties
<1>3. ASSUME NEW x \in Range(s \o t) PROVE x \in Range(s) \cup Range(t)
  <2>1. PICK i \in 1 .. Len(s) + Len(t) : x = (s \o t)[i]
    BY <1>2 DEF Range
  <2>2. CASE i <= Len(s)
    BY <1>1, <1>2, <2>1, <2>2 DEF Range
  <2>3. CASE ~(i <= Len(s))
    <3>1. i - Len(s) \in DOMAIN t /\ x = t[i - Len(s)]
      BY <1>1, <1>2, <2>1, <2>3
    <3> QED
      BY <3>1 DEF Range
  <2> QED
    BY <2>2, <2>3
<1>4. ASSUME NEW x \in Range(s) PROVE x \in Range(s \o t)
  <2>1. PICK i \in 1 .. Len(s) : x = s[i]
    BY <1>2 DEF Range
  <2>2. i \in 1 .. Len(s) + Len(t) /\ (s \o t)[i] = x
    BY <1>1, <1>2, <2>1
  <2> QED
    BY <1>2, <2>2 DEF Range
<1>5. ASSUME NEW x \in Range(t) PROVE x \in Range(s \o t)
  <2>1. PICK i \in 1 .. Len(t) : x = t[i]
    BY <1>2 DEF Range
  <2>2. i + Len(s) \in 1 .. Len(s) + Len(t) /\ (s \o t)[i + Len(s)] = x
    BY <1>1, <1>2, <2>1
  <2> QED
    BY <1>2, <2>2 DEF Range
<1> QED
  BY <1>3, <1>4, <1>5

(* task_move keeps queues queues; a queue ends with what was on it and did *)
(* not move, and what moved to it.                                         *)
LEMMA RequeueProperties ==
    ASSUME NEW T, NEW Q, NEW qs \in [Q -> Seq(T)],
           NEW ts \in Seq(T), NEW dest
    PROVE  /\ Requeue(qs, ts, dest) \in [Q -> Seq(T)]
           /\ \A q \in Q : Range(Requeue(qs, ts, dest)[q]) =
                 (Range(qs[q]) \ Range(ts))
                 \cup {i \in Range(ts) : dest[i] = q}
<1> DEFINE stay(q) == Without(qs[q], Range(ts))
           come(q) == Keep(ts, {i \in Range(ts) : dest[i] = q})
<1>1. Requeue(qs, ts, dest) = [q \in Q |-> stay(q) \o come(q)]
  BY DEF Requeue
<1>2. ASSUME NEW q \in Q
      PROVE  /\ stay(q) \in Seq(T) /\ Range(stay(q)) = Range(qs[q]) \ Range(ts)
             /\ come(q) \in Seq(T)
             /\ Range(come(q)) = {i \in Range(ts) : dest[i] = q}
  <2>1. qs[q] \in Seq(T)
    OBVIOUS
  <2>2. /\ come(q) \in Seq(T)
        /\ Range(come(q)) = Range(ts) \cap {i \in Range(ts) : dest[i] = q}
    BY KeepProperties
  <2> QED
    BY <2>1, <2>2, WithoutProperties
<1> HIDE DEF stay, come
<1>3. \A q \in Q : stay(q) \o come(q) \in Seq(T)
  BY <1>2, ConcatProperties
<1>4. \A q \in Q : Range(stay(q) \o come(q)) = Range(stay(q)) \cup Range(come(q))
  BY <1>2, RangeConcat
<1> QED
  BY <1>1, <1>2, <1>3, <1>4

-----------------------------------------------------------------------------
(* Queues on which nothing is twice, and the order of what is on them.     *)

(* What is kept was there once, so it is kept once. *)
LEMMA KeepInjective ==
    ASSUME NEW T, NEW s \in Seq(T), IsInjective(s), NEW S
    PROVE  IsInjective(Keep(s, S))
<1> DEFINE at == {k \in DOMAIN s : s[k] \in S}
           upto(k) == Cardinality({j \in at : j <= k})
           pick(n) == CHOOSE k \in at : upto(k) = n
           size == Cardinality(at)
<1>1. at \in SUBSET (1 .. Len(s)) /\ Len(s) \in Nat /\ at \subseteq DOMAIN s
  BY LenProperties
<1>2. Keep(s, S) = [n \in 1 .. size |-> s[pick(n)]]
  BY DEF Keep
<1>3. \A j, k \in at : s[j] = s[k] => j = k
  BY <1>1 DEF IsInjective
<1> HIDE DEF at
<1>4. \A n \in 1 .. size : \E k \in at : upto(k) = n
  BY <1>1, RankedElement
<1> HIDE DEF size, upto
<1>5. \A n \in 1 .. size : pick(n) \in at /\ upto(pick(n)) = n
  BY <1>4
<1> HIDE DEF pick
<1>6. \A m, n \in 1 .. size : s[pick(m)] = s[pick(n)] => m = n
  BY <1>3, <1>5
<1> QED
  BY <1>2, <1>6 DEF IsInjective

LEMMA WithoutInjective ==
    ASSUME NEW T, NEW s \in Seq(T), IsInjective(s), NEW S
    PROVE  IsInjective(Without(s, S))
BY KeepInjective DEF Without

(* Two queues with nothing in common, one after the other. *)
LEMMA ConcatInjective ==
    ASSUME NEW T, NEW s \in Seq(T), NEW t \in Seq(T),
           IsInjective(s), IsInjective(t), Range(s) \cap Range(t) = {}
    PROVE  IsInjective(s \o t)
<1>1. /\ s \o t \in Seq(T) /\ Len(s \o t) = Len(s) + Len(t)
      /\ \A i \in 1 .. Len(s) + Len(t) :
            (s \o t)[i] = IF i <= Len(s) THEN s[i] ELSE t[i - Len(s)]
  BY ConcatProperties
<1>2. /\ DOMAIN s = 1 .. Len(s) /\ Len(s) \in Nat
      /\ DOMAIN t = 1 .. Len(t) /\ Len(t) \in Nat
      /\ DOMAIN (s \o t) = 1 .. Len(s) + Len(t)
  BY <1>1, LenProperties
<1>3. \A i \in 1 .. Len(s), j \in 1 .. Len(t) : s[i] # t[j]
  BY <1>2 DEF Range
<1>4. ASSUME NEW i \in 1 .. Len(s) + Len(t), NEW j \in 1 .. Len(s) + Len(t),
             (s \o t)[i] = (s \o t)[j]
      PROVE  i = j
  <2>1. CASE i <= Len(s) /\ j <= Len(s)
    BY <1>1, <1>2, <1>4, <2>1 DEF IsInjective
  <2>2. CASE ~(i <= Len(s)) /\ ~(j <= Len(s))
    <3>1. /\ i - Len(s) \in 1 .. Len(t) /\ j - Len(s) \in 1 .. Len(t)
          /\ t[i - Len(s)] = t[j - Len(s)]
      BY <1>1, <1>2, <1>4, <2>2
    <3>2. i - Len(s) = j - Len(s)
      BY <1>2, <3>1 DEF IsInjective
    <3> QED
      BY <1>2, <3>2
  <2>3. CASE i <= Len(s) /\ ~(j <= Len(s))
    <3>1. j - Len(s) \in 1 .. Len(t) /\ i \in 1 .. Len(s) /\ s[i] = t[j - Len(s)]
      BY <1>1, <1>2, <1>4, <2>3
    <3> QED
      BY <1>3, <3>1
  <2>4. CASE ~(i <= Len(s)) /\ j <= Len(s)
    <3>1. i - Len(s) \in 1 .. Len(t) /\ j \in 1 .. Len(s) /\ s[j] = t[i - Len(s)]
      BY <1>1, <1>2, <1>4, <2>4
    <3> QED
      BY <1>3, <3>1
  <2> QED
    BY <2>1, <2>2, <2>3, <2>4
<1> QED
  BY <1>2, <1>4 DEF IsInjective

LEMMA OneElement ==
    ASSUME NEW T, NEW x \in T
    PROVE  /\ <<x>> \in Seq(T) /\ Range(<<x>>) = {x} /\ IsInjective(<<x>>)
           /\ <<>> \in Seq(T) /\ Range(<<>>) = {} /\ IsInjective(<<>>)
<1>1. DOMAIN <<x>> = {1} /\ <<x>>[1] = x /\ DOMAIN <<>> = {}
  OBVIOUS
<1> QED
  BY <1>1 DEF Range, IsInjective

LEMMA AppendInjects ==
    ASSUME NEW T, NEW s \in Seq(T), IsInjective(s), NEW x \in T, x \notin Range(s)
    PROVE  /\ Append(s, x) \in Seq(T) /\ Range(Append(s, x)) = Range(s) \cup {x}
           /\ IsInjective(Append(s, x))
<1>1. Append(s, x) = s \o <<x>>
  BY AppendIsConcat
<1>2. <<x>> \in Seq(T) /\ Range(<<x>>) = {x} /\ IsInjective(<<x>>)
  BY OneElement
<1> QED
  BY <1>1, <1>2, ConcatInjective, RangeConcat, ConcatProperties

(* The first element, and what follows it. *)
LEMMA TailInjective ==
    ASSUME NEW T, NEW s \in Seq(T), s # <<>>, IsInjective(s)
    PROVE  /\ Tail(s) \in Seq(T) /\ IsInjective(Tail(s))
           /\ Head(s) \in Range(s)
           /\ Range(Tail(s)) = Range(s) \ {Head(s)}
<1>1. /\ DOMAIN s = 1 .. Len(s) /\ Len(s) \in Nat /\ Len(s) # 0
  BY LenProperties, EmptySeq
<1>2. /\ Tail(s) \in Seq(T) /\ Len(Tail(s)) = Len(s) - 1
      /\ \A i \in 1 .. Len(Tail(s)) : Tail(s)[i] = s[i + 1]
  BY HeadTailProperties
<1>3. DOMAIN Tail(s) = 1 .. (Len(s) - 1) /\ Head(s) = s[1] /\ 1 \in DOMAIN s
  BY <1>1, <1>2, LenProperties
<1>4. \A i, j \in DOMAIN s : s[i] = s[j] => i = j
  BY DEF IsInjective
<1>5. \A i \in DOMAIN Tail(s) : i + 1 \in DOMAIN s /\ i + 1 # 1 /\ Tail(s)[i] = s[i + 1]
  BY <1>1, <1>2, <1>3
<1>6. \A i \in DOMAIN s : i # 1 => i - 1 \in DOMAIN Tail(s) /\ Tail(s)[i - 1] = s[i]
  <2> SUFFICES ASSUME NEW i \in DOMAIN s, i # 1
               PROVE  i - 1 \in DOMAIN Tail(s) /\ Tail(s)[i - 1] = s[i]
    OBVIOUS
  <2>1. i - 1 \in 1 .. (Len(s) - 1) /\ i - 1 + 1 = i
    BY <1>1
  <2>2. Tail(s)[i - 1] = s[i - 1 + 1]
    BY <1>2, <2>1
  <2> QED
    BY <1>3, <2>1, <2>2
<1>7. IsInjective(Tail(s))
  <2> SUFFICES ASSUME NEW i \in DOMAIN Tail(s), NEW j \in DOMAIN Tail(s),
                      Tail(s)[i] = Tail(s)[j]
               PROVE  i = j
    BY DEF IsInjective
  <2>1. i + 1 = j + 1
    BY <1>4, <1>5
  <2> QED
    BY <1>1, <1>3, <2>1
<1>8. Range(Tail(s)) = Range(s) \ {Head(s)}
  BY <1>3, <1>4, <1>5, <1>6 DEF Range
<1> QED
  BY <1>2, <1>3, <1>7, <1>8 DEF Range

(* task_move keeps every task on at most one place of every queue. *)
LEMMA RequeueInjective ==
    ASSUME NEW T, NEW Q, NEW qs \in [Q -> Seq(T)],
           NEW ts \in Seq(T), IsInjective(ts), NEW dest,
           \A q \in Q : IsInjective(qs[q])
    PROVE  \A q \in Q : IsInjective(Requeue(qs, ts, dest)[q])
<1> SUFFICES ASSUME NEW q \in Q
             PROVE  IsInjective(Requeue(qs, ts, dest)[q])
  OBVIOUS
<1> DEFINE stay == Without(qs[q], Range(ts))
           come == Keep(ts, {i \in Range(ts) : dest[i] = q})
<1>1. Requeue(qs, ts, dest)[q] = stay \o come
  BY DEF Requeue
<1>2. stay \in Seq(T) /\ Range(stay) = Range(qs[q]) \ Range(ts) /\ IsInjective(stay)
  BY WithoutProperties, WithoutInjective
<1>3. come \in Seq(T) /\ Range(come) \subseteq Range(ts) /\ IsInjective(come)
  BY KeepProperties, KeepInjective
<1> HIDE DEF stay, come
<1>4. Range(stay) \cap Range(come) = {}
  BY <1>2, <1>3
<1> QED
  BY <1>1, <1>2, <1>3, <1>4, ConcatInjective

(* When only the first element leaves, the tail stays. *)
LEMMA WithoutHead ==
    ASSUME NEW T, NEW s \in Seq(T), s # <<>>, IsInjective(s), NEW S,
           Range(s) \cap S = {Head(s)}
    PROVE  Without(s, S) = Tail(s)
<1> DEFINE size == Len(s)
           at == {k \in DOMAIN s : s[k] \in Range(s) \ S}
           upto(k) == Cardinality({j \in at : j <= k})
           pick(n) == CHOOSE k \in at : upto(k) = n
<1>1. DOMAIN s = 1 .. size /\ size \in Nat /\ size # 0 /\ Head(s) = s[1]
  BY LenProperties, EmptySeq
<1>2. Without(s, S) = [n \in 1 .. Cardinality(at) |-> s[pick(n)]]
  <2>1. Without(s, S) = Keep(s, Range(s) \ S)
    BY DEF Without
  <2> QED
    BY <2>1 DEF Keep
<1>3. at = 2 .. size
  <2>1. \A k \in DOMAIN s : s[k] \in Range(s)
    BY DEF Range
  <2>2. \A k \in DOMAIN s : s[k] \in S <=> k = 1
    BY <1>1, <2>1 DEF IsInjective
  <2>3. \A k \in DOMAIN s : k \in at <=> k # 1
    BY <2>1, <2>2
  <2>4. at \subseteq DOMAIN s
    OBVIOUS
  <2> HIDE DEF at, size
  <2>5. \A k : k \in at <=> k \in 2 .. size
    BY <1>1, <2>3, <2>4
  <2> QED
    BY <2>5
<1> HIDE DEF at, size
<1>4. Cardinality(at) = size - 1
  BY <1>1, <1>3, FS_Interval
<1>5. ASSUME NEW n \in 1 .. (size - 1)
      PROVE  n + 1 \in at /\ upto(n + 1) = n
  <2>1. n \in Nat /\ n + 1 \in Int /\ n + 1 \in at /\ ~(2 > n + 1)
    BY <1>1, <1>3
  <2>2. {j \in at : j <= n + 1} = 2 .. (n + 1)
    BY <1>1, <1>3, <2>1
  <2>3. Cardinality(2 .. (n + 1)) = (n + 1) - 2 + 1
    BY <2>1, FS_Interval
  <2>4. upto(n + 1) = (n + 1) - 2 + 1
    BY <2>2, <2>3
  <2> HIDE DEF upto
  <2> QED
    BY <2>1, <2>4
<1>6. \A j, k \in at : upto(j) = upto(k) => j = k
  <2>1. at \in SUBSET (1 .. size)
    BY <1>1, <1>3
  <2> QED
    BY <1>1, <2>1, RanksDiffer
<1> HIDE DEF upto
<1>7. \A n \in 1 .. (size - 1) : pick(n) = n + 1
  BY <1>5, <1>6
<1> HIDE DEF pick
<1>8. /\ Tail(s) \in Seq(T) /\ Len(Tail(s)) = size - 1
      /\ \A n \in 1 .. (size - 1) : Tail(s)[n] = s[n + 1]
  BY HeadTailProperties DEF size
<1>9. /\ Without(s, S) \in Seq(T) /\ DOMAIN Without(s, S) = 1 .. (size - 1)
      /\ \A n \in 1 .. (size - 1) : Without(s, S)[n] = s[n + 1]
  <2>1. Without(s, S) \in Seq(T)
    BY WithoutProperties
  <2>2. Without(s, S) = [n \in 1 .. (size - 1) |-> s[pick(n)]]
    BY <1>2, <1>4
  <2> QED
    BY <1>7, <2>1, <2>2
<1>10. Len(Without(s, S)) = size - 1
  BY <1>1, <1>9, LenProperties
<1> QED
  BY <1>8, <1>9, <1>10, SeqEqual

LEMMA KeepNone ==
    ASSUME NEW T, NEW s \in Seq(T), NEW S, Range(s) \cap S = {}
    PROVE  Keep(s, S) = <<>>
BY KeepProperties, EmptyRange

LEMMA KeepOne ==
    ASSUME NEW T, NEW x \in T, NEW S, x \in S
    PROVE  Keep(<<x>>, S) = <<x>>
<1> DEFINE at == {k \in DOMAIN <<x>> : <<x>>[k] \in S}
           upto(k) == Cardinality({j \in at : j <= k})
<1>1. at = {1}
  OBVIOUS
<1>2. {j \in at : j <= 1} = {1} /\ Cardinality({1}) = 1
  BY <1>1, FS_Singleton
<1>3. Keep(<<x>>, S) = [n \in 1 .. 1 |-> <<x>>[CHOOSE k \in at : upto(k) = n]]
  BY <1>1, <1>2 DEF Keep
<1>4. (CHOOSE k \in at : upto(k) = 1) = 1
  BY <1>1, <1>2
<1> HIDE DEF at, upto
<1>5. Keep(<<x>>, S)[1] = x /\ DOMAIN Keep(<<x>>, S) = 1 .. 1
  <2>1. 1 \in 1 .. 1 /\ <<x>>[1] = x
    OBVIOUS
  <2> DEFINE place(n) == CHOOSE k \in at : upto(k) = n
  <2>2. Keep(<<x>>, S) = [n \in 1 .. 1 |-> <<x>>[place(n)]] /\ place(1) = 1
    BY <1>3, <1>4
  <2> HIDE DEF place
  <2> QED
    BY <2>1, <2>2
<1>6. Keep(<<x>>, S) \in Seq(T) /\ <<x>> \in Seq(T) /\ Len(<<x>>) = 1
  <2>1. <<x>> \in Seq(T)
    BY OneElement
  <2> QED
    BY <2>1, KeepProperties
<1>7. Len(Keep(<<x>>, S)) = 1
  BY <1>5, <1>6, LenProperties
<1> QED
  BY <1>5, <1>6, <1>7, SeqEqual

(* What a queue is after task_move: unless a task of it moves, or one      *)
(* moves to it, the same.                                                  *)
LEMMA RequeueElsewhere ==
    ASSUME NEW T, NEW Q, NEW qs \in [Q -> Seq(T)],
           NEW ts \in Seq(T), NEW dest, NEW q \in Q,
           \A i \in Range(ts) : dest[i] # q
    PROVE  /\ Requeue(qs, ts, dest)[q] = Without(qs[q], Range(ts))
           /\ Range(qs[q]) \cap Range(ts) = {} =>
                 Requeue(qs, ts, dest)[q] = qs[q]
<1>1. {i \in Range(ts) : dest[i] = q} = {}
  OBVIOUS
<1>2. Keep(ts, {i \in Range(ts) : dest[i] = q}) = <<>>
  BY <1>1, KeepNone
<1>3. Without(qs[q], Range(ts)) \in Seq(T)
  BY WithoutProperties
<1>4. Requeue(qs, ts, dest)[q] = Without(qs[q], Range(ts)) \o <<>>
  BY <1>2 DEF Requeue
<1>5. Requeue(qs, ts, dest)[q] = Without(qs[q], Range(ts))
  BY <1>3, <1>4, ConcatEmptySeq
<1> QED
  BY <1>5 DEF Without

LEMMA RequeueJoins ==
    ASSUME NEW T, NEW Q, NEW qs \in [Q -> Seq(T)], NEW t \in T, NEW dest,
           NEW q \in Q, dest[t] = q, t \notin Range(qs[q])
    PROVE  Requeue(qs, <<t>>, dest)[q] = Append(qs[q], t)
<1>1. <<t>> \in Seq(T) /\ Range(<<t>>) = {t}
  BY OneElement
<1>2. Keep(<<t>>, {i \in Range(<<t>>) : dest[i] = q}) = <<t>>
  BY <1>1, KeepOne
<1>3. Without(qs[q], Range(<<t>>)) = qs[q]
  BY <1>1 DEF Without
<1>4. Requeue(qs, <<t>>, dest)[q] = qs[q] \o <<t>>
  BY <1>2, <1>3 DEF Requeue
<1> QED
  BY <1>4, AppendIsConcat

(* A part of a sequence. *)
LEMMA PartOfSeq ==
    ASSUME NEW T, NEW s \in Seq(T), NEW m \in 1 .. (Len(s) + 1), NEW n \in 0 .. Len(s)
    PROVE  /\ SubSeq(s, m, n) \in Seq(T)
           /\ Range(SubSeq(s, m, n)) = {s[k] : k \in m .. n}
           /\ IsInjective(s) => IsInjective(SubSeq(s, m, n))
<1> DEFINE x == SubSeq(s, m, n)
           l == IF m <= n THEN n - m + 1 ELSE 0
<1>1. Len(s) \in Nat /\ DOMAIN s = 1 .. Len(s) /\ m \in Int /\ n \in Int
  BY LenProperties
<1>2. \A k \in m .. n : k \in DOMAIN s /\ s[k] \in T
  BY <1>1, ElementOfSeq
<1>3. x \in Seq(T) /\ Len(x) = l /\ \A k \in 1 .. (n - m + 1) : x[k] = s[m + k - 1]
  BY <1>1, <1>2, SubSeqProperties
<1>4. DOMAIN x = 1 .. l
  BY <1>3, LenProperties
<1> HIDE DEF x
<1>5. l \in Nat /\ \A k \in 1 .. l : m + k - 1 \in m .. n /\ x[k] = s[m + k - 1]
  <2>1. \A k \in 1 .. l : k \in 1 .. (n - m + 1) /\ m + k - 1 \in m .. n
    BY <1>1
  <2> QED
    BY <1>1, <1>3, <2>1
<1>6. \A k \in m .. n : k - m + 1 \in 1 .. l /\ m + (k - m + 1) - 1 = k
  BY <1>1
<1> HIDE DEF l
<1>7. Range(x) \subseteq {s[k] : k \in m .. n}
  BY <1>4, <1>5 DEF Range
<1>8. ASSUME NEW k \in m .. n PROVE s[k] \in Range(x)
  <2> DEFINE j == k - m + 1
  <2>1. j \in 1 .. l /\ m + j - 1 = k
    BY <1>6
  <2> HIDE DEF j
  <2>2. x[j] = s[k]
    BY <1>5, <2>1
  <2> QED
    BY <1>4, <2>1, <2>2 DEF Range
<1>9. IsInjective(s) => IsInjective(x)
  <2> SUFFICES ASSUME IsInjective(s), NEW j \in 1 .. l, NEW k \in 1 .. l, x[j] = x[k]
               PROVE  j = k
    BY <1>4 DEF IsInjective
  <2>1. s[m + j - 1] = s[m + k - 1] /\ m + j - 1 \in DOMAIN s /\ m + k - 1 \in DOMAIN s
    BY <1>2, <1>5
  <2>2. m + j - 1 = m + k - 1
    BY <2>1 DEF IsInjective
  <2> QED
    BY <1>1, <1>5, <2>2
<1> QED
  BY <1>3, <1>7, <1>8, <1>9 DEF x

(* What is before and after a place in a queue where nothing is twice. *)
LEMMA SplitQueue ==
    ASSUME NEW T, NEW s \in Seq(T), IsInjective(s), NEW h \in DOMAIN s
    PROVE  LET before == SubSeq(s, 1, h - 1)
               after  == SubSeq(s, h + 1, Len(s))
           IN  /\ before \in Seq(T) /\ after \in Seq(T) /\ s[h] \in T
               /\ IsInjective(before) /\ IsInjective(after)
               /\ Range(s) = Range(before) \cup Range(after) \cup {s[h]}
               /\ Range(before) \cap Range(after) = {}
               /\ s[h] \notin Range(before) /\ s[h] \notin Range(after)
<1>1. Len(s) \in Nat /\ DOMAIN s = 1 .. Len(s) /\ s[h] \in T
  BY LenProperties, ElementOfSeq
<1>2. /\ h - 1 \in 0 .. Len(s) /\ 1 \in 1 .. (Len(s) + 1)
      /\ h + 1 \in 1 .. (Len(s) + 1) /\ Len(s) \in 0 .. Len(s)
  BY <1>1
<1>3. /\ SubSeq(s, 1, h - 1) \in Seq(T) /\ IsInjective(SubSeq(s, 1, h - 1))
      /\ Range(SubSeq(s, 1, h - 1)) = {s[k] : k \in 1 .. (h - 1)}
  BY <1>2, PartOfSeq
<1>4. /\ SubSeq(s, h + 1, Len(s)) \in Seq(T) /\ IsInjective(SubSeq(s, h + 1, Len(s)))
      /\ Range(SubSeq(s, h + 1, Len(s))) = {s[k] : k \in (h + 1) .. Len(s)}
  BY <1>2, PartOfSeq
<1>5. DOMAIN s = (1 .. (h - 1)) \cup ((h + 1) .. Len(s)) \cup {h}
  BY <1>1
<1>6. \A j, k \in DOMAIN s : s[j] = s[k] => j = k
  BY DEF IsInjective
<1>7. \A j \in 1 .. (h - 1), k \in (h + 1) .. Len(s) : j # k /\ j # h /\ k # h
  BY <1>1
<1>8. (1 .. (h-1)) \subseteq DOMAIN s /\ ((h+1) .. Len(s)) \subseteq DOMAIN s
  BY <1>5
<1>9. h \notin 1 .. (h - 1) /\ h \notin (h + 1) .. Len(s)
  BY <1>1
<1>10. Range(s) = {s[k] : k \in 1 .. (h - 1)} \cup {s[k] : k \in (h + 1) .. Len(s)}
                     \cup {s[h]}
  BY <1>5 DEF Range
<1> DEFINE A == 1 .. (h - 1)
           B == (h + 1) .. Len(s)
<1> HIDE DEF A, B
<1>11. {s[k] : k \in A} \cap {s[k] : k \in B} = {}
  BY <1>6, <1>7, <1>8 DEF A, B
<1>12. s[h] \notin {s[k] : k \in A} /\ s[h] \notin {s[k] : k \in B}
  BY <1>6, <1>8, <1>9 DEF A, B
<1> QED
  BY <1>1, <1>3, <1>4, <1>10, <1>11, <1>12 DEF A, B

-----------------------------------------------------------------------------
(* Numbers and finite sets.                                                *)

(* A non-empty set of numbers between 0 and m has a least element. *)
LEMMA LeastElement ==
    ASSUME NEW m \in Nat, NEW S \in SUBSET (0 .. m), S # {}
    PROVE  \E k \in S : \A j \in S : k <= j
<1> DEFINE at == {k + 1 : k \in S}
<1>1. at \in SUBSET (1 .. (m + 1)) /\ m + 1 \in Nat
  OBVIOUS
<1>2. at # {}
  OBVIOUS
<1> HIDE DEF at
<1>3. IsFiniteSet(at) /\ Cardinality(at) \in Nat
  BY <1>1, RankedElement
<1>4. Cardinality(at) # 0
  BY <1>2, <1>3, FS_EmptySet
<1>5. PICK k \in at : Cardinality({j \in at : j <= k}) = 1
  <2>1. 1 \in 1 .. Cardinality(at)
    BY <1>3, <1>4
  <2> QED
    BY <1>1, <2>1, RankedElement
<1> DEFINE upto == {j \in at : j <= k}
<1>6. upto \in SUBSET at /\ k \in upto
  BY <1>1
<1>7. \A j \in at : j \notin upto => k <= j
  BY <1>1
<1>8. Cardinality(upto) = 1
  BY <1>5
<1> HIDE DEF upto
<1>9. PICK x : upto = {x}
  <2>1. IsFiniteSet(upto)
    BY <1>3, <1>6, FS_Subset
  <2> QED
    BY <1>8, <2>1, FS_Singleton
<1>10. \A j \in at : k <= j
  BY <1>1, <1>6, <1>7, <1>9
<1>11. k - 1 \in S /\ \A j \in S : k - 1 <= j
  BY <1>10 DEF at
<1> QED
  BY <1>11

(* Counting descriptors gives a number. *)
LEMMA FdFinite == \A F \in SUBSET Fd : IsFiniteSet(F) /\ Cardinality(F) \in Nat
<1>1. IsFiniteSet(0 .. (MaxFds - 1))
  BY MaxFdsAssumption, FS_Interval
<1> QED
  BY <1>1, FS_Subset, FS_CardinalityType DEF Fd

LEMMA ClosedOnType ==
    ASSUME NEW tb, NEW F \in SUBSET Fd, NEW c
    PROVE  ClosedOn(tb, F, c) \in Nat
<1>1. {fd \in F : tb.cd[fd].channel = c} \in SUBSET Fd
  OBVIOUS
<1> QED
  BY <1>1, FdFinite DEF ClosedOn

LEMMA EventsFinite ==
    \A E \in SUBSET PollEvent : IsFiniteSet(E) /\ Cardinality(E) \in Nat
<1>1. IsFiniteSet({"RECV"})
  BY FS_Singleton
<1>2. IsFiniteSet({"RECV"} \cup {"SEND"})
  BY <1>1, FS_AddElement
<1>3. PollEvent = {"RECV"} \cup {"SEND"}
  BY DEF PollEvent
<1> QED
  BY <1>2, <1>3, FS_Subset, FS_CardinalityType

LEMMA ErrnoType ==
    {EINVAL, ENOMEM, EMFILE, EBADF, ESRCH, EWOULDBLOCK, EFAULT} \subseteq Int
BY DEF EINVAL, ENOMEM, EMFILE, EBADF, ESRCH, EWOULDBLOCK, EFAULT

-----------------------------------------------------------------------------
(* Descriptor tables.                                                      *)

LEMMA TableParts ==
    ASSUME NEW tb \in Table
    PROVE  /\ tb = [cd |-> tb.cd, free_cd_head |-> tb.free_cd_head,
                    next_free_cd |-> tb.next_free_cd]
           /\ tb.cd \in [Fd -> Desc]
           /\ tb.free_cd_head \in Fd \cup {-1}
           /\ tb.next_free_cd \in 0 .. MaxFds
BY DEF Table

LEMMA DescParts ==
    ASSUME NEW d \in Desc
    PROVE  /\ d.channel \in Channel \cup {NoChannel} /\ d.flags \in SUBSET Flag
           /\ d.task \in Task \cup {NoTask} /\ d.next_free_cd \in Fd \cup {-1}
           /\ \A c \in Channel \cup {NoChannel} : [d EXCEPT !.channel = c] \in Desc
           /\ \A f \in SUBSET Flag : [d EXCEPT !.flags = f] \in Desc
           /\ \A i \in Task : [d EXCEPT !.task = i] \in Desc
           /\ \A n \in Fd \cup {-1} : [d EXCEPT !.next_free_cd = n] \in Desc
BY DEF Desc

LEMMA ClearTableType ==
    ASSUME NEW n \in 0 .. MaxFds
    PROVE  ClearDesc \in Desc /\ ClearTable(n) \in Table
<1>1. ClearDesc \in Desc
  BY MaxFdsAssumption DEF ClearDesc, Desc, Fd
<1> HIDE DEF ClearDesc
<1> QED
  BY <1>1 DEF ClearTable, Table

(* alloc_channel_desc returns a descriptor of the table, or -1. *)
LEMMA NextFdType ==
    ASSUME NEW tb \in Table
    PROVE  /\ NextFd(tb) \in Fd \cup {-1}
           /\ NextFd(tb) >= 0 => NextFd(tb) \in Fd
           /\ tb.free_cd_head < 0 /\ NextFd(tb) >= 0 => tb.next_free_cd < MaxFds
BY TableParts, MaxFdsAssumption DEF NextFd, Fd

LEMMA TakeFdType ==
    ASSUME NEW tb \in Table, NEW t \in Task, NextFd(tb) >= 0
    PROVE  TakeFd(tb, t) \in Table
<1> DEFINE no == NextFd(tb)
<1>1. no \in Fd
  BY NextFdType
<1>2. tb.cd \in [Fd -> Desc] /\ tb.cd[no] \in Desc
  BY <1>1, TableParts
<1>3. [tb.cd EXCEPT ![no].task = t] \in [Fd -> Desc]
  BY <1>1, <1>2, DescParts
<1>4. tb.free_cd_head < 0 => tb.next_free_cd + 1 \in 0 .. MaxFds
  BY TableParts, NextFdType, MaxFdsAssumption
<1>5. tb.cd[no].next_free_cd \in Fd \cup {-1}
  BY <1>2, DescParts
<1>6. tb.free_cd_head >= 0 \/ tb.free_cd_head < 0
  BY TableParts DEF Fd
<1> HIDE DEF no
<1>7. TakeFd(tb, t) =
        [cd |-> [tb.cd EXCEPT ![no].task = t],
         free_cd_head |-> IF tb.free_cd_head >= 0 THEN tb.cd[no].next_free_cd
                                                  ELSE tb.free_cd_head,
         next_free_cd |-> IF tb.free_cd_head >= 0 THEN tb.next_free_cd
                                                  ELSE tb.next_free_cd + 1]
  BY DEF TakeFd, no
<1>8. (IF tb.free_cd_head >= 0 THEN tb.cd[no].next_free_cd
                               ELSE tb.free_cd_head) \in Fd \cup {-1}
  BY <1>5, TableParts
<1>9. (IF tb.free_cd_head >= 0 THEN tb.next_free_cd
                               ELSE tb.next_free_cd + 1) \in 0 .. MaxFds
  <2>1. CASE tb.free_cd_head >= 0
    BY <2>1, TableParts
  <2>2. CASE ~(tb.free_cd_head >= 0)
    BY <1>4, <1>6, <2>2
  <2> QED
    BY <2>1, <2>2
<1> QED
  BY <1>3, <1>7, <1>8, <1>9 DEF Table

LEMMA ReleaseFdType ==
    ASSUME NEW tb \in Table, NEW no \in Fd
    PROVE  ReleaseFd(tb, no) \in Table
<1>1. tb.cd \in [Fd -> Desc] /\ tb.cd[no] \in Desc /\ tb.free_cd_head \in Fd \cup {-1}
  BY TableParts
<1> DEFINE d == [tb.cd[no] EXCEPT !.channel = NoChannel]
<1>2. d \in Desc
  BY <1>1, DescParts
<1>3. [d EXCEPT !.next_free_cd = tb.free_cd_head] \in Desc
  BY <1>1, <1>2, DescParts
<1>4. [[tb.cd EXCEPT ![no] = d] EXCEPT
          ![no] = [d EXCEPT !.next_free_cd = tb.free_cd_head]] \in [Fd -> Desc]
  BY <1>1, <1>3
<1> QED
  BY <1>1, <1>4 DEF ReleaseFd, Table

LEMMA InstallType ==
    ASSUME NEW tb \in Table, NEW no \in Fd, NEW c \in Channel,
           NEW flags \in SUBSET Flag
    PROVE  Install(tb, no, c, flags) \in Table
<1>1. tb.cd \in [Fd -> Desc] /\ tb.cd[no] \in Desc
  BY TableParts
<1> DEFINE d == [tb.cd[no] EXCEPT !.channel = c]
<1>2. d \in Desc
  BY <1>1, DescParts
<1>3. [d EXCEPT !.flags = flags] \in Desc
  BY <1>2, DescParts
<1>4. [[tb.cd EXCEPT ![no] = d] EXCEPT ![no] = [d EXCEPT !.flags = flags]]
        \in [Fd -> Desc]
  BY <1>1, <1>3
<1> QED
  BY <1>1, <1>4 DEF Install, Table

(* The channel of a valid descriptor. *)
LEMMA ValidChannelType ==
    ASSUME ChannelTypes, NEW t \in Task, NEW fd, ValidChannel(t, fd)
    PROVE  /\ fd \in Fd /\ ChannelOf(t, fd) \in Channel
           /\ table[t] \in Table /\ table[t].cd[fd] \in Desc
           /\ table[t].cd[fd].flags \in SUBSET Flag
<1>1. fd \in Fd /\ table[t].cd[fd].channel # NoChannel
  BY DEF ValidChannel, ChannelOf
<1>2. table[t] \in Table
  BY DEF ChannelTypes
<1>3. table[t].cd[fd] \in Desc
  BY <1>1, <1>2, TableParts
<1>4. /\ table[t].cd[fd].channel \in Channel \cup {NoChannel}
      /\ table[t].cd[fd].flags \in SUBSET Flag
  BY <1>3, DescParts
<1> QED
  BY <1>1, <1>2, <1>3, <1>4 DEF ChannelOf

-----------------------------------------------------------------------------
(* Poll lists.                                                             *)

LEMMA UnlinkType ==
    ASSUME NEW D, NEW lists \in [D -> Seq(Node)], NEW N, NEW E
    PROVE  Unlink(lists, N, E) \in [D -> Seq(Node)]
<1>1. \A l \in D : lists[l] \in Seq(Node)
  OBVIOUS
<1>2. \A l \in D : Without(lists[l], N) \in Seq(Node)
  BY <1>1, WithoutProperties
<1> QED
  BY <1>1, <1>2 DEF Unlink

-----------------------------------------------------------------------------
(* How a kernel entry ends.                                                *)

LEMMA Unchanged ==
    /\ TaskTypes /\ UNCHANGED taskVars => TaskTypes'
    /\ RunTypes /\ UNCHANGED runVars => RunTypes'
    /\ ChannelTypes /\ UNCHANGED chanVars => ChannelTypes'
    /\ PollTypes /\ UNCHANGED pollVars => PollTypes'
BY DEF TaskTypes, taskVars, RunTypes, runVars, ChannelTypes, chanVars,
       PollTypes, pollVars

LEMMA LeaveType ==
    ASSUME NEW R \in SUBSET (Task \X Int), Leave(R), pollresult' = {}
    PROVE  /\ current' \in Task \cup {NoTask}
           /\ ret' \in SUBSET (Task \X Int)
           /\ pollresult' \in SUBSET (Task \X Fd \X PollEvent)
BY DEF Leave

LEMMA AnswerType ==
    ASSUME TypeOK, NEW t \in Task, NEW r \in Int, Answer(t, r)
    PROVE  TypeOK'
<1>1. {<<t, r>>} \in SUBSET (Task \X Int)
  OBVIOUS
<1>2. Leave({<<t, r>>}) /\ pollresult' = {}
  BY DEF Answer
<1> QED
  BY <1>1, <1>2, LeaveType, Unchanged DEF Answer, TypeOK

LEMMA PanicType ==
    ASSUME TypeOK, NEW why \in Panics, Panic(why)
    PROVE  TypeOK'
<1>1. {} \in SUBSET (Task \X Int)
  OBVIOUS
<1>2. Leave({}) /\ pollresult' = {}
  BY DEF Panic
<1> QED
  BY <1>1, <1>2, LeaveType, Unchanged DEF Panic, TypeOK

LEMMA CloseFailureType ==
    ASSUME NEW t, NEW tb, NEW F
    PROVE  CloseFailure(t, tb, F) \in Panics
BY DEF CloseFailure, Panics

LEMMA ClosePollsType ==
    ASSUME PollTypes, NEW t, NEW F, ClosePolls(t, F), poll_count' = poll_count
    PROVE  PollTypes'
BY UnlinkType DEF PollTypes, ClosePolls

-----------------------------------------------------------------------------
(* Types: one lemma for each operation.                                    *)

LEMMA CloseTypes ==
    ASSUME TypeOK, NEW t \in Task, NEW no \in AnyFd, Close(t, no)
    PROVE  TypeOK'
<1> DEFINE why == CloseFailure(t, table[t], {no})
<1>1. CASE ~ValidChannel(t, no) /\ Answer(t, EBADF)
  BY <1>1, AnswerType, ErrnoType
<1>2. CASE ValidChannel(t, no) /\ why # "no" /\ Panic(why)
  BY <1>2, PanicType, CloseFailureType
<1>3. CASE /\ ValidChannel(t, no)
           /\ table' = [table EXCEPT ![t] = ReleaseFd(@, no)]
           /\ refcount' = [refcount EXCEPT ![ChannelOf(t, no)] = @ - 1]
           /\ free_channel' = free_channel \cup Released(table[t], {no})
           /\ ClosePolls(t, {no})
           /\ Leave({<<t, 0>>}) /\ pollresult' = {}
           /\ UNCHANGED <<taskVars, runVars, poll_count, panic>>
  <2>1. ReleaseFd(table[t], no) \in Table
    BY <1>3, ValidChannelType, ReleaseFdType DEF TypeOK
  <2>2. ChannelTypes'
    <3>1. ChannelOf(t, no) \in Channel
      BY <1>3, ValidChannelType DEF TypeOK
    <3> QED
      BY <1>3, <2>1, <3>1 DEF TypeOK, ChannelTypes, Released
  <2>3. PollTypes'
    BY <1>3, ClosePollsType DEF TypeOK
  <2>4. {<<t, 0>>} \in SUBSET (Task \X Int)
    OBVIOUS
  <2> QED
    BY <1>3, <2>2, <2>3, <2>4, LeaveType, Unchanged DEF TypeOK
<1> QED
  BY <1>1, <1>2, <1>3 DEF Close

LEMMA NewChannelTypes ==
    ASSUME TypeOK, NEW t \in Task, NewChannel(t)
    PROVE  TypeOK'
<1> DEFINE no == NextFd(table[t])
<1>0. table[t] \in Table
  BY DEF TypeOK, ChannelTypes
<1>1. CASE no < 0 /\ Answer(t, EMFILE)
  BY <1>1, AnswerType, ErrnoType
<1>2. CASE Panic("relinked poll node")
  BY <1>2, PanicType DEF Panics
<1>3. CASE /\ no >= 0
           /\ \E c \in free_channel :
                /\ free_channel' = free_channel \ {c}
                /\ refcount' = [refcount EXCEPT ![c] = 1]
                /\ queue' = [queue EXCEPT ![<<"senders", c>>] = <<>>,
                                          ![<<"receivers", c>>] = <<>>]
                /\ poll_list' = [l \in DOMAIN poll_list |->
                                    IF l[1] = c THEN <<>> ELSE poll_list[l]]
                /\ table' = [table EXCEPT ![t] =
                                Install(TakeFd(@, t), no, c, {"RECV", "SEND"})]
           /\ Leave({<<t, no>>}) /\ pollresult' = {}
           /\ UNCHANGED <<taskVars, state, args, poll_queue, poll_count, panic>>
  <2>1. PICK c \in free_channel :
                /\ free_channel' = free_channel \ {c}
                /\ refcount' = [refcount EXCEPT ![c] = 1]
                /\ queue' = [queue EXCEPT ![<<"senders", c>>] = <<>>,
                                          ![<<"receivers", c>>] = <<>>]
                /\ poll_list' = [l \in DOMAIN poll_list |->
                                    IF l[1] = c THEN <<>> ELSE poll_list[l]]
                /\ table' = [table EXCEPT ![t] =
                                Install(TakeFd(@, t), no, c, {"RECV", "SEND"})]
    BY <1>3
  <2>2. c \in Channel /\ no \in Fd /\ {"RECV", "SEND"} \in SUBSET Flag
    BY <1>0, <1>3, NextFdType DEF TypeOK, ChannelTypes, Flag
  <2>3. Install(TakeFd(table[t], t), no, c, {"RECV", "SEND"}) \in Table
    BY <1>0, <1>3, <2>2, TakeFdType, InstallType
  <2>4. ChannelTypes'
    BY <2>1, <2>2, <2>3 DEF TypeOK, ChannelTypes
  <2>5. RunTypes'
    BY <1>3, <2>1, EmptySeq DEF TypeOK, RunTypes
  <2>6. PollTypes'
    BY <1>3, <2>1, EmptySeq DEF TypeOK, PollTypes
  <2>7. {<<t, no>>} \in SUBSET (Task \X Int)
    BY <2>2, MaxFdsAssumption DEF Fd
  <2> QED
    BY <1>3, <2>4, <2>5, <2>6, <2>7, LeaveType, Unchanged DEF TypeOK
<1> QED
  BY <1>1, <1>2, <1>3 DEF NewChannel

LEMMA ChanflagsTypes ==
    ASSUME TypeOK, NEW t \in Task, NEW fd \in AnyFd, Chanflags(t, fd)
    PROVE  TypeOK'
<1>1. \A f : FlagWord(f) \in Int
  BY DEF FlagWord
<1> QED
  BY <1>1, AnswerType, ErrnoType DEF Chanflags

LEMMA DupSelfTypes ==
    ASSUME TypeOK, NEW t \in Task, NEW fd \in AnyFd, NEW flags \in SUBSET Flag,
           DupSelf(t, fd, flags)
    PROVE  TypeOK'
<1> DEFINE d == [table[t].cd[fd] EXCEPT !.flags = flags]
<1>1. /\ fd \in Fd /\ table[t] \in Table /\ table[t].cd[fd] \in Desc
  BY ValidChannelType DEF DupSelf, TypeOK
<1>2. d \in Desc
  BY <1>1, DescParts
<1>3. [table[t].cd EXCEPT ![fd] = d] \in [Fd -> Desc]
  BY <1>1, <1>2, TableParts
<1>4. [table[t] EXCEPT !.cd = [table[t].cd EXCEPT ![fd] = d]] \in Table
  BY <1>1, <1>3 DEF Table
<1>5. table' = [table EXCEPT ![t] =
                   [table[t] EXCEPT !.cd = [table[t].cd EXCEPT ![fd] = d]]]
  BY DEF DupSelf
<1>6. ChannelTypes'
  BY <1>4, <1>5 DEF DupSelf, TypeOK, ChannelTypes
<1>7. {<<t, fd>>} \in SUBSET (Task \X Int)
  BY <1>1, MaxFdsAssumption DEF Fd
<1> QED
  BY <1>6, <1>7, LeaveType, Unchanged DEF DupSelf, TypeOK

LEMMA DupTypes ==
    ASSUME TypeOK, NEW t \in Task, NEW oldfd \in AnyFd, NEW newfd \in AnyFd,
           Dup(t, oldfd, newfd)
    PROVE  TypeOK'
<1> DEFINE err == DupError(t, oldfd, newfd)
           no  == IF newfd = -1 THEN NextFd(table[t]) ELSE newfd
           tb  == IF newfd = -1 THEN TakeFd(table[t], t) ELSE table[t]
           old == tb.cd[no].channel
           c   == ChannelOf(t, oldfd)
           F   == IF old = NoChannel THEN {} ELSE {no}
           why == IF no = oldfd THEN "NULL pointer in the kernel"
                  ELSE IF F = {} /\ LinkedAtAll(<<t, no>>)
                  THEN "relinked poll node" ELSE CloseFailure(t, tb, F)
           tb2 == IF F = {} THEN tb ELSE ReleaseFd(tb, no)
<1>1. CASE err # 0 /\ Answer(t, err)
  <2>1. err \in Int
    BY ErrnoType DEF DupError
  <2> QED
    BY <1>1, <2>1, AnswerType
<1>2. CASE Panic(why)
  <2>1. why \in Panics
    BY CloseFailureType DEF Panics
  <2> HIDE DEF why
  <2> QED
    BY <1>2, <2>1, PanicType
<1>3. CASE /\ err = 0
           /\ table' = [table EXCEPT ![t] =
                           Install(tb2, no, c, tb.cd[oldfd].flags)]
           /\ refcount' = [d \in Channel |-> refcount[d]
                             - ClosedOn(tb, F, d) + (IF d = c THEN 1 ELSE 0)]
           /\ free_channel' = free_channel \cup Released(tb, F)
           /\ ClosePolls(t, F)
           /\ Leave({<<t, no>>}) /\ pollresult' = {}
           /\ UNCHANGED <<taskVars, runVars, poll_count, panic>>
  <2>1. table[t] \in Table /\ ValidChannel(t, oldfd)
    BY <1>3 DEF TypeOK, ChannelTypes, DupError, EBADF
  <2>2. c \in Channel /\ oldfd \in Fd
    BY <2>1, ValidChannelType DEF TypeOK
  <2>3. no \in Fd /\ tb \in Table
    <3>1. CASE newfd = -1
      <4>1. NextFd(table[t]) >= 0
        <5>1. ~(NextFd(table[t]) < 0)
          BY <1>3, <2>1, <3>1 DEF DupError, EMFILE
        <5> QED
          BY <2>1, <5>1, NextFdType DEF Fd
      <4> QED
        BY <2>1, <3>1, <4>1, NextFdType, TakeFdType
    <3>2. CASE newfd # -1
      BY <1>3, <2>1, <3>2 DEF DupError, EBADF
    <3> QED
      BY <3>1, <3>2
  <2> HIDE DEF no, tb, c
  <2>4. F \in SUBSET Fd /\ tb2 \in Table
    BY <2>3, ReleaseFdType
  <2>5. tb.cd[oldfd].flags \in SUBSET Flag
    <3>1. tb.cd[oldfd] \in Desc
      BY <2>2, <2>3, TableParts
    <3> QED
      BY <3>1, DescParts
  <2> HIDE DEF F, tb2
  <2>6. Install(tb2, no, c, tb.cd[oldfd].flags) \in Table
    BY <2>2, <2>3, <2>4, <2>5, InstallType
  <2>7. refcount' \in [Channel -> Int]
    <3>1. \A d \in Channel : ClosedOn(tb, F, d) \in Nat
      BY <2>4, ClosedOnType
    <3> QED
      BY <1>3, <3>1 DEF TypeOK, ChannelTypes
  <2>8. ChannelTypes'
    BY <1>3, <2>6, <2>7 DEF TypeOK, ChannelTypes, Released
  <2>9. PollTypes'
    BY <1>3, ClosePollsType DEF TypeOK
  <2>10. {<<t, no>>} \in SUBSET (Task \X Int)
    BY <2>3, MaxFdsAssumption DEF Fd
  <2> QED
    BY <1>3, <2>8, <2>9, <2>10, LeaveType, Unchanged DEF TypeOK
<1> QED
  BY <1>1, <1>2, <1>3 DEF Dup

LEMMA NonDaemonType == \A d : NonDaemon(d) \in Int
BY DEF NonDaemon

LEMMA RunQueueTypes ==
    ASSUME RunTypes, NEW ts \in Seq(Task), NEW dest,
           queue' = Requeue(queue, ts, dest)
    PROVE  queue' \in [QueueName -> Seq(Task)]
BY RequeueProperties DEF RunTypes

LEMMA OneTask ==
    ASSUME NEW t \in Task
    PROVE  <<t>> \in Seq(Task) /\ Range(<<t>>) = {t}
BY DEF Range

LEMMA SpawnTableType ==
    ASSUME ChannelTypes, NEW t \in Task, NEW i \in Task, NEW chans \in Seq(AnyFd),
           Len(chans) <= MaxFds, \A k \in DOMAIN chans : ValidChannel(t, chans[k])
    PROVE  SpawnTable(t, i, chans) \in Table
<1> DEFINE d(fd) == [ClearDesc EXCEPT !.channel = ChannelOf(t, chans[fd + 1]),
                             !.flags = table[t].cd[chans[fd + 1]].flags,
                             !.task = i]
<1>1. Len(chans) \in 0 .. MaxFds /\ DOMAIN chans = 1 .. Len(chans)
  BY LenProperties, MaxFdsAssumption
<1>2. ClearTable(Len(chans)) \in Table /\ ClearDesc \in Desc
  BY <1>1, ClearTableType
<1>3. ASSUME NEW fd \in Fd, fd < Len(chans)
      PROVE  d(fd) \in Desc
  <2>1. fd + 1 \in DOMAIN chans
    BY <1>1, <1>3, MaxFdsAssumption DEF Fd
  <2>2. /\ ChannelOf(t, chans[fd + 1]) \in Channel
        /\ table[t].cd[chans[fd + 1]].flags \in SUBSET Flag
    BY <2>1, ValidChannelType
  <2> DEFINE x == [ClearDesc EXCEPT !.channel = ChannelOf(t, chans[fd + 1])]
             y == [x EXCEPT !.flags = table[t].cd[chans[fd + 1]].flags]
  <2>3. x \in Desc
    BY <1>2, <2>2, DescParts
  <2>4. y \in Desc
    BY <2>2, <2>3, DescParts
  <2>5. [y EXCEPT !.task = i] \in Desc
    BY <2>4, DescParts
  <2> QED
    BY <2>5
<1> HIDE DEF d
<1>4. [fd \in Fd |-> IF fd < Len(chans) THEN d(fd) ELSE ClearDesc] \in [Fd -> Desc]
  BY <1>2, <1>3
<1>5. SpawnTable(t, i, chans) = [ClearTable(Len(chans)) EXCEPT !.cd =
         [fd \in Fd |-> IF fd < Len(chans) THEN d(fd) ELSE ClearDesc]]
  BY DEF SpawnTable, d
<1> QED
  BY <1>2, <1>4, <1>5 DEF Table

LEMMA TidTypes ==
    ASSUME TaskTypes, NEW i \in Task
    PROVE  NextGen(i) \in Nat /\ \A g \in Nat : MakeTid(i, g) \in Nat
<1>1. tid[i] \in Nat /\ i \in Nat
  BY MaxTasksAssumption DEF TaskTypes, Task
<1>2. tid[i] \div 4096 \in Nat
  BY <1>1
<1> QED
  BY <1>1, <1>2 DEF NextGen, TidGen, MakeTid

LEMMA SpawnTypes ==
    ASSUME TypeOK, NEW t \in Task, NEW prio \in Int, NEW chans \in Seq(AnyFd),
           NEW flags, Spawn(t, prio, chans, flags)
    PROVE  TypeOK'
<1> DEFINE err  == SpawnError(t, prio, chans, flags)
           free == queue[<<"free", 0>>]
           i    == IF free = <<>> THEN next_tidx ELSE Head(free)
           gen  == IF free = <<>> THEN 0 ELSE NextGen(i)
           inherited(c) == {k \in DOMAIN chans : ChannelOf(t, chans[k]) = c}
<1>1. CASE err # 0 /\ Answer(t, err)
  <2>1. err \in Int
    BY ErrnoType DEF SpawnError
  <2> QED
    BY <1>1, <2>1, AnswerType
<1>2. CASE /\ err = 0
           /\ next_tidx' = IF free = <<>> THEN next_tidx + 1 ELSE next_tidx
           /\ tid' = [tid EXCEPT ![i] = MakeTid(i, gen)]
           /\ ptid' = [ptid EXCEPT ![i] = tid[t]]
           /\ priority' = [priority EXCEPT ![i] = prio]
           /\ daemon' = [daemon EXCEPT ![i] = (flags = 1)]
           /\ task_count' = task_count + 1
           /\ nondaemon_count' = nondaemon_count + NonDaemon(flags = 1)
           /\ state' = [state EXCEPT ![i] = "RUNNING"]
           /\ queue' = Requeue(queue, <<i>>, [k \in {i} |-> <<"ready", prio>>])
           /\ table' = [table EXCEPT ![i] = SpawnTable(t, i, chans)]
           /\ refcount' = [c \in Channel |-> refcount[c] + Cardinality(
                 {k \in DOMAIN chans : ChannelOf(t, chans[k]) = c})]
           /\ poll_queue' = [l \in DOMAIN poll_queue |->
                                IF l[1] = i THEN <<>> ELSE poll_queue[l]]
           /\ poll_count' = [poll_count EXCEPT ![i] = 0]
           /\ Leave({<<t, MakeTid(i, gen)>>}) /\ pollresult' = {}
           /\ UNCHANGED <<args, free_channel, poll_list, panic>>
  <2>1. /\ prio \in Prio /\ ~(Len(chans) > MaxFds)
        /\ \A k \in DOMAIN chans : ValidChannel(t, chans[k])
        /\ ~(free = <<>> /\ next_tidx >= MaxTasks)
    BY <1>2 DEF SpawnError, EINVAL, EBADF, ENOMEM
  <2>2. free \in Seq(Task)
    <3>1. <<"free", 0>> \in QueueName
      BY DEF QueueName
    <3> QED
      BY <3>1 DEF TypeOK, RunTypes
  <2>3. next_tidx \in 1 .. MaxTasks /\ next_tidx' \in 1 .. MaxTasks
    BY <1>2, <2>1, MaxTasksAssumption DEF TypeOK, TaskTypes
  <2>4. i \in Task
    <3>1. CASE free = <<>>
      BY <2>1, <2>3, <3>1, MaxTasksAssumption DEF Task
    <3>2. CASE free # <<>>
      BY <2>2, <3>2, HeadTailProperties
    <3> QED
      BY <3>1, <3>2
  <2> HIDE DEF i
  <2>5. gen \in Nat
    BY <2>4, TidTypes DEF TypeOK
  <2> HIDE DEF gen
  <2>6. MakeTid(i, gen) \in Nat
    BY <2>4, <2>5, TidTypes DEF TypeOK
  <2>7. TaskTypes'
    BY <1>2, <2>1, <2>3, <2>4, <2>6, NonDaemonType, SMTT(30) DEF TypeOK, TaskTypes
  <2>8. RunTypes'
    <3>1. <<i>> \in Seq(Task)
      BY <2>4, OneTask
    <3>2. queue' \in [QueueName -> Seq(Task)]
      BY <1>2, <3>1, RunQueueTypes DEF TypeOK
    <3> QED
      BY <1>2, <2>4, <3>2 DEF TypeOK, RunTypes, TaskState
  <2>9. \A c : Cardinality(inherited(c)) \in Nat
    <3> TAKE c
    <3>1. inherited(c) \in SUBSET (1 .. Len(chans)) /\ Len(chans) \in Nat
      BY LenProperties
    <3> HIDE DEF inherited
    <3> QED
      BY <3>1, FS_Interval, FS_Subset, FS_CardinalityType, RankedElement
  <2>10. ChannelTypes'
    <3>1. Len(chans) <= MaxFds
      BY <2>1, LenProperties, MaxFdsAssumption
    <3>2. SpawnTable(t, i, chans) \in Table
      BY <2>1, <2>4, <3>1, SpawnTableType DEF TypeOK
    <3>3. table' \in [Task -> Table]
      BY <1>2, <2>4, <3>2 DEF TypeOK, ChannelTypes
    <3>4. \A c \in Channel : refcount[c] + Cardinality(inherited(c)) \in Int
      <4> HIDE DEF inherited
      <4>1. \A c \in Channel : refcount[c] \in Int
        BY DEF TypeOK, ChannelTypes
      <4> QED
        BY <2>9, <4>1
    <3>5. refcount' \in [Channel -> Int]
      BY <1>2, <3>4
    <3> QED
      BY <1>2, <3>3, <3>5 DEF TypeOK, ChannelTypes
  <2>11. PollTypes'
    <3>1. \A l \in Task \X PollEvent :
              <<>> \in Seq(Node) /\ poll_queue[l] \in Seq(Node)
      BY EmptySeq DEF TypeOK, PollTypes
    <3>2. DOMAIN poll_queue = Task \X PollEvent
      BY DEF TypeOK, PollTypes
    <3>3. poll_queue' \in [Task \X PollEvent -> Seq(Node)]
      BY <1>2, <3>1, <3>2
    <3>4. poll_count' \in [Task -> Int]
      BY <1>2, <2>4 DEF TypeOK, PollTypes
    <3> QED
      BY <1>2, <3>3, <3>4 DEF TypeOK, PollTypes
  <2>12. {<<t, MakeTid(i, gen)>>} \in SUBSET (Task \X Int)
    BY <2>6
  <2> QED
    BY <1>2, <2>7, <2>8, <2>10, <2>11, <2>12, LeaveType DEF TypeOK
<1> QED
  BY <1>1, <1>2 DEF Spawn

LEMMA ExitTaskTypes ==
    ASSUME TypeOK, NEW t \in Task, ExitTask(t)
    PROVE  TypeOK'
<1> DEFINE open == {fd \in Fd : ChannelOf(t, fd) # NoChannel}
           why  == IF state[t] # "RUNNING" THEN "Tried to exit non-running task!"
                   ELSE CloseFailure(t, table[t], open)
<1>1. CASE Panic(why)
  <2>1. why \in Panics
    BY CloseFailureType DEF Panics
  <2> HIDE DEF why
  <2> QED
    BY <1>1, <2>1, PanicType
<1>2. CASE /\ nondaemon_count' = nondaemon_count - NonDaemon(daemon[t])
           /\ task_count' = task_count - 1
           /\ table' = [table EXCEPT ![t] = ClearTable(0)]
           /\ refcount' = [c \in Channel |->
                              refcount[c] - ClosedOn(table[t], open, c)]
           /\ free_channel' = free_channel \cup Released(table[t], open)
           /\ ClosePolls(t, open)
           /\ state' = [state EXCEPT ![t] = "DEAD"]
           /\ queue' = Requeue(queue, <<t>>, [k \in {t} |-> <<"free", 0>>])
           /\ Leave({}) /\ pollresult' = {}
           /\ UNCHANGED <<next_tidx, tid, ptid, priority, daemon, args,
                          poll_count, panic>>
  <2>1. TaskTypes'
    BY <1>2, NonDaemonType DEF TypeOK, TaskTypes
  <2>2. RunTypes'
    <3>1. queue' \in [QueueName -> Seq(Task)]
      BY <1>2, OneTask, RunQueueTypes DEF TypeOK
    <3> QED
      BY <1>2, <3>1 DEF TypeOK, RunTypes, TaskState
  <2>3. ChannelTypes'
    <3>1. open \in SUBSET Fd
      OBVIOUS
    <3>2. \A c \in Channel : ClosedOn(table[t], open, c) \in Nat
      BY <3>1, ClosedOnType
    <3>3. 0 \in 0 .. MaxFds
      BY MaxFdsAssumption
    <3>4. ClearTable(0) \in Table
      BY <3>3, ClearTableType
    <3> HIDE DEF open
    <3> QED
      BY <1>2, <3>2, <3>4 DEF TypeOK, ChannelTypes, Released
  <2>4. PollTypes'
    BY <1>2, ClosePollsType DEF TypeOK
  <2>5. {} \in SUBSET (Task \X Int)
    OBVIOUS
  <2> QED
    BY <1>2, <2>1, <2>2, <2>3, <2>4, <2>5, LeaveType DEF TypeOK
<1> QED
  BY <1>1, <1>2 DEF ExitTask

(* The first node of a poll queue whose event is there. *)
LEMMA HitType ==
    ASSUME PollTypes, NEW t \in Task, NEW ev \in PollEvent
    PROVE  /\ poll_queue[<<t, ev>>] \in Seq(Node)
           /\ Hit(t, ev) \in 0 .. Len(poll_queue[<<t, ev>>])
           /\ Looked(t, ev) \in Seq(Node) /\ Inactive(t, ev) \in Seq(Node)
           /\ Rotated(t, ev) \in Seq(Node)
<1> DEFINE s == poll_queue[<<t, ev>>]
           hit == Hit(t, ev)
<1>1. s \in Seq(Node)
  BY DEF PollTypes
<1>2. Len(s) \in Nat /\ DOMAIN s = 1 .. Len(s)
  BY <1>1, LenProperties
<1>3. hit \in 0 .. Len(s)
  <2>1. CASE ActiveAt(t, ev) = {}
    BY <1>2, <2>1 DEF Hit
  <2>2. CASE ActiveAt(t, ev) # {}
    <3>1. ActiveAt(t, ev) \in SUBSET (0 .. Len(s))
      BY <1>2 DEF ActiveAt
    <3>2. \E k \in ActiveAt(t, ev) : \A j \in ActiveAt(t, ev) : k <= j
      BY <1>2, <2>2, <3>1, LeastElement
    <3>3. Hit(t, ev) \in ActiveAt(t, ev)
      BY <2>2, <3>2 DEF Hit
    <3> QED
      BY <3>1, <3>3
  <2> QED
    BY <2>1, <2>2
<1> HIDE DEF s, hit
<1>4. \A k \in 1 .. Len(s) : s[k] \in Node
  BY <1>1, ElementOfSeq
<1>5. /\ SubSeq(s, 1, hit) \in Seq(Node) /\ SubSeq(s, 1, hit - 1) \in Seq(Node)
      /\ SubSeq(s, hit + 1, Len(s)) \in Seq(Node)
  <2>1. \A k \in 1 .. hit : s[k] \in Node
    BY <1>2, <1>3, <1>4
  <2>2. \A k \in 1 .. (hit - 1) : s[k] \in Node
    BY <1>2, <1>3, <1>4
  <2>3. \A k \in (hit + 1) .. Len(s) : s[k] \in Node
    BY <1>2, <1>3, <1>4
  <2>4. hit \in Int /\ hit - 1 \in Int /\ hit + 1 \in Int /\ Len(s) \in Int
    BY <1>2, <1>3
  <2> QED
    BY <2>1, <2>2, <2>3, <2>4, SubSeqProperties
<1>6. hit # 0 => Append(SubSeq(s, hit + 1, Len(s)), s[hit]) \in Seq(Node)
  BY <1>2, <1>3, <1>4, <1>5, AppendProperties
<1>7. Looked(t, ev) \in Seq(Node) /\ Inactive(t, ev) \in Seq(Node)
  BY <1>1, <1>5 DEF Looked, Inactive, s, hit
<1>8. Rotated(t, ev) \in Seq(Node)
  BY <1>6, EmptySeq DEF Rotated, s, hit
<1> QED
  BY <1>1, <1>3, <1>7, <1>8 DEF s, hit

LEMMA PollWaitTypes ==
    ASSUME TypeOK, NEW t \in Task, NEW null, PollWait(t, null)
    PROVE  TypeOK'
<1> DEFINE err   == IF poll_count[t] = 0 THEN EINVAL
                    ELSE IF null THEN EFAULT ELSE 0
           tried == IF Hit(t, "RECV") # 0 THEN {"RECV"} ELSE PollEvent
           found == {ev \in tried : Hit(t, ev) # 0}
<1>1. CASE Answer(t, err)
  <2>1. err \in Int
    BY ErrnoType
  <2> QED
    BY <1>1, <2>1, AnswerType
<1>2. CASE Panic("Unrecognized channel descriptor on poll queue")
  BY <1>2, PanicType DEF Panics
<1>3. CASE
    /\ poll_list' = [l \in DOMAIN poll_list |->
          IF l[2] \in tried
          THEN poll_list[l] \o Keep(Inactive(t, l[2]),
                  {n \in Node : ChannelOf(n[1], n[2]) = l[1]})
          ELSE poll_list[l]]
    /\ poll_queue' = [l \in DOMAIN poll_queue |->
          IF l[1] = t /\ l[2] \in tried THEN Rotated(t, l[2])
          ELSE poll_queue[l]]
    /\ \/ /\ found = {}
          /\ state' = [state EXCEPT ![t] = "POLL_BLOCKED"]
          /\ queue' = Requeue(queue, <<t>>, [i \in {t} |-> <<"poll", 0>>])
          /\ Leave({}) /\ pollresult' = {}
       \/ /\ found # {}
          /\ queue' = Requeue(queue, <<t>>, [i \in {t} |-> ReadyQueue(i)])
          /\ UNCHANGED state
          /\ Leave({<<t, 0>>})
          /\ pollresult' =
              {<<t, poll_queue[<<t, ev>>][Hit(t, ev)][2], ev>> : ev \in found}
    /\ UNCHANGED <<taskVars, args, chanVars, poll_count, panic>>
  <2>0. tried \subseteq PollEvent
    BY DEF PollEvent
  <2>1. poll_list' \in [Channel \X PollEvent -> Seq(Node)]
    <3> DEFINE back(l) == Keep(Inactive(t, l[2]),
                              {n \in Node : ChannelOf(n[1], n[2]) = l[1]})
    <3>1. \A l \in Channel \X PollEvent :
              poll_list[l] \in Seq(Node) /\ Inactive(t, l[2]) \in Seq(Node)
      BY HitType DEF TypeOK, PollTypes
    <3>2. \A l \in Channel \X PollEvent : back(l) \in Seq(Node)
      BY <3>1, KeepProperties
    <3> HIDE DEF back
    <3>3. \A l \in Channel \X PollEvent : poll_list[l] \o back(l) \in Seq(Node)
      BY <3>1, <3>2, ConcatProperties
    <3>4. DOMAIN poll_list = Channel \X PollEvent
      BY DEF TypeOK, PollTypes
    <3>5. poll_list' = [l \in Channel \X PollEvent |->
              IF l[2] \in tried THEN poll_list[l] \o back(l) ELSE poll_list[l]]
      BY <1>3, <3>4 DEF back
    <3> QED
      BY <3>1, <3>3, <3>5
  <2>2. poll_queue' \in [Task \X PollEvent -> Seq(Node)]
    <3>1. \A l \in Task \X PollEvent :
              poll_queue[l] \in Seq(Node) /\ Rotated(t, l[2]) \in Seq(Node)
      BY HitType DEF TypeOK, PollTypes
    <3>2. DOMAIN poll_queue = Task \X PollEvent
      BY DEF TypeOK, PollTypes
    <3> HIDE DEF tried
    <3> QED
      BY <1>3, <3>1, <3>2
  <2>3. PollTypes'
    BY <1>3, <2>1, <2>2 DEF TypeOK, PollTypes
  <2>4. RunTypes'
    <3>1. queue' \in [QueueName -> Seq(Task)]
      BY <1>3, OneTask, RunQueueTypes DEF TypeOK
    <3>2. state' \in [Task -> TaskState]
      BY <1>3 DEF TypeOK, RunTypes, TaskState
    <3> QED
      BY <1>3, <3>1, <3>2 DEF TypeOK, RunTypes
  <2>5. pollresult' \in SUBSET (Task \X Fd \X PollEvent)
    <3>1. ASSUME NEW ev \in found
          PROVE  poll_queue[<<t, ev>>][Hit(t, ev)][2] \in Fd /\ ev \in PollEvent
      <4>1. ev \in PollEvent /\ Hit(t, ev) # 0
        BY <2>0
      <4>2. /\ poll_queue[<<t, ev>>] \in Seq(Node)
            /\ Hit(t, ev) \in 1 .. Len(poll_queue[<<t, ev>>])
        <5>1. /\ poll_queue[<<t, ev>>] \in Seq(Node)
              /\ Hit(t, ev) \in 0 .. Len(poll_queue[<<t, ev>>])
          BY <4>1, HitType DEF TypeOK
        <5>2. Len(poll_queue[<<t, ev>>]) \in Nat
          BY <5>1, LenProperties
        <5> QED
          BY <4>1, <5>1, <5>2
      <4>3. poll_queue[<<t, ev>>][Hit(t, ev)] \in Node
        BY <4>2, ElementOfSeq
      <4> QED
        BY <4>1, <4>3 DEF Node
    <3> DEFINE fd(ev) == poll_queue[<<t, ev>>][Hit(t, ev)][2]
    <3>2. \A ev \in found : fd(ev) \in Fd /\ ev \in PollEvent
      BY <3>1
    <3>3. pollresult' = {} \/ pollresult' = {<<t, fd(ev), ev>> : ev \in found}
      BY <1>3
    <3> HIDE DEF found, fd
    <3> QED
      BY <3>2, <3>3
  <2>6. current' \in Task \cup {NoTask} /\ ret' \in SUBSET (Task \X Int)
    BY <1>3 DEF Leave
  <2> QED
    BY <1>3, <2>3, <2>4, <2>5, <2>6, Unchanged DEF TypeOK
<1> QED
  BY <1>1, <1>2, <1>3 DEF PollWait

LEMMA PollAddTypes ==
    ASSUME TypeOK, NEW t \in Task, NEW fd \in AnyFd, NEW events \in SUBSET PollEvent,
           PollAdd(t, fd, events)
    PROVE  TypeOK'
<1> DEFINE bad  == ValidChannel(t, fd) => ~(events \subseteq table[t].cd[fd].flags)
           new  == {ev \in events : ~Linked(<<t, fd>>, ev)}
           here == {ev \in new : Active(ChannelOf(t, fd), ev)}
<1>1. CASE Answer(t, EBADF)
  BY <1>1, AnswerType, ErrnoType
<1>2. CASE
    /\ ~bad
    /\ poll_queue' = [l \in DOMAIN poll_queue |->
          IF l[1] = t /\ l[2] \in here
          THEN Append(poll_queue[l], <<t, fd>>) ELSE poll_queue[l]]
    /\ poll_list' = [l \in DOMAIN poll_list |->
          IF l[1] = ChannelOf(t, fd) /\ l[2] \in new \ here
          THEN Append(poll_list[l], <<t, fd>>) ELSE poll_list[l]]
    /\ poll_count' = [poll_count EXCEPT ![t] = @ + Cardinality(new)]
    /\ Leave({<<t, 0>>}) /\ pollresult' = {}
    /\ UNCHANGED <<taskVars, runVars, chanVars, panic>>
  <2>1. <<t, fd>> \in Node
    BY <1>2 DEF ValidChannel, Node
  <2>2. Cardinality(new) \in Nat
    <3>1. new \in SUBSET PollEvent
      OBVIOUS
    <3> QED
      BY <3>1, EventsFinite
  <2>9. poll_count' \in [Task -> Int]
    <3> DEFINE n == Cardinality(new)
    <3>1. n \in Nat /\ poll_count' = [poll_count EXCEPT ![t] = @ + n]
      BY <1>2, <2>2
    <3> HIDE DEF n
    <3> QED
      BY <3>1 DEF TypeOK, PollTypes
  <2> HIDE DEF here, new
  <2>3. \A l \in Task \X PollEvent : /\ poll_queue[l] \in Seq(Node)
                                    /\ Append(poll_queue[l], <<t, fd>>) \in Seq(Node)
    BY <2>1, AppendProperties DEF TypeOK, PollTypes
  <2>4. \A l \in Channel \X PollEvent : /\ poll_list[l] \in Seq(Node)
                                       /\ Append(poll_list[l], <<t, fd>>) \in Seq(Node)
    BY <2>1, AppendProperties DEF TypeOK, PollTypes
  <2>5. /\ DOMAIN poll_queue = Task \X PollEvent
        /\ DOMAIN poll_list = Channel \X PollEvent
    BY DEF TypeOK, PollTypes
  <2>6. /\ poll_queue' \in [Task \X PollEvent -> Seq(Node)]
        /\ poll_list' \in [Channel \X PollEvent -> Seq(Node)]
    BY <1>2, <2>3, <2>4, <2>5
  <2>7. PollTypes'
    BY <2>9, <2>6 DEF PollTypes
  <2>8. {<<t, 0>>} \in SUBSET (Task \X Int)
    OBVIOUS
  <2> QED
    BY <1>2, <2>7, <2>8, LeaveType, Unchanged DEF TypeOK
<1> QED
  BY <1>1, <1>2 DEF PollAdd

LEMMA PollRemoveTypes ==
    ASSUME TypeOK, NEW t \in Task, NEW fd \in AnyFd, NEW events \in SUBSET PollEvent,
           PollRemove(t, fd, events)
    PROVE  TypeOK'
<1> DEFINE old == {ev \in events : Linked(<<t, fd>>, ev)}
<1>1. CASE Answer(t, EBADF)
  BY <1>1, AnswerType, ErrnoType
<1>2. CASE
    /\ poll_list' = Unlink(poll_list, {<<t, fd>>}, events)
    /\ poll_queue' = Unlink(poll_queue, {<<t, fd>>}, events)
    /\ poll_count' = [poll_count EXCEPT ![t] = @ - Cardinality(old)]
    /\ Leave({<<t, 0>>}) /\ pollresult' = {}
    /\ UNCHANGED <<taskVars, runVars, chanVars, panic>>
  <2>1. Cardinality(old) \in Nat
    <3>1. old \in SUBSET PollEvent
      OBVIOUS
    <3> QED
      BY <3>1, EventsFinite
  <2>2. PollTypes'
    <3> DEFINE n == Cardinality(old)
    <3>1. n \in Nat /\ poll_count' = [poll_count EXCEPT ![t] = @ - n]
      BY <1>2, <2>1
    <3> HIDE DEF n
    <3>2. poll_count' \in [Task -> Int]
      BY <3>1 DEF TypeOK, PollTypes
    <3> QED
      BY <1>2, <3>2, UnlinkType DEF TypeOK, PollTypes
  <2>3. {<<t, 0>>} \in SUBSET (Task \X Int)
    OBVIOUS
  <2> QED
    BY <1>2, <2>2, <2>3, LeaveType, Unchanged DEF TypeOK
<1> QED
  BY <1>1, <1>2 DEF PollRemove

(* The queues of nodes that a sender or receiver triggers.  (The state it  *)
(* blocks or wakes others in is an argument, not yet the state.)           *)
LEMMA TriggerTypes ==
    ASSUME TypeOK, NEW c \in Channel, NEW ev \in PollEvent,
           NEW q \in [QueueName -> Seq(Task)], NEW st \in [Task -> TaskState],
           NEW R \in SUBSET (Task \X Int), Trigger(c, ev, q, st, R),
           args' \in [Task -> Args], poll_count' = poll_count,
           TaskTypes', ChannelTypes'
    PROVE  TypeOK'
<1> DEFINE nodes    == IF q[<<Side(ev), c>>] = <<>> THEN <<>> ELSE poll_list[<<c, ev>>]
           owner(n) == table[n[1]].cd[n[2]].task
           first    == {nodes[k] : k \in {k \in DOMAIN nodes :
                        \A j \in 1 .. (k-1) : owner(nodes[j]) # owner(nodes[k])}}
           told     == {n \in first : /\ owner(n) # NoTask
                                      /\ InPollWait(st, owner(n))}
           hits     == Keep(nodes, told)
           woken    == [k \in DOMAIN hits |-> owner(hits[k])]
           mine(l)  == Keep(nodes, {n \in Range(nodes) : owner(n) = l[1]})
<1>1. /\ poll_list' = IF nodes = <<>> THEN poll_list
                      ELSE [poll_list EXCEPT ![<<c, ev>>] = <<>>]
      /\ poll_queue' = [l \in DOMAIN poll_queue |->
             IF l[2] = ev THEN poll_queue[l] \o mine(l) ELSE poll_queue[l]]
      /\ state' = [i \in Task |-> IF i \in Range(woken) THEN "RUNNING" ELSE st[i]]
      /\ queue' = Requeue(q, woken, [i \in Task |-> ReadyQueue(i)])
      /\ Leave(R \cup {<<i, 0>> : i \in Range(woken)})
      /\ pollresult' = {<<owner(n), n[2], ev>> : n \in Range(hits)}
      /\ panic' = IF \E n \in Range(nodes) : owner(n) = NoTask
                  THEN "NULL pointer in the kernel" ELSE panic
  BY DEF Trigger
<1>2. nodes \in Seq(Node)
  BY EmptySeq DEF TypeOK, PollTypes
<1>3. \A n \in Node : owner(n) \in Task \cup {NoTask} /\ n[2] \in Fd
  <2> SUFFICES ASSUME NEW n \in Node
               PROVE  owner(n) \in Task \cup {NoTask} /\ n[2] \in Fd
    OBVIOUS
  <2>1. n[1] \in Task /\ n[2] \in Fd
    BY DEF Node
  <2>2. table[n[1]] \in Table
    BY <2>1 DEF TypeOK, ChannelTypes
  <2>3. table[n[1]].cd[n[2]] \in Desc
    BY <2>1, <2>2, TableParts
  <2> QED
    BY <2>1, <2>3, DescParts
<1>4. \A n \in told : owner(n) # NoTask
  OBVIOUS
<1> HIDE DEF nodes, owner, first, told
<1>5. hits \in Seq(Node) /\ Range(hits) \subseteq told
  BY <1>2, KeepProperties
<1> HIDE DEF hits
<1>6. \A k \in DOMAIN hits : hits[k] \in Node /\ hits[k] \in Range(hits)
  BY <1>5, LenProperties, ElementOfSeq DEF Range
<1>7. \A k \in DOMAIN hits : owner(hits[k]) \in Task
  BY <1>3, <1>4, <1>5, <1>6
<1>8. woken \in Seq(Task)
  <2>1. DOMAIN hits = 1 .. Len(hits) /\ Len(hits) \in Nat
    BY <1>5, LenProperties
  <2> QED
    BY <1>7, <2>1, IsASeq
<1> HIDE DEF woken
<1>9. Range(woken) \subseteq Task
  BY <1>8, RangeOfSeq
<1>10. RunTypes'
  <2>1. queue' \in [QueueName -> Seq(Task)]
    BY <1>1, <1>8, RequeueProperties
  <2>2. state' \in [Task -> TaskState]
    BY <1>1 DEF TaskState
  <2> QED
    BY <2>1, <2>2 DEF RunTypes
<1>11. PollTypes'
  <2>1. \A l : mine(l) \in Seq(Node)
    BY <1>2, KeepProperties
  <2> HIDE DEF mine
  <2>2. \A l \in Task \X PollEvent : /\ poll_queue[l] \in Seq(Node)
                                    /\ poll_queue[l] \o mine(l) \in Seq(Node)
    BY <2>1, ConcatProperties DEF TypeOK, PollTypes
  <2>3. DOMAIN poll_queue = Task \X PollEvent
    BY DEF TypeOK, PollTypes
  <2>4. poll_queue' \in [Task \X PollEvent -> Seq(Node)]
    BY <1>1, <2>2, <2>3
  <2>5. poll_list' \in [Channel \X PollEvent -> Seq(Node)]
    BY <1>1, EmptySeq DEF TypeOK, PollTypes
  <2> QED
    BY <2>4, <2>5 DEF TypeOK, PollTypes
<1>12. current' \in Task \cup {NoTask} /\ ret' \in SUBSET (Task \X Int)
  <2>1. current' = NoTask /\ ret' = R \cup {<<i, 0>> : i \in Range(woken)}
    BY <1>1 DEF Leave
  <2> QED
    BY <1>9, <2>1
<1>13. pollresult' \in SUBSET (Task \X Fd \X PollEvent)
  <2>1. \A n \in Range(hits) : owner(n) \in Task /\ n[2] \in Fd
    BY <1>3, <1>6, <1>7 DEF Range
  <2>2. pollresult' = {<<owner(n), n[2], ev>> : n \in Range(hits)}
    BY <1>1
  <2> QED
    BY <2>1, <2>2
<1>14. panic' \in Panics
  BY <1>1 DEF TypeOK, Panics
<1> QED
  BY <1>10, <1>11, <1>12, <1>13, <1>14 DEF TypeOK

LEMMA ReceiveFailureType ==
    ASSUME NEW s, NEW r, NEW st, NEW a
    PROVE  ReceiveFailure(s, r, st, a) \in Panics
BY DEF ReceiveFailure, Panics

LEMMA SideNames ==
    ASSUME NEW c \in Channel
    PROVE  /\ <<"senders", c>> \in QueueName /\ <<"receivers", c>> \in QueueName
           /\ \A ev \in PollEvent : <<Side(ev), c>> \in QueueName
BY DEF QueueName, Side

LEMMA ExchangeTypes ==
    ASSUME TypeOK, NEW t \in Task, NEW ev \in PollEvent, NEW c \in Channel,
           NEW x \in Args, Exchange(t, ev, c, x)
    PROVE  TypeOK'
<1> DEFINE st == [state EXCEPT ![t] = IF ev = "RECV" THEN "SEND_BLOCKED"
                                                  ELSE "RECV_BLOCKED"]
           q  == Requeue(queue, <<t>>, [i \in {t} |-> <<Side(ev), c>>])
           a  == [args EXCEPT ![t] = x]
           s   == Peek(q[<<"senders", c>>])
           r   == Peek(q[<<"receivers", c>>])
           no  == NextFd(table[r])
           why == ReceiveFailure(s, r, st, a)
<1>1. /\ st \in [Task -> TaskState] /\ q \in [QueueName -> Seq(Task)]
      /\ a \in [Task -> Args]
  <2>1. st \in [Task -> TaskState]
    BY DEF TypeOK, RunTypes, TaskState
  <2>2. q \in [QueueName -> Seq(Task)]
    BY OneTask, RequeueProperties DEF TypeOK, RunTypes
  <2>3. a \in [Task -> Args]
    BY DEF TypeOK, RunTypes
  <2> QED
    BY <2>1, <2>2, <2>3
<1>2. CASE /\ args' = a
           /\ Trigger(c, ev, q, st, {})
           /\ UNCHANGED <<taskVars, chanVars, poll_count>>
  <2> HIDE DEF st, q, a
  <2>1. TaskTypes' /\ ChannelTypes'
    BY <1>2, Unchanged DEF TypeOK
  <2>2. args' \in [Task -> Args] /\ {} \in SUBSET (Task \X Int)
    BY <1>1, <1>2
  <2>3. poll_count' = poll_count
    BY <1>2
  <2> QED
    BY <1>1, <1>2, <2>1, <2>2, <2>3, TriggerTypes
<1>3. CASE Pair(q, c) /\ why # "no" /\ Panic(why)
  BY <1>3, ReceiveFailureType, PanicType
<1>4. CASE
    /\ Pair(q, c) /\ why = "no"
    /\ \/ /\ a[s].chan = NoChannel
          /\ UNCHANGED <<table, refcount>>
       \/ /\ a[s].chan # NoChannel
          /\ table' = [table EXCEPT ![r] =
               Install(TakeFd(@, r), no, a[s].chan, a[s].flags)]
          /\ refcount' = [refcount EXCEPT ![a[s].chan] = @ + 1]
    /\ args' = [a EXCEPT ![s] = NoArgs, ![r] = NoArgs]
    /\ Trigger(c, ev,
           Requeue(q, <<r, s>>, [i \in Task |-> ReadyQueue(i)]),
           [st EXCEPT ![s] = "RUNNING", ![r] = "RUNNING"],
           {<<r, a[s].len>>, <<s, 0>>})
    /\ UNCHANGED <<taskVars, free_channel, poll_count>>
  <2> HIDE DEF st, q, a
  <2>1. s \in Task /\ r \in Task
    <3>1. /\ q[<<"senders", c>>] \in Seq(Task) /\ q[<<"senders", c>>] # <<>>
          /\ q[<<"receivers", c>>] \in Seq(Task) /\ q[<<"receivers", c>>] # <<>>
      BY <1>1, <1>4, SideNames DEF Pair
    <3> QED
      BY <3>1, HeadTailProperties DEF Peek
  <2> HIDE DEF s, r
  <2>2. a[s] \in Args /\ a[s].len \in Nat
    BY <1>1, <2>1 DEF Args
  <2>3. ChannelTypes'
    <3>1. CASE a[s].chan = NoChannel
      BY <1>4, <3>1 DEF TypeOK, ChannelTypes
    <3>2. CASE a[s].chan # NoChannel
      <4>1. a[s].chan \in Channel /\ a[s].flags \in SUBSET Flag
        BY <2>2, <3>2 DEF Args
      <4>2. table[r] \in Table
        BY <2>1 DEF TypeOK, ChannelTypes
      <4>3. ~(no < 0)
        BY <1>4, <3>2 DEF ReceiveFailure
      <4>4. no >= 0 /\ no \in Fd
        BY <4>2, <4>3, NextFdType, MaxFdsAssumption DEF Fd
      <4>5. Install(TakeFd(table[r], r), no, a[s].chan, a[s].flags) \in Table
        BY <2>1, <4>1, <4>2, <4>4, TakeFdType, InstallType
      <4> HIDE DEF no
      <4> QED
        BY <1>4, <2>1, <3>2, <4>1, <4>5 DEF TypeOK, ChannelTypes
    <3> QED
      BY <3>1, <3>2
  <2>4. args' \in [Task -> Args]
    <3>1. NoArgs \in Args
      BY DEF NoArgs, Args
    <3> QED
      BY <1>1, <1>4, <2>1, <3>1
  <2>5. Requeue(q, <<r, s>>, [i \in Task |-> ReadyQueue(i)])
           \in [QueueName -> Seq(Task)]
    <3>1. <<r, s>> \in Seq(Task)
      BY <2>1
    <3> QED
      BY <1>1, <3>1, RequeueProperties
  <2>6. [st EXCEPT ![s] = "RUNNING", ![r] = "RUNNING"] \in [Task -> TaskState]
    BY <1>1 DEF TaskState
  <2>7. {<<r, a[s].len>>, <<s, 0>>} \in SUBSET (Task \X Int)
    BY <2>1, <2>2
  <2>8. TaskTypes' /\ poll_count' = poll_count
    BY <1>4, Unchanged DEF TypeOK
  <2> QED
    BY <1>4, <2>3, <2>4, <2>5, <2>6, <2>7, <2>8, TriggerTypes
<1> QED
  BY <1>2, <1>3, <1>4 DEF Exchange

LEMMA SendTypes ==
    ASSUME TypeOK, NEW t \in Task, NEW fd \in AnyFd, NEW len \in Nat,
           NEW sch \in AnyFd, NEW nonblock, Send(t, fd, len, sch, nonblock)
    PROVE  TypeOK'
<1> DEFINE err == ExchangeError(t, fd, "RECV", nonblock, sch)
           x == IF sch = -1 THEN [NoArgs EXCEPT !.len = len]
                ELSE [chan |-> ChannelOf(t, sch), flags |-> table[t].cd[sch].flags,
                      len |-> len, rch |-> FALSE]
<1>1. CASE Answer(t, err)
  <2>1. err \in Int
    BY ErrnoType DEF ExchangeError
  <2> QED
    BY <1>1, <2>1, AnswerType
<1>2. CASE err = 0 /\ Exchange(t, "RECV", ChannelOf(t, fd), x)
  <2>1. ValidChannel(t, fd) /\ (sch # -1 => ValidChannel(t, sch))
    BY <1>2 DEF ExchangeError, EBADF, EWOULDBLOCK
  <2>2. ChannelOf(t, fd) \in Channel
    BY <2>1, ValidChannelType DEF TypeOK
  <2>3. x \in Args
    <3>1. CASE sch = -1
      BY <3>1 DEF NoArgs, Args
    <3>2. CASE sch # -1
      <4>1. ChannelOf(t, sch) \in Channel /\ table[t].cd[sch].flags \in SUBSET Flag
        BY <2>1, <3>2, ValidChannelType DEF TypeOK
      <4> QED
        BY <3>2, <4>1 DEF Args
    <3> QED
      BY <3>1, <3>2
  <2> QED
    BY <1>2, <2>2, <2>3, ExchangeTypes DEF PollEvent
<1> QED
  BY <1>1, <1>2 DEF Send

LEMMA RecvTypes ==
    ASSUME TypeOK, NEW t \in Task, NEW fd \in AnyFd, NEW len \in Nat,
           NEW rch \in BOOLEAN, NEW nonblock, Recv(t, fd, len, rch, nonblock)
    PROVE  TypeOK'
<1> DEFINE err == ExchangeError(t, fd, "SEND", nonblock, -1)
           x == [NoArgs EXCEPT !.len = len, !.rch = rch]
<1>1. CASE Answer(t, err)
  <2>1. err \in Int
    BY ErrnoType DEF ExchangeError
  <2> QED
    BY <1>1, <2>1, AnswerType
<1>2. CASE err = 0 /\ Exchange(t, "SEND", ChannelOf(t, fd), x)
  <2>1. ValidChannel(t, fd)
    BY <1>2 DEF ExchangeError, EBADF
  <2>2. ChannelOf(t, fd) \in Channel
    BY <2>1, ValidChannelType DEF TypeOK
  <2>3. x \in Args
    BY DEF NoArgs, Args
  <2> QED
    BY <1>2, <2>2, <2>3, ExchangeTypes DEF PollEvent
<1> QED
  BY <1>1, <1>2 DEF Recv

LEMMA EventWaitTypes ==
    ASSUME TypeOK, NEW t \in Task, NEW e, EventWait(t, e)
    PROVE  TypeOK'
<1>1. CASE Answer(t, EINVAL)
  BY <1>1, AnswerType, ErrnoType
<1>2. CASE /\ state' = [state EXCEPT ![t] = "EVENT_BLOCKED"]
           /\ queue' = Requeue(queue, <<t>>, [i \in {t} |-> <<"event", e>>])
           /\ Leave({}) /\ pollresult' = {}
           /\ UNCHANGED <<taskVars, args, chanVars, pollVars, panic>>
  <2>1. queue' \in [QueueName -> Seq(Task)]
    BY <1>2, OneTask, RunQueueTypes DEF TypeOK
  <2>2. RunTypes'
    BY <1>2, <2>1 DEF TypeOK, RunTypes, TaskState
  <2>3. {} \in SUBSET (Task \X Int)
    OBVIOUS
  <2> QED
    BY <1>2, <2>2, <2>3, LeaveType, Unchanged DEF TypeOK
<1> QED
  BY <1>1, <1>2 DEF EventWait

LEMMA AwaitingType ==
    ASSUME RunTypes, NEW e
    PROVE  Awaiting(e) \in Seq(Task) /\ Range(Awaiting(e)) \subseteq Task
<1>1. e \in Event => <<"event", e>> \in QueueName
  BY DEF QueueName
<1>2. Awaiting(e) \in Seq(Task)
  BY <1>1, EmptySeq DEF Awaiting, RunTypes
<1> QED
  BY <1>2, RangeOfSeq

LEMMA EventUnblockAllTypes ==
    ASSUME TypeOK, NEW e, NEW R \in SUBSET (Task \X Int), EventUnblockAll(e, R)
    PROVE  TypeOK'
<1> DEFINE woken == Awaiting(e)
<1>1. woken \in Seq(Task) /\ Range(woken) \subseteq Task
  BY AwaitingType DEF TypeOK
<1>2. /\ queue' = Requeue(queue, woken, [i \in Task |-> ReadyQueue(i)])
      /\ state' = [i \in Task |-> IF i \in Range(woken) THEN "RUNNING" ELSE state[i]]
      /\ Leave(R \cup {<<i, 0>> : i \in Range(woken)}) /\ pollresult' = {}
      /\ UNCHANGED <<taskVars, args, chanVars, pollVars, panic>>
  BY DEF EventUnblockAll
<1> HIDE DEF woken
<1>3. RunTypes'
  <2>1. queue' \in [QueueName -> Seq(Task)]
    BY <1>1, <1>2, RunQueueTypes DEF TypeOK
  <2> QED
    BY <1>2, <2>1 DEF TypeOK, RunTypes, TaskState
<1>4. R \cup {<<i, 0>> : i \in Range(woken)} \in SUBSET (Task \X Int)
  BY <1>1
<1> QED
  BY <1>2, <1>3, <1>4, LeaveType, Unchanged DEF TypeOK

LEMMA SuspendTypes ==
    ASSUME TypeOK, NEW t \in Task, NEW e, Suspend(t, e)
    PROVE  TypeOK'
<1>1. {<<t, 0>>} \in SUBSET (Task \X Int)
  OBVIOUS
<1> QED
  BY <1>1, EventUnblockAllTypes DEF Suspend

LEMMA InterruptTypes ==
    ASSUME TypeOK, NEW e, Interrupt(e)
    PROVE  TypeOK'
BY EventUnblockAllTypes DEF Interrupt

LEMMA ParentOfType ==
    ASSUME TypeOK, NEW t \in Task
    PROVE  ParentOf(t) \in Nat
BY DEF ParentOf, TypeOK, TaskTypes

LEMMA QueryTypes ==
    ASSUME TypeOK, NEW t \in Task,
           \/ Gettid(t) \/ Yield(t) \/ Getptid(t)
           \/ \E id \in TidArg, null \in NullArgs : Taskstat(t, id, null)
    PROVE  TypeOK'
<1>1. CASE Gettid(t)
  <2>1. tid[t] \in Int
    BY DEF TypeOK, TaskTypes
  <2> QED
    BY <1>1, <2>1, AnswerType DEF Gettid
<1>2. CASE Yield(t)
  BY <1>2, AnswerType DEF Yield
<1>3. ASSUME NEW r \in Int,
             ptid' = [ptid EXCEPT ![t] = ParentOf(t)],
             Leave({<<t, r>>}), pollresult' = {},
             UNCHANGED <<next_tidx, tid, priority, daemon, task_count,
                         nondaemon_count, runVars, chanVars, pollVars, panic>>
      PROVE  TypeOK'
  <2>1. TaskTypes'
    BY <1>3, ParentOfType DEF TypeOK, TaskTypes
  <2>2. {<<t, r>>} \in SUBSET (Task \X Int)
    OBVIOUS
  <2> QED
    BY <1>3, <2>1, <2>2, LeaveType, Unchanged DEF TypeOK
<1>4. CASE Getptid(t)
  BY <1>3, <1>4, ParentOfType DEF Getptid
<1>5. ASSUME NEW id \in TidArg, NEW null \in NullArgs, Taskstat(t, id, null)
      PROVE  TypeOK'
  <2> DEFINE r == IF id = 0 THEN (IF null THEN task_count ELSE 0)
                  ELSE IF GetTask(id) = {} THEN ESRCH ELSE 0
  <2>1. r \in Int
    BY ErrnoType DEF TypeOK, TaskTypes
  <2>2. CASE Answer(t, r)
    BY <2>1, <2>2, AnswerType
  <2>3. CASE /\ ptid' = [ptid EXCEPT ![t] = ParentOf(t)]
             /\ Leave({<<t, r>>}) /\ pollresult' = {}
             /\ UNCHANGED <<next_tidx, tid, priority, daemon, task_count,
                            nondaemon_count, runVars, chanVars, pollVars, panic>>
    BY <1>3, <2>1, <2>3
  <2> QED
    BY <1>5, <2>2, <2>3 DEF Taskstat
<1> QED
  BY <1>1, <1>2, <1>4, <1>5

-----------------------------------------------------------------------------
(* The main loop.                                                          *)

LEMMA HighestType ==
    ASSUME ReadyPrios # {}
    PROVE  /\ Highest \in ReadyPrios /\ Highest \in Prio
           /\ \A p \in ReadyPrios : Highest <= p
<1>1. ReadyPrios \in SUBSET (0 .. (NPrio - 1)) /\ NPrio - 1 \in Nat
  BY NPrioAssumption DEF ReadyPrios, Prio
<1>2. \E p \in ReadyPrios : \A r \in ReadyPrios : p <= r
  BY <1>1, LeastElement
<1> QED
  BY <1>1, <1>2 DEF Highest, Prio

LEMMA ScheduleTypes ==
    ASSUME TypeOK, Schedule
    PROVE  TypeOK'
<1> DEFINE ready == queue[<<"ready", Highest>>]
<1>1. CASE Panic("no task to schedule")
  BY <1>1, PanicType DEF Panics
<1>2. CASE /\ ReadyPrios # {}
           /\ queue' = [queue EXCEPT ![<<"ready", Highest>>] = Advance(ready)]
           /\ current' = Head(ready)
           /\ ret' = {} /\ pollresult' = {}
           /\ UNCHANGED <<taskVars, state, args, chanVars, pollVars, panic>>
  <2>1. <<"ready", Highest>> \in QueueName /\ ready # <<>>
    BY <1>2, HighestType DEF QueueName, ReadyPrios
  <2>2. ready \in Seq(Task)
    BY <2>1 DEF TypeOK, RunTypes
  <2>3. Head(ready) \in Task /\ Tail(ready) \in Seq(Task)
    BY <2>1, <2>2, HeadTailProperties
  <2>4. Advance(ready) \in Seq(Task)
    BY <2>3, AppendProperties DEF Advance
  <2>5. RunTypes'
    BY <1>2, <2>4 DEF TypeOK, RunTypes
  <2> QED
    BY <1>2, <2>3, <2>5, Unchanged DEF TypeOK
<1> QED
  BY <1>1, <1>2 DEF Schedule

LEMMA InitTypes == Init => TypeOK
<1> SUFFICES ASSUME Init PROVE TypeOK
  OBVIOUS
<1>1. 1 \in Task /\ 2 \in Task
  BY MaxTasksAssumption DEF Task
<1>2. TaskTypes
  <2>1. NPrio - 1 \in Prio /\ NPrio - 2 \in Prio
    BY NPrioAssumption DEF Prio
  <2>2. \A i \in Task : MakeTid(i, 0) \in Nat
    BY MaxTasksAssumption DEF MakeTid, Task
  <2> QED
    BY <2>1, <2>2, MaxTasksAssumption DEF Init, TaskTypes
<1>3. RunTypes
  <2>1. <<>> \in Seq(Task) /\ <<1>> \in Seq(Task) /\ <<2>> \in Seq(Task)
    BY <1>1
  <2>2. queue \in [QueueName -> Seq(Task)]
    BY <2>1 DEF Init
  <2>3. NoArgs \in Args
    BY DEF NoArgs, Args
  <2> QED
    BY <2>2, <2>3 DEF Init, RunTypes, TaskState
<1>4. ChannelTypes
  <2>1. ClearTable(0) \in Table
    BY ClearTableType, MaxFdsAssumption
  <2> QED
    BY <2>1 DEF Init, ChannelTypes
<1>5. PollTypes
  BY EmptySeq DEF Init, PollTypes
<1> QED
  BY <1>2, <1>3, <1>4, <1>5 DEF Init, TypeOK, Panics

LEMMA TypeStep == TypeOK /\ [Next]_vars => TypeOK'
<1> SUFFICES ASSUME TypeOK, [Next]_vars PROVE TypeOK'
  OBVIOUS
<1>1. CASE UNCHANGED vars
  BY <1>1, Unchanged DEF vars, TypeOK
<1>2. CASE Schedule
  BY <1>2, ScheduleTypes
<1>3. ASSUME NEW t \in Task, ChannelCall(t) PROVE TypeOK'
  BY <1>3, NewChannelTypes, CloseTypes, ChanflagsTypes, DupSelfTypes, DupTypes,
     InputAssumption DEF ChannelCall
<1>4. ASSUME NEW t \in Task, MessageCall(t) PROVE TypeOK'
  BY <1>4, SendTypes, RecvTypes, InputAssumption DEF MessageCall
<1>5. ASSUME NEW t \in Task, PollCall(t) PROVE TypeOK'
  BY <1>5, PollAddTypes, PollRemoveTypes, PollWaitTypes, InputAssumption DEF PollCall
<1>6. ASSUME NEW t \in Task, TaskCall(t) PROVE TypeOK'
  BY <1>6, SpawnTypes, ExitTaskTypes, QueryTypes, EventWaitTypes, SuspendTypes,
     InputAssumption DEF TaskCall
<1>7. ASSUME NEW e, Interrupt(e) PROVE TypeOK'
  BY <1>7, InterruptTypes
<1> QED
  BY <1>1, <1>2, <1>3, <1>4, <1>5, <1>6, <1>7 DEF Next, Stopped

(* Every variable of the kernel keeps its type: no descriptor number,      *)
(* poll node or task index outside its table is ever stored or handed out  *)
(* (alloc_channel_desc, task_alloc), and the kernel stops with no other    *)
(* panic than those listed.                                                *)
THEOREM KernelTypes == Spec => []TypeOK
<1>1. Init => TypeOK
  BY InitTypes
<1>2. TypeOK /\ [Next]_vars => TypeOK'
  BY TypeStep
<1> QED
  BY <1>1, <1>2, PTL DEF Spec
-----------------------------------------------------------------------------
(***************************************************************************)
(* Who waits where: theorems about the queues of tasks and the poll lists  *)
(* of the kernel.                                                          *)
(***************************************************************************)

(* With task states st and queues q, every task is on the queue (or one of *)
(* the queues) its state asks for and on no other, and a structure that    *)
(* was never allocated is on none.                                         *)
Settled(st, q) ==
    /\ \A n \in QueueName : \A i \in Range(q[n]) :
          i < next_tidx /\ n \in HomeQueues(st, i)
    /\ \A i \in Task : i < next_tidx =>
          \E n \in QueueName : n \in HomeQueues(st, i) /\ i \in Range(q[n])
    /\ \A i \in Task : i >= next_tidx => st[i] = "DEAD"

(* The steps of sys_send, sys_recv and handle_receive: task t joins side    *)
(* ev of channel c, sender s and receiver r of c go on.                    *)
Joined(t, ev) == [state EXCEPT ![t] = IF ev = "RECV" THEN "SEND_BLOCKED"
                                                     ELSE "RECV_BLOCKED"]
JoinedQueue(t, ev, c) ==
    Requeue(queue, <<t>>, [i \in {t} |-> <<Side(ev), c>>])
ToReady(q, ts) == Requeue(q, ts, [i \in Task |-> ReadyQueue(i)])
FirstSender(q, c) == Peek(q[<<"senders", c>>])
FirstReceiver(q, c) == Peek(q[<<"receivers", c>>])
GoOn(st, s, r) == [st EXCEPT ![s] = "RUNNING", ![r] = "RUNNING"]

(* Queues q are those of the kernel, but for a task t that came to queue n *)
(* (and may have left another).                                            *)
CameTo(t, n, q) ==
    /\ \A m \in QueueName \ {n} : queue[m] = <<>> => q[m] = <<>>
    /\ Range(q[n]) = Range(queue[n]) \cup {t}

(* The channel queues that are empty in q are empty in q2. *)
NoNewWaiter(q, q2) ==
    \A c \in Channel, ev \in PollEvent :
       q[<<Side(ev), c>>] = <<>> => q2[<<Side(ev), c>>] = <<>>

OneSided(q) ==
    \A c \in Channel : q[<<"senders", c>>] = <<>> \/ q[<<"receivers", c>>] = <<>>

CurrentRuns ==
    current # NoTask => current < next_tidx /\ state[current] = "RUNNING"

(* The panics that check what is on a queue. *)
QueuePanics == {"no task to schedule", "Tried to exit non-running task!",
    "Task had a non-blocked task on send queue",
    "Task had a non-blocked task on receive queue"}

NoQueuePanic == panic \notin QueuePanics

(* On a free channel nothing waits. *)
FreeQuiet ==
    \A c \in free_channel :
        /\ queue[<<"senders", c>>] = <<>> /\ queue[<<"receivers", c>>] = <<>>
        /\ \A ev \in PollEvent : poll_list[<<c, ev>>] = <<>>

(* The inductive invariant, but for what FreeQuiet rests on. *)
QueueInv ==
    /\ TypeOK
    /\ Settled(state, queue) /\ Idle < next_tidx /\ CurrentRuns
    /\ NobodyMissed /\ NoLostPoll /\ PriorityRespected /\ NoQueuePanic

-----------------------------------------------------------------------------
LEMMA OwnerType ==
    ASSUME ChannelTypes
    PROVE  \A n \in Node : table[n[1]].cd[n[2]].task \in Task \cup {NoTask}
<1> SUFFICES ASSUME NEW n \in Node
             PROVE  table[n[1]].cd[n[2]].task \in Task \cup {NoTask}
  OBVIOUS
<1>1. n[1] \in Task /\ n[2] \in Fd
  BY DEF Node
<1>2. table[n[1]] \in Table
  BY <1>1 DEF ChannelTypes
<1>3. table[n[1]].cd[n[2]] \in Desc
  BY <1>1, <1>2, TableParts
<1> QED
  BY <1>3, DescParts

(* Moving tasks.                                                           *)

LEMMA TwoTasks ==
    ASSUME NEW i \in Task, NEW j \in Task
    PROVE  <<i, j>> \in Seq(Task) /\ Range(<<i, j>>) = {i, j}
<1>1. DOMAIN <<i, j>> = {1, 2} /\ <<i, j>>[1] = i /\ <<i, j>>[2] = j
  OBVIOUS
<1> QED
  BY <1>1 DEF Range

LEMMA HeadInRange ==
    ASSUME NEW s \in Seq(Task), s # <<>>
    PROVE  Head(s) \in Range(s) /\ Head(s) \in Task
<1>1. 1 \in DOMAIN s /\ Head(s) = s[1]
  <2>1. DOMAIN s = 1 .. Len(s) /\ Len(s) \in Nat /\ Len(s) # 0
    BY LenProperties, EmptySeq
  <2> QED
    BY <2>1
<1> QED
  BY <1>1, HeadTailProperties DEF Range

LEMMA HomeQueueNames ==
    ASSUME TypeOK, NEW st \in [Task -> TaskState], NEW i \in Task
    PROVE  /\ ReadyQueue(i) \in QueueName
           /\ st[i] = "RUNNING" => HomeQueues(st, i) = {ReadyQueue(i)}
           /\ st[i] = "SEND_BLOCKED" => HomeQueues(st, i) = {"senders"} \X Channel
           /\ st[i] = "RECV_BLOCKED" => HomeQueues(st, i) = {"receivers"} \X Channel
           /\ st[i] = "EVENT_BLOCKED" => HomeQueues(st, i) = {"event"} \X Event
           /\ st[i] = "POLL_BLOCKED" => HomeQueues(st, i) = {<<"poll", 0>>}
           /\ st[i] = "DEAD" => HomeQueues(st, i) = {<<"free", 0>>}
BY DEF HomeQueues, TypeOK, TaskTypes, ReadyQueue, QueueName, TaskState

LEMMA SameHome ==
    ASSUME NEW st, NEW st2, NEW i, st[i] = st2[i]
    PROVE  HomeQueues(st, i) = HomeQueues(st2, i)
BY DEF HomeQueues

(* The state of a task on a queue. *)
LEMMA QueueStates ==
    ASSUME TypeOK, NEW st \in [Task -> TaskState], NEW i \in Task, NEW n,
           n \in HomeQueues(st, i)
    PROVE  /\ n[1] = "ready" => st[i] = "RUNNING" /\ n = ReadyQueue(i)
           /\ n[1] = "senders" => st[i] = "SEND_BLOCKED"
           /\ n[1] = "receivers" => st[i] = "RECV_BLOCKED"
           /\ n[1] = "event" => st[i] = "EVENT_BLOCKED"
           /\ n[1] = "poll" => st[i] = "POLL_BLOCKED"
           /\ n[1] = "free" => st[i] = "DEAD"
<1>1. st[i] \in TaskState
  OBVIOUS
<1>2. ReadyQueue(i)[1] = "ready"
  BY DEF ReadyQueue
<1> QED
  BY <1>1, <1>2, HomeQueueNames DEF TaskState

(* task_move together with the change of state it goes with. *)
LEMMA MoveSettles ==
    ASSUME TypeOK, NEW st \in [Task -> TaskState], NEW st2 \in [Task -> TaskState],
           NEW q \in [QueueName -> Seq(Task)], Settled(st, q),
           NEW ts \in Seq(Task), NEW dest,
           \A i \in Task \ Range(ts) : st2[i] = st[i],
           \A i \in Range(ts) : /\ i < next_tidx
                                /\ dest[i] \in QueueName
                                /\ dest[i] \in HomeQueues(st2, i)
    PROVE  Settled(st2, Requeue(q, ts, dest))
<1> DEFINE q2 == Requeue(q, ts, dest)
<1>1. \A n \in QueueName :
         Range(q2[n]) = (Range(q[n]) \ Range(ts)) \cup {i \in Range(ts) : dest[i] = n}
  BY RequeueProperties
<1>2. Range(ts) \subseteq Task
  BY RangeOfSeq
<1>3. \A n \in QueueName : Range(q[n]) \subseteq Task
  BY RangeOfSeq
<1> HIDE DEF q2
<1>4. ASSUME NEW n \in QueueName, NEW i \in Range(q2[n])
      PROVE  i < next_tidx /\ n \in HomeQueues(st2, i)
  <2>1. CASE i \in Range(ts)
    BY <1>1, <1>4, <2>1
  <2>2. CASE i \notin Range(ts)
    <3>1. i \in Range(q[n]) /\ i \in Task
      BY <1>1, <1>3, <1>4, <2>2
    <3>2. i < next_tidx /\ n \in HomeQueues(st, i)
      BY <3>1 DEF Settled
    <3> QED
      BY <2>2, <3>1, <3>2, SameHome
  <2> QED
    BY <2>1, <2>2
<1>5. ASSUME NEW i \in Task, i < next_tidx
      PROVE  \E n \in QueueName : n \in HomeQueues(st2, i) /\ i \in Range(q2[n])
  <2>1. CASE i \in Range(ts)
    BY <1>1, <2>1
  <2>2. CASE i \notin Range(ts)
    <3>1. PICK n \in QueueName : n \in HomeQueues(st, i) /\ i \in Range(q[n])
      BY <1>5 DEF Settled
    <3>2. n \in HomeQueues(st2, i)
      BY <2>2, <3>1, SameHome
    <3> QED
      BY <1>1, <2>2, <3>1, <3>2
  <2> QED
    BY <2>1, <2>2
<1>6. ASSUME NEW i \in Task, i >= next_tidx
      PROVE  st2[i] = "DEAD"
  <2>1. i \notin Range(ts)
    BY <1>6 DEF TypeOK, TaskTypes, Task
  <2> QED
    BY <1>6, <2>1 DEF Settled
<1> QED
  BY <1>4, <1>5, <1>6 DEF Settled, q2

(* A queue to which nothing moves does not grow. *)
LEMMA MoveShrinks ==
    ASSUME NEW q \in [QueueName -> Seq(Task)], NEW ts \in Seq(Task), NEW dest,
           NEW n \in QueueName, \A i \in Range(ts) : dest[i] # n
    PROVE  /\ Range(Requeue(q, ts, dest)[n]) = Range(q[n]) \ Range(ts)
           /\ q[n] = <<>> => Requeue(q, ts, dest)[n] = <<>>
<1>1. /\ Requeue(q, ts, dest)[n] \in Seq(Task) /\ q[n] \in Seq(Task)
      /\ Range(Requeue(q, ts, dest)[n]) = Range(q[n]) \ Range(ts)
  <2>1. Requeue(q, ts, dest) \in [QueueName -> Seq(Task)]
    BY RequeueProperties
  <2>2. Range(Requeue(q, ts, dest)[n]) =
           (Range(q[n]) \ Range(ts)) \cup {i \in Range(ts) : dest[i] = n}
    BY RequeueProperties
  <2>3. {i \in Range(ts) : dest[i] = n} = {}
    OBVIOUS
  <2> QED
    BY <2>1, <2>2, <2>3
<1> QED
  BY <1>1, EmptyRange

(* Nothing but the channel queues matters to senders, receivers and polls. *)
LEMMA MoveAside ==
    ASSUME NEW q \in [QueueName -> Seq(Task)], NEW ts \in Seq(Task), NEW dest,
           \A i \in Range(ts) : \A c \in Channel :
              dest[i] # <<"senders", c>> /\ dest[i] # <<"receivers", c>>
    PROVE  /\ OneSided(q) => OneSided(Requeue(q, ts, dest))
           /\ \A c \in Channel, ev \in PollEvent :
                 q[<<Side(ev), c>>] = <<>> => Requeue(q, ts, dest)[<<Side(ev), c>>] = <<>>
<1>1. \A c \in Channel, kind \in {"senders", "receivers"} :
         q[<<kind, c>>] = <<>> => Requeue(q, ts, dest)[<<kind, c>>] = <<>>
  <2> SUFFICES ASSUME NEW c \in Channel, NEW kind \in {"senders", "receivers"},
                      q[<<kind, c>>] = <<>>
               PROVE  Requeue(q, ts, dest)[<<kind, c>>] = <<>>
    OBVIOUS
  <2> DEFINE n == <<kind, c>>
  <2>1. n \in QueueName /\ q[n] = <<>> /\ \A i \in Range(ts) : dest[i] # n
    BY SideNames
  <2> HIDE DEF n
  <2>2. Requeue(q, ts, dest)[n] = <<>>
    BY <2>1, MoveShrinks
  <2> QED
    BY <2>2 DEF n
<1> QED
  BY <1>1 DEF OneSided, Side

-----------------------------------------------------------------------------
(* How a step ends.                                                        *)

LEMMA StepEnds ==
    ASSUME QueueInv, TypeOK', UNCHANGED <<next_tidx, priority>>,
           Settled(state', queue'), OneSided(queue'), state'[Idle] = "RUNNING",
           current' = NoTask, NoLostPoll', NoQueuePanic'
    PROVE  QueueInv'
<1>1. (Settled(state, queue))'
  BY DEF Settled, HomeQueues, ReadyQueue
<1>2. CurrentRuns' /\ PriorityRespected'
  BY DEF CurrentRuns, PriorityRespected
<1>3. NobodyMissed'
  BY DEF NobodyMissed, OneSided
<1>4. (Idle < next_tidx)'
  BY DEF QueueInv, Idle
<1> QED
  BY <1>1, <1>2, <1>3, <1>4 DEF QueueInv

(* A step that moves no task. *)
LEMMA QuietStep ==
    ASSUME QueueInv, TypeOK', UNCHANGED <<next_tidx, priority, state, queue>>,
           current' = NoTask, NoLostPoll', NoQueuePanic'
    PROVE  QueueInv'
<1>1. Settled(state', queue') /\ OneSided(queue') /\ state'[Idle] = "RUNNING"
  BY DEF QueueInv, Settled, OneSided, NobodyMissed, PriorityRespected
<1> QED
  BY <1>1, StepEnds

LEMMA PollsShrink ==
    ASSUME NoLostPoll, UNCHANGED <<state, queue>>,
           \A l \in Channel \X PollEvent : poll_list[l] = <<>> => poll_list'[l] = <<>>,
           \A l \in Task \X PollEvent : poll_queue[l] = <<>> => poll_queue'[l] = <<>>
    PROVE  NoLostPoll'
BY DEF NoLostPoll

LEMMA UnlinkEmpty ==
    ASSUME NEW N, NEW E, PollTypes,
           poll_list' = Unlink(poll_list, N, E), poll_queue' = Unlink(poll_queue, N, E)
    PROVE  /\ \A l \in Channel \X PollEvent : poll_list[l] = <<>> => poll_list'[l] = <<>>
           /\ \A l \in Task \X PollEvent : poll_queue[l] = <<>> => poll_queue'[l] = <<>>
<1>1. Range(<<>>) \cap N = {}
  BY DEF Range
<1>2. Without(<<>>, N) = <<>>
  BY <1>1 DEF Without
<1>3. ASSUME NEW D, NEW lists, DOMAIN lists = D, NEW l \in D, lists[l] = <<>>
      PROVE  Unlink(lists, N, E)[l] = <<>>
  BY <1>2, <1>3 DEF Unlink
<1>4. DOMAIN poll_list = Channel \X PollEvent /\ DOMAIN poll_queue = Task \X PollEvent
  BY DEF PollTypes
<1>5. ASSUME NEW l \in Channel \X PollEvent, poll_list[l] = <<>>
      PROVE  poll_list'[l] = <<>>
  BY <1>3, <1>4, <1>5
<1>6. ASSUME NEW l \in Task \X PollEvent, poll_queue[l] = <<>>
      PROVE  poll_queue'[l] = <<>>
  BY <1>3, <1>4, <1>6
<1> QED
  BY <1>5, <1>6

LEMMA SameQueues ==
    ASSUME UNCHANGED queue
    PROVE  NoNewWaiter(queue, queue')
BY DEF NoNewWaiter

LEMMA AnswerKeeps ==
    ASSUME QueueInv, TypeOK', NEW t, NEW r, Answer(t, r)
    PROVE  QueueInv' /\ NoNewWaiter(queue, queue')
<1>1. /\ UNCHANGED <<next_tidx, priority, state, queue, poll_list, poll_queue, panic>>
      /\ current' = NoTask
  BY DEF Answer, Leave, taskVars, runVars, pollVars
<1>2. NoLostPoll' /\ NoQueuePanic'
  BY <1>1 DEF QueueInv, NoLostPoll, NoQueuePanic
<1> QED
  BY <1>1, <1>2, QuietStep, SameQueues

LEMMA PanicKeeps ==
    ASSUME QueueInv, TypeOK', NEW why, why \notin QueuePanics, Panic(why)
    PROVE  QueueInv' /\ NoNewWaiter(queue, queue')
<1>1. /\ UNCHANGED <<next_tidx, priority, state, queue, poll_list, poll_queue>>
      /\ current' = NoTask /\ panic' = why
  BY DEF Panic, Leave, taskVars, runVars, pollVars
<1>2. NoLostPoll' /\ NoQueuePanic'
  BY <1>1 DEF QueueInv, NoLostPoll, NoQueuePanic
<1> QED
  BY <1>1, <1>2, QuietStep, SameQueues

LEMMA CloseFailureHarmless ==
    ASSUME NEW t, NEW tb, NEW F
    PROVE  CloseFailure(t, tb, F) \notin QueuePanics
BY DEF CloseFailure, QueuePanics

LEMMA ClosePollsKeeps ==
    ASSUME QueueInv, TypeOK', NEW t, NEW F, ClosePolls(t, F),
           UNCHANGED <<next_tidx, priority, state, queue, panic>>, current' = NoTask
    PROVE  QueueInv'
<1>1. PollTypes /\ NoLostPoll
  BY DEF QueueInv, TypeOK
<1>2. NoLostPoll'
  BY <1>1, UnlinkEmpty, PollsShrink DEF ClosePolls
<1>3. NoQueuePanic'
  BY DEF QueueInv, NoQueuePanic
<1> QED
  BY <1>2, <1>3, QuietStep

(* What is known of the task that calls. *)
LEMMA CallerFacts ==
    ASSUME QueueInv, NEW t \in Task, current = t
    PROVE  t < next_tidx /\ state[t] = "RUNNING"
<1>1. t # NoTask
  BY DEF Task, NoTask
<1> QED
  BY <1>1 DEF QueueInv, CurrentRuns

(* The nodes that handle_poll passes over are not active: none goes back   *)
(* to the list of a channel on which its event is there.                   *)
LEMMA InactiveNodes ==
    ASSUME PollTypes, NEW t \in Task, NEW c \in Channel, NEW ev \in PollEvent,
           Active(c, ev)
    PROVE  Keep(Inactive(t, ev), {n \in Node : ChannelOf(n[1], n[2]) = c}) = <<>>
<1> DEFINE s == poll_queue[<<t, ev>>]
           x == Inactive(t, ev)
           N == {n \in Node : ChannelOf(n[1], n[2]) = c}
<1>1. s \in Seq(Node) /\ x \in Seq(Node) /\ Hit(t, ev) \in 0 .. Len(s)
  BY HitType
<1>2. Len(s) \in Nat /\ DOMAIN s = 1 .. Len(s)
  BY <1>1, LenProperties
<1>3. \A k \in DOMAIN s : k < Hit(t, ev) \/ Hit(t, ev) = 0 => k \notin ActiveAt(t, ev)
  <2>1. ActiveAt(t, ev) \in SUBSET (0 .. Len(s))
    BY <1>2 DEF ActiveAt
  <2>2. CASE ActiveAt(t, ev) # {}
    <3>1. \E k \in ActiveAt(t, ev) : \A j \in ActiveAt(t, ev) : k <= j
      BY <1>2, <2>1, <2>2, LeastElement
    <3>2. Hit(t, ev) \in ActiveAt(t, ev) /\ \A j \in ActiveAt(t, ev) : Hit(t, ev) <= j
      BY <2>2, <3>1 DEF Hit
    <3>3. \A k \in ActiveAt(t, ev) : k # 0
      BY <1>2 DEF ActiveAt
    <3> QED
      BY <1>1, <1>2, <3>2, <3>3
  <2> QED
    BY <2>2
<1>4. \A n \in Range(x) : \E k \in DOMAIN s : n = s[k] /\ k \notin ActiveAt(t, ev)
  <2>1. CASE Hit(t, ev) = 0
    BY <1>3, <2>1 DEF Inactive, Range
  <2>2. CASE Hit(t, ev) # 0
    <3> DEFINE m == Hit(t, ev) - 1
    <3>1. x = SubSeq(s, 1, m) /\ m \in 0 .. (Len(s) - 1)
      BY <1>1, <1>2, <2>2 DEF Inactive
    <3>2. /\ Len(x) = m /\ DOMAIN x = 1 .. m
          /\ \A k \in 1 .. m : x[k] = s[k]
      <4>1. m \in Int /\ \A k \in 1 .. m : s[k] \in Node
        BY <1>1, <1>2, <3>1, ElementOfSeq
      <4>2. /\ Len(SubSeq(s, 1, m)) = IF 1 <= m THEN m - 1 + 1 ELSE 0
            /\ \A k \in 1 .. (m - 1 + 1) : SubSeq(s, 1, m)[k] = s[1 + k - 1]
        BY <4>1, SubSeqProperties
      <4>3. DOMAIN x = 1 .. Len(x)
        BY <1>1, LenProperties
      <4> HIDE DEF m, s, x
      <4> QED
        BY <1>2, <3>1, <4>1, <4>2, <4>3
    <3>3. \A k \in 1 .. m : k \in DOMAIN s /\ k \notin ActiveAt(t, ev)
      <4> DEFINE h == Hit(t, ev)
      <4>1. h \in Int /\ Len(s) \in Nat /\ m = h - 1 /\ m <= Len(s) - 1
        BY <1>1, <1>2, <3>1
      <4>2. \A k \in DOMAIN s : k < h => k \notin ActiveAt(t, ev)
        BY <1>3
      <4> HIDE DEF h, m, s
      <4> QED
        BY <1>2, <4>1, <4>2
    <3> HIDE DEF m, s, x
    <3> QED
      BY <3>2, <3>3 DEF Range
  <2> QED
    BY <2>1, <2>2
<1>5. \A n \in Range(x) : ~Active(ChannelOf(n[1], n[2]), ev)
  BY <1>4 DEF ActiveAt
<1>6. Range(x) \cap N = {}
  BY <1>5
<1> HIDE DEF x, N
<1>7. Keep(x, N) \in Seq(Node) /\ Range(Keep(x, N)) = {}
  BY <1>1, <1>6, KeepProperties
<1>8. Keep(x, N) = <<>>
  BY <1>7, EmptyRange
<1> QED
  BY <1>8 DEF x, N

-----------------------------------------------------------------------------
(* The invariant: one lemma for each operation.                            *)

LEMMA ChannelCallKeeps ==
    ASSUME QueueInv, FreeQuiet, TypeOK', NEW t \in Task, ChannelCall(t)
    PROVE  QueueInv'
<1>1. CASE NewChannel(t)
  <2> DEFINE no == NextFd(table[t])
  <2>1. CASE Answer(t, EMFILE)
    BY <2>1, AnswerKeeps
  <2>2. CASE Panic("relinked poll node")
    BY <2>2, PanicKeeps DEF QueuePanics
  <2>3. CASE
      /\ \E c \in free_channel :
             /\ queue' = [queue EXCEPT ![<<"senders", c>>] = <<>>,
                                       ![<<"receivers", c>>] = <<>>]
             /\ poll_list' = [l \in DOMAIN poll_list |->
                                 IF l[1] = c THEN <<>> ELSE poll_list[l]]
      /\ Leave({<<t, no>>}) /\ pollresult' = {}
      /\ UNCHANGED <<taskVars, state, args, poll_queue, poll_count, panic>>
    <3>1. PICK c \in free_channel :
             /\ queue' = [queue EXCEPT ![<<"senders", c>>] = <<>>,
                                       ![<<"receivers", c>>] = <<>>]
             /\ poll_list' = [l \in DOMAIN poll_list |->
                                 IF l[1] = c THEN <<>> ELSE poll_list[l]]
      BY <2>3
    <3>2. c \in Channel /\ c \in free_channel
      BY DEF QueueInv, TypeOK, ChannelTypes
    <3>3. queue' = queue
      <4>1. queue[<<"senders", c>>] = <<>> /\ queue[<<"receivers", c>>] = <<>>
        BY <3>2 DEF FreeQuiet
      <4>2. queue \in [QueueName -> Seq(Task)]
        BY DEF QueueInv, TypeOK, RunTypes
      <4> QED
        BY <3>1, <4>1, <4>2
    <3>4. poll_list' = poll_list
      <4>1. \A l \in Channel \X PollEvent : l[1] = c => poll_list[l] = <<>>
        <5>1. \A ev \in PollEvent : poll_list[<<c, ev>>] = <<>>
          BY <3>2 DEF FreeQuiet
        <5>2. \A l \in Channel \X PollEvent : l = <<l[1], l[2]>> /\ l[2] \in PollEvent
          OBVIOUS
        <5> QED
          BY <5>1, <5>2
      <4>2. poll_list \in [Channel \X PollEvent -> Seq(Node)]
        BY DEF QueueInv, TypeOK, PollTypes
      <4> QED
        BY <3>1, <4>1, <4>2
    <3>5. /\ UNCHANGED <<next_tidx, priority, state, poll_queue, panic>>
          /\ current' = NoTask
      BY <2>3 DEF Leave, taskVars
    <3>6. NoLostPoll' /\ NoQueuePanic'
      BY <3>3, <3>4, <3>5 DEF QueueInv, NoLostPoll, NoQueuePanic
    <3> QED
      BY <3>3, <3>5, <3>6, QuietStep
  <2> QED
    BY <1>1, <2>1, <2>2, <2>3 DEF NewChannel
<1>2. ASSUME NEW no \in FdArgs, Close(t, no) PROVE QueueInv'
  <2> DEFINE why == CloseFailure(t, table[t], {no})
  <2>1. CASE Answer(t, EBADF)
    BY <2>1, AnswerKeeps
  <2>2. CASE Panic(why)
    BY <2>2, PanicKeeps, CloseFailureHarmless
  <2>3. CASE /\ ClosePolls(t, {no}) /\ Leave({<<t, 0>>})
             /\ UNCHANGED <<taskVars, runVars, poll_count, panic>>
    BY <2>3, ClosePollsKeeps DEF Leave, taskVars, runVars
  <2> QED
    BY <1>2, <2>1, <2>2, <2>3 DEF Close
<1>3. ASSUME NEW fd \in FdArgs, Chanflags(t, fd) PROVE QueueInv'
  BY <1>3, AnswerKeeps DEF Chanflags
<1>4. ASSUME NEW fd \in FdArgs, NEW f \in FlagArgs, DupSelf(t, fd, f) PROVE QueueInv'
  <2>1. /\ UNCHANGED <<next_tidx, priority, state, queue, poll_list, poll_queue, panic>>
        /\ current' = NoTask
    BY <1>4 DEF DupSelf, Leave, taskVars, runVars, pollVars
  <2>2. NoLostPoll' /\ NoQueuePanic'
    BY <2>1 DEF QueueInv, NoLostPoll, NoQueuePanic
  <2> QED
    BY <2>1, <2>2, QuietStep
<1>5. ASSUME NEW fd \in FdArgs, NEW new \in DupTargets, Dup(t, fd, new)
      PROVE  QueueInv'
  <2> DEFINE err == DupError(t, fd, new)
             no  == IF new = -1 THEN NextFd(table[t]) ELSE new
             tb  == IF new = -1 THEN TakeFd(table[t], t) ELSE table[t]
             old == tb.cd[no].channel
             F   == IF old = NoChannel THEN {} ELSE {no}
             why == IF no = fd THEN "NULL pointer in the kernel"
                    ELSE IF F = {} /\ LinkedAtAll(<<t, no>>)
                    THEN "relinked poll node" ELSE CloseFailure(t, tb, F)
  <2>1. CASE Answer(t, err)
    BY <2>1, AnswerKeeps
  <2>2. CASE Panic(why)
    <3>1. why \notin QueuePanics
      BY CloseFailureHarmless DEF QueuePanics
    <3> HIDE DEF why
    <3> QED
      BY <2>2, <3>1, PanicKeeps
  <2>3. CASE /\ ClosePolls(t, F) /\ Leave({<<t, no>>})
             /\ UNCHANGED <<taskVars, runVars, poll_count, panic>>
    BY <2>3, ClosePollsKeeps DEF Leave, taskVars, runVars
  <2> QED
    BY <1>5, <2>1, <2>2, <2>3 DEF Dup
<1> QED
  BY <1>1, <1>2, <1>3, <1>4, <1>5 DEF ChannelCall

LEMMA PollCallKeeps ==
    ASSUME QueueInv, TypeOK', NEW t \in Task, PollCall(t)
    PROVE  QueueInv' /\ NoNewWaiter(queue, queue')
<1>0. t < next_tidx /\ state[t] = "RUNNING" /\ t # Idle
  BY CallerFacts DEF PollCall, PollAdd, PollRemove, PollWait, Caller
<1>1. ASSUME NEW fd \in FdArgs, NEW events \in PollArgs, PollAdd(t, fd, events)
      PROVE  QueueInv' /\ NoNewWaiter(queue, queue')
  <2> DEFINE new  == {ev \in events : ~Linked(<<t, fd>>, ev)}
             here == {ev \in new : Active(ChannelOf(t, fd), ev)}
  <2>1. CASE Answer(t, EBADF)
    BY <2>1, AnswerKeeps
  <2>2. CASE
      /\ poll_queue' = [l \in DOMAIN poll_queue |->
            IF l[1] = t /\ l[2] \in here
            THEN Append(poll_queue[l], <<t, fd>>) ELSE poll_queue[l]]
      /\ poll_list' = [l \in DOMAIN poll_list |->
            IF l[1] = ChannelOf(t, fd) /\ l[2] \in new \ here
            THEN Append(poll_list[l], <<t, fd>>) ELSE poll_list[l]]
      /\ Leave({<<t, 0>>}) /\ pollresult' = {}
      /\ UNCHANGED <<taskVars, runVars, chanVars, panic>>
    <3>1. UNCHANGED <<next_tidx, priority, state, queue, panic>> /\ current' = NoTask
      BY <2>2 DEF Leave, taskVars, runVars
    <3>2. \A c \in Channel, ev \in PollEvent :
             queue'[<<Side(ev), c>>] # <<>> => poll_list'[<<c, ev>>] = <<>>
      <4> SUFFICES ASSUME NEW c \in Channel, NEW ev \in PollEvent,
                          queue'[<<Side(ev), c>>] # <<>>
                   PROVE  poll_list'[<<c, ev>>] = <<>>
        OBVIOUS
      <4>1. queue[<<Side(ev), c>>] # <<>>
        BY <3>1
      <4>2. Active(c, ev) /\ poll_list[<<c, ev>>] = <<>>
        BY <4>1 DEF Active, QueueInv, NoLostPoll
      <4>3. ~(c = ChannelOf(t, fd) /\ ev \in new \ here)
        BY <4>2
      <4>4. DOMAIN poll_list = Channel \X PollEvent
        BY DEF QueueInv, TypeOK, PollTypes
      <4> HIDE DEF new, here
      <4> QED
        BY <2>2, <4>2, <4>3, <4>4
    <3>3. \A i \in Task, ev \in PollEvent :
             state'[i] = "POLL_BLOCKED" => poll_queue'[<<i, ev>>] = <<>>
      <4>1. DOMAIN poll_queue = Task \X PollEvent
        BY DEF QueueInv, TypeOK, PollTypes
      <4> HIDE DEF here
      <4> QED
        BY <1>0, <2>2, <3>1, <4>1 DEF QueueInv, NoLostPoll
    <3>4. NoLostPoll' /\ NoQueuePanic'
      BY <3>1, <3>2, <3>3 DEF QueueInv, NoLostPoll, NoQueuePanic, Side
    <3> QED
      BY <3>1, <3>4, QuietStep, SameQueues
  <2> QED
    BY <1>1, <2>1, <2>2 DEF PollAdd
<1>2. ASSUME NEW fd \in FdArgs, NEW events \in PollArgs, PollRemove(t, fd, events)
      PROVE  QueueInv' /\ NoNewWaiter(queue, queue')
  <2>1. CASE Answer(t, EBADF)
    BY <2>1, AnswerKeeps
  <2>2. CASE
      /\ poll_list' = Unlink(poll_list, {<<t, fd>>}, events)
      /\ poll_queue' = Unlink(poll_queue, {<<t, fd>>}, events)
      /\ Leave({<<t, 0>>}) /\ pollresult' = {}
      /\ UNCHANGED <<taskVars, runVars, chanVars, panic>>
    <3>1. UNCHANGED <<next_tidx, priority, state, queue, panic>> /\ current' = NoTask
      BY <2>2 DEF Leave, taskVars, runVars
    <3>2. PollTypes /\ NoLostPoll
      BY DEF QueueInv, TypeOK
    <3>3. NoLostPoll'
      BY <2>2, <3>1, <3>2, UnlinkEmpty, PollsShrink
    <3>4. NoQueuePanic'
      BY <3>1 DEF QueueInv, NoQueuePanic
    <3> QED
      BY <3>1, <3>3, <3>4, QuietStep, SameQueues
  <2> QED
    BY <1>2, <2>1, <2>2 DEF PollRemove
<1>3. ASSUME NEW null \in NullArgs, PollWait(t, null)
      PROVE  QueueInv' /\ NoNewWaiter(queue, queue')
  <2> DEFINE err   == IF poll_count[t] = 0 THEN EINVAL
                      ELSE IF null THEN EFAULT ELSE 0
             tried == IF Hit(t, "RECV") # 0 THEN {"RECV"} ELSE PollEvent
             found == {ev \in tried : Hit(t, ev) # 0}
             back(l) == Keep(Inactive(t, l[2]),
                             {n \in Node : ChannelOf(n[1], n[2]) = l[1]})
  <2>1. CASE Answer(t, err)
    BY <2>1, AnswerKeeps
  <2>2. CASE Panic("Unrecognized channel descriptor on poll queue")
    BY <2>2, PanicKeeps DEF QueuePanics
  <2>3. CASE
      /\ poll_list' = [l \in DOMAIN poll_list |->
            IF l[2] \in tried THEN poll_list[l] \o back(l) ELSE poll_list[l]]
      /\ poll_queue' = [l \in DOMAIN poll_queue |->
            IF l[1] = t /\ l[2] \in tried THEN Rotated(t, l[2])
            ELSE poll_queue[l]]
      /\ \/ /\ found = {}
            /\ state' = [state EXCEPT ![t] = "POLL_BLOCKED"]
            /\ queue' = Requeue(queue, <<t>>, [i \in {t} |-> <<"poll", 0>>])
            /\ Leave({}) /\ pollresult' = {}
         \/ /\ found # {}
            /\ queue' = Requeue(queue, <<t>>, [i \in {t} |-> ReadyQueue(i)])
            /\ UNCHANGED state
            /\ Leave({<<t, 0>>})
      /\ UNCHANGED <<taskVars, args, chanVars, poll_count, panic>>
    <3>1. PICK dest : /\ queue' = Requeue(queue, <<t>>, dest)
                      /\ dest[t] \in {<<"poll", 0>>, ReadyQueue(t)}
                      /\ dest[t] \in QueueName /\ dest[t] \in HomeQueues(state', t)
      <4>1. <<"poll", 0>> \in QueueName /\ ReadyQueue(t) \in QueueName
        BY HomeQueueNames DEF QueueName, QueueInv, TypeOK, RunTypes
      <4>2. state' \in [Task -> TaskState]
        BY DEF TypeOK, RunTypes
      <4>3. CASE /\ state' = [state EXCEPT ![t] = "POLL_BLOCKED"]
                 /\ queue' = Requeue(queue, <<t>>, [i \in {t} |-> <<"poll", 0>>])
        <5>1. state'[t] = "POLL_BLOCKED"
          BY <4>3 DEF QueueInv, TypeOK, RunTypes
        <5>2. <<"poll", 0>> \in HomeQueues(state', t)
          BY <4>2, <5>1, HomeQueueNames DEF QueueInv
        <5> QED
          BY <4>1, <4>3, <5>2
      <4>4. CASE /\ queue' = Requeue(queue, <<t>>, [i \in {t} |-> ReadyQueue(i)])
                 /\ UNCHANGED state
        <5>1. ReadyQueue(t) \in HomeQueues(state', t)
          BY <1>0, <4>2, <4>4, HomeQueueNames DEF QueueInv
        <5> QED
          BY <4>1, <4>4, <5>1
      <4> QED
        BY <2>3, <4>3, <4>4
    <3>2. /\ state \in [Task -> TaskState] /\ state' \in [Task -> TaskState]
          /\ queue \in [QueueName -> Seq(Task)]
          /\ \A i \in Task \ {t} : state'[i] = state[i]
      BY <2>3 DEF QueueInv, TypeOK, RunTypes
    <3>3. Settled(state', queue')
      BY <1>0, <3>1, <3>2, OneTask, MoveSettles DEF QueueInv
    <3>4. \A i \in {t} : \A c \in Channel :
             dest[i] # <<"senders", c>> /\ dest[i] # <<"receivers", c>>
      BY <3>1 DEF ReadyQueue
    <3>5. /\ OneSided(queue')
          /\ \A c \in Channel, ev \in PollEvent :
                queue[<<Side(ev), c>>] = <<>> => queue'[<<Side(ev), c>>] = <<>>
      <4>1. OneSided(queue)
        BY DEF QueueInv, NobodyMissed, OneSided
      <4>2. <<t>> \in Seq(Task) /\ Range(<<t>>) = {t}
        BY OneTask
      <4>3. \A i \in Range(<<t>>) : \A c \in Channel :
               dest[i] # <<"senders", c>> /\ dest[i] # <<"receivers", c>>
        BY <3>4, <4>2
      <4>4. /\ OneSided(queue) => OneSided(Requeue(queue, <<t>>, dest))
            /\ \A c \in Channel, ev \in PollEvent : queue[<<Side(ev), c>>] = <<>> =>
                  Requeue(queue, <<t>>, dest)[<<Side(ev), c>>] = <<>>
        BY <3>2, <4>2, <4>3, MoveAside
      <4> QED
        BY <3>1, <4>1, <4>4
    <3>6. \A c \in Channel, ev \in PollEvent :
             queue'[<<Side(ev), c>>] # <<>> => poll_list'[<<c, ev>>] = <<>>
      <4> SUFFICES ASSUME NEW c \in Channel, NEW ev \in PollEvent,
                          queue'[<<Side(ev), c>>] # <<>>
                   PROVE  poll_list'[<<c, ev>>] = <<>>
        OBVIOUS
      <4> DEFINE l == <<c, ev>>
      <4>1. queue[<<Side(ev), c>>] # <<>>
        BY <3>5
      <4>2. Active(c, ev) /\ poll_list[l] = <<>>
        BY <4>1 DEF Active, QueueInv, NoLostPoll
      <4>3. back(l) = <<>>
        BY <4>2, InactiveNodes DEF QueueInv, TypeOK
      <4>4. DOMAIN poll_list = Channel \X PollEvent
        BY DEF QueueInv, TypeOK, PollTypes
      <4>5. <<>> \o <<>> = <<>>
        OBVIOUS
      <4> HIDE DEF tried, back
      <4> QED
        BY <2>3, <4>2, <4>3, <4>4, <4>5
    <3>7. \A i \in Task, ev \in PollEvent :
             state'[i] = "POLL_BLOCKED" => poll_queue'[<<i, ev>>] = <<>>
      <4> SUFFICES ASSUME NEW i \in Task, NEW ev \in PollEvent,
                          state'[i] = "POLL_BLOCKED"
                   PROVE  poll_queue'[<<i, ev>>] = <<>>
        OBVIOUS
      <4>1. DOMAIN poll_queue = Task \X PollEvent
        BY DEF QueueInv, TypeOK, PollTypes
      <4>2. CASE i # t
        <5>1. poll_queue[<<i, ev>>] = <<>>
          BY <3>2, <4>2 DEF QueueInv, NoLostPoll
        <5> HIDE DEF tried
        <5> QED
          BY <2>3, <4>1, <4>2, <5>1
      <4>3. CASE i = t
        <5>1. found = {}
          BY <1>0, <2>3, <4>3
        <5>2. Hit(t, "RECV") = 0 /\ Hit(t, ev) = 0 /\ tried = PollEvent
          BY <5>1 DEF PollEvent
        <5>3. Rotated(t, ev) = <<>>
          BY <5>2 DEF Rotated
        <5> HIDE DEF tried
        <5> QED
          BY <2>3, <4>1, <4>3, <5>2, <5>3
      <4> QED
        BY <4>2, <4>3
    <3>8. NoLostPoll'
      BY <3>6, <3>7 DEF NoLostPoll, Side
    <3>9. /\ UNCHANGED <<next_tidx, priority>> /\ current' = NoTask /\ NoQueuePanic'
          /\ state'[Idle] = "RUNNING"
      <4>1. Idle \in Task
        BY MaxTasksAssumption DEF Idle, Task
      <4> QED
        BY <1>0, <2>3, <3>2, <4>1
           DEF QueueInv, NoQueuePanic, PriorityRespected, Leave, taskVars
    <3> QED
      BY <3>3, <3>5, <3>8, <3>9, StepEnds DEF NoNewWaiter
  <2> QED
    BY <1>3, <2>1, <2>2, <2>3 DEF PollWait
<1> QED
  BY <1>1, <1>2, <1>3 DEF PollCall

LEMMA OnlyIdleNeverCalls ==
    ASSUME QueueInv
    PROVE  Idle \in Task /\ Idle < next_tidx /\ state[Idle] = "RUNNING"
BY MaxTasksAssumption DEF Idle, Task, QueueInv, PriorityRespected

(* Tasks that wake up, on their way to their ready queues. *)
LEMMA WakeSettles ==
    ASSUME TypeOK, NEW st \in [Task -> TaskState], NEW q \in [QueueName -> Seq(Task)],
           Settled(st, q), NEW ts \in Seq(Task), NEW st2 \in [Task -> TaskState],
           \A i \in Range(ts) : i < next_tidx,
           \A i \in Task : st2[i] = IF i \in Range(ts) THEN "RUNNING" ELSE st[i]
    PROVE  /\ ToReady(q, ts) \in [QueueName -> Seq(Task)]
           /\ Settled(st2, ToReady(q, ts))
           /\ OneSided(q) => OneSided(ToReady(q, ts))
           /\ NoNewWaiter(q, ToReady(q, ts))
<1> DEFINE dest == [i \in Task |-> ReadyQueue(i)]
<1>1. Range(ts) \subseteq Task
  BY RangeOfSeq
<1>2. \A i \in Range(ts) : /\ dest[i] = ReadyQueue(i) /\ dest[i] \in QueueName
                           /\ dest[i] \in HomeQueues(st2, i)
  BY <1>1, HomeQueueNames
<1>3. \A i \in Range(ts) : \A c \in Channel :
         dest[i] # <<"senders", c>> /\ dest[i] # <<"receivers", c>>
  <2>1. \A i \in Task : ReadyQueue(i)[1] = "ready"
    BY DEF ReadyQueue
  <2>2. \A i \in Range(ts) : dest[i][1] = "ready"
    BY <1>1, <1>2, <2>1
  <2>3. \A c \in Channel : <<"senders", c>>[1] # "ready" /\ <<"receivers", c>>[1] # "ready"
    OBVIOUS
  <2> HIDE DEF dest
  <2> QED
    BY <2>2, <2>3
<1> HIDE DEF dest
<1>4. Requeue(q, ts, dest) \in [QueueName -> Seq(Task)]
  BY RequeueProperties
<1>5. Settled(st2, Requeue(q, ts, dest))
  BY <1>2, MoveSettles
<1>6. /\ OneSided(q) => OneSided(Requeue(q, ts, dest))
      /\ \A c \in Channel, ev \in PollEvent :
            q[<<Side(ev), c>>] = <<>> => Requeue(q, ts, dest)[<<Side(ev), c>>] = <<>>
  BY <1>3, MoveAside
<1> QED
  BY <1>4, <1>5, <1>6 DEF dest, ToReady, NoNewWaiter

(* The end of sys_send and sys_recv: whoever polls for the new waiter is   *)
(* told, and a task that sleeps in poll_wait is woken if it was told.      *)
LEMMA TriggerKeeps ==
    ASSUME QueueInv, TypeOK', NEW c \in Channel, NEW ev \in PollEvent,
           NEW q \in [QueueName -> Seq(Task)], NEW st \in [Task -> TaskState],
           NEW R, Trigger(c, ev, q, st, R), UNCHANGED <<next_tidx, priority>>,
           Settled(st, q), OneSided(q), st[Idle] = "RUNNING",
           \A d \in Channel, e \in PollEvent :
              q[<<Side(e), d>>] # <<>> =>
                 poll_list[<<d, e>>] = <<>> \/ (d = c /\ e = ev),
           \A i \in Task : st[i] = "POLL_BLOCKED" => state[i] = "POLL_BLOCKED"
    PROVE  QueueInv' /\ NoNewWaiter(q, queue')
<1> DEFINE nodes    == IF q[<<Side(ev), c>>] = <<>> THEN <<>> ELSE poll_list[<<c, ev>>]
           owner(n) == table[n[1]].cd[n[2]].task
           first    == {nodes[k] : k \in {k \in DOMAIN nodes :
                        \A j \in 1 .. (k-1) : owner(nodes[j]) # owner(nodes[k])}}
           told     == {n \in first : /\ owner(n) # NoTask
                                      /\ InPollWait(st, owner(n))}
           hits     == Keep(nodes, told)
           woken    == [k \in DOMAIN hits |-> owner(hits[k])]
           mine(l)  == Keep(nodes, {n \in Range(nodes) : owner(n) = l[1]})
<1>1. /\ poll_list' = IF nodes = <<>> THEN poll_list
                      ELSE [poll_list EXCEPT ![<<c, ev>>] = <<>>]
      /\ poll_queue' = [l \in DOMAIN poll_queue |->
             IF l[2] = ev THEN poll_queue[l] \o mine(l) ELSE poll_queue[l]]
      /\ state' = [i \in Task |-> IF i \in Range(woken) THEN "RUNNING" ELSE st[i]]
      /\ queue' = Requeue(q, woken, [i \in Task |-> ReadyQueue(i)])
      /\ Leave(R \cup {<<i, 0>> : i \in Range(woken)})
      /\ panic' = IF \E n \in Range(nodes) : owner(n) = NoTask
                  THEN "NULL pointer in the kernel" ELSE panic
  BY DEF Trigger
<1>2. nodes \in Seq(Node)
  BY EmptySeq DEF QueueInv, TypeOK, PollTypes
<1>3. \A n \in Node : owner(n) \in Task \cup {NoTask}
  BY OwnerType DEF QueueInv, TypeOK
<1>4. nodes = IF q[<<Side(ev), c>>] = <<>> THEN <<>> ELSE poll_list[<<c, ev>>]
  OBVIOUS
<1>5. \A n \in told : owner(n) # NoTask /\ st[owner(n)] = "POLL_BLOCKED"
  BY DEF InPollWait
<1>6. \A i \in Task, n \in Range(nodes) : owner(n) = i /\ st[i] = "POLL_BLOCKED"
         => \E m \in told : owner(m) = i /\ m \in Range(nodes)
  <2> SUFFICES ASSUME NEW i \in Task, NEW n \in Range(nodes), owner(n) = i,
                      st[i] = "POLL_BLOCKED"
               PROVE  \E m \in told : owner(m) = i /\ m \in Range(nodes)
    OBVIOUS
  <2> DEFINE K == {k \in DOMAIN nodes : owner(nodes[k]) = i}
  <2> HIDE DEF nodes, owner, first, told
  <2>1. DOMAIN nodes = 1 .. Len(nodes) /\ Len(nodes) \in Nat
    BY <1>2, LenProperties
  <2>2. K \in SUBSET (0 .. Len(nodes)) /\ K # {}
    BY <2>1 DEF Range
  <2>3. PICK k \in K : \A j \in K : k <= j
    BY <2>1, <2>2, LeastElement
  <2>4. k \in DOMAIN nodes /\ owner(nodes[k]) = i
    BY <2>3
  <2>5. \A j \in 1 .. (k-1) : owner(nodes[j]) # owner(nodes[k])
    BY <2>1, <2>3, <2>4
  <2>6. nodes[k] \in first
    BY <2>4, <2>5 DEF first
  <2>7. i # NoTask
    BY DEF Task, NoTask
  <2>8. nodes[k] \in told
    BY <2>4, <2>6, <2>7 DEF InPollWait, told
  <2> QED
    BY <2>4, <2>8 DEF Range
<1> HIDE DEF nodes, owner, first, told
<1>7. hits \in Seq(Node) /\ Range(hits) = Range(nodes) \cap told
  BY <1>2, KeepProperties
<1> HIDE DEF hits
<1>8. \A k \in DOMAIN hits : hits[k] \in Node /\ hits[k] \in Range(hits)
  BY <1>7, LenProperties, ElementOfSeq DEF Range
<1>9. \A k \in DOMAIN hits :
         owner(hits[k]) \in Task /\ st[owner(hits[k])] = "POLL_BLOCKED"
  BY <1>3, <1>5, <1>7, <1>8
<1>10. woken \in Seq(Task)
  <2>1. DOMAIN hits = 1 .. Len(hits) /\ Len(hits) \in Nat
    BY <1>7, LenProperties
  <2> QED
    BY <1>9, <2>1, IsASeq
<1>11. \A i \in Range(woken) : st[i] = "POLL_BLOCKED"
  BY <1>9 DEF Range
<1>12. \A m \in Range(hits) : owner(m) \in Range(woken)
  BY DEF Range
<1> HIDE DEF woken
<1>13. Range(woken) \subseteq Task
  BY <1>10, RangeOfSeq
<1>14. \A i \in Range(woken) : i < next_tidx
  <2>1. \A i \in Range(woken) : ~(i >= next_tidx)
    BY <1>11, <1>13 DEF Settled
  <2>2. next_tidx \in Int /\ \A i \in Task : i \in Int
    BY DEF QueueInv, TypeOK, TaskTypes, Task
  <2> QED
    BY <1>13, <2>1, <2>2
<1>15. state' \in [Task -> TaskState]
  BY DEF TypeOK, RunTypes
<1>16. /\ Settled(state', queue') /\ OneSided(queue')
       /\ NoNewWaiter(q, queue')
  <2>1. queue' = ToReady(q, woken)
    BY <1>1 DEF ToReady
  <2>2. \A i \in Task : state'[i] = IF i \in Range(woken) THEN "RUNNING" ELSE st[i]
    BY <1>1
  <2>3. TypeOK
    BY DEF QueueInv
  <2>4. /\ Settled(state', ToReady(q, woken)) /\ OneSided(ToReady(q, woken))
        /\ NoNewWaiter(q, ToReady(q, woken))
    BY <1>10, <1>14, <1>15, <2>2, <2>3, WakeSettles
  <2> QED
    BY <2>1, <2>4
<1>17. \A d \in Channel, e \in PollEvent :
          queue'[<<Side(e), d>>] # <<>> => poll_list'[<<d, e>>] = <<>>
  <2> SUFFICES ASSUME NEW d \in Channel, NEW e \in PollEvent,
                      queue'[<<Side(e), d>>] # <<>>
               PROVE  poll_list'[<<d, e>>] = <<>>
    OBVIOUS
  <2>1. q[<<Side(e), d>>] # <<>>
    BY <1>16 DEF NoNewWaiter
  <2>2. poll_list \in [Channel \X PollEvent -> Seq(Node)]
    BY DEF QueueInv, TypeOK, PollTypes
  <2>3. CASE d = c /\ e = ev
    BY <1>1, <1>4, <2>1, <2>2, <2>3
  <2>4. CASE ~(d = c /\ e = ev)
    <3>1. poll_list[<<d, e>>] = <<>>
      BY <2>1, <2>4
    <3>2. <<d, e>> # <<c, ev>>
      BY <2>4
    <3> QED
      BY <1>1, <2>2, <3>1, <3>2
  <2> QED
    BY <2>3, <2>4
<1>18. \A i \in Task, e \in PollEvent :
          state'[i] = "POLL_BLOCKED" => poll_queue'[<<i, e>>] = <<>>
  <2> SUFFICES ASSUME NEW i \in Task, NEW e \in PollEvent,
                      state'[i] = "POLL_BLOCKED"
               PROVE  poll_queue'[<<i, e>>] = <<>>
    OBVIOUS
  <2> DEFINE l == <<i, e>>
  <2>1. i \notin Range(woken) /\ st[i] = "POLL_BLOCKED"
    BY <1>1
  <2>2. poll_queue[l] = <<>>
    BY <2>1 DEF QueueInv, NoLostPoll
  <2>3. {n \in Range(nodes) : owner(n) = i} = {}
    BY <1>6, <1>7, <1>12, <2>1
  <2>4. Keep(nodes, {n \in Range(nodes) : owner(n) = i}) = <<>>
    <3> DEFINE N == {n \in Range(nodes) : owner(n) = i}
    <3>1. Range(nodes) \cap N = {}
      BY <2>3
    <3> HIDE DEF N
    <3>2. Keep(nodes, N) \in Seq(Node) /\ Range(Keep(nodes, N)) = {}
      BY <1>2, <3>1, KeepProperties
    <3>3. Keep(nodes, N) = <<>>
      BY <3>2, EmptyRange
    <3> QED
      BY <3>3 DEF N
  <2>5. mine(l) = <<>>
    BY <2>4
  <2>6. DOMAIN poll_queue = Task \X PollEvent /\ <<>> \o <<>> = <<>>
    BY DEF QueueInv, TypeOK, PollTypes
  <2> HIDE DEF mine
  <2> QED
    BY <1>1, <2>2, <2>5, <2>6
<1>19. NoLostPoll'
  BY <1>17, <1>18 DEF NoLostPoll, Side
<1>20. NoQueuePanic' /\ current' = NoTask
  BY <1>1 DEF QueueInv, NoQueuePanic, QueuePanics, Leave
<1>21. state'[Idle] = "RUNNING"
  BY <1>1, OnlyIdleNeverCalls
<1> QED
  BY <1>16, <1>19, <1>20, <1>21, StepEnds

(* The caller of sys_send or sys_recv joins its side of the channel. *)
LEMMA JoinSettles ==
    ASSUME QueueInv, NEW t \in Task, t # Idle, current = t,
           NEW ev \in PollEvent, NEW c \in Channel
    PROVE  /\ Joined(t, ev) \in [Task -> TaskState]
           /\ JoinedQueue(t, ev, c) \in [QueueName -> Seq(Task)]
           /\ Settled(Joined(t, ev), JoinedQueue(t, ev, c))
           /\ Joined(t, ev)[Idle] = "RUNNING"
           /\ \A i \in Task : Joined(t, ev)[i] = "POLL_BLOCKED"
                                  => state[i] = "POLL_BLOCKED"
           /\ CameTo(t, <<Side(ev), c>>, JoinedQueue(t, ev, c))
<1> DEFINE st == Joined(t, ev)
           mine == <<Side(ev), c>>
           dest == [i \in {t} |-> mine]
           ts == <<t>>
<1>1. /\ state \in [Task -> TaskState] /\ queue \in [QueueName -> Seq(Task)]
      /\ mine \in QueueName
  BY SideNames DEF QueueInv, TypeOK, RunTypes
<1>2. t < next_tidx /\ state[t] = "RUNNING" /\ TypeOK /\ Settled(state, queue)
  BY CallerFacts DEF QueueInv
<1>3. /\ st \in [Task -> TaskState] /\ \A i \in Task \ {t} : st[i] = state[i]
      /\ st[t] = IF ev = "RECV" THEN "SEND_BLOCKED" ELSE "RECV_BLOCKED"
  BY <1>1 DEF TaskState, Joined
<1>4. mine \in HomeQueues(st, t)
  BY <1>2, <1>3, HomeQueueNames DEF Side, PollEvent
<1>5. ts \in Seq(Task) /\ Range(ts) = {t}
  BY OneTask
<1>6. dest[t] = mine
  OBVIOUS
<1>7. JoinedQueue(t, ev, c) = Requeue(queue, ts, dest)
  BY DEF JoinedQueue
<1> HIDE DEF dest, mine, ts, st
<1>8. Requeue(queue, ts, dest) \in [QueueName -> Seq(Task)]
  BY <1>1, <1>5, RequeueProperties
<1>9. Settled(st, Requeue(queue, ts, dest))
  <2>1. \A i \in Range(ts) : /\ i < next_tidx /\ dest[i] \in QueueName
                             /\ dest[i] \in HomeQueues(st, i)
    BY <1>1, <1>2, <1>4, <1>5, <1>6
  <2>2. \A i \in Task \ Range(ts) : st[i] = state[i]
    BY <1>3, <1>5
  <2> QED
    BY <1>1, <1>2, <1>3, <1>5, <2>1, <2>2, MoveSettles
<1>10. \A n \in QueueName \ {mine} :
          queue[n] = <<>> => Requeue(queue, ts, dest)[n] = <<>>
  BY <1>1, <1>5, <1>6, MoveShrinks
<1>11. Range(Requeue(queue, ts, dest)[mine]) = Range(queue[mine]) \cup {t}
  <2>1. Range(Requeue(queue, ts, dest)[mine]) =
           (Range(queue[mine]) \ Range(ts)) \cup {i \in Range(ts) : dest[i] = mine}
    BY <1>1, <1>5, RequeueProperties
  <2>2. {i \in Range(ts) : dest[i] = mine} = {t}
    BY <1>5, <1>6
  <2> QED
    BY <1>5, <2>1, <2>2
<1>12. st[Idle] = "RUNNING" /\ \A i \in Task : st[i] = "POLL_BLOCKED" => state[i] = "POLL_BLOCKED"
  BY <1>3, OnlyIdleNeverCalls
<1> QED
  BY <1>3, <1>7, <1>8, <1>9, <1>10, <1>11, <1>12 DEF mine, st, CameTo

(* Sender s and receiver r both wait, and can leave. *)
PairGoesOn(st, q, s, r) ==
    /\ s \in Task /\ r \in Task
    /\ st[s] = "SEND_BLOCKED" /\ st[r] = "RECV_BLOCKED"
    /\ GoOn(st, s, r) \in [Task -> TaskState]
    /\ \A i \in Task : GoOn(st, s, r)[i] = IF i \in {r, s} THEN "RUNNING" ELSE st[i]
    /\ ToReady(q, <<r, s>>) \in [QueueName -> Seq(Task)]
    /\ Settled(GoOn(st, s, r), ToReady(q, <<r, s>>))
    /\ OneSided(ToReady(q, <<r, s>>))
    /\ NoNewWaiter(q, ToReady(q, <<r, s>>))

(* A sender and a receiver that meet: both wait there, and when they have  *)
(* gone the side of the one that just came is empty again.                 *)
LEMMA PairLeaves ==
    ASSUME QueueInv, NEW t \in Task,
           NEW ev \in PollEvent, NEW c \in Channel,
           NEW st \in [Task -> TaskState], NEW q \in [QueueName -> Seq(Task)],
           Settled(st, q), Pair(q, c),
           CameTo(t, <<Side(ev), c>>, q)
    PROVE  PairGoesOn(st, q, FirstSender(q, c), FirstReceiver(q, c))
<1> DEFINE s == FirstSender(q, c)
           r == FirstReceiver(q, c)
           S == <<"senders", c>>
           R == <<"receivers", c>>
           mine == <<Side(ev), c>>
           ts == <<r, s>>
           st2 == GoOn(st, s, r)
<1>1. TypeOK /\ queue \in [QueueName -> Seq(Task)]
  BY DEF QueueInv, TypeOK, RunTypes
<1>2. S \in QueueName /\ R \in QueueName /\ mine \in {S, R} /\ S # R
  BY SideNames DEF Side
<1>3. q[S] \in Seq(Task) /\ q[S] # <<>> /\ q[R] \in Seq(Task) /\ q[R] # <<>>
  BY <1>1, <1>2 DEF Pair
<1>4. S[1] = "senders" /\ R[1] = "receivers"
  OBVIOUS
<1>5. s = Head(q[S]) /\ r = Head(q[R])
  BY DEF Peek, FirstSender, FirstReceiver
<1>6. queue[S] = <<>> \/ queue[R] = <<>>
  BY DEF QueueInv, NobodyMissed
<1>7. /\ \A n \in QueueName \ {mine} : queue[n] = <<>> => q[n] = <<>>
      /\ Range(q[mine]) = Range(queue[mine]) \cup {t}
  BY DEF CameTo
<1> HIDE DEF S, R, mine, s, r
<1>8. s \in Range(q[S]) /\ s \in Task /\ r \in Range(q[R]) /\ r \in Task
  BY <1>3, <1>5, HeadInRange
<1>9. /\ s < next_tidx /\ S \in HomeQueues(st, s)
      /\ r < next_tidx /\ R \in HomeQueues(st, r)
  BY <1>2, <1>8 DEF Settled
<1>10. st[s] = "SEND_BLOCKED" /\ st[r] = "RECV_BLOCKED"
  <2>1. TypeOK
    BY <1>1
  <2>2. S \in HomeQueues(st, s) => st[s] = "SEND_BLOCKED"
    BY <1>4, <1>8, <2>1, QueueStates
  <2>3. R \in HomeQueues(st, r) => st[r] = "RECV_BLOCKED"
    BY <1>4, <1>8, <2>1, QueueStates
  <2> QED
    BY <1>9, <2>2, <2>3
<1>11. ts \in Seq(Task) /\ Range(ts) = {r, s}
  BY <1>8, TwoTasks
<1>12. /\ st2 \in [Task -> TaskState]
       /\ \A i \in Task : st2[i] = IF i \in {r, s} THEN "RUNNING" ELSE st[i]
  BY <1>8 DEF TaskState, GoOn
<1>13. ToReady(q, <<r, s>>) = ToReady(q, ts) /\ GoOn(st, s, r) = st2
  OBVIOUS
<1>14. Settled(st, q) /\ q \in [QueueName -> Seq(Task)] /\ st \in [Task -> TaskState]
  OBVIOUS
<1> HIDE DEF ts, st2
<1>15. /\ ToReady(q, ts) \in [QueueName -> Seq(Task)] /\ Settled(st2, ToReady(q, ts))
       /\ NoNewWaiter(q, ToReady(q, ts))
  <2>1. \A i \in Range(ts) : i < next_tidx
    BY <1>9, <1>11
  <2>2. \A i \in Task : st2[i] = IF i \in Range(ts) THEN "RUNNING" ELSE st[i]
    BY <1>11, <1>12
  <2>3. TypeOK /\ ts \in Seq(Task) /\ st2 \in [Task -> TaskState]
    BY <1>1, <1>11, <1>12
  <2> QED
    BY <1>14, <2>1, <2>2, <2>3, WakeSettles
<1>16. queue[mine] = <<>>
  <2>1. \A n \in {S, R} \ {mine} : queue[n] # <<>>
    BY <1>2, <1>3, <1>7
  <2> QED
    BY <1>2, <1>6, <2>1
<1>17. Range(q[mine]) = {t}
  <2>1. queue[mine] \in Seq(Task)
    BY <1>1, <1>2
  <2>2. Range(queue[mine]) = {}
    BY <1>16, <2>1, EmptyRange
  <2> QED
    BY <1>7, <2>2
<1>18. t \in {s, r}
  BY <1>2, <1>8, <1>17
<1>19. ToReady(q, ts)[mine] = <<>>
  <2> DEFINE dest == [i \in Task |-> ReadyQueue(i)]
  <2>0. mine \in QueueName /\ ToReady(q, ts) = Requeue(q, ts, dest)
    BY <1>2 DEF ToReady
  <2>1. \A i \in {r, s} : dest[i][1] = "ready"
    BY <1>8 DEF ReadyQueue
  <2> HIDE DEF dest
  <2>2. Range(Requeue(q, ts, dest)[mine]) =
           (Range(q[mine]) \ Range(ts)) \cup {i \in Range(ts) : dest[i] = mine}
    BY <1>11, <2>0, RequeueProperties
  <2>3. mine[1] # "ready"
    BY <1>2, <1>4
  <2>4. Range(ToReady(q, ts)[mine]) = {}
    BY <1>11, <1>17, <1>18, <2>0, <2>1, <2>2, <2>3
  <2>5. ToReady(q, ts)[mine] \in Seq(Task)
    BY <1>15, <2>0
  <2> QED
    BY <2>4, <2>5, EmptyRange
<1>20. OneSided(ToReady(q, ts))
  <2> SUFFICES ASSUME NEW d \in Channel
               PROVE  \/ ToReady(q, ts)[<<"senders", d>>] = <<>>
                      \/ ToReady(q, ts)[<<"receivers", d>>] = <<>>
    BY DEF OneSided
  <2>1. CASE d = c
    BY <1>2, <1>19, <2>1 DEF S, R
  <2>2. CASE d # c
    <3> DEFINE m == <<"senders", d>>
               n == <<"receivers", d>>
    <3>1. m \in QueueName /\ n \in QueueName /\ m # mine /\ n # mine
      BY <2>2, SideNames DEF mine
    <3>2. queue[m] = <<>> \/ queue[n] = <<>>
      BY DEF QueueInv, NobodyMissed
    <3>3. q[m] = <<>> \/ q[n] = <<>>
      BY <1>7, <3>1, <3>2
    <3>4. \A e \in PollEvent : q[<<Side(e), d>>] = <<>> => ToReady(q, ts)[<<Side(e), d>>] = <<>>
      BY <1>15 DEF NoNewWaiter
    <3>5. /\ q[m] = <<>> => ToReady(q, ts)[m] = <<>>
          /\ q[n] = <<>> => ToReady(q, ts)[n] = <<>>
      BY <3>4 DEF Side, PollEvent
    <3> QED
      BY <3>3, <3>5
  <2> QED
    BY <2>1, <2>2
<1> QED
  BY <1>8, <1>10, <1>12, <1>13, <1>15, <1>20 DEF s, r, PairGoesOn

LEMMA ExchangeKeeps ==
    ASSUME QueueInv, TypeOK', NEW t \in Task, t # Idle, current = t,
           NEW ev \in PollEvent, NEW c \in Channel, NEW x, Exchange(t, ev, c, x)
    PROVE  /\ QueueInv'
           /\ \A d \in Channel \ {c}, e \in PollEvent :
                 queue[<<Side(e), d>>] = <<>> => queue'[<<Side(e), d>>] = <<>>
<1> DEFINE st == Joined(t, ev)
           q  == JoinedQueue(t, ev, c)
           a  == [args EXCEPT ![t] = x]
           s   == FirstSender(q, c)
           r   == FirstReceiver(q, c)
           why == ReceiveFailure(s, r, st, a)
           st2 == GoOn(st, s, r)
           q2  == ToReady(q, <<r, s>>)
           R   == {<<r, a[s].len>>, <<s, 0>>}
<1>1. /\ st \in [Task -> TaskState] /\ q \in [QueueName -> Seq(Task)]
      /\ Settled(st, q) /\ st[Idle] = "RUNNING"
      /\ \A i \in Task : st[i] = "POLL_BLOCKED" => state[i] = "POLL_BLOCKED"
      /\ CameTo(t, <<Side(ev), c>>, q)
  BY JoinSettles
<1>2. \/ /\ ~Pair(q, c) /\ Trigger(c, ev, q, st, {}) /\ UNCHANGED taskVars
      \/ Pair(q, c) /\ Panic(why)
      \/ Pair(q, c) /\ Trigger(c, ev, q2, st2, R) /\ UNCHANGED taskVars
  BY DEF Exchange, Joined, JoinedQueue, FirstSender, FirstReceiver, GoOn, ToReady
<1> HIDE DEF q, st
<1>4. Pair(q, c) =>
         /\ s \in Task /\ r \in Task
         /\ st[s] = "SEND_BLOCKED" /\ st[r] = "RECV_BLOCKED"
         /\ st2 \in [Task -> TaskState] /\ q2 \in [QueueName -> Seq(Task)]
         /\ \A i \in Task : st2[i] = IF i \in {r, s} THEN "RUNNING" ELSE st[i]
         /\ Settled(st2, q2) /\ OneSided(q2)
         /\ NoNewWaiter(q, q2)
  <2>1. Pair(q, c) => PairGoesOn(st, q, FirstSender(q, c), FirstReceiver(q, c))
    BY <1>1, PairLeaves
  <2> QED
    BY <2>1 DEF PairGoesOn
<1>5. Pair(q, c) => why \notin QueuePanics
  BY <1>4 DEF ReceiveFailure, QueuePanics
<1>6. ~Pair(q, c) => OneSided(q)
  <2> SUFFICES ASSUME ~Pair(q, c), NEW d \in Channel
               PROVE  q[<<"senders", d>>] = <<>> \/ q[<<"receivers", d>>] = <<>>
    BY DEF OneSided
  <2>1. CASE d = c
    BY <2>1 DEF Pair
  <2>2. CASE d # c
    <3> DEFINE m == <<"senders", d>>
               n == <<"receivers", d>>
    <3>1. m \in QueueName /\ n \in QueueName /\ m # <<Side(ev), c>> /\ n # <<Side(ev), c>>
      BY <2>2, SideNames
    <3>2. queue[m] = <<>> \/ queue[n] = <<>>
      BY DEF QueueInv, NobodyMissed
    <3> QED
      BY <1>1, <3>1, <3>2 DEF CameTo
  <2> QED
    BY <2>1, <2>2
<1>7. \A d \in Channel, e \in PollEvent :
         q[<<Side(e), d>>] # <<>> =>
            poll_list[<<d, e>>] = <<>> \/ (d = c /\ e = ev)
  <2> SUFFICES ASSUME NEW d \in Channel, NEW e \in PollEvent,
                      q[<<Side(e), d>>] # <<>>, ~(d = c /\ e = ev)
               PROVE  poll_list[<<d, e>>] = <<>>
    OBVIOUS
  <2> DEFINE n == <<Side(e), d>>
  <2>1. n \in QueueName
    BY SideNames
  <2>2. n # <<Side(ev), c>>
    BY DEF Side, PollEvent
  <2>3. queue[n] # <<>>
    BY <1>1, <2>1, <2>2 DEF CameTo
  <2> QED
    BY <2>3 DEF QueueInv, NoLostPoll
<1> HIDE DEF s, r, why, st2, q2, R
<1>8. \A d \in Channel \ {c}, e \in PollEvent :
         queue[<<Side(e), d>>] = <<>> => q[<<Side(e), d>>] = <<>>
  <2> SUFFICES ASSUME NEW d \in Channel \ {c}, NEW e \in PollEvent,
                      queue[<<Side(e), d>>] = <<>>
               PROVE  q[<<Side(e), d>>] = <<>>
    OBVIOUS
  <2> DEFINE n == <<Side(e), d>>
  <2>1. n \in QueueName /\ n # <<Side(ev), c>>
    BY SideNames
  <2>2. q[n] = <<>>
    BY <1>1, <2>1 DEF CameTo
  <2> QED
    BY <2>2
<1>9. UNCHANGED taskVars => UNCHANGED <<next_tidx, priority>>
  BY DEF taskVars
<1>10. CASE ~Pair(q, c) /\ Trigger(c, ev, q, st, {}) /\ UNCHANGED taskVars
  <2>1. QueueInv' /\ NoNewWaiter(q, queue')
    BY <1>1, <1>6, <1>7, <1>9, <1>10, TriggerKeeps
  <2> QED
    BY <1>8, <2>1 DEF NoNewWaiter
<1>11. CASE Pair(q, c) /\ Panic(why)
  <2>1. QueueInv' /\ NoNewWaiter(queue, queue')
    BY <1>5, <1>11, PanicKeeps
  <2> QED
    BY <2>1 DEF NoNewWaiter
<1>12. CASE Pair(q, c) /\ Trigger(c, ev, q2, st2, R) /\ UNCHANGED taskVars
  <2>1. \A d \in Channel, e \in PollEvent :
           q2[<<Side(e), d>>] # <<>> =>
              poll_list[<<d, e>>] = <<>> \/ (d = c /\ e = ev)
    BY <1>4, <1>7, <1>12 DEF NoNewWaiter
  <2>2. st2[Idle] = "RUNNING"
    BY <1>1, <1>4, <1>12, OnlyIdleNeverCalls
  <2>3. \A i \in Task : st2[i] = "POLL_BLOCKED" => state[i] = "POLL_BLOCKED"
    BY <1>1, <1>4, <1>12
  <2>4. /\ st2 \in [Task -> TaskState] /\ q2 \in [QueueName -> Seq(Task)]
        /\ Settled(st2, q2) /\ OneSided(q2)
    BY <1>4, <1>12
  <2> QED
    <3>1. QueueInv' /\ NoNewWaiter(q2, queue')
      BY <1>9, <1>12, <2>1, <2>2, <2>3, <2>4, TriggerKeeps
    <3> QED
      BY <1>4, <1>12, <1>8, <3>1 DEF NoNewWaiter
<1> QED
  BY <1>2, <1>10, <1>11, <1>12

LEMMA MessageCallKeeps ==
    ASSUME QueueInv, TypeOK', NEW t \in Task, MessageCall(t)
    PROVE  QueueInv'
<1>1. ASSUME NEW fd, NEW ev \in PollEvent, NEW x, Caller(t, "send") \/ Caller(t, "recv"),
             ValidChannel(t, fd), Exchange(t, ev, ChannelOf(t, fd), x)
      PROVE  QueueInv'
  <2>1. ChannelOf(t, fd) \in Channel /\ t # Idle /\ current = t
    BY <1>1, ValidChannelType DEF QueueInv, TypeOK, Caller
  <2> QED
    BY <1>1, <2>1, ExchangeKeeps
<1>2. "RECV" \in PollEvent /\ "SEND" \in PollEvent
  BY DEF PollEvent
<1>3. \A fd, ev, nb, sch : ExchangeError(t, fd, ev, nb, sch) = 0 => ValidChannel(t, fd)
  BY DEF ExchangeError, EBADF
<1>4. ASSUME NEW fd \in FdArgs, NEW len \in Lens, NEW nb \in Nonblock,
             NEW sch \in SendChans, Send(t, fd, len, sch, nb)
      PROVE  QueueInv'
  BY <1>1, <1>2, <1>3, <1>4, AnswerKeeps DEF Send
<1>5. ASSUME NEW fd \in FdArgs, NEW len \in Lens, NEW nb \in Nonblock,
             NEW rch \in RecvChans, Recv(t, fd, len, rch, nb)
      PROVE  QueueInv'
  BY <1>1, <1>2, <1>3, <1>5, AnswerKeeps DEF Recv
<1> QED
  BY <1>4, <1>5 DEF MessageCall

-----------------------------------------------------------------------------
(* Tasks that start, end, sleep and wake up.                               *)

(* Nobody that starts to wait on a channel is left to the pollers.         *)
LEMMA PollsStayQuiet ==
    ASSUME NoLostPoll, NoNewWaiter(queue, queue'),
           \A i \in Task : state'[i] = "POLL_BLOCKED" => state[i] = "POLL_BLOCKED",
           \A l \in Channel \X PollEvent : poll_list[l] = <<>> => poll_list'[l] = <<>>,
           \A l \in Task \X PollEvent : poll_queue[l] = <<>> => poll_queue'[l] = <<>>
    PROVE  NoLostPoll'
BY DEF NoLostPoll, NoNewWaiter, Side

(* The caller goes to state st and waits on queue n, which is no channel's. *)
LEMMA GoesAside ==
    ASSUME QueueInv, NEW t \in Task, t # Idle, current = t,
           NEW st \in TaskState \ {"POLL_BLOCKED"}, NEW n \in QueueName,
           n[1] \notin {"senders", "receivers"},
           state' = [state EXCEPT ![t] = st], n \in HomeQueues(state', t),
           queue' = Requeue(queue, <<t>>, [i \in {t} |-> n])
    PROVE  /\ Settled(state', queue') /\ OneSided(queue')
           /\ NoNewWaiter(queue, queue') /\ state'[Idle] = "RUNNING"
           /\ \A i \in Task : state'[i] = "POLL_BLOCKED" => state[i] = "POLL_BLOCKED"
<1> DEFINE ts == <<t>>
           dest == [i \in {t} |-> n]
<1>1. /\ state \in [Task -> TaskState] /\ queue \in [QueueName -> Seq(Task)]
      /\ TypeOK /\ Settled(state, queue) /\ OneSided(queue)
  BY DEF QueueInv, TypeOK, RunTypes, NobodyMissed, OneSided
<1>2. state' \in [Task -> TaskState] /\ \A i \in Task \ {t} : state'[i] = state[i]
  BY <1>1
<1>3. t < next_tidx
  BY CallerFacts
<1>4. ts \in Seq(Task) /\ Range(ts) = {t}
  BY OneTask
<1>5. dest[t] = n /\ queue' = Requeue(queue, ts, dest)
  OBVIOUS
<1> HIDE DEF ts, dest
<1>6. Settled(state', Requeue(queue, ts, dest))
  <2>1. \A i \in Range(ts) : /\ i < next_tidx /\ dest[i] \in QueueName
                             /\ dest[i] \in HomeQueues(state', i)
    BY <1>3, <1>4, <1>5
  <2>2. \A i \in Task \ Range(ts) : state'[i] = state[i]
    BY <1>2, <1>4
  <2> QED
    BY <1>1, <1>2, <1>4, <2>1, <2>2, MoveSettles
<1>7. /\ OneSided(Requeue(queue, ts, dest))
      /\ \A c \in Channel, ev \in PollEvent :
            queue[<<Side(ev), c>>] = <<>> => Requeue(queue, ts, dest)[<<Side(ev), c>>] = <<>>
  <2>1. \A i \in Range(ts) : \A c \in Channel :
           dest[i] # <<"senders", c>> /\ dest[i] # <<"receivers", c>>
    BY <1>4, <1>5
  <2> QED
    BY <1>1, <1>4, <2>1, MoveAside
<1>8. /\ state'[Idle] = "RUNNING"
      /\ \A i \in Task : state'[i] = "POLL_BLOCKED" => state[i] = "POLL_BLOCKED"
  BY <1>1, OnlyIdleNeverCalls
<1> QED
  BY <1>5, <1>6, <1>7, <1>8 DEF NoNewWaiter

LEMMA EventWaitKeeps ==
    ASSUME QueueInv, TypeOK', NEW t \in Task, NEW e, EventWait(t, e)
    PROVE  QueueInv' /\ NoNewWaiter(queue, queue')
<1>1. CASE Answer(t, EINVAL)
  BY <1>1, AnswerKeeps
<1>2. CASE /\ e \in Event
           /\ state' = [state EXCEPT ![t] = "EVENT_BLOCKED"]
           /\ queue' = Requeue(queue, <<t>>, [i \in {t} |-> <<"event", e>>])
           /\ Leave({}) /\ pollresult' = {}
           /\ UNCHANGED <<taskVars, args, chanVars, pollVars, panic>>
  <2> DEFINE n == <<"event", e>>
  <2>1. t # Idle /\ current = t
    BY DEF EventWait, Caller
  <2>2. n \in QueueName /\ n[1] \notin {"senders", "receivers"}
    BY <1>2 DEF QueueName
  <2>3. n \in HomeQueues(state', t)
    <3>1. state'[t] = "EVENT_BLOCKED"
      BY <1>2 DEF QueueInv, TypeOK, RunTypes
    <3> QED
      BY <1>2, <3>1 DEF HomeQueues
  <2>4. queue' = Requeue(queue, <<t>>, [i \in {t} |-> n])
    BY <1>2
  <2> HIDE DEF n
  <2>5. "EVENT_BLOCKED" \in TaskState \ {"POLL_BLOCKED"}
    BY DEF TaskState
  <2>6. /\ Settled(state', queue') /\ OneSided(queue')
        /\ NoNewWaiter(queue, queue') /\ state'[Idle] = "RUNNING"
        /\ \A i \in Task : state'[i] = "POLL_BLOCKED" => state[i] = "POLL_BLOCKED"
    BY <1>2, <2>1, <2>2, <2>3, <2>4, <2>5, GoesAside
  <2>7. /\ UNCHANGED <<next_tidx, priority, poll_list, poll_queue, panic>>
        /\ current' = NoTask
    BY <1>2 DEF Leave, taskVars, pollVars
  <2>8. NoLostPoll' /\ NoQueuePanic'
    BY <2>6, <2>7, PollsStayQuiet DEF QueueInv, NoQueuePanic
  <2> QED
    BY <2>6, <2>7, <2>8, StepEnds
<1> QED
  BY <1>1, <1>2 DEF EventWait

LEMMA ExitTaskKeeps ==
    ASSUME QueueInv, TypeOK', NEW t \in Task, ExitTask(t)
    PROVE  QueueInv' /\ NoNewWaiter(queue, queue')
<1> DEFINE open == {fd \in Fd : ChannelOf(t, fd) # NoChannel}
           why  == IF state[t] # "RUNNING" THEN "Tried to exit non-running task!"
                   ELSE CloseFailure(t, table[t], open)
<1>1. t # Idle /\ current = t /\ state[t] = "RUNNING"
  BY CallerFacts DEF ExitTask, Caller
<1>2. CASE Panic(why)
  <2>1. why \notin QueuePanics
    BY <1>1, CloseFailureHarmless
  <2> HIDE DEF why
  <2> QED
    BY <1>2, <2>1, PanicKeeps
<1>3. CASE /\ ClosePolls(t, open)
           /\ state' = [state EXCEPT ![t] = "DEAD"]
           /\ queue' = Requeue(queue, <<t>>, [k \in {t} |-> <<"free", 0>>])
           /\ Leave({}) /\ pollresult' = {}
           /\ UNCHANGED <<next_tidx, tid, ptid, priority, daemon, args,
                          poll_count, panic>>
  <2> DEFINE n == <<"free", 0>>
  <2>1. n \in QueueName /\ n[1] \notin {"senders", "receivers"}
    BY DEF QueueName
  <2>2. n \in HomeQueues(state', t)
    <3>1. state'[t] = "DEAD"
      BY <1>3 DEF QueueInv, TypeOK, RunTypes
    <3> QED
      BY <3>1 DEF HomeQueues
  <2>3. queue' = Requeue(queue, <<t>>, [k \in {t} |-> n])
    BY <1>3
  <2> HIDE DEF n
  <2>4. "DEAD" \in TaskState \ {"POLL_BLOCKED"}
    BY DEF TaskState
  <2>5. /\ Settled(state', queue') /\ OneSided(queue')
        /\ NoNewWaiter(queue, queue') /\ state'[Idle] = "RUNNING"
        /\ \A i \in Task : state'[i] = "POLL_BLOCKED" => state[i] = "POLL_BLOCKED"
    BY <1>1, <1>3, <2>1, <2>2, <2>3, <2>4, GoesAside
  <2>6. /\ \A l \in Channel \X PollEvent : poll_list[l] = <<>> => poll_list'[l] = <<>>
        /\ \A l \in Task \X PollEvent : poll_queue[l] = <<>> => poll_queue'[l] = <<>>
    <3> HIDE DEF open
    <3> QED
      BY <1>3, UnlinkEmpty DEF QueueInv, TypeOK, ClosePolls
  <2>7. NoLostPoll'
    BY <2>5, <2>6, PollsStayQuiet DEF QueueInv
  <2>8. NoQueuePanic' /\ current' = NoTask /\ UNCHANGED <<next_tidx, priority>>
    BY <1>3 DEF QueueInv, NoQueuePanic, Leave
  <2> QED
    BY <2>5, <2>7, <2>8, StepEnds
<1> QED
  BY <1>2, <1>3 DEF ExitTask

LEMMA EventUnblockAllKeeps ==
    ASSUME QueueInv, TypeOK', NEW e, NEW R, EventUnblockAll(e, R)
    PROVE  QueueInv' /\ NoNewWaiter(queue, queue')
<1> DEFINE woken == Awaiting(e)
<1>1. /\ state \in [Task -> TaskState] /\ queue \in [QueueName -> Seq(Task)]
      /\ TypeOK /\ Settled(state, queue) /\ OneSided(queue)
  BY DEF QueueInv, TypeOK, RunTypes, NobodyMissed, OneSided
<1>2. woken \in Seq(Task)
  BY AwaitingType DEF QueueInv, TypeOK
<1>3. \A i \in Range(woken) : i < next_tidx
  <2>1. e \in Event => <<"event", e>> \in QueueName
    BY DEF QueueName
  <2>2. Range(<<>>) = {}
    BY DEF Range
  <2> QED
    BY <1>1, <2>1, <2>2 DEF Settled, Awaiting
<1>4. /\ queue' = Requeue(queue, woken, [i \in Task |-> ReadyQueue(i)])
      /\ state' = [i \in Task |-> IF i \in Range(woken) THEN "RUNNING" ELSE state[i]]
      /\ UNCHANGED <<next_tidx, priority, poll_list, poll_queue, panic>>
      /\ current' = NoTask
  BY DEF EventUnblockAll, Leave, taskVars, pollVars
<1> HIDE DEF woken
<1>5. queue' = ToReady(queue, woken)
  BY <1>4 DEF ToReady
<1>6. state' \in [Task -> TaskState]
  BY DEF TypeOK, RunTypes
<1>7. \A i \in Task : state'[i] = IF i \in Range(woken) THEN "RUNNING" ELSE state[i]
  BY <1>4
<1>8. /\ Settled(state', ToReady(queue, woken)) /\ OneSided(ToReady(queue, woken))
      /\ NoNewWaiter(queue, ToReady(queue, woken))
  BY <1>1, <1>2, <1>3, <1>6, <1>7, WakeSettles
<1>9. NoLostPoll'
  BY <1>4, <1>5, <1>7, <1>8, PollsStayQuiet DEF QueueInv
<1>10. state'[Idle] = "RUNNING" /\ NoQueuePanic'
  BY <1>4, <1>7, OnlyIdleNeverCalls DEF QueueInv, NoQueuePanic
<1> QED
  BY <1>4, <1>5, <1>8, <1>9, <1>10, StepEnds

(* A task structure that is free or new becomes a task that can run.       *)
LEMMA SpawnSettles ==
    ASSUME TypeOK, Settled(state, queue), NEW i \in Task, NEW prio \in Prio,
           next_tidx' \in Int, i < next_tidx',
           \A j \in Task \ {i} : j < next_tidx' <=> j < next_tidx,
           priority' = [priority EXCEPT ![i] = prio],
           state' = [state EXCEPT ![i] = "RUNNING"],
           queue' = Requeue(queue, <<i>>, [k \in {i} |-> <<"ready", prio>>])
    PROVE  (Settled(state, queue))' /\ NoNewWaiter(queue, queue')
<1> DEFINE ts == <<i>>
           ready == <<"ready", prio>>
           dest == [k \in {i} |-> ready]
<1>1. /\ state \in [Task -> TaskState] /\ queue \in [QueueName -> Seq(Task)]
      /\ priority \in [Task -> Prio] /\ next_tidx \in Int
  BY DEF TypeOK, RunTypes, TaskTypes
<1>2. /\ state'[i] = "RUNNING" /\ \A j \in Task \ {i} : state'[j] = state[j]
      /\ priority'[i] = prio /\ \A j \in Task \ {i} : priority'[j] = priority[j]
  BY <1>1
<1>3. ready \in QueueName
  BY DEF QueueName
<1>4. HomeQueues(state, i)' = {ready}
  BY <1>2 DEF HomeQueues, ReadyQueue
<1>5. \A j \in Task \ {i} : HomeQueues(state, j)' = HomeQueues(state, j)
  BY <1>2 DEF HomeQueues, ReadyQueue
<1>6. ts \in Seq(Task) /\ Range(ts) = {i}
  BY OneTask
<1>7. dest[i] = ready /\ queue' = Requeue(queue, ts, dest)
  OBVIOUS
<1>8. ready[1] = "ready"
  OBVIOUS
<1> HIDE DEF ts, dest, ready
<1>9. \A n \in QueueName : Range(queue'[n]) =
         (Range(queue[n]) \ {i}) \cup {k \in {i} : dest[k] = n}
  <2>1. \A n \in QueueName : Range(Requeue(queue, ts, dest)[n]) =
           (Range(queue[n]) \ Range(ts)) \cup {k \in Range(ts) : dest[k] = n}
    BY <1>1, <1>6, RequeueProperties, SMTT(30)
  <2> QED
    BY <1>6, <1>7, <2>1
<1>10. \A n \in QueueName : Range(queue[n]) \subseteq Task
  BY <1>1, RangeOfSeq
<1>11. ASSUME NEW n \in QueueName, NEW j \in Range(queue'[n])
       PROVE  j < next_tidx' /\ n \in HomeQueues(state, j)'
  <2>1. CASE j = i
    BY <1>4, <1>7, <1>9, <1>11, <2>1
  <2>2. CASE j # i
    <3>1. j \in Range(queue[n]) /\ j \in Task \ {i}
      BY <1>9, <1>10, <1>11, <2>2
    <3>2. j < next_tidx /\ n \in HomeQueues(state, j)
      BY <3>1 DEF Settled
    <3> QED
      BY <1>5, <3>1, <3>2
  <2> QED
    BY <2>1, <2>2
<1>12. ASSUME NEW j \in Task, j < next_tidx'
       PROVE  \E n \in QueueName : n \in HomeQueues(state, j)' /\ j \in Range(queue'[n])
  <2>1. CASE j = i
    BY <1>3, <1>4, <1>7, <1>9, <2>1
  <2>2. CASE j # i
    <3>1. PICK n \in QueueName : n \in HomeQueues(state, j) /\ j \in Range(queue[n])
      BY <1>12, <2>2 DEF Settled
    <3> QED
      BY <1>5, <1>9, <2>2, <3>1
  <2> QED
    BY <2>1, <2>2
<1>13. ASSUME NEW j \in Task, j >= next_tidx'
       PROVE  state'[j] = "DEAD"
  <2>1. j # i /\ j >= next_tidx
    BY <1>1, <1>13 DEF Task
  <2> QED
    BY <1>2, <2>1 DEF Settled
<1>14. (Settled(state, queue))'
  BY <1>11, <1>12, <1>13 DEF Settled
<1>15. NoNewWaiter(queue, queue')
  <2>1. \A k \in Range(ts) : \A c \in Channel :
           dest[k] # <<"senders", c>> /\ dest[k] # <<"receivers", c>>
    BY <1>6, <1>7, <1>8
  <2>2. \A c \in Channel, ev \in PollEvent :
           queue[<<Side(ev), c>>] = <<>> => Requeue(queue, ts, dest)[<<Side(ev), c>>] = <<>>
    BY <1>1, <1>6, <2>1, MoveAside
  <2> QED
    BY <1>7, <2>2 DEF NoNewWaiter
<1> QED
  BY <1>14, <1>15

(* task_alloc takes a structure nobody uses. *)
LEMMA SpawnTakesFree ==
    ASSUME TypeOK, Settled(state, queue), NEW free, free = queue[<<"free", 0>>],
           ~(free = <<>> /\ next_tidx >= MaxTasks), NEW i,
           i = IF free = <<>> THEN next_tidx ELSE Head(free)
    PROVE  /\ i \in Task /\ state[i] = "DEAD"
           /\ free # <<>> => i < next_tidx
<1> DEFINE n == <<"free", 0>>
<1>1. n \in QueueName /\ n[1] = "free" /\ free = queue[n]
  BY DEF QueueName
<1> HIDE DEF n
<1>2. free \in Seq(Task) /\ state \in [Task -> TaskState]
  BY <1>1 DEF TypeOK, RunTypes
<1>3. CASE free = <<>>
  <2>1. i = next_tidx /\ i \in Task
    BY <1>3, MaxTasksAssumption DEF TypeOK, TaskTypes, Task
  <2>2. next_tidx >= next_tidx
    BY DEF TypeOK, TaskTypes
  <2> QED
    BY <1>3, <2>1, <2>2 DEF Settled
<1>4. CASE free # <<>>
  <2>1. i \in Range(free) /\ i \in Task
    BY <1>2, <1>4, HeadInRange
  <2>2. i < next_tidx /\ n \in HomeQueues(state, i)
    BY <1>1, <2>1 DEF Settled
  <2> QED
    BY <1>1, <1>2, <2>1, <2>2, QueueStates
<1> QED
  BY <1>3, <1>4

LEMMA SpawnKeeps ==
    ASSUME QueueInv, TypeOK', NEW t \in Task, NEW prio, NEW chans, NEW flags,
           Spawn(t, prio, chans, flags)
    PROVE  QueueInv' /\ NoNewWaiter(queue, queue')
<1> DEFINE err  == SpawnError(t, prio, chans, flags)
           free == queue[<<"free", 0>>]
           i    == IF free = <<>> THEN next_tidx ELSE Head(free)
<1>1. CASE Answer(t, err)
  BY <1>1, AnswerKeeps
<1>2. CASE /\ err = 0
           /\ next_tidx' = IF free = <<>> THEN next_tidx + 1 ELSE next_tidx
           /\ priority' = [priority EXCEPT ![i] = prio]
           /\ state' = [state EXCEPT ![i] = "RUNNING"]
           /\ queue' = Requeue(queue, <<i>>, [k \in {i} |-> <<"ready", prio>>])
           /\ poll_queue' = [l \in DOMAIN poll_queue |->
                                IF l[1] = i THEN <<>> ELSE poll_queue[l]]
           /\ current' = NoTask
           /\ UNCHANGED <<poll_list, panic>>
  <2>1. prio \in Prio /\ ~(free = <<>> /\ next_tidx >= MaxTasks)
    BY <1>2 DEF SpawnError, EINVAL, EBADF, ENOMEM
  <2>2. TypeOK /\ Settled(state, queue)
    BY DEF QueueInv
  <2>3. i \in Task /\ state[i] = "DEAD" /\ (free # <<>> => i < next_tidx)
    BY <2>1, <2>2, SpawnTakesFree
  <2>4. free = <<>> => i = next_tidx
    OBVIOUS
  <2> HIDE DEF i, free
  <2>5. next_tidx \in Int /\ next_tidx' \in Int
    BY DEF QueueInv, TypeOK, TaskTypes
  <2>6. /\ i < next_tidx' /\ next_tidx <= next_tidx'
        /\ \A j \in Task \ {i} : j < next_tidx' <=> j < next_tidx
    BY <1>2, <2>3, <2>4, <2>5 DEF Task
  <2>7. (Settled(state, queue))' /\ NoNewWaiter(queue, queue')
    BY <1>2, <2>1, <2>2, <2>3, <2>5, <2>6, SpawnSettles
  <2>8. \A j \in Task : state'[j] = "POLL_BLOCKED" => state[j] = "POLL_BLOCKED"
    BY <1>2, <2>3 DEF QueueInv, TypeOK, RunTypes
  <2>9. \A l \in Task \X PollEvent : poll_queue[l] = <<>> => poll_queue'[l] = <<>>
    BY <1>2 DEF QueueInv, TypeOK, PollTypes
  <2>10. NoLostPoll'
    BY <1>2, <2>7, <2>8, <2>9, PollsStayQuiet DEF QueueInv
  <2>11. NobodyMissed'
    BY <2>7 DEF QueueInv, NobodyMissed, NoNewWaiter, Side, PollEvent
  <2>12. Idle \in Task /\ state'[Idle] = "RUNNING" /\ (Idle < next_tidx)'
    <3>1. Idle \in Task /\ Idle < next_tidx /\ state[Idle] = "RUNNING"
      BY OnlyIdleNeverCalls
    <3>2. state'[Idle] = "RUNNING"
      BY <1>2, <2>3, <3>1 DEF QueueInv, TypeOK, RunTypes
    <3> QED
      BY <2>5, <2>6, <3>1, <3>2 DEF Idle
  <2>13. CurrentRuns' /\ PriorityRespected' /\ NoQueuePanic'
    BY <1>2, <2>12 DEF CurrentRuns, PriorityRespected, QueueInv, NoQueuePanic
  <2> QED
    BY <2>7, <2>10, <2>11, <2>12, <2>13 DEF QueueInv
<1> QED
  BY <1>1, <1>2 DEF Spawn, Leave

(* gettid, yield, getptid and taskstat move no task. *)
LEMMA QueryKeeps ==
    ASSUME QueueInv, TypeOK', NEW t, NEW r,
           Leave({<<t, r>>}),
           UNCHANGED <<next_tidx, priority, runVars, pollVars, panic>>
    PROVE  QueueInv' /\ NoNewWaiter(queue, queue')
<1>1. /\ UNCHANGED <<next_tidx, priority, state, queue, poll_list, poll_queue, panic>>
      /\ current' = NoTask
  BY DEF Leave, runVars, pollVars
<1>2. NoLostPoll' /\ NoQueuePanic'
  BY <1>1 DEF QueueInv, NoLostPoll, NoQueuePanic
<1> QED
  BY <1>1, <1>2, QuietStep, SameQueues

LEMMA TaskCallKeeps ==
    ASSUME QueueInv, TypeOK', NEW t \in Task, TaskCall(t)
    PROVE  QueueInv' /\ NoNewWaiter(queue, queue')
<1>1. CASE \E prio \in SpawnPrios, chans \in SpawnLists, flags \in 0 .. 2 :
              Spawn(t, prio, chans, flags)
  BY <1>1, SpawnKeeps
<1>2. CASE ExitTask(t)
  BY <1>2, ExitTaskKeeps
<1>3. CASE Gettid(t) \/ Yield(t)
  BY <1>3, AnswerKeeps DEF Gettid, Yield
<1>4. CASE Getptid(t)
  BY <1>4, QueryKeeps DEF Getptid
<1>5. ASSUME NEW id, NEW null, Taskstat(t, id, null)
      PROVE  QueueInv' /\ NoNewWaiter(queue, queue')
  BY <1>5, AnswerKeeps, QueryKeeps DEF Taskstat
<1>6. ASSUME NEW e, EventWait(t, e)
      PROVE  QueueInv' /\ NoNewWaiter(queue, queue')
  BY <1>6, EventWaitKeeps
<1>7. ASSUME NEW e, Suspend(t, e)
      PROVE  QueueInv' /\ NoNewWaiter(queue, queue')
  BY <1>7, EventUnblockAllKeeps DEF Suspend
<1> QED
  BY <1>1, <1>2, <1>3, <1>4, <1>5, <1>6, <1>7 DEF TaskCall

-----------------------------------------------------------------------------
(* The scheduler.                                                          *)

(* A queue that goes round keeps its tasks. *)
LEMMA AdvanceProperties ==
    ASSUME NEW s \in Seq(Task), s # <<>>
    PROVE  /\ Advance(s) \in Seq(Task) /\ Advance(s) # <<>>
           /\ Range(Advance(s)) = Range(s)
<1> DEFINE r == Advance(s)
           n == Len(s)
<1>1. Head(s) \in Task /\ Tail(s) \in Seq(Task) /\ Len(Tail(s)) = n - 1
      /\ \A k \in 1 .. (n - 1) : Tail(s)[k] = s[k+1]
  BY HeadTailProperties
<1>2. n \in Nat \ {0} /\ DOMAIN s = 1 .. n /\ Head(s) = s[1]
  BY LenProperties, EmptySeq
<1>3. r \in Seq(Task) /\ r # <<>> /\ Len(r) = n - 1 + 1
      /\ (\A k \in 1 .. (n - 1) : r[k] = Tail(s)[k]) /\ r[n - 1 + 1] = Head(s)
  BY <1>1, AppendProperties DEF Advance
<1>4. DOMAIN r = 1 .. Len(r)
  BY <1>3, LenProperties
<1> HIDE DEF r, n
<1>5. DOMAIN r = 1 .. n /\ r[n] = s[1] /\ \A k \in 1 .. (n - 1) : r[k] = s[k+1]
  BY <1>1, <1>2, <1>3, <1>4
<1>6. \A k \in 1 .. n : r[k] \in Range(s)
  BY <1>2, <1>5 DEF Range
<1>7. \A k \in 1 .. n : s[k] \in Range(r)
  <2> SUFFICES ASSUME NEW k \in 1 .. n PROVE s[k] \in Range(r)
    OBVIOUS
  <2>1. CASE k = 1
    BY <1>2, <1>5, <2>1 DEF Range
  <2>2. CASE k # 1
    <3>1. k - 1 \in 1 .. (n - 1) /\ (k - 1) + 1 = k /\ k - 1 \in DOMAIN r
      BY <1>2, <1>5, <2>2
    <3> QED
      BY <1>5, <3>1 DEF Range
  <2> QED
    BY <2>1, <2>2
<1>8. Range(r) = Range(s)
  BY <1>2, <1>5, <1>6, <1>7 DEF Range
<1> QED
  BY <1>3, <1>8 DEF r

(* A task that can run is ready. *)
LEMMA RunningIsReady ==
    ASSUME TypeOK, Settled(state, queue),
           NEW i \in Task, i < next_tidx, state[i] = "RUNNING"
    PROVE  priority[i] \in ReadyPrios /\ priority[i] \in Prio
<1>1. PICK m \in QueueName : m \in HomeQueues(state, i) /\ i \in Range(queue[m])
  BY DEF Settled
<1>2. m = <<"ready", priority[i]>>
  BY <1>1 DEF HomeQueues, ReadyQueue
<1>3. queue[m] # <<>>
  BY <1>1 DEF Range
<1>4. priority[i] \in Prio
  BY DEF TypeOK, TaskTypes
<1> QED
  BY <1>2, <1>3, <1>4 DEF ReadyPrios

LEMMA ScheduleKeeps ==
    ASSUME QueueInv, TypeOK', Schedule
    PROVE  QueueInv' /\ NoNewWaiter(queue, queue')
<1> DEFINE n == <<"ready", Highest>>
           ready == queue[n]
<1>1. /\ TypeOK /\ Settled(state, queue)
      /\ state \in [Task -> TaskState] /\ queue \in [QueueName -> Seq(Task)]
  BY DEF QueueInv, TypeOK, RunTypes
<1>2. ReadyPrios # {}
  <2>1. Idle \in Task /\ Idle < next_tidx /\ state[Idle] = "RUNNING"
    BY OnlyIdleNeverCalls
  <2> QED
    BY <1>1, <2>1, RunningIsReady
<1>3. Highest \in Prio /\ ready # <<>> /\ n \in QueueName /\ n[1] = "ready"
  BY <1>2, HighestType DEF ReadyPrios, QueueName
<1>4. /\ queue' = [queue EXCEPT ![n] = Advance(ready)]
      /\ current' = Head(ready)
      /\ UNCHANGED <<next_tidx, priority, state, poll_list, poll_queue, panic>>
  BY <1>2 DEF Schedule, taskVars, pollVars
<1>5. n = <<"ready", Highest>> /\ ready = queue[n]
  OBVIOUS
<1> HIDE DEF n, ready
<1>6. /\ Advance(ready) \in Seq(Task) /\ Advance(ready) # <<>>
      /\ Range(Advance(ready)) = Range(ready)
      /\ Head(ready) \in Range(ready) /\ Head(ready) \in Task
  <2>1. ready \in Seq(Task)
    BY <1>1, <1>3, <1>5
  <2> QED
    BY <1>3, <2>1, AdvanceProperties, HeadInRange
<1>7. \A m \in QueueName : /\ Range(queue'[m]) = Range(queue[m])
                           /\ m # n => queue'[m] = queue[m]
  BY <1>1, <1>3, <1>4, <1>5, <1>6
<1>8. (Settled(state, queue))'
  <2>1. Settled(state, queue')
    BY <1>1, <1>7 DEF Settled
  <2> QED
    BY <1>4, <2>1 DEF Settled, HomeQueues, ReadyQueue
<1>9. /\ current' < next_tidx /\ state[current'] = "RUNNING"
      /\ priority[current'] = Highest
  <2>1. current' < next_tidx /\ n \in HomeQueues(state, current') /\ current' \in Task
    BY <1>1, <1>3, <1>4, <1>5, <1>6 DEF Settled
  <2>2. state[current'] = "RUNNING" /\ n = ReadyQueue(current')
    BY <1>1, <1>3, <2>1, QueueStates
  <2> QED
    BY <1>5, <2>1, <2>2 DEF ReadyQueue
<1>10. CurrentRuns'
  BY <1>4, <1>9 DEF CurrentRuns
<1>11. \A i \in Task : i < next_tidx /\ state[i] = "RUNNING" => priority[i] >= Highest
  <2> SUFFICES ASSUME NEW i \in Task, i < next_tidx, state[i] = "RUNNING"
               PROVE  priority[i] >= Highest
    OBVIOUS
  <2>4. priority[i] \in ReadyPrios /\ priority[i] \in Prio
    BY <1>1, RunningIsReady
  <2>5. Highest <= priority[i]
    BY <1>2, <2>4, HighestType
  <2> QED
    BY <1>3, <2>4, <2>5, NPrioAssumption DEF Prio
<1>12. PriorityRespected'
  <2>1. state[Idle] = "RUNNING"
    BY OnlyIdleNeverCalls
  <2> QED
    BY <1>4, <1>9, <1>11, <2>1 DEF PriorityRespected, Alive
<1>13. NoNewWaiter(queue, queue')
  <2> SUFFICES ASSUME NEW c \in Channel, NEW ev \in PollEvent
               PROVE  queue'[<<Side(ev), c>>] = queue[<<Side(ev), c>>]
    BY DEF NoNewWaiter
  <2> DEFINE m == <<Side(ev), c>>
  <2>1. m \in QueueName /\ m[1] \in {"senders", "receivers"}
    BY SideNames DEF Side
  <2> HIDE DEF m
  <2>2. queue'[m] = queue[m]
    BY <1>3, <1>7, <2>1
  <2> QED
    BY <2>2 DEF m
<1>14. NobodyMissed'
  BY <1>13 DEF QueueInv, NobodyMissed, NoNewWaiter, Side, PollEvent
<1>15. NoLostPoll'
  BY <1>4, <1>13, PollsStayQuiet DEF QueueInv
<1>16. NoQueuePanic' /\ (Idle < next_tidx)'
  BY <1>4 DEF QueueInv, NoQueuePanic, Idle
<1> QED
  BY <1>8, <1>10, <1>12, <1>13, <1>14, <1>15, <1>16 DEF QueueInv

-----------------------------------------------------------------------------
(* The first state.                                                        *)
LEMMA InitQueues == Init => QueueInv
<1> SUFFICES ASSUME Init PROVE QueueInv
  OBVIOUS
<1>1. TypeOK
  BY InitTypes
<1>2. 1 \in Task /\ 2 \in Task /\ next_tidx = 3 /\ Idle = 1
  BY MaxTasksAssumption DEF Init, Task, Idle
<1> DEFINE low == <<"ready", NPrio - 1>>
           high == <<"ready", NPrio - 2>>
<1>3. low \in QueueName /\ high \in QueueName /\ low # high
  <2>1. NPrio - 1 \in Prio /\ NPrio - 2 \in Prio /\ NPrio - 1 # NPrio - 2
    BY NPrioAssumption DEF Prio
  <2> QED
    BY <2>1 DEF QueueName
<1>4. /\ queue[low] = <<1>> /\ queue[high] = <<2>>
      /\ \A n \in QueueName \ {low, high} : queue[n] = <<>>
  BY <1>3 DEF Init
<1>5. /\ state[1] = "RUNNING" /\ state[2] = "RUNNING"
      /\ \A i \in Task : i > 2 => state[i] = "DEAD"
  BY <1>2 DEF Init, Task
<1>6. HomeQueues(state, 1) = {low} /\ HomeQueues(state, 2) = {high}
  BY <1>2, <1>5 DEF Init, HomeQueues, ReadyQueue
<1>7. low[1] = "ready" /\ high[1] = "ready"
  OBVIOUS
<1> HIDE DEF low, high
<1>8. Range(queue[low]) = {1} /\ Range(queue[high]) = {2}
      /\ \A n \in QueueName \ {low, high} : Range(queue[n]) = {}
  <2>1. Range(<<1>>) = {1} /\ Range(<<2>>) = {2} /\ Range(<<>>) = {}
    BY DEF Range
  <2> QED
    BY <1>4, <2>1
<1>9. Settled(state, queue)
  <2>1. \A n \in QueueName : \A i \in Range(queue[n]) :
           i < next_tidx /\ n \in HomeQueues(state, i)
    BY <1>2, <1>6, <1>8
  <2>2. \A i \in Task : i < next_tidx => i \in {1, 2}
    BY <1>2 DEF Task
  <2>3. \A i \in Task : i < next_tidx =>
           \E n \in QueueName : n \in HomeQueues(state, i) /\ i \in Range(queue[n])
    BY <1>3, <1>6, <1>8, <2>2
  <2>4. \A i \in Task : i >= next_tidx => state[i] = "DEAD"
    BY <1>2, <1>5 DEF Task
  <2> QED
    BY <2>1, <2>3, <2>4 DEF Settled
<1>10. \A c \in Channel, ev \in PollEvent : queue[<<Side(ev), c>>] = <<>>
  <2> SUFFICES ASSUME NEW c \in Channel, NEW ev \in PollEvent
               PROVE  queue[<<Side(ev), c>>] = <<>>
    OBVIOUS
  <2> DEFINE m == <<Side(ev), c>>
  <2>1. m \in QueueName /\ m[1] # "ready"
    BY SideNames DEF Side
  <2> HIDE DEF m
  <2>2. queue[m] = <<>>
    BY <1>4, <1>7, <2>1
  <2> QED
    BY <2>2 DEF m
<1>11. NobodyMissed
  BY <1>10 DEF NobodyMissed, Side, PollEvent
<1>12. NoLostPoll
  BY <1>10 DEF NoLostPoll, Init, Side
<1>13. CurrentRuns /\ PriorityRespected /\ NoQueuePanic /\ Idle < next_tidx
  BY <1>2, <1>5 DEF CurrentRuns, PriorityRespected, NoQueuePanic, QueuePanics, Init
<1> QED
  BY <1>1, <1>9, <1>11, <1>12, <1>13 DEF QueueInv

(* Every step but a call on a channel keeps the invariant; those need that *)
(* nothing waits on a free channel.                                        *)
LEMMA QueueStep ==
    ASSUME QueueInv, FreeQuiet, [Next]_vars
    PROVE  QueueInv'
<1>0. TypeOK'
  BY TypeStep DEF QueueInv
<1>1. CASE UNCHANGED vars
  <2>1. UNCHANGED <<next_tidx, priority, state, queue, poll_list, poll_queue,
                    current, panic>>
    BY <1>1 DEF vars, taskVars, runVars, pollVars
  <2>2. (Settled(state, queue))' /\ CurrentRuns' /\ (Idle < next_tidx)'
    BY <2>1 DEF QueueInv, Settled, HomeQueues, ReadyQueue, CurrentRuns, Idle
  <2>3. NobodyMissed' /\ NoLostPoll' /\ NoQueuePanic'
    BY <2>1 DEF QueueInv, NobodyMissed, NoLostPoll, NoQueuePanic
  <2>4. PriorityRespected'
    BY <2>1 DEF QueueInv, PriorityRespected, Alive
  <2> QED
    BY <1>0, <2>2, <2>3, <2>4 DEF QueueInv
<1>2. CASE Schedule
  BY <1>0, <1>2, ScheduleKeeps
<1>3. ASSUME NEW t \in Task, ChannelCall(t) PROVE QueueInv'
  BY <1>0, <1>3, ChannelCallKeeps
<1>4. ASSUME NEW t \in Task, MessageCall(t) PROVE QueueInv'
  BY <1>0, <1>4, MessageCallKeeps
<1>5. ASSUME NEW t \in Task, PollCall(t) PROVE QueueInv'
  BY <1>0, <1>5, PollCallKeeps
<1>6. ASSUME NEW t \in Task, TaskCall(t) PROVE QueueInv'
  BY <1>0, <1>6, TaskCallKeeps
<1>7. ASSUME NEW e, Interrupt(e) PROVE QueueInv'
  BY <1>0, <1>7, EventUnblockAllKeeps DEF Interrupt
<1> QED
  BY <1>1, <1>2, <1>3, <1>4, <1>5, <1>6, <1>7 DEF Next, Stopped

-----------------------------------------------------------------------------
(***************************************************************************)
(* Who keeps a channel: no channel is freed while a descriptor refers to   *)
(* it, and on a free channel nothing waits.  With that, the invariant of   *)
(* KernelQueueProofs holds in every reachable state.                       *)
(***************************************************************************)

(* A channel has at least as many references as open descriptors.  (It may *)
(* have more: dup of an open descriptor leads to a leak.)                  *)
Backed == \A c \in Channel : Cardinality(OpenOn(c)) <= refcount[c]

FreeUnreferred == \A c \in Channel : c \in free_channel <=> refcount[c] = 0

(* A task that waits with a channel to hand over has it open. *)
HandedOpen ==
    \A i \in Task : state[i] = "SEND_BLOCKED" /\ args[i].chan # NoChannel
        => \E fd \in Fd : ChannelOf(i, fd) = args[i].chan

RefInv == Backed /\ FreeUnreferred
ChannelInv == RefInv /\ HandedOpen /\ FreeQuiet
KernelInv == QueueInv /\ ChannelInv

-----------------------------------------------------------------------------
(* Counting descriptors.                                                   *)

LEMMA OpenFinite ==
    ASSUME NEW c
    PROVE  IsFiniteSet(OpenOn(c)) /\ Cardinality(OpenOn(c)) \in Nat
<1>1. IsFiniteSet(Task)
  BY FS_Interval, MaxTasksAssumption DEF Task
<1>2. IsFiniteSet(Fd)
  BY FS_Interval, MaxFdsAssumption DEF Fd
<1>3. IsFiniteSet(Node)
  BY <1>1, <1>2, FS_Product DEF Node
<1>4. OpenOn(c) \in SUBSET Node
  BY DEF OpenOn
<1> QED
  BY <1>3, <1>4, FS_Subset, FS_CardinalityType

(* As many nodes as descriptors. *)
LEMMA NodesOfFds ==
    ASSUME NEW t, NEW G \in SUBSET Fd
    PROVE  IsFiniteSet({t} \X G) /\ Cardinality({t} \X G) = Cardinality(G)
<1>1. IsFiniteSet(G) /\ Cardinality(G) \in Nat
  BY FdFinite
<1>2. IsFiniteSet({t}) /\ Cardinality({t}) = 1
  BY FS_Singleton
<1>3. IsFiniteSet({t} \X G) /\ Cardinality({t} \X G) = Cardinality({t}) * Cardinality(G)
  BY <1>1, <1>2, FS_Product
<1> QED
  BY <1>1, <1>2, <1>3

(* The nodes that are left open on c after the descriptors F were closed.  *)
LEMMA LeftOpen ==
    ASSUME NEW t \in Task, NEW tb, NEW F \in SUBSET Fd, NEW c,
           \A fd \in F : tb.cd[fd].channel = ChannelOf(t, fd)
    PROVE  LET D == OpenOn(c) \ ({t} \X F) IN
           /\ ClosedOn(tb, F, c) \in Nat
           /\ ClosedOn(tb, F, c) <= Cardinality(OpenOn(c))
           /\ IsFiniteSet(D) /\ Cardinality(D) \in Nat
           /\ Cardinality(D) = Cardinality(OpenOn(c)) - ClosedOn(tb, F, c)
<1> DEFINE G == {fd \in F : tb.cd[fd].channel = c}
           B == {t} \X F
           O == OpenOn(c)
           D == O \ B
<1>1. IsFiniteSet(O) /\ Cardinality(O) \in Nat
  BY OpenFinite
<1>2. O \cap B = {t} \X G
  BY DEF OpenOn, Node
<1>3. G \in SUBSET Fd /\ Cardinality(G) \in Nat /\ ClosedOn(tb, F, c) = Cardinality(G)
  BY FdFinite DEF ClosedOn
<1> HIDE DEF B, G, O
<1>4. Cardinality(O \cap B) = Cardinality(G)
  <2>1. Cardinality({t} \X G) = Cardinality(G)
    BY <1>3, NodesOfFds
  <2> QED
    BY <1>2, <2>1, Zenon
<1>5. IsFiniteSet(D) /\ Cardinality(D) = Cardinality(O) - Cardinality(G)
  <2>1. IsFiniteSet(O \ B) /\ Cardinality(O \ B) = Cardinality(O) - Cardinality(O \cap B)
    BY <1>1, FS_Difference, Zenon
  <2> QED
    BY <1>4, <2>1
<1>6. Cardinality(D) \in Nat
  BY <1>5, FS_CardinalityType
<1> HIDE DEF D
<1> QED
  BY <1>1, <1>3, <1>5, <1>6 DEF O, D, B

(* The nodes S that are left open on c, after F were closed and A opened.  *)
LEMMA OpenChanges ==
    ASSUME NEW t \in Task, NEW tb, NEW F \in SUBSET Fd, NEW c,
           \A fd \in F : tb.cd[fd].channel = ChannelOf(t, fd),
           NEW A, IsFiniteSet(A), NEW S,
           S \subseteq (OpenOn(c) \ ({t} \X F)) \cup A
    PROVE  /\ ClosedOn(tb, F, c) \in Nat
           /\ ClosedOn(tb, F, c) <= Cardinality(OpenOn(c))
           /\ Cardinality(S) \in Nat
           /\ Cardinality(S) <= Cardinality(OpenOn(c)) - ClosedOn(tb, F, c)
                                   + Cardinality(A)
<1> DEFINE D == OpenOn(c) \ ({t} \X F)
           k == ClosedOn(tb, F, c)
           o == Cardinality(OpenOn(c))
<1>1. /\ k \in Nat /\ k <= o
      /\ IsFiniteSet(D) /\ Cardinality(D) \in Nat /\ Cardinality(D) = o - k
  BY LeftOpen
<1>2. o \in Nat
  BY OpenFinite
<1>3. Cardinality(A) \in Nat /\ S \in SUBSET (D \cup A)
  BY FS_CardinalityType
<1> HIDE DEF D, k, o
<1>4. IsFiniteSet(D \cap A) /\ Cardinality(D \cap A) \in Nat
  BY <1>1, FS_Intersection, FS_CardinalityType
<1>5. /\ IsFiniteSet(D \cup A)
      /\ Cardinality(D \cup A) = Cardinality(D) + Cardinality(A) - Cardinality(D \cap A)
  BY <1>1, FS_Union
<1>6. Cardinality(S) <= Cardinality(D \cup A) /\ Cardinality(S) \in Nat
  BY <1>3, <1>5, FS_Subset, FS_CardinalityType
<1> QED
  BY <1>1, <1>2, <1>3, <1>4, <1>5, <1>6 DEF o, k

(* A channel a descriptor refers to is not free. *)
LEMMA OpenIsLive ==
    ASSUME TypeOK, RefInv, NEW n \in Node, NEW c \in Channel,
           ChannelOf(n[1], n[2]) = c
    PROVE  /\ c \notin free_channel /\ refcount[c] >= 1
           /\ Cardinality(OpenOn(c)) >= 1
<1>1. n \in OpenOn(c)
  BY DEF OpenOn
<1>2. IsFiniteSet(OpenOn(c)) /\ Cardinality(OpenOn(c)) \in Nat
  BY OpenFinite
<1>3. Cardinality(OpenOn(c)) # 0
  BY <1>1, <1>2, FS_EmptySet
<1>4. refcount[c] \in Int
  BY DEF TypeOK, ChannelTypes
<1> QED
  BY <1>2, <1>3, <1>4 DEF RefInv, Backed, FreeUnreferred

(* A descriptor that is closed counts for its channel only. *)
LEMMA ClosedOne ==
    ASSUME NEW tb, NEW no \in Fd, NEW c
    PROVE  ClosedOn(tb, {no}, c) = IF tb.cd[no].channel = c THEN 1 ELSE 0
<1> DEFINE G == {fd \in {no} : tb.cd[fd].channel = c}
<1>1. CASE tb.cd[no].channel = c
  <2>1. G = {no}
    BY <1>1
  <2> QED
    BY <1>1, <2>1, FS_Singleton DEF ClosedOn
<1>2. CASE tb.cd[no].channel # c
  <2>1. G = {}
    BY <1>2
  <2> QED
    BY <1>2, <2>1, FS_EmptySet DEF ClosedOn
<1> QED
  BY <1>1, <1>2

LEMMA ClosedNone ==
    ASSUME NEW tb, NEW c
    PROVE  ClosedOn(tb, {}, c) = 0
<1>1. {fd \in {} : tb.cd[fd].channel = c} = {}
  OBVIOUS
<1> QED
  BY <1>1, FS_EmptySet DEF ClosedOn

(* References are counted: "closed" of each channel are dropped, then      *)
(* "opened" are added, of channels that keep another one throughout.       *)
LEMMA ReferencesCounted ==
    ASSUME TypeOK, RefInv, NEW closed \in [Channel -> Nat],
           NEW opened \in [Channel -> Nat],
           \A c \in Channel :
              /\ closed[c] <= Cardinality(OpenOn(c))
              /\ opened[c] > 0 => closed[c] < Cardinality(OpenOn(c))
              /\ refcount'[c] = refcount[c] - closed[c] + opened[c]
              /\ Cardinality(OpenOn(c))' \in Nat
              /\ Cardinality(OpenOn(c))' <= Cardinality(OpenOn(c)) - closed[c] + opened[c],
           \A c \in Channel : c \in free_channel' <=>
              \/ c \in free_channel
              \/ closed[c] > 0 /\ refcount[c] = closed[c]
    PROVE  RefInv'
<1> SUFFICES ASSUME NEW c \in Channel
             PROVE  /\ Cardinality(OpenOn(c))' <= refcount'[c]
                    /\ c \in free_channel' <=> refcount'[c] = 0
  BY DEF RefInv, Backed, FreeUnreferred
<1> DEFINE n == Cardinality(OpenOn(c))
           n2 == Cardinality(OpenOn(c))'
           r == refcount[c]
           r2 == refcount'[c]
           k == closed[c]
           m == opened[c]
<1>1. r \in Int /\ n \in Nat /\ k \in Nat /\ m \in Nat
  BY OpenFinite DEF TypeOK, ChannelTypes
<1>2. /\ k <= n /\ (m > 0 => k < n) /\ r2 = r - k + m /\ n2 <= n - k + m
      /\ n <= r /\ (c \in free_channel <=> r = 0)
      /\ c \in free_channel' <=> c \in free_channel \/ (k > 0 /\ r = k)
  BY DEF RefInv, Backed, FreeUnreferred
<1>3. n2 \in Nat
  OBVIOUS
<1> HIDE DEF n, n2, r, r2, k, m
<1>4. n2 <= r2 /\ (c \in free_channel' <=> r2 = 0)
  BY <1>1, <1>2, <1>3
<1> QED
  BY <1>4 DEF n2, r2

-----------------------------------------------------------------------------
(* What a step has to leave alone.                                         *)

LEMMA RefsSame ==
    ASSUME RefInv, UNCHANGED chanVars
    PROVE  RefInv'
BY DEF RefInv, Backed, FreeUnreferred, OpenOn, ChannelOf, chanVars

(* A task that waits to hand a channel over stays as it is, or has just    *)
(* begun to wait.                                                          *)
LEMMA HandedStays ==
    ASSUME HandedOpen,
           \A i \in Task : state'[i] = "SEND_BLOCKED" /\ args'[i].chan # NoChannel =>
              \/ /\ state[i] = "SEND_BLOCKED" /\ args'[i] = args[i]
                 /\ table'[i] = table[i]
              \/ /\ table'[i] = table[i]
                 /\ \E fd \in Fd : ChannelOf(i, fd) = args'[i].chan
    PROVE  HandedOpen'
<1> SUFFICES ASSUME NEW i \in Task, state'[i] = "SEND_BLOCKED",
                    args'[i].chan # NoChannel
             PROVE  \E fd \in Fd : table'[i].cd[fd].channel = args'[i].chan
  BY DEF HandedOpen, ChannelOf
<1>1. table'[i] = table[i] /\ \E fd \in Fd : ChannelOf(i, fd) = args'[i].chan
  BY DEF HandedOpen
<1> QED
  BY <1>1 DEF ChannelOf

LEMMA StaysQuiet ==
    ASSUME FreeQuiet, free_channel' \subseteq free_channel, free_channel \subseteq Channel,
           \A c \in free_channel, ev \in PollEvent :
              /\ queue[<<Side(ev), c>>] = <<>> => queue'[<<Side(ev), c>>] = <<>>
              /\ poll_list[<<c, ev>>] = <<>> => poll_list'[<<c, ev>>] = <<>>
    PROVE  FreeQuiet'
<1> SUFFICES ASSUME NEW c \in free_channel'
             PROVE  /\ queue'[<<"senders", c>>] = <<>> /\ queue'[<<"receivers", c>>] = <<>>
                    /\ \A ev \in PollEvent : poll_list'[<<c, ev>>] = <<>>
  BY DEF FreeQuiet
<1>1. c \in free_channel
  OBVIOUS
<1>2. Side("RECV") = "senders" /\ Side("SEND") = "receivers"
  BY DEF Side
<1>3. "RECV" \in PollEvent /\ "SEND" \in PollEvent
  BY DEF PollEvent
<1> QED
  BY <1>1, <1>2, <1>3, ZenonT(40) DEF FreeQuiet

(* No reference is made or dropped, no sender begins to wait, nobody joins *)
(* a channel, and no poll list of a free channel grows.                    *)
LEMMA LooksOn ==
    ASSUME ChannelInv, TypeOK, UNCHANGED <<chanVars, args>>,
           \A i \in Task : state'[i] = "SEND_BLOCKED" => state[i] = "SEND_BLOCKED",
           NoNewWaiter(queue, queue'),
           \A c \in free_channel, ev \in PollEvent :
              poll_list[<<c, ev>>] = <<>> => poll_list'[<<c, ev>>] = <<>>
    PROVE  ChannelInv'
<1>1. free_channel \subseteq Channel
  BY DEF TypeOK, ChannelTypes
<1>2. RefInv'
  BY RefsSame DEF ChannelInv
<1>3. HandedOpen'
  BY HandedStays DEF ChannelInv, chanVars
<1>4. FreeQuiet'
  BY <1>1, StaysQuiet DEF ChannelInv, chanVars, NoNewWaiter
<1> QED
  BY <1>2, <1>3, <1>4 DEF ChannelInv

LEMMA SameRun ==
    ASSUME ChannelInv, TypeOK, UNCHANGED <<runVars, chanVars, pollVars>>
    PROVE  ChannelInv'
BY LooksOn, SameQueues DEF runVars, pollVars

LEMMA AnswerLive ==
    ASSUME ChannelInv, TypeOK, NEW t, NEW r, Answer(t, r)
    PROVE  ChannelInv'
BY SameRun DEF Answer

LEMMA PanicLive ==
    ASSUME ChannelInv, TypeOK, NEW why, Panic(why)
    PROVE  ChannelInv'
BY SameRun DEF Panic

-----------------------------------------------------------------------------
(* Closing.                                                                *)

LEMMA CloseRefs ==
    ASSUME TypeOK, RefInv, NEW t \in Task, NEW F \in SUBSET Fd,
           refcount' = [c \in Channel |-> refcount[c] - ClosedOn(table[t], F, c)],
           free_channel' = free_channel \cup Released(table[t], F),
           \A n \in Node :
              \/ n \notin {t} \X F /\ table'[n[1]].cd[n[2]].channel = ChannelOf(n[1], n[2])
              \/ table'[n[1]].cd[n[2]].channel = NoChannel
    PROVE  RefInv'
<1> DEFINE closed == [c \in Channel |-> ClosedOn(table[t], F, c)]
           opened == [c \in Channel |-> 0]
<1>1. ASSUME NEW c \in Channel
      PROVE  /\ closed[c] \in Nat /\ closed[c] <= Cardinality(OpenOn(c))
             /\ Cardinality(OpenOn(c))' \in Nat
             /\ Cardinality(OpenOn(c))' <= Cardinality(OpenOn(c)) - closed[c] + 0
  <2> DEFINE S == (OpenOn(c))'
  <2>1. \A fd \in F : table[t].cd[fd].channel = ChannelOf(t, fd)
    BY DEF ChannelOf
  <2>2. S \subseteq (OpenOn(c) \ ({t} \X F)) \cup {}
    BY ChannelAssumption DEF OpenOn, ChannelOf
  <2>3. IsFiniteSet({}) /\ Cardinality({}) = 0
    BY FS_EmptySet
  <2> HIDE DEF S
  <2>4. /\ ClosedOn(table[t], F, c) \in Nat
        /\ ClosedOn(table[t], F, c) <= Cardinality(OpenOn(c))
        /\ Cardinality(S) \in Nat
        /\ Cardinality(S) <= Cardinality(OpenOn(c)) - ClosedOn(table[t], F, c)
                               + Cardinality({})
    BY <2>1, <2>2, <2>3, OpenChanges
  <2> QED
    BY <2>3, <2>4 DEF S
<1>2. closed \in [Channel -> Nat] /\ opened \in [Channel -> Nat]
  BY <1>1
<1>3. ASSUME NEW c \in Channel
      PROVE  refcount'[c] = refcount[c] - closed[c] + opened[c]
  <2>1. refcount[c] \in Int
    BY DEF TypeOK, ChannelTypes
  <2> QED
    BY <1>1, <2>1
<1>4. \A c \in Channel : c \in free_channel' <=>
         \/ c \in free_channel
         \/ closed[c] > 0 /\ refcount[c] = closed[c]
  BY DEF Released
<1>5. \A c \in Channel :
         /\ closed[c] <= Cardinality(OpenOn(c))
         /\ opened[c] > 0 => closed[c] < Cardinality(OpenOn(c))
         /\ refcount'[c] = refcount[c] - closed[c] + opened[c]
         /\ Cardinality(OpenOn(c))' \in Nat
         /\ Cardinality(OpenOn(c))' <= Cardinality(OpenOn(c)) - closed[c] + opened[c]
  BY <1>1, <1>3
<1> HIDE DEF closed, opened
<1> QED
  BY <1>2, <1>4, <1>5, ReferencesCounted

(* What close_channel checks: nothing waits on a channel that is freed.    *)
LEMMA ReleasedQuiet ==
    ASSUME TypeOK, FreeQuiet, NEW t, NEW tb, NEW F,
           CloseFailure(t, tb, F) = "no", ClosePolls(t, F),
           free_channel' = free_channel \cup Released(tb, F),
           NoNewWaiter(queue, queue')
    PROVE  FreeQuiet'
<1>1. \A l \in Channel \X PollEvent : poll_list[l] = <<>> => poll_list'[l] = <<>>
  BY UnlinkEmpty DEF TypeOK, ClosePolls
<1>2. ASSUME NEW c \in Released(tb, F)
      PROVE  /\ queue[<<"receivers", c>>] = <<>> /\ queue[<<"senders", c>>] = <<>>
             /\ \A ev \in PollEvent : poll_list'[<<c, ev>>] = <<>>
  BY <1>2 DEF CloseFailure, ClosePolls
<1>3. free_channel \subseteq Channel /\ Released(tb, F) \subseteq Channel
  BY DEF TypeOK, ChannelTypes, Released
<1>4. Side("RECV") = "senders" /\ Side("SEND") = "receivers"
      /\ "RECV" \in PollEvent /\ "SEND" \in PollEvent
  BY DEF Side, PollEvent
<1>5. ASSUME NEW c \in free_channel
      PROVE  /\ queue[<<"receivers", c>>] = <<>> /\ queue[<<"senders", c>>] = <<>>
             /\ \A ev \in PollEvent : poll_list'[<<c, ev>>] = <<>>
  BY <1>1, <1>3, <1>5 DEF FreeQuiet
<1>6. ASSUME NEW c \in free_channel \cup Released(tb, F)
      PROVE  /\ queue'[<<"receivers", c>>] = <<>> /\ queue'[<<"senders", c>>] = <<>>
             /\ \A ev \in PollEvent : poll_list'[<<c, ev>>] = <<>>
  BY <1>2, <1>3, <1>4, <1>5, <1>6 DEF NoNewWaiter
<1> QED
  BY <1>6 DEF FreeQuiet

(* The tables of blocked tasks stay as they are when only t's changes.     *)
LEMMA OwnTableOnly ==
    ASSUME HandedOpen, NEW t \in Task, state'[t] # "SEND_BLOCKED",
           \A i \in Task \ {t} : state'[i] = state[i] /\ table'[i] = table[i],
           args' = args
    PROVE  HandedOpen'
BY HandedStays

LEMMA ReleaseFdChannels ==
    ASSUME NEW tb \in Table, NEW no \in Fd
    PROVE  \A fd \in Fd : ReleaseFd(tb, no).cd[fd].channel =
              IF fd = no THEN NoChannel ELSE tb.cd[fd].channel
<1>1. tb = [cd |-> tb.cd, free_cd_head |-> tb.free_cd_head,
            next_free_cd |-> tb.next_free_cd] /\ tb.cd \in [Fd -> Desc]
  BY TableParts
<1>2. \A fd \in Fd : tb.cd[fd] \in Desc
  BY <1>1
<1> QED
  BY <1>1, <1>2 DEF ReleaseFd, Desc

LEMMA CloseLive ==
    ASSUME QueueInv, ChannelInv, NEW t \in Task, NEW no, Close(t, no)
    PROVE  ChannelInv'
<1> DEFINE F == {no}
           c0 == ChannelOf(t, no)
<1>1. TypeOK /\ state[t] = "RUNNING"
  BY CallerFacts DEF QueueInv, Close, Caller
<1>2. CASE UNCHANGED <<runVars, chanVars, pollVars>>
  BY <1>1, <1>2, SameRun
<1>3. CASE /\ ValidChannel(t, no) /\ CloseFailure(t, table[t], F) = "no"
           /\ table' = [table EXCEPT ![t] = ReleaseFd(@, no)]
           /\ refcount' = [refcount EXCEPT ![c0] = @ - 1]
           /\ free_channel' = free_channel \cup Released(table[t], F)
           /\ ClosePolls(t, F) /\ UNCHANGED runVars
  <2>1. /\ no \in Fd /\ c0 \in Channel /\ table[t] \in Table
        /\ refcount \in [Channel -> Int] /\ DOMAIN table = Task
    BY <1>1, <1>3, ValidChannelType DEF TypeOK, ChannelTypes
  <2>2. refcount' = [c \in Channel |-> refcount[c] - ClosedOn(table[t], F, c)]
    <3>1. \A c \in Channel : ClosedOn(table[t], F, c) = IF c = c0 THEN 1 ELSE 0
      BY <2>1, ClosedOne DEF ChannelOf
    <3>2. refcount' = [refcount EXCEPT ![c0] = @ - 1]
      BY <1>3
    <3>3. c0 \in Channel /\ refcount \in [Channel -> Int]
      BY <2>1
    <3>4. \A c \in Channel : ClosedOn(table[t], F, c) \in Nat
      BY <3>1
    <3> HIDE DEF c0, F
    <3>5. \A c \in Channel : refcount'[c] = refcount[c] - ClosedOn(table[t], F, c)
      BY <3>1, <3>2, <3>3
    <3> QED
      BY <3>2, <3>3, <3>5
  <2>3. ASSUME NEW n \in Node
        PROVE  \/ n \notin {t} \X F /\ table'[n[1]].cd[n[2]].channel = ChannelOf(n[1], n[2])
               \/ table'[n[1]].cd[n[2]].channel = NoChannel
    <3>1. n[1] \in Task /\ n[2] \in Fd /\ n = <<n[1], n[2]>>
      BY DEF Node
    <3>2. table'[t] = ReleaseFd(table[t], no)
      BY <1>3, <2>1
    <3>3. \A fd \in Fd : ReleaseFd(table[t], no).cd[fd].channel =
             IF fd = no THEN NoChannel ELSE table[t].cd[fd].channel
      BY <2>1, ReleaseFdChannels
    <3>4. n[1] # t => table'[n[1]] = table[n[1]]
      BY <1>3, <2>1, <3>1
    <3> QED
      BY <3>1, <3>2, <3>3, <3>4 DEF ChannelOf
  <2>4. RefInv'
    <3>1. F \in SUBSET Fd
      BY <2>1
    <3> HIDE DEF F
    <3> QED
      BY <1>1, <1>3, <2>2, <2>3, <3>1, CloseRefs DEF ChannelInv
  <2>5. FreeQuiet'
    BY <1>1, <1>3, ReleasedQuiet, SameQueues DEF ChannelInv, runVars
  <2>6. HandedOpen'
    BY <1>1, <1>3, <2>1, OwnTableOnly DEF ChannelInv, runVars
  <2> QED
    BY <2>4, <2>5, <2>6 DEF ChannelInv
<1> QED
  BY <1>2, <1>3 DEF Close, Answer, Panic

LEMMA ExitTaskLive ==
    ASSUME QueueInv, TypeOK', ChannelInv, NEW t \in Task, ExitTask(t)
    PROVE  ChannelInv'
<1> DEFINE open == {fd \in Fd : ChannelOf(t, fd) # NoChannel}
<1>1. TypeOK /\ NoNewWaiter(queue, queue')
  BY ExitTaskKeeps DEF QueueInv
<1>2. CASE UNCHANGED <<runVars, chanVars, pollVars>>
  BY <1>1, <1>2, SameRun
<1>3. CASE /\ CloseFailure(t, table[t], open) = "no"
           /\ table' = [table EXCEPT ![t] = ClearTable(0)]
           /\ refcount' = [c \in Channel |-> refcount[c] - ClosedOn(table[t], open, c)]
           /\ free_channel' = free_channel \cup Released(table[t], open)
           /\ ClosePolls(t, open)
           /\ state' = [state EXCEPT ![t] = "DEAD"] /\ UNCHANGED args
  <2>1. DOMAIN table = Task /\ DOMAIN state = Task
    BY <1>1 DEF TypeOK, ChannelTypes, RunTypes
  <2>2. ASSUME NEW n \in Node
        PROVE  \/ n \notin {t} \X open /\ table'[n[1]].cd[n[2]].channel = ChannelOf(n[1], n[2])
               \/ table'[n[1]].cd[n[2]].channel = NoChannel
    <3>1. n[1] \in Task /\ n[2] \in Fd
      BY DEF Node
    <3>2. CASE n[1] = t
      BY <1>3, <2>1, <3>1, <3>2 DEF ClearTable, ClearDesc
    <3>3. CASE n[1] # t
      BY <1>3, <2>1, <3>1, <3>3 DEF ChannelOf
    <3> QED
      BY <3>2, <3>3
  <2>3. open \in SUBSET Fd
    OBVIOUS
  <2> HIDE DEF open
  <2>4. RefInv'
    BY <1>1, <1>3, <2>2, <2>3, CloseRefs, ZenonT(40) DEF ChannelInv
  <2>5. FreeQuiet'
    BY <1>1, <1>3, ReleasedQuiet DEF ChannelInv
  <2>6. HandedOpen'
    BY <1>3, <2>1, OwnTableOnly DEF ChannelInv
  <2> QED
    BY <2>4, <2>5, <2>6 DEF ChannelInv
<1> QED
  BY <1>2, <1>3 DEF ExitTask, Panic

-----------------------------------------------------------------------------
(* Opening.                                                                *)

LEMMA TakeFdChannels ==
    ASSUME NEW tb \in Table, NEW t \in Task, NextFd(tb) >= 0
    PROVE  \A fd \in Fd : TakeFd(tb, t).cd[fd].channel = tb.cd[fd].channel
<1> DEFINE no == NextFd(tb)
<1>1. no \in Fd /\ tb.cd \in [Fd -> Desc]
  BY NextFdType, TableParts
<1>2. TakeFd(tb, t).cd = [tb.cd EXCEPT ![no].task = t]
  BY DEF TakeFd
<1> HIDE DEF no
<1> QED
  BY <1>1, <1>2 DEF Desc

LEMMA InstallChannels ==
    ASSUME NEW tb \in Table, NEW no \in Fd, NEW c, NEW flags
    PROVE  \A fd \in Fd : Install(tb, no, c, flags).cd[fd].channel =
              IF fd = no THEN c ELSE tb.cd[fd].channel
<1>1. tb = [cd |-> tb.cd, free_cd_head |-> tb.free_cd_head,
            next_free_cd |-> tb.next_free_cd] /\ tb.cd \in [Fd -> Desc]
  BY TableParts
<1>2. \A fd \in Fd : tb.cd[fd] \in Desc
  BY <1>1
<1> QED
  BY <1>1, <1>2 DEF Install, Desc

(* Descriptor no of task u is opened on c, after the descriptors F of t    *)
(* were closed, while node m keeps c.                                      *)
LEMMA OpenRefs ==
    ASSUME TypeOK, RefInv, NEW t \in Task, NEW tb, NEW F \in SUBSET Fd,
           \A fd \in F : tb.cd[fd].channel = ChannelOf(t, fd),
           NEW u \in Task, NEW no \in Fd, NEW c \in Channel,
           NEW m \in Node, m \notin {t} \X F, ChannelOf(m[1], m[2]) = c,
           refcount' = [d \in Channel |-> refcount[d]
                          - ClosedOn(tb, F, d) + (IF d = c THEN 1 ELSE 0)],
           free_channel' = free_channel \cup Released(tb, F),
           \A n \in Node :
              \/ n = <<u, no>> /\ table'[n[1]].cd[n[2]].channel = c
              \/ n \notin {t} \X F /\ table'[n[1]].cd[n[2]].channel = ChannelOf(n[1], n[2])
              \/ table'[n[1]].cd[n[2]].channel = NoChannel
    PROVE  RefInv'
<1> DEFINE closed == [d \in Channel |-> ClosedOn(tb, F, d)]
           opened == [d \in Channel |-> IF d = c THEN 1 ELSE 0]
           A(d) == IF d = c THEN {<<u, no>>} ELSE {}
<1>1. ASSUME NEW d \in Channel
      PROVE  IsFiniteSet(A(d)) /\ Cardinality(A(d)) = opened[d]
  BY FS_EmptySet, FS_Singleton
<1>2. ASSUME NEW d \in Channel
      PROVE  /\ closed[d] \in Nat /\ closed[d] <= Cardinality(OpenOn(d))
             /\ Cardinality(OpenOn(d))' \in Nat
             /\ Cardinality(OpenOn(d))' <= Cardinality(OpenOn(d)) - closed[d] + opened[d]
  <2> DEFINE S == (OpenOn(d))'
             B == A(d)
  <2>1. S \subseteq (OpenOn(d) \ ({t} \X F)) \cup B
    BY ChannelAssumption DEF OpenOn, ChannelOf
  <2>2. IsFiniteSet(B) /\ Cardinality(B) = opened[d]
    BY <1>1
  <2> HIDE DEF S, B
  <2>3. /\ ClosedOn(tb, F, d) \in Nat
        /\ ClosedOn(tb, F, d) <= Cardinality(OpenOn(d))
        /\ Cardinality(S) \in Nat
        /\ Cardinality(S) <= Cardinality(OpenOn(d)) - ClosedOn(tb, F, d)
                               + Cardinality(B)
    BY <2>1, <2>2, OpenChanges
  <2> QED
    BY <2>2, <2>3 DEF S
<1>3. closed \in [Channel -> Nat] /\ opened \in [Channel -> Nat]
  BY <1>2
<1>4. ASSUME NEW d \in Channel, opened[d] > 0
      PROVE  closed[d] < Cardinality(OpenOn(d))
  <2> DEFINE S == {m}
  <2>1. d = c
    BY <1>4
  <2>2. S \subseteq (OpenOn(d) \ ({t} \X F)) \cup {}
    BY <2>1 DEF OpenOn
  <2>3. IsFiniteSet({}) /\ Cardinality({}) = 0 /\ Cardinality(S) = 1
    BY FS_EmptySet, FS_Singleton
  <2> HIDE DEF S
  <2>4. /\ ClosedOn(tb, F, d) \in Nat
        /\ Cardinality(S) <= Cardinality(OpenOn(d)) - ClosedOn(tb, F, d)
                               + Cardinality({})
    BY <2>2, <2>3, OpenChanges
  <2>5. Cardinality(OpenOn(d)) \in Nat /\ closed[d] = ClosedOn(tb, F, d)
    BY OpenFinite
  <2> HIDE DEF closed
  <2> QED
    BY <2>3, <2>4, <2>5
<1>5. \A d \in Channel : refcount'[d] = refcount[d] - closed[d] + opened[d]
  OBVIOUS
<1>6. \A d \in Channel : d \in free_channel' <=>
         \/ d \in free_channel
         \/ closed[d] > 0 /\ refcount[d] = closed[d]
  BY DEF Released
<1> HIDE DEF closed, opened, A
<1>7. \A d \in Channel :
         /\ closed[d] <= Cardinality(OpenOn(d))
         /\ opened[d] > 0 => closed[d] < Cardinality(OpenOn(d))
         /\ refcount'[d] = refcount[d] - closed[d] + opened[d]
         /\ Cardinality(OpenOn(d))' \in Nat
         /\ Cardinality(OpenOn(d))' <= Cardinality(OpenOn(d)) - closed[d] + opened[d]
  BY <1>2, <1>4, <1>5
<1> QED
  BY <1>3, <1>6, <1>7, ReferencesCounted

LEMMA NewChannelLive ==
    ASSUME QueueInv, ChannelInv, NEW t \in Task, NewChannel(t)
    PROVE  ChannelInv'
<1> DEFINE no == NextFd(table[t])
<1>1. TypeOK /\ state[t] = "RUNNING"
  BY CallerFacts DEF QueueInv, NewChannel, Caller
<1>2. CASE UNCHANGED <<runVars, chanVars, pollVars>>
  BY <1>1, <1>2, SameRun
<1>3. ASSUME no >= 0, NEW c \in free_channel, free_channel' = free_channel \ {c},
             refcount' = [refcount EXCEPT ![c] = 1],
             queue' = [queue EXCEPT ![<<"senders", c>>] = <<>>,
                                    ![<<"receivers", c>>] = <<>>],
             poll_list' = [l \in DOMAIN poll_list |->
                              IF l[1] = c THEN <<>> ELSE poll_list[l]],
             table' = [table EXCEPT ![t] =
                          Install(TakeFd(@, t), no, c, {"RECV", "SEND"})],
             UNCHANGED <<state, args>>
      PROVE  ChannelInv'
  <2>1. /\ c \in Channel /\ table[t] \in Table /\ DOMAIN table = Task
        /\ refcount \in [Channel -> Int] /\ free_channel \subseteq Channel
        /\ queue \in [QueueName -> Seq(Task)]
        /\ DOMAIN poll_list = Channel \X PollEvent
    BY <1>1, <1>3 DEF TypeOK, ChannelTypes, RunTypes, PollTypes
  <2>2. no \in Fd
    BY <1>3, <2>1, NextFdType
  <2>3. ASSUME NEW n \in Node
        PROVE  \/ n = <<t, no>> /\ table'[n[1]].cd[n[2]].channel = c
               \/ n # <<t, no>> /\ table'[n[1]].cd[n[2]].channel = ChannelOf(n[1], n[2])
    <3>1. n[1] \in Task /\ n[2] \in Fd /\ n = <<n[1], n[2]>>
      BY DEF Node
    <3>2. TakeFd(table[t], t) \in Table
      BY <1>3, <2>1, TakeFdType
    <3>3. table'[t] = Install(TakeFd(table[t], t), no, c, {"RECV", "SEND"})
      BY <1>3, <2>1
    <3> HIDE DEF no
    <3>4. \A fd \in Fd : table'[t].cd[fd].channel =
             IF fd = no THEN c ELSE TakeFd(table[t], t).cd[fd].channel
      BY <2>2, <3>2, <3>3, InstallChannels
    <3>5. \A fd \in Fd : TakeFd(table[t], t).cd[fd].channel = ChannelOf(t, fd)
      BY <1>3, <2>1, TakeFdChannels DEF no, ChannelOf
    <3>6. n[1] # t => table'[n[1]] = table[n[1]]
      BY <1>3, <2>1, <3>1
    <3> QED
      BY <3>1, <3>4, <3>5, <3>6 DEF ChannelOf
  <2>4. OpenOn(c) = {}
    BY <2>1, <1>1, <1>3, OpenIsLive DEF OpenOn, ChannelInv
  <2>5. ASSUME NEW d \in Channel
        PROVE  /\ Cardinality(OpenOn(d))' <= refcount'[d]
               /\ d \in free_channel' <=> refcount'[d] = 0
    <3> DEFINE S == (OpenOn(d))'
    <3>1. CASE d = c
      <4>1. S \in SUBSET {<<t, no>>}
        BY <2>3, <2>4, <3>1 DEF OpenOn, ChannelOf
      <4> DEFINE m == <<t, no>>
      <4>2. IsFiniteSet({m}) /\ Cardinality({m}) = 1
        BY FS_Singleton
      <4>3. S \in SUBSET {m}
        BY <4>1
      <4> HIDE DEF S, m
      <4>4. Cardinality(S) <= 1
        BY <4>2, <4>3, FS_Subset
      <4>5. refcount'[d] = 1 /\ d \notin free_channel'
        BY <1>3, <2>1, <3>1
      <4> QED
        BY <4>4, <4>5 DEF S
    <3>2. CASE d # c
      <4>1. S \in SUBSET OpenOn(d)
        BY <2>3, <3>2 DEF OpenOn, ChannelOf
      <4>2. IsFiniteSet(OpenOn(d)) /\ Cardinality(OpenOn(d)) \in Nat
        BY OpenFinite
      <4> HIDE DEF S
      <4>3. /\ Cardinality(S) <= Cardinality(OpenOn(d))
            /\ Cardinality(S) \in Nat
        BY <4>1, <4>2, FS_Subset, FS_CardinalityType
      <4>4. refcount'[d] = refcount[d] /\ (d \in free_channel' <=> d \in free_channel)
        BY <1>3, <2>1, <3>2
      <4>5. /\ Cardinality(OpenOn(d)) <= refcount[d] /\ refcount[d] \in Int
            /\ d \in free_channel <=> refcount[d] = 0
        BY <2>1 DEF ChannelInv, RefInv, Backed, FreeUnreferred
      <4> QED
        BY <4>2, <4>3, <4>4, <4>5 DEF S
    <3> QED
      BY <3>1, <3>2
  <2>6. RefInv'
    BY <2>5 DEF RefInv, Backed, FreeUnreferred
  <2>7. FreeQuiet'
    <3>1. ASSUME NEW d \in free_channel, NEW ev \in PollEvent
          PROVE  /\ queue[<<Side(ev), d>>] = <<>> => queue'[<<Side(ev), d>>] = <<>>
                 /\ poll_list[<<d, ev>>] = <<>> => poll_list'[<<d, ev>>] = <<>>
      <4>1. <<Side(ev), d>> \in QueueName /\ <<d, ev>> \in Channel \X PollEvent
        BY <2>1, SideNames
      <4> QED
        BY <1>3, <2>1, <4>1
    <3>2. free_channel' \subseteq free_channel
      BY <1>3
    <3> QED
      BY <2>1, <3>1, <3>2, StaysQuiet DEF ChannelInv
  <2>8. HandedOpen'
    BY <1>1, <1>3, <2>1, OwnTableOnly DEF ChannelInv
  <2> QED
    BY <2>6, <2>7, <2>8 DEF ChannelInv
<1> QED
  BY <1>2, <1>3 DEF NewChannel, Answer, Panic

LEMMA DupSelfLive ==
    ASSUME QueueInv, ChannelInv, NEW t \in Task, NEW fd, NEW flags,
           DupSelf(t, fd, flags)
    PROVE  ChannelInv'
<1>1. TypeOK /\ state[t] = "RUNNING"
  BY CallerFacts DEF QueueInv, DupSelf, Caller
<1>2. /\ fd \in Fd /\ table[t] \in Table /\ DOMAIN table = Task
      /\ table' = [table EXCEPT ![t].cd[fd].flags = flags]
      /\ UNCHANGED <<runVars, refcount, free_channel, pollVars>>
  BY <1>1, ValidChannelType DEF DupSelf, TypeOK, ChannelTypes
<1>3. ASSUME NEW n \in Node
      PROVE  table'[n[1]].cd[n[2]].channel = ChannelOf(n[1], n[2])
  <2>1. n[1] \in Task /\ n[2] \in Fd
    BY DEF Node
  <2>2. CASE n[1] = t
    <3>1. table[t] = [cd |-> table[t].cd, free_cd_head |-> table[t].free_cd_head,
                      next_free_cd |-> table[t].next_free_cd]
          /\ table[t].cd \in [Fd -> Desc]
      BY <1>2, TableParts
    <3>2. \A d \in Fd : table[t].cd[d] \in Desc
      BY <3>1
    <3>3. table'[t] = [table[t] EXCEPT !.cd[fd].flags = flags]
      BY <1>2
    <3> QED
      BY <1>2, <2>1, <2>2, <3>1, <3>2, <3>3 DEF ChannelOf, Desc
  <2>3. CASE n[1] # t
    BY <1>2, <2>1, <2>3 DEF ChannelOf
  <2> QED
    BY <2>2, <2>3
<1>4. \A c \in Channel : OpenOn(c)' = OpenOn(c)
  BY <1>3 DEF OpenOn, ChannelOf
<1>5. RefInv'
  <2>1. \A c \in Channel : Cardinality(OpenOn(c))' = Cardinality(OpenOn(c))
    BY <1>4
  <2> QED
    BY <1>2, <2>1 DEF ChannelInv, RefInv, Backed, FreeUnreferred
<1>6. HandedOpen'
  BY <1>1, <1>2, OwnTableOnly DEF ChannelInv, runVars
<1>7. FreeQuiet'
  BY <1>2 DEF ChannelInv, FreeQuiet, runVars, pollVars
<1> QED
  BY <1>5, <1>6, <1>7 DEF ChannelInv

LEMMA DupLive ==
    ASSUME QueueInv, ChannelInv, NEW t \in Task, NEW oldfd, NEW newfd,
           Dup(t, oldfd, newfd)
    PROVE  ChannelInv'
<1> DEFINE err == DupError(t, oldfd, newfd)
           no  == IF newfd = -1 THEN NextFd(table[t]) ELSE newfd
           tb  == IF newfd = -1 THEN TakeFd(table[t], t) ELSE table[t]
           old == tb.cd[no].channel
           c   == ChannelOf(t, oldfd)
           F   == IF old = NoChannel THEN {} ELSE {no}
           why == IF no = oldfd THEN "NULL pointer in the kernel"
                  ELSE IF F = {} /\ LinkedAtAll(<<t, no>>)
                  THEN "relinked poll node" ELSE CloseFailure(t, tb, F)
           tb2 == IF F = {} THEN tb ELSE ReleaseFd(tb, no)
           tb3 == Install(tb2, no, c, tb.cd[oldfd].flags)
<1>1. TypeOK /\ state[t] = "RUNNING"
  BY CallerFacts DEF QueueInv, Dup, Caller
<1>2. CASE UNCHANGED <<runVars, chanVars, pollVars>>
  BY <1>1, <1>2, SameRun
<1>3. CASE /\ err = 0 /\ why = "no"
           /\ table' = [table EXCEPT ![t] = tb3]
           /\ refcount' = [d \in Channel |-> refcount[d]
                             - ClosedOn(tb, F, d) + (IF d = c THEN 1 ELSE 0)]
           /\ free_channel' = free_channel \cup Released(tb, F)
           /\ ClosePolls(t, F) /\ UNCHANGED runVars
  <2>1. /\ table[t] \in Table /\ DOMAIN table = Task
        /\ ValidChannel(t, oldfd) /\ oldfd \in Fd /\ c \in Channel
    BY <1>1, <1>3, ValidChannelType DEF DupError, EBADF, TypeOK, ChannelTypes
  <2>2. no \in Fd /\ (newfd = -1 => NextFd(table[t]) >= 0)
    <3>1. /\ ~(newfd = -1 /\ NextFd(table[t]) < 0)
          /\ ~(newfd # -1 /\ newfd \notin Fd)
      <4>1. DupError(t, oldfd, newfd) = 0 /\ ValidChannel(t, oldfd)
        BY <1>3, <2>1
      <4> QED
        BY <4>1 DEF DupError, EMFILE, EBADF
    <3>2. NextFd(table[t]) \in Fd \cup {-1}
      BY <2>1, NextFdType
    <3>3. /\ \A fd \in Fd \cup {-1} : fd < 0 \/ fd \in Fd
          /\ \A fd \in Fd : fd >= 0
      BY MaxFdsAssumption DEF Fd
    <3>4. CASE newfd = -1
      <4>1. ~(NextFd(table[t]) < 0)
        BY <3>1, <3>4
      <4> QED
        BY <3>2, <3>3, <3>4, <4>1
    <3>5. CASE newfd # -1
      <4>1. newfd \in Fd
        BY <3>1, <3>5
      <4> QED
        BY <3>5, <4>1
    <3> QED
      BY <3>4, <3>5
  <2>3. tb \in Table /\ \A fd \in Fd : tb.cd[fd].channel = ChannelOf(t, fd)
    BY <2>1, <2>2, TakeFdType, TakeFdChannels DEF ChannelOf
  <2>4. no # oldfd /\ CloseFailure(t, tb, F) = "no"
    <3> HIDE DEF no, tb, F
    <3> QED
      BY <1>3
  <2>5. /\ F \in SUBSET Fd
        /\ \A fd \in F : tb.cd[fd].channel = ChannelOf(t, fd)
        /\ <<t, oldfd>> \in Node /\ <<t, oldfd>> \notin {t} \X F
    BY <2>1, <2>2, <2>3, <2>4 DEF Node
  <2>6. tb2 \in Table /\ \A fd \in Fd :
           tb2.cd[fd].channel = IF fd \in F THEN NoChannel ELSE ChannelOf(t, fd)
    <3>1. CASE F = {}
      BY <2>3, <3>1
    <3>2. CASE F = {no}
      <4>1. tb2 = ReleaseFd(tb, no)
        BY <3>2
      <4> HIDE DEF tb, no, F, tb2
      <4> QED
        BY <2>2, <2>3, <3>2, <4>1, ReleaseFdType, ReleaseFdChannels
    <3> QED
      BY <3>1, <3>2
  <2>7. \A fd \in Fd : tb3.cd[fd].channel =
           IF fd = no THEN c ELSE IF fd \in F THEN NoChannel ELSE ChannelOf(t, fd)
    <3> HIDE DEF tb2, no, c, F, tb
    <3> QED
      BY <2>2, <2>6, InstallChannels
  <2>8. table'[t] = tb3
    BY <1>3, <2>1
  <2> HIDE DEF tb3, tb2, no, c, tb, F
  <2>9. ASSUME NEW n \in Node
        PROVE  \/ n = <<t, no>> /\ table'[n[1]].cd[n[2]].channel = c
               \/ n \notin {t} \X F /\ table'[n[1]].cd[n[2]].channel = ChannelOf(n[1], n[2])
               \/ table'[n[1]].cd[n[2]].channel = NoChannel
    <3>1. n[1] \in Task /\ n[2] \in Fd /\ n = <<n[1], n[2]>>
      BY DEF Node
    <3>2. n[1] # t => table'[n[1]] = table[n[1]]
      BY <1>3, <2>1, <3>1
    <3> QED
      BY <2>7, <2>8, <3>1, <3>2 DEF ChannelOf
  <2>10. RefInv'
    <3> DEFINE m == <<t, oldfd>>
    <3>1. m \in Node /\ m \notin {t} \X F /\ ChannelOf(m[1], m[2]) = c
      BY <2>5 DEF c
    <3> HIDE DEF m
    <3> QED
      BY <1>1, <1>3, <2>1, <2>2, <2>5, <2>9, <3>1, OpenRefs DEF ChannelInv
  <2>11. FreeQuiet'
    BY <1>1, <1>3, <2>4, ReleasedQuiet, SameQueues DEF ChannelInv, runVars
  <2>12. HandedOpen'
    BY <1>1, <1>3, <2>1, OwnTableOnly DEF ChannelInv, runVars
  <2> QED
    BY <2>10, <2>11, <2>12 DEF ChannelInv
<1> QED
  BY <1>2, <1>3 DEF Dup, Answer, Panic

(* As many descriptors of a new task refer to c as its list of channels    *)
(* has entries that do.                                                    *)
Entries(t, chans, c) == {k \in DOMAIN chans : ChannelOf(t, chans[k]) = c}
NewFds(t, chans, c) ==
    {fd \in Fd : fd < Len(chans) /\ ChannelOf(t, chans[fd + 1]) = c}

LEMMA SpawnListCounts ==
    ASSUME NEW t, NEW chans \in Seq(AnyFd), NEW c, Len(chans) <= MaxFds
    PROVE  /\ Cardinality(Entries(t, chans, c)) \in Nat
           /\ Cardinality(NewFds(t, chans, c)) = Cardinality(Entries(t, chans, c))
<1> DEFINE K == Entries(t, chans, c)
           G == NewFds(t, chans, c)
           f == [fd \in G |-> fd + 1]
<1>1. Len(chans) \in Nat /\ DOMAIN chans = 1 .. Len(chans)
  BY LenProperties
<1>2. IsFiniteSet(K) /\ Cardinality(K) \in Nat
  <2>1. IsFiniteSet(1 .. Len(chans)) /\ K \in SUBSET (1 .. Len(chans))
    BY <1>1, FS_Interval DEF Entries
  <2> HIDE DEF K
  <2> QED
    BY <2>1, FS_Subset, FS_CardinalityType
<1>3. f \in Injection(G, K)
  <2>1. \A fd \in G : fd \in Nat /\ fd + 1 \in K
    BY <1>1, MaxFdsAssumption DEF Fd, Entries, NewFds
  <2> HIDE DEF G, K
  <2>2. f \in [G -> K]
    BY <2>1
  <2>3. \A a, b \in G : f[a] = f[b] => a = b
    BY <2>1
  <2> QED
    BY <2>2, <2>3 DEF Injection, IsInjective
<1>4. f \in Surjection(G, K)
  <2>1. ASSUME NEW k \in K PROVE \E fd \in G : fd + 1 = k
    <3>1. k \in 1 .. Len(chans) /\ k - 1 \in Fd /\ (k - 1) + 1 = k
      BY <1>1, MaxFdsAssumption DEF Fd, Entries
    <3>2. k - 1 \in G
      BY <1>1, <3>1 DEF Entries, NewFds
    <3> QED
      BY <3>1, <3>2
  <2>2. f \in [G -> K]
    BY <1>3 DEF Injection
  <2> HIDE DEF G, K
  <2> QED
    BY <2>1, <2>2 DEF Surjection
<1>5. Cardinality(G) = Cardinality(K)
  <2> HIDE DEF f, G, K
  <2> QED
    BY <1>2, <1>3, <1>4, FS_Injection
<1> QED
  BY <1>2, <1>5

LEMMA SpawnLive ==
    ASSUME QueueInv, TypeOK', ChannelInv, NEW t \in Task, NEW prio,
           NEW chans \in Seq(AnyFd), NEW flags, Spawn(t, prio, chans, flags)
    PROVE  ChannelInv'
<1> DEFINE free == queue[<<"free", 0>>]
           i == IF free = <<>> THEN next_tidx ELSE Head(free)
<1>1. TypeOK /\ Settled(state, queue) /\ NoNewWaiter(queue, queue')
  BY SpawnKeeps DEF QueueInv
<1>2. CASE UNCHANGED <<runVars, chanVars, pollVars>>
  BY <1>1, <1>2, SameRun
<1>3. CASE /\ SpawnError(t, prio, chans, flags) = 0
           /\ state' = [state EXCEPT ![i] = "RUNNING"]
           /\ table' = [table EXCEPT ![i] = SpawnTable(t, i, chans)]
           /\ refcount' = [c \in Channel |-> refcount[c] + Cardinality(Entries(t, chans, c))]
           /\ UNCHANGED <<args, free_channel, poll_list>>
  <2>1. /\ Len(chans) <= MaxFds /\ \A k \in DOMAIN chans : ValidChannel(t, chans[k])
        /\ ~(free = <<>> /\ next_tidx >= MaxTasks)
    <3>1. SpawnError(t, prio, chans, flags) = 0
      BY <1>3
    <3>2. /\ ~(flags \notin {0, 1} \/ prio \notin Prio \/ Len(chans) > MaxFds)
          /\ ~(\E k \in DOMAIN chans : ~ValidChannel(t, chans[k]))
          /\ ~(queue[<<"free", 0>>] = <<>> /\ next_tidx >= MaxTasks)
      BY <3>1 DEF SpawnError, EINVAL, EBADF, ENOMEM
    <3>3. Len(chans) \in Nat /\ MaxFds \in Nat
      BY LenProperties, MaxFdsAssumption
    <3> QED
      BY <3>2, <3>3
  <2>2. i \in Task
    <3>1. ~(free = <<>> /\ next_tidx >= MaxTasks)
      BY <2>1
    <3> HIDE DEF free
    <3> QED
      BY <1>1, <3>1, SpawnTakesFree DEF free
  <2> HIDE DEF i, free
  <2>3. /\ DOMAIN table = Task /\ DOMAIN state = Task /\ refcount \in [Channel -> Int]
        /\ free_channel \subseteq Channel
    BY <1>1 DEF TypeOK, ChannelTypes, RunTypes
  <2>4. ASSUME NEW n \in Node, table'[n[1]].cd[n[2]].channel # NoChannel
        PROVE  \/ ChannelOf(n[1], n[2]) = table'[n[1]].cd[n[2]].channel
               \/ n \in {i} \X NewFds(t, chans, table'[n[1]].cd[n[2]].channel)
    <3>1. n[1] \in Task /\ n[2] \in Fd /\ n = <<n[1], n[2]>>
      BY DEF Node
    <3>2. CASE n[1] = i
      <4>1. table'[n[1]] = SpawnTable(t, i, chans)
        BY <1>3, <2>2, <2>3, <3>2
      <4>2. SpawnTable(t, i, chans).cd[n[2]].channel =
               IF n[2] < Len(chans) THEN ChannelOf(t, chans[n[2] + 1]) ELSE NoChannel
        BY <3>1 DEF SpawnTable, ClearTable, ClearDesc
      <4> QED
        BY <2>4, <3>1, <3>2, <4>1, <4>2 DEF NewFds
    <3>3. CASE n[1] # i
      BY <1>3, <2>3, <3>1, <3>3 DEF ChannelOf
    <3> QED
      BY <3>2, <3>3
  <2>5. ASSUME NEW c \in Channel
        PROVE  /\ Cardinality(Entries(t, chans, c)) \in Nat
               /\ Cardinality(OpenOn(c))' \in Nat
               /\ Cardinality(OpenOn(c))' <= Cardinality(OpenOn(c)) + Cardinality(Entries(t, chans, c))
    <3> DEFINE S == (OpenOn(c))'
               g == NewFds(t, chans, c)
               k == Entries(t, chans, c)
               A == {i} \X g
    <3>1. Cardinality(k) \in Nat /\ Cardinality(g) = Cardinality(k)
      BY <2>1, SpawnListCounts
    <3>2. g \in SUBSET Fd
      BY DEF NewFds
    <3>3. S \subseteq (OpenOn(c) \ ({t} \X {})) \cup A
      BY <2>4, ChannelAssumption DEF OpenOn, ChannelOf
    <3> HIDE DEF S, g, k
    <3>4. IsFiniteSet(A) /\ Cardinality(A) = Cardinality(g)
      BY <3>2, NodesOfFds
    <3> HIDE DEF A
    <3>5. /\ Cardinality(S) \in Nat
          /\ Cardinality(S) <= Cardinality(OpenOn(c)) - ClosedOn(table[t], {}, c)
                                 + Cardinality(A)
      BY <3>3, <3>4, OpenChanges
    <3>6. ClosedOn(table[t], {}, c) = 0 /\ Cardinality(OpenOn(c)) \in Nat
      BY ClosedNone, OpenFinite
    <3>7. Cardinality(g) \in Nat
      BY <3>2, FdFinite
    <3>8. Cardinality(S) <= Cardinality(OpenOn(c)) + Cardinality(k)
      BY <3>1, <3>4, <3>5, <3>6, <3>7
    <3> QED
      BY <3>1, <3>5, <3>8 DEF S, k
  <2>6. ASSUME NEW c \in Channel, Cardinality(Entries(t, chans, c)) > 0
        PROVE  Cardinality(OpenOn(c)) > 0
    <3>1. Entries(t, chans, c) # {}
      <4> DEFINE k == Entries(t, chans, c)
      <4> HIDE DEF k
      <4>1. k # {}
        <5>1. Cardinality(k) > 0
          BY <2>6 DEF k
        <5>2. Cardinality({}) = 0
          BY FS_EmptySet
        <5>3. CASE k = {}
          <6>1. Cardinality(k) = 0
            BY <5>2, <5>3, Zenon
          <6> QED
            BY <5>1, <6>1
        <5> QED
          BY <5>3
      <4> QED
        BY <4>1 DEF k
    <3>2. PICK k \in DOMAIN chans : ChannelOf(t, chans[k]) = c
      BY <3>1 DEF Entries
    <3> DEFINE n == <<t, chans[k]>>
    <3>3. n \in Node /\ ChannelOf(n[1], n[2]) = c
      BY <2>1, <3>2 DEF Node, ValidChannel
    <3> HIDE DEF n
    <3>4. Cardinality(OpenOn(c)) >= 1 /\ Cardinality(OpenOn(c)) \in Nat
      BY <1>1, <3>3, OpenIsLive, OpenFinite DEF ChannelInv
    <3> QED
      BY <3>4
  <2>7. RefInv'
    <3> DEFINE closed == [c \in Channel |-> 0]
               opened == [c \in Channel |-> Cardinality(Entries(t, chans, c))]
    <3>1. closed \in [Channel -> Nat] /\ opened \in [Channel -> Nat]
      BY <2>5
    <3>2. ASSUME NEW c \in Channel
          PROVE  /\ closed[c] <= Cardinality(OpenOn(c))
                 /\ opened[c] > 0 => closed[c] < Cardinality(OpenOn(c))
                 /\ refcount'[c] = refcount[c] - closed[c] + opened[c]
                 /\ Cardinality(OpenOn(c))' \in Nat
                 /\ Cardinality(OpenOn(c))' <= Cardinality(OpenOn(c)) - closed[c] + opened[c]
      <4>1. Cardinality(OpenOn(c)) \in Nat
        BY OpenFinite
      <4>2. closed[c] = 0 /\ opened[c] = Cardinality(Entries(t, chans, c))
        OBVIOUS
      <4>3. refcount'[c] = refcount[c] + opened[c] /\ refcount[c] \in Int
        BY <1>3, <2>3
      <4> HIDE DEF closed, opened
      <4> QED
        BY <2>5, <2>6, <4>1, <4>2, <4>3
    <3>3. \A c \in Channel : c \in free_channel' <=>
             \/ c \in free_channel
             \/ closed[c] > 0 /\ refcount[c] = closed[c]
      BY <1>3
    <3> HIDE DEF closed, opened
    <3> QED
      BY <1>1, <3>1, <3>2, <3>3, ReferencesCounted DEF ChannelInv
  <2>8. FreeQuiet'
    BY <1>1, <1>3, <2>3, StaysQuiet DEF ChannelInv, NoNewWaiter
  <2>9. HandedOpen'
    BY <1>3, <2>2, <2>3, OwnTableOnly DEF ChannelInv
  <2> QED
    BY <2>7, <2>8, <2>9 DEF ChannelInv
<1> QED
  BY <1>2, <1>3 DEF Spawn, Answer, Entries

-----------------------------------------------------------------------------
(* Passing messages.                                                       *)

LEMMA TriggerLeaves ==
    ASSUME TypeOK, NEW c \in Channel, NEW ev \in PollEvent, NEW q,
           NEW st \in [Task -> TaskState], NEW R, Trigger(c, ev, q, st, R)
    PROVE  /\ \A l \in Channel \X PollEvent :
                 poll_list[l] = <<>> => poll_list'[l] = <<>>
           /\ \A i \in Task : state'[i] = "SEND_BLOCKED" => st[i] = "SEND_BLOCKED"
<1>1. poll_list' = poll_list \/ poll_list' = [poll_list EXCEPT ![<<c, ev>>] = <<>>]
  BY DEF Trigger
<1>2. \E W : state' = [i \in Task |-> IF i \in W THEN "RUNNING" ELSE st[i]]
  BY DEF Trigger
<1>3. DOMAIN poll_list = Channel \X PollEvent
  BY DEF TypeOK, PollTypes
<1>4. \A l \in Channel \X PollEvent : poll_list[l] = <<>> => poll_list'[l] = <<>>
  BY <1>1, <1>3
<1>5. \A i \in Task : state'[i] = "SEND_BLOCKED" => st[i] = "SEND_BLOCKED"
  BY <1>2
<1> QED
  BY <1>4, <1>5

LEMMA ExchangeLive ==
    ASSUME QueueInv, TypeOK', ChannelInv, NEW t \in Task, t # Idle, current = t,
           NEW ev \in PollEvent, NEW c \in Channel, c \notin free_channel,
           NEW x \in Args,
           x.chan # NoChannel => \E fd \in Fd : ChannelOf(t, fd) = x.chan,
           Exchange(t, ev, c, x)
    PROVE  ChannelInv'
<1> DEFINE st == Joined(t, ev)
           q  == JoinedQueue(t, ev, c)
           a  == [args EXCEPT ![t] = x]
           s   == FirstSender(q, c)
           r   == FirstReceiver(q, c)
           no  == NextFd(table[r])
           why == ReceiveFailure(s, r, st, a)
           st2 == GoOn(st, s, r)
           q2  == ToReady(q, <<r, s>>)
           R   == {<<r, a[s].len>>, <<s, 0>>}
<1>1. /\ TypeOK /\ free_channel \subseteq Channel
      /\ table \in [Task -> Table] /\ args \in [Task -> Args]
      /\ state \in [Task -> TaskState] /\ refcount \in [Channel -> Int]
  BY DEF QueueInv, TypeOK, ChannelTypes, RunTypes
<1>2. /\ st \in [Task -> TaskState] /\ q \in [QueueName -> Seq(Task)]
      /\ \A i \in Task \ {t} : st[i] = state[i]
      /\ a \in [Task -> Args] /\ \A i \in Task : a[i] = IF i = t THEN x ELSE args[i]
  <2>1. st \in [Task -> TaskState] /\ q \in [QueueName -> Seq(Task)]
    BY JoinSettles
  <2>2. \A i \in Task \ {t} : st[i] = state[i]
    BY <1>1 DEF Joined
  <2>3. a \in [Task -> Args] /\ \A i \in Task : a[i] = IF i = t THEN x ELSE args[i]
    BY <1>1
  <2> QED
    BY <2>1, <2>2, <2>3
<1>3. \A d \in free_channel, e \in PollEvent :
         queue[<<Side(e), d>>] = <<>> => queue'[<<Side(e), d>>] = <<>>
  <2>1. \A d \in Channel \ {c}, e \in PollEvent :
           queue[<<Side(e), d>>] = <<>> => queue'[<<Side(e), d>>] = <<>>
    BY ExchangeKeeps
  <2> QED
    BY <1>1, <2>1
<1>4. \/ Panic(why)
      \/ ~Pair(q, c) /\ args' = a /\ Trigger(c, ev, q, st, {}) /\ UNCHANGED chanVars
      \/ /\ Pair(q, c) /\ why = "no"
         /\ \/ a[s].chan = NoChannel /\ UNCHANGED <<table, refcount>>
            \/ /\ a[s].chan # NoChannel
               /\ table' = [table EXCEPT ![r] =
                    Install(TakeFd(@, r), no, a[s].chan, a[s].flags)]
               /\ refcount' = [refcount EXCEPT ![a[s].chan] = @ + 1]
         /\ args' = [a EXCEPT ![s] = NoArgs, ![r] = NoArgs]
         /\ Trigger(c, ev, q2, st2, R) /\ UNCHANGED free_channel
  BY DEF Exchange, Joined, JoinedQueue, FirstSender, FirstReceiver, GoOn, ToReady
<1> HIDE DEF st, q, a, q2, R
<1>5. CASE Panic(why)
  BY <1>1, <1>5, PanicLive
<1>6. CASE args' = a /\ Trigger(c, ev, q, st, {}) /\ UNCHANGED chanVars
  <2>1. /\ \A l \in Channel \X PollEvent : poll_list[l] = <<>> => poll_list'[l] = <<>>
        /\ \A i \in Task : state'[i] = "SEND_BLOCKED" => st[i] = "SEND_BLOCKED"
    BY <1>1, <1>2, <1>6, TriggerLeaves
  <2>2. RefInv'
    BY <1>6, RefsSame DEF ChannelInv
  <2>3. FreeQuiet'
    BY <1>1, <1>3, <1>6, <2>1, StaysQuiet DEF ChannelInv, chanVars
  <2>4. HandedOpen'
    <3>1. UNCHANGED table
      BY <1>6 DEF chanVars
    <3> QED
      BY <1>2, <1>6, <2>1, <3>1, HandedStays DEF ChannelInv
  <2> QED
    BY <2>2, <2>3, <2>4 DEF ChannelInv
<1>7. CASE
    /\ Pair(q, c) /\ why = "no"
    /\ \/ a[s].chan = NoChannel /\ UNCHANGED <<table, refcount>>
       \/ /\ a[s].chan # NoChannel
          /\ table' = [table EXCEPT ![r] =
               Install(TakeFd(@, r), no, a[s].chan, a[s].flags)]
          /\ refcount' = [refcount EXCEPT ![a[s].chan] = @ + 1]
    /\ args' = [a EXCEPT ![s] = NoArgs, ![r] = NoArgs]
    /\ Trigger(c, ev, q2, st2, R) /\ UNCHANGED free_channel
  <2>1. s \in Task /\ r \in Task
    <3>1. /\ q[<<"senders", c>>] \in Seq(Task) /\ q[<<"senders", c>>] # <<>>
          /\ q[<<"receivers", c>>] \in Seq(Task) /\ q[<<"receivers", c>>] # <<>>
      BY <1>2, <1>7, SideNames DEF Pair
    <3> QED
      BY <3>1, HeadTailProperties DEF FirstSender, FirstReceiver, Peek
  <2> HIDE DEF s, r
  <2>2. /\ st[s] = "SEND_BLOCKED" /\ st[r] = "RECV_BLOCKED"
        /\ a[s].chan # NoChannel => ~(no < 0)
    BY <1>7 DEF ReceiveFailure
  <2>3. /\ st2 \in [Task -> TaskState]
        /\ \A i \in Task : st2[i] = "SEND_BLOCKED" =>
              i # s /\ i # r /\ st[i] = "SEND_BLOCKED"
    BY <1>2, <2>1 DEF GoOn, TaskState
  <2> HIDE DEF st2
  <2>4. /\ \A l \in Channel \X PollEvent : poll_list[l] = <<>> => poll_list'[l] = <<>>
        /\ \A i \in Task : state'[i] = "SEND_BLOCKED" => st2[i] = "SEND_BLOCKED"
    BY <1>1, <1>7, <2>3, TriggerLeaves
  <2>5. FreeQuiet'
    BY <1>1, <1>3, <1>7, <2>4, StaysQuiet DEF ChannelInv
  <2>6. \A i \in Task \ {r} : table'[i] = table[i]
    BY <1>1, <1>7
  <2>7. \A i \in Task \ {s, r} : args'[i] = a[i]
    BY <1>2, <1>7
  <2>8. HandedOpen'
    <3>1. ASSUME NEW i \in Task, state'[i] = "SEND_BLOCKED", args'[i].chan # NoChannel
          PROVE  \/ /\ state[i] = "SEND_BLOCKED" /\ args'[i] = args[i]
                    /\ table'[i] = table[i]
                 \/ /\ table'[i] = table[i]
                    /\ \E fd \in Fd : ChannelOf(i, fd) = args'[i].chan
      <4>1. i # s /\ i # r /\ st[i] = "SEND_BLOCKED"
        BY <2>3, <2>4, <3>1
      <4>2. table'[i] = table[i] /\ args'[i] = a[i]
        BY <2>6, <2>7, <4>1
      <4> QED
        BY <1>2, <3>1, <4>1, <4>2
    <3> QED
      BY <3>1, HandedStays DEF ChannelInv
  <2>9. CASE UNCHANGED <<table, refcount>>
    <3>1. RefInv'
      BY <1>7, <2>9, RefsSame DEF ChannelInv, chanVars
    <3> QED
      BY <2>5, <2>8, <3>1 DEF ChannelInv
  <2>10. CASE /\ a[s].chan # NoChannel
              /\ table' = [table EXCEPT ![r] =
                   Install(TakeFd(@, r), no, a[s].chan, a[s].flags)]
              /\ refcount' = [refcount EXCEPT ![a[s].chan] = @ + 1]
    <3> DEFINE h == a[s].chan
    <3>1. h \in Channel
      <4>1. a[s] \in Args
        BY <1>2, <2>1
      <4> QED
        BY <2>10, <4>1 DEF Args
    <3>2. \E m \in Node : ChannelOf(m[1], m[2]) = h
      <4>1. \E fd \in Fd : ChannelOf(s, fd) = h
        <5>1. CASE s = t
          BY <1>2, <2>1, <2>10, <5>1
        <5>2. CASE s # t
          BY <1>2, <2>1, <2>2, <2>10, <5>2 DEF ChannelInv, HandedOpen
        <5> QED
          BY <5>1, <5>2
      <4>2. PICK fd \in Fd : ChannelOf(s, fd) = h
        BY <4>1
      <4> DEFINE m == <<s, fd>>
      <4>3. m \in Node /\ ChannelOf(m[1], m[2]) = h
        BY <2>1, <4>2 DEF Node
      <4> HIDE DEF m, h
      <4> QED
        BY <4>3
    <3>3. PICK m \in Node : ChannelOf(m[1], m[2]) = h
      BY <3>2
    <3>4. table[r] \in Table /\ no \in Fd /\ NextFd(table[r]) >= 0
      <4>1. table[r] \in Table
        BY <1>1, <2>1
      <4>2. ~(no < 0) /\ no \in Fd \cup {-1}
        BY <2>2, <2>10, <4>1, NextFdType
      <4>3. no \in Fd /\ no >= 0
        <5>1. \A fd \in Fd : fd >= 0
          BY DEF Fd
        <5> HIDE DEF no
        <5> QED
          BY <4>2, <5>1
      <4> QED
        BY <4>1, <4>3
    <3>5. ASSUME NEW n \in Node
          PROVE  \/ n = <<r, no>> /\ table'[n[1]].cd[n[2]].channel = h
                 \/ n \notin {t} \X {} /\ table'[n[1]].cd[n[2]].channel = ChannelOf(n[1], n[2])
      <4>1. n[1] \in Task /\ n[2] \in Fd /\ n = <<n[1], n[2]>>
        BY DEF Node
      <4>2. TakeFd(table[r], r) \in Table
        BY <2>1, <3>4, TakeFdType
      <4>3. table'[r] = Install(TakeFd(table[r], r), no, h, a[s].flags)
        BY <1>1, <2>1, <2>10
      <4>4. \A fd \in Fd : TakeFd(table[r], r).cd[fd].channel = ChannelOf(r, fd)
        BY <2>1, <3>4, TakeFdChannels DEF ChannelOf
      <4> HIDE DEF no, h
      <4>5. \A fd \in Fd : table'[r].cd[fd].channel =
               IF fd = no THEN h ELSE TakeFd(table[r], r).cd[fd].channel
        BY <3>4, <4>2, <4>3, InstallChannels
      <4>6. n[1] # r => table'[n[1]] = table[n[1]]
        BY <2>6, <4>1
      <4> QED
        BY <4>1, <4>4, <4>5, <4>6 DEF ChannelOf
    <3>6. refcount' = [d \in Channel |-> refcount[d]
                          - ClosedOn(table[t], {}, d) + (IF d = h THEN 1 ELSE 0)]
      <4>1. \A d \in Channel : ClosedOn(table[t], {}, d) = 0
        BY ClosedNone
      <4>2. refcount' = [refcount EXCEPT ![h] = @ + 1]
        BY <2>10
      <4> HIDE DEF h
      <4>3. \A d \in Channel : refcount'[d] =
               refcount[d] - ClosedOn(table[t], {}, d) + (IF d = h THEN 1 ELSE 0)
        BY <1>1, <3>1, <4>1, <4>2
      <4> QED
        BY <1>1, <4>2, <4>3
    <3>7. free_channel' = free_channel \cup Released(table[t], {})
      BY <1>7, ClosedNone DEF Released
    <3> HIDE DEF h, no
    <3>8. RefInv'
      BY <1>1, <2>1, <3>1, <3>3, <3>4, <3>5, <3>6, <3>7, OpenRefs DEF ChannelInv
    <3> QED
      BY <2>5, <2>8, <3>8 DEF ChannelInv
  <2> QED
    BY <1>7, <2>9, <2>10
<1> QED
  BY <1>4, <1>5, <1>6, <1>7

LEMMA MessageCallLive ==
    ASSUME QueueInv, TypeOK', ChannelInv, NEW t \in Task, MessageCall(t)
    PROVE  ChannelInv'
<1>0. TypeOK
  BY DEF QueueInv
<1>1. \A fd, ev, nb, sch : ExchangeError(t, fd, ev, nb, sch) = 0 =>
         ValidChannel(t, fd) /\ (sch # -1 => ValidChannel(t, sch))
  BY DEF ExchangeError, EBADF, EWOULDBLOCK
<1>2. ASSUME NEW fd, ValidChannel(t, fd)
      PROVE  /\ ChannelOf(t, fd) \in Channel /\ ChannelOf(t, fd) \notin free_channel
             /\ \E d \in Fd : ChannelOf(t, d) = ChannelOf(t, fd)
  <2>1. fd \in Fd /\ ChannelOf(t, fd) \in Channel
    BY <1>0, <1>2, ValidChannelType DEF TypeOK
  <2> DEFINE n == <<t, fd>>
  <2>2. n \in Node /\ ChannelOf(n[1], n[2]) = ChannelOf(t, fd)
    BY <2>1 DEF Node
  <2> HIDE DEF n
  <2> QED
    BY <1>0, <2>1, <2>2, OpenIsLive DEF ChannelInv
<1>3. ASSUME NEW fd, NEW ev \in PollEvent, NEW x \in Args, NEW call, Caller(t, call),
             ValidChannel(t, fd), Exchange(t, ev, ChannelOf(t, fd), x),
             x.chan # NoChannel => \E d \in Fd : ChannelOf(t, d) = x.chan
      PROVE  ChannelInv'
  <2>1. t # Idle /\ current = t
    BY <1>3 DEF Caller
  <2>2. ChannelOf(t, fd) \in Channel /\ ChannelOf(t, fd) \notin free_channel
    BY <1>2, <1>3
  <2> QED
    BY <1>3, <2>1, <2>2, ExchangeLive
<1>4. ASSUME NEW fd \in FdArgs, NEW len \in Lens, NEW nb \in Nonblock,
             NEW sch \in SendChans, Send(t, fd, len, sch, nb)
      PROVE  ChannelInv'
  <2> DEFINE err == ExchangeError(t, fd, "RECV", nb, sch)
             x == IF sch = -1 THEN [NoArgs EXCEPT !.len = len]
                  ELSE [chan |-> ChannelOf(t, sch), flags |-> table[t].cd[sch].flags,
                        len |-> len, rch |-> FALSE]
  <2>1. CASE Answer(t, err)
    BY <1>0, <2>1, AnswerLive
  <2>2. CASE err = 0 /\ Exchange(t, "RECV", ChannelOf(t, fd), x)
    <3>1. ValidChannel(t, fd) /\ (sch # -1 => ValidChannel(t, sch))
      BY <1>1, <2>2
    <3>2. len \in Nat /\ Caller(t, "send")
      BY <1>4, InputAssumption DEF Send
    <3>3. CASE sch = -1
      <4>1. x \in Args /\ x.chan = NoChannel
        BY <3>2, <3>3 DEF NoArgs, Args
      <4> HIDE DEF x
      <4> QED
        BY <1>3, <2>2, <3>1, <3>2, <4>1 DEF PollEvent
    <3>4. CASE sch # -1
      <4>1. ChannelOf(t, sch) \in Channel /\ table[t].cd[sch].flags \in SUBSET Flag
        BY <1>0, <3>1, <3>4, ValidChannelType DEF TypeOK
      <4>2. x \in Args /\ x.chan = ChannelOf(t, sch)
        BY <3>2, <3>4, <4>1 DEF Args
      <4>3. \E d \in Fd : ChannelOf(t, d) = x.chan
        BY <1>2, <3>1, <3>4, <4>2
      <4> HIDE DEF x
      <4> QED
        BY <1>3, <2>2, <3>1, <3>2, <4>2, <4>3 DEF PollEvent
    <3> QED
      BY <3>3, <3>4
  <2> QED
    BY <1>4, <2>1, <2>2 DEF Send
<1>5. ASSUME NEW fd \in FdArgs, NEW len \in Lens, NEW nb \in Nonblock,
             NEW rch \in RecvChans, Recv(t, fd, len, rch, nb)
      PROVE  ChannelInv'
  <2> DEFINE err == ExchangeError(t, fd, "SEND", nb, -1)
             x == [NoArgs EXCEPT !.len = len, !.rch = rch]
  <2>1. CASE Answer(t, err)
    BY <1>0, <2>1, AnswerLive
  <2>2. CASE err = 0 /\ Exchange(t, "SEND", ChannelOf(t, fd), x)
    <3>1. ValidChannel(t, fd)
      BY <1>1, <2>2
    <3>2. len \in Nat /\ rch \in BOOLEAN /\ Caller(t, "recv")
      BY <1>5, InputAssumption DEF Recv
    <3>3. x \in Args /\ x.chan = NoChannel
      BY <3>2 DEF NoArgs, Args
    <3> HIDE DEF x
    <3> QED
      BY <1>3, <2>2, <3>1, <3>2, <3>3 DEF PollEvent
  <2> QED
    BY <1>5, <2>1, <2>2 DEF Recv
<1> QED
  BY <1>4, <1>5 DEF MessageCall

-----------------------------------------------------------------------------
(* Polling, and everything else.                                           *)

(* What is polled is open, and so not free. *)
LEMMA PollAddLive ==
    ASSUME QueueInv, ChannelInv, NoNewWaiter(queue, queue'), NEW t \in Task,
           NEW fd, NEW events, PollAdd(t, fd, events)
    PROVE  ChannelInv'
<1> DEFINE new  == {ev \in events : ~Linked(<<t, fd>>, ev)}
           here == {ev \in new : Active(ChannelOf(t, fd), ev)}
<1>1. TypeOK
  BY DEF QueueInv
<1>2. CASE UNCHANGED <<runVars, chanVars, pollVars>>
  BY <1>1, <1>2, SameRun
<1>3. CASE /\ ValidChannel(t, fd)
           /\ poll_list' = [l \in DOMAIN poll_list |->
                 IF l[1] = ChannelOf(t, fd) /\ l[2] \in new \ here
                 THEN Append(poll_list[l], <<t, fd>>) ELSE poll_list[l]]
           /\ UNCHANGED <<runVars, chanVars>>
  <2> DEFINE n == <<t, fd>>
             X == new \ here
  <2>1. n \in Node /\ ChannelOf(n[1], n[2]) \in Channel
    BY <1>1, <1>3, ValidChannelType DEF TypeOK, Node
  <2>2. ChannelOf(t, fd) \notin free_channel
    <3> HIDE DEF n
    <3>1. ChannelOf(n[1], n[2]) \notin free_channel
      BY <1>1, <2>1, OpenIsLive DEF ChannelInv
    <3> QED
      BY <3>1 DEF n
  <2> HIDE DEF X, n
  <2>3. /\ DOMAIN poll_list = Channel \X PollEvent /\ free_channel \subseteq Channel
    BY <1>1 DEF TypeOK, PollTypes, ChannelTypes
  <2>4. ASSUME NEW c \in free_channel, NEW ev \in PollEvent
        PROVE  poll_list'[<<c, ev>>] = poll_list[<<c, ev>>]
    <3> DEFINE l == <<c, ev>>
    <3>1. l \in DOMAIN poll_list /\ l[1] # ChannelOf(t, fd)
      BY <2>2, <2>3
    <3> HIDE DEF l, new, here
    <3>2. poll_list'[l] = poll_list[l]
      BY <1>3, <3>1
    <3> QED
      BY <3>2 DEF l
  <2> QED
    BY <1>1, <1>3, <2>4, LooksOn DEF runVars
<1> QED
  BY <1>2, <1>3 DEF PollAdd, Answer

LEMMA PollRemoveLive ==
    ASSUME QueueInv, ChannelInv, NoNewWaiter(queue, queue'), NEW t \in Task,
           NEW fd, NEW events, PollRemove(t, fd, events)
    PROVE  ChannelInv'
<1>1. TypeOK
  BY DEF QueueInv
<1>2. CASE UNCHANGED <<runVars, chanVars, pollVars>>
  BY <1>1, <1>2, SameRun
<1>3. CASE /\ poll_list' = Unlink(poll_list, {<<t, fd>>}, events)
           /\ poll_queue' = Unlink(poll_queue, {<<t, fd>>}, events)
           /\ UNCHANGED <<runVars, chanVars>>
  <2>1. \A l \in Channel \X PollEvent : poll_list[l] = <<>> => poll_list'[l] = <<>>
    BY <1>1, <1>3, UnlinkEmpty DEF TypeOK
  <2>2. \A c \in free_channel, ev \in PollEvent :
           poll_list[<<c, ev>>] = <<>> => poll_list'[<<c, ev>>] = <<>>
    BY <1>1, <2>1 DEF TypeOK, ChannelTypes
  <2> QED
    BY <1>1, <1>3, <2>2, LooksOn DEF runVars
<1> QED
  BY <1>2, <1>3 DEF PollRemove, Answer

LEMMA PollWaitLive ==
    ASSUME QueueInv, ChannelInv, NoNewWaiter(queue, queue'), NEW t \in Task,
           NEW null, PollWait(t, null)
    PROVE  ChannelInv'
<1> DEFINE tried == IF Hit(t, "RECV") # 0 THEN {"RECV"} ELSE PollEvent
           Put(l) == IF l[2] \in tried
                     THEN poll_list[l] \o Keep(Inactive(t, l[2]),
                             {n \in Node : ChannelOf(n[1], n[2]) = l[1]})
                     ELSE poll_list[l]
<1>1. TypeOK
  BY DEF QueueInv
<1>2. CASE UNCHANGED <<runVars, chanVars, pollVars>>
  BY <1>1, <1>2, SameRun
<1>3. CASE /\ poll_list' = [l \in DOMAIN poll_list |-> Put(l)]
           /\ \/ state' = [state EXCEPT ![t] = "POLL_BLOCKED"]
              \/ UNCHANGED state
           /\ UNCHANGED <<args, chanVars>>
  <2>1. /\ DOMAIN poll_list = Channel \X PollEvent /\ free_channel \subseteq Channel
        /\ state \in [Task -> TaskState] /\ tried \in SUBSET PollEvent
    BY <1>1 DEF TypeOK, PollTypes, ChannelTypes, RunTypes, PollEvent
  <2>2. ASSUME NEW c \in free_channel, NEW ev \in PollEvent,
               poll_list[<<c, ev>>] = <<>>
        PROVE  poll_list'[<<c, ev>>] = <<>>
    <3> DEFINE l == <<c, ev>>
               none == {n \in Node : ChannelOf(n[1], n[2]) = c}
               back == Keep(Inactive(t, ev), none)
    <3>1. none = {}
      BY <1>1, <2>1, OpenIsLive DEF ChannelInv
    <3>2. back = <<>>
      <4>1. Inactive(t, ev) \in Seq(Node)
        BY <1>1, HitType DEF TypeOK
      <4> HIDE DEF none
      <4>2. back \in Seq(Node) /\ Range(back) = Range(Inactive(t, ev)) \cap none
        BY <4>1, KeepProperties
      <4> HIDE DEF back
      <4>3. Range(back) = {}
        BY <3>1, <4>2
      <4> QED
        BY <4>2, <4>3, EmptyRange
    <3>3. poll_list'[l] = Put(l)
      BY <1>3, <2>1
    <3>4. Put(l) = poll_list[l] \o back \/ Put(l) = poll_list[l]
      OBVIOUS
    <3> HIDE DEF Put, l, back
    <3>5. poll_list[l] = <<>>
      BY <2>2 DEF l
    <3>6. poll_list'[l] = <<>>
      BY <3>2, <3>3, <3>4, <3>5
    <3> QED
      BY <3>6 DEF l
  <2>3. \A i \in Task : state'[i] = "SEND_BLOCKED" => state[i] = "SEND_BLOCKED"
    BY <1>3, <2>1
  <2> HIDE DEF Put, tried
  <2> QED
    BY <1>1, <1>3, <2>2, <2>3, LooksOn
<1> QED
  BY <1>2, <1>3 DEF PollWait, Answer, Panic

LEMMA PollCallLive ==
    ASSUME QueueInv, TypeOK', ChannelInv, NEW t \in Task, PollCall(t)
    PROVE  ChannelInv'
<1>1. NoNewWaiter(queue, queue')
  BY PollCallKeeps
<1> QED
  BY <1>1, PollAddLive, PollRemoveLive, PollWaitLive DEF PollCall

LEMMA ChannelCallLive ==
    ASSUME QueueInv, TypeOK', ChannelInv, NEW t \in Task, ChannelCall(t)
    PROVE  ChannelInv'
<1>1. TypeOK
  BY DEF QueueInv
<1> QED
  BY <1>1, NewChannelLive, CloseLive, DupSelfLive, DupLive, AnswerLive
     DEF ChannelCall, Chanflags

LEMMA EventUnblockAllLive ==
    ASSUME QueueInv, TypeOK', ChannelInv, NEW e, NEW R, EventUnblockAll(e, R)
    PROVE  ChannelInv'
<1>1. TypeOK /\ NoNewWaiter(queue, queue')
  BY EventUnblockAllKeeps DEF QueueInv
<1>2. UNCHANGED <<args, chanVars, pollVars>>
  BY DEF EventUnblockAll
<1>3. \E W : state' = [i \in Task |-> IF i \in W THEN "RUNNING" ELSE state[i]]
  BY DEF EventUnblockAll
<1>4. \A i \in Task : state'[i] = "SEND_BLOCKED" => state[i] = "SEND_BLOCKED"
  BY <1>3
<1> QED
  BY <1>1, <1>2, <1>4, LooksOn DEF pollVars

LEMMA TaskCallLive ==
    ASSUME QueueInv, TypeOK', ChannelInv, NEW t \in Task, TaskCall(t)
    PROVE  ChannelInv'
<1>1. TypeOK /\ NoNewWaiter(queue, queue') /\ state \in [Task -> TaskState]
  BY TaskCallKeeps DEF QueueInv, TypeOK, RunTypes
<1>2. CASE \E prio \in SpawnPrios, chans \in SpawnLists, flags \in 0 .. 2 :
              Spawn(t, prio, chans, flags)
  BY <1>2, SpawnLive, InputAssumption
<1>3. CASE ExitTask(t)
  BY <1>3, ExitTaskLive
<1>4. CASE Gettid(t) \/ Yield(t)
  BY <1>1, <1>4, AnswerLive DEF Gettid, Yield
<1>5. CASE Getptid(t)
  BY <1>1, <1>5, SameRun DEF Getptid
<1>6. ASSUME NEW id, NEW null, Taskstat(t, id, null)
      PROVE  ChannelInv'
  BY <1>1, <1>6, AnswerLive, SameRun DEF Taskstat
<1>7. ASSUME NEW e, EventWait(t, e)
      PROVE  ChannelInv'
  <2>1. CASE Answer(t, EINVAL)
    BY <1>1, <2>1, AnswerLive
  <2>2. CASE /\ state' = [state EXCEPT ![t] = "EVENT_BLOCKED"]
             /\ UNCHANGED <<args, chanVars, pollVars>>
    <3>1. \A i \in Task : state'[i] = "SEND_BLOCKED" => state[i] = "SEND_BLOCKED"
      BY <1>1, <2>2
    <3> QED
      BY <1>1, <2>2, <3>1, LooksOn DEF pollVars
  <2> QED
    BY <1>7, <2>1, <2>2 DEF EventWait
<1>8. ASSUME NEW e, Suspend(t, e)
      PROVE  ChannelInv'
  BY <1>8, EventUnblockAllLive DEF Suspend
<1> QED
  BY <1>2, <1>3, <1>4, <1>5, <1>6, <1>7, <1>8 DEF TaskCall

LEMMA ScheduleLive ==
    ASSUME QueueInv, TypeOK', ChannelInv, Schedule
    PROVE  ChannelInv'
<1>1. TypeOK /\ NoNewWaiter(queue, queue')
  BY ScheduleKeeps DEF QueueInv
<1>2. CASE Panic("no task to schedule")
  BY <1>1, <1>2, PanicLive
<1>3. CASE UNCHANGED <<state, args, chanVars, pollVars>>
  BY <1>1, <1>3, LooksOn DEF pollVars
<1> QED
  BY <1>2, <1>3 DEF Schedule

-----------------------------------------------------------------------------
(* The invariant.                                                          *)

LEMMA InitChannels == Init => ChannelInv
<1> SUFFICES ASSUME Init PROVE ChannelInv
  OBVIOUS
<1>1. \A i \in Task, fd \in Fd : ChannelOf(i, fd) = NoChannel
  BY DEF Init, ChannelOf, ClearTable, ClearDesc
<1>2. \A c \in Channel : OpenOn(c) = {}
  BY <1>1, ChannelAssumption DEF OpenOn, Node
<1>3. \A c \in Channel : Cardinality(OpenOn(c)) = 0
  BY <1>2, FS_EmptySet
<1>4. RefInv
  BY <1>3 DEF Init, RefInv, Backed, FreeUnreferred
<1>5. HandedOpen
  BY DEF Init, HandedOpen
<1>6. FreeQuiet
  <2>1. ASSUME NEW c \in Channel, NEW side \in {"senders", "receivers"}
        PROVE  queue[<<side, c>>] = <<>>
    <3> DEFINE n == <<side, c>>
    <3>1. n \in QueueName /\ n[1] # "ready"
      BY DEF QueueName
    <3>2. \A p : n # <<"ready", p>>
      BY <3>1
    <3> HIDE DEF n
    <3>3. queue[n] = <<>>
      BY <3>1, <3>2 DEF Init
    <3> QED
      BY <3>3 DEF n
  <2>2. \A c \in Channel, ev \in PollEvent : poll_list[<<c, ev>>] = <<>>
    BY DEF Init
  <2>3. free_channel = Channel
    BY DEF Init
  <2> QED
    BY <2>1, <2>2, <2>3 DEF FreeQuiet
<1> QED
  BY <1>4, <1>5, <1>6 DEF ChannelInv

LEMMA KernelStep == KernelInv /\ [Next]_vars => KernelInv'
<1> SUFFICES ASSUME KernelInv, [Next]_vars PROVE KernelInv'
  OBVIOUS
<1>0. QueueInv /\ ChannelInv /\ TypeOK /\ FreeQuiet
  BY DEF KernelInv, QueueInv, ChannelInv
<1>1. QueueInv'
  BY <1>0, QueueStep
<1>2. TypeOK'
  BY <1>1 DEF QueueInv
<1>3. UNCHANGED vars => ChannelInv'
  BY <1>0, SameRun DEF vars
<1>4. Schedule => ChannelInv'
  BY <1>0, <1>2, ScheduleLive
<1>5. ASSUME NEW t \in Task, ChannelCall(t) PROVE ChannelInv'
  BY <1>0, <1>2, <1>5, ChannelCallLive
<1>6. ASSUME NEW t \in Task, MessageCall(t) PROVE ChannelInv'
  BY <1>0, <1>2, <1>6, MessageCallLive
<1>7. ASSUME NEW t \in Task, PollCall(t) PROVE ChannelInv'
  BY <1>0, <1>2, <1>7, PollCallLive
<1>8. ASSUME NEW t \in Task, TaskCall(t) PROVE ChannelInv'
  BY <1>0, <1>2, <1>8, TaskCallLive
<1>9. ASSUME NEW e, Interrupt(e) PROVE ChannelInv'
  BY <1>0, <1>2, <1>9, EventUnblockAllLive DEF Interrupt
<1>10. ChannelInv'
  BY <1>3, <1>4, <1>5, <1>6, <1>7, <1>8, <1>9 DEF Next, Stopped
<1> QED
  BY <1>1, <1>10 DEF KernelInv

(* The inductive invariant holds in every reachable state. *)
THEOREM KernelInvariant == Spec => []KernelInv
<1>1. Init => KernelInv
  BY InitQueues, InitChannels DEF KernelInv
<1> QED
  BY <1>1, KernelStep, PTL DEF Spec

(* A sender and a receiver never both wait on one channel: sys_send and    *)
(* sys_recv leave no message behind that somebody could take.              *)
THEOREM NobodyIsMissed == Spec => []NobodyMissed
<1>1. KernelInv => NobodyMissed
  BY DEF KernelInv, QueueInv
<1> QED
  BY <1>1, KernelInvariant, PTL

(* No wakeup of a poller is lost: while a task waits on a channel, no      *)
(* descriptor still waits on its poll list to be told of that, and a task  *)
(* asleep in sys_poll_wait was told of everything poll_trigger_all moved   *)
(* to its queue.                                                           *)
THEOREM NoPollIsLost == Spec => []NoLostPoll
<1>1. KernelInv => NoLostPoll
  BY DEF KernelInv, QueueInv
<1> QED
  BY <1>1, KernelInvariant, PTL

(* The task schedule activates has the highest priority of all that can    *)
(* run, and until the next entry into the kernel no other task that could  *)
(* outrank it becomes ready; the idle task never blocks or exits.          *)
THEOREM PriorityIsRespected == Spec => []PriorityRespected
<1>1. KernelInv => PriorityRespected
  BY DEF KernelInv, QueueInv
<1> QED
  BY <1>1, KernelInvariant, PTL

(* close_channel frees no channel that a task waits on, polls, or waits to *)
(* hand over to another task.                                              *)
THEOREM ChannelsInUseAreLive == Spec => []ChannelsInUseLive
<1>1. KernelInv => ChannelsInUseLive
  <2> SUFFICES ASSUME KernelInv, NEW c \in Channel, InUse(c)
               PROVE  refcount[c] > 0 /\ c \notin free_channel
    BY DEF ChannelsInUseLive
  <2>1. TypeOK /\ RefInv /\ HandedOpen /\ FreeQuiet
    BY DEF KernelInv, QueueInv, ChannelInv
  <2>2. IsFiniteSet(OpenOn(c)) /\ Cardinality(OpenOn(c)) \in Nat
    BY OpenFinite
  <2>3. refcount[c] \in Int /\ refcount[c] >= 0
    BY <2>1, <2>2 DEF TypeOK, ChannelTypes, RefInv, Backed
  <2>4. c \notin free_channel
    <3>1. CASE \E i \in Task : state[i] = "SEND_BLOCKED" /\ args[i].chan = c
      <4>1. PICK i \in Task, fd \in Fd : ChannelOf(i, fd) = c
        BY <2>1, <3>1, ChannelAssumption DEF HandedOpen
      <4> DEFINE n == <<i, fd>>
      <4>2. n \in Node /\ ChannelOf(n[1], n[2]) = c
        BY <4>1 DEF Node
      <4> HIDE DEF n
      <4> QED
        BY <2>1, <4>2, OpenIsLive
    <3>2. CASE ~\E i \in Task : state[i] = "SEND_BLOCKED" /\ args[i].chan = c
      BY <2>1, <3>2 DEF InUse, FreeQuiet
    <3> QED
      BY <3>1, <3>2
  <2> QED
    BY <2>1, <2>3, <2>4 DEF RefInv, FreeUnreferred
<1> QED
  BY <1>1, KernelInvariant, PTL
=============================================================================
