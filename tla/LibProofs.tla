----------------------------- MODULE LibProofs ------------------------------
(***************************************************************************)
(* The data structures of lib/lib.c, for every size: a hash table is a map *)
(* from keys to values, a circular queue a first-in first-out queue.       *)
(***************************************************************************)
EXTENDS HashTable, CircularQueue, WellFoundedInduction, SequenceTheorems, TLAPS

-----------------------------------------------------------------------------
(***************************************************************************)
(* The hash tables of lib/lib.c are maps from keys to values: for every    *)
(* size and every hash function, what was put under a key is found there   *)
(* until it is deleted, whatever was deleted from the places before it.    *)
(***************************************************************************)

ItemOf(Keys, Values) == [key: Keys, value: Values, deleted: {FALSE}]
TableOf(Keys, Values) ==
    [Place -> ItemOf(Keys, Values) \cup {DeletedItem, NoItem}]

(* What a table is set up with. *)
Setting(Keys, Values) ==
    /\ HtMax \in Nat \ {0}
    /\ Hash \in [Keys -> Nat]
    /\ NoItem \notin ItemOf(Keys, Values) /\ NoItem # DeletedItem

(* No key is in the table twice. *)
KeysOnce(ht) == \A i, j \in Place :
    Active(ht, i) /\ Active(ht, j) /\ ht[i].key = ht[j].key => i = j

(* A search for a key of the table does not end before its place. *)
KeysReachable(ht) == \A i \in Place : Active(ht, i) =>
    \E j \in Probes(ht, ht[i].key) : Probe(ht[i].key, j) = i

Absent(ht, key) == \A i \in Place : Active(ht, i) => ht[i].key # key

LEMMA MinIs ==
    ASSUME NEW S \in SUBSET Nat, S # {}
    PROVE  /\ Min(S) \in S
           /\ \A x \in S : Min(S) <= x
  <1> DEFINE R == {ss \in Nat \X Nat : ss[1] < ss[2]}
  <1>1. IsWellFoundedOn(R, Nat)
    BY NatLessThanWellFounded, Zenon DEF OpToRel
  <1>2. \A x, y \in Nat : x < y => <<x, y>> \in R  OBVIOUS
  <1> HIDE DEF R
  <1>3. PICK m \in S : \A x \in S : <<x, m>> \notin R  BY <1>1, WFMin
  <1>4. ASSUME NEW x \in S PROVE m <= x
    <2>1. x \in Nat /\ m \in Nat /\ ~(x < m)  BY <1>2, <1>3
    <2> QED  BY <2>1
  <1> QED  BY <1>3, <1>4 DEF Min

LEMMA ProbeInTable ==
    ASSUME NEW Keys, NEW Values, Setting(Keys, Values),
           NEW key \in Keys, NEW j \in Place
    PROVE  Probe(key, j) \in Place
  <1>1. HtMax \in Nat /\ HtMax > 0  BY DEF Setting
  <1>2. Hash[key] + j \in Nat  BY <1>1 DEF Setting, Place
  <1> DEFINE x == Hash[key] + j
  <1> HIDE DEF x
  <1>3. x % HtMax \in 0 .. (HtMax - 1)  BY <1>1, <1>2, SMT DEF x
  <1> QED  BY <1>3 DEF Probe, Place, x

LEMMA ProbesInTable ==
    ASSUME NEW Keys, NEW Values, Setting(Keys, Values), NEW ht, NEW key
    PROVE  /\ Probes(ht, key) \subseteq Place
           /\ Place \subseteq Nat
  BY DEF Probes, Place, Setting

\* What is active holds a key and a value.
LEMMA ActiveItem ==
    ASSUME NEW Keys, NEW Values, Setting(Keys, Values),
           NEW ht \in TableOf(Keys, Values), NEW i \in Place, Active(ht, i)
    PROVE  ht[i] \in ItemOf(Keys, Values)
  <1>1. ht[i] \in ItemOf(Keys, Values) \cup {DeletedItem, NoItem}
    BY DEF TableOf
  <1>2. ht[i] # NoItem /\ ~ht[i].deleted  BY DEF Active, Valid
  <1>3. DeletedItem.deleted  BY DEF DeletedItem
  <1> QED  BY <1>1, <1>2, <1>3

\* A search finds the place of the key, if the table has it, and else nothing
\* (lib.c:46-61).
THEOREM GetFinds ==
    ASSUME NEW Keys, NEW Values, Setting(Keys, Values),
           NEW ht \in TableOf(Keys, Values), KeysReachable(ht), NEW key \in Keys
    PROVE  LET i == HashtableGet(ht, key) IN
           IF i = HT_NOKEY THEN Absent(ht, key)
           ELSE i \in Place /\ Active(ht, i) /\ ht[i].key = key
  <1>1. Matches(ht, key) \subseteq Place /\ Place \subseteq Nat
    BY ProbesInTable DEF Matches
  <1>2. CASE Matches(ht, key) = {}
    <2>1. HashtableGet(ht, key) = HT_NOKEY  BY <1>2 DEF HashtableGet
    <2>2. ASSUME NEW i \in Place, Active(ht, i), ht[i].key = key PROVE FALSE
      <3>1. PICK j \in Probes(ht, key) : Probe(key, j) = i
        BY <2>2 DEF KeysReachable
      <3>2. j \in Matches(ht, key)  BY <2>2, <3>1 DEF Matches
      <3> QED  BY <1>2, <3>2
    <2> QED  BY <2>1, <2>2 DEF Absent
  <1>3. CASE Matches(ht, key) # {}
    <2> DEFINE j == Min(Matches(ht, key))
    <2>1. j \in Matches(ht, key)  BY <1>1, <1>3, MinIs
    <2>2. HashtableGet(ht, key) = Probe(key, j)  BY <1>3 DEF HashtableGet
    <2> HIDE DEF j
    <2>3. Probe(key, j) \in Place  BY <1>1, <2>1, ProbeInTable
    <2>4. Probe(key, j) # HT_NOKEY  BY <2>3 DEF Place, HT_NOKEY
    <2>5. Active(ht, Probe(key, j)) /\ ht[Probe(key, j)].key = key
      BY <2>1 DEF Matches
    <2> QED  BY <2>2, <2>3, <2>4, <2>5
  <1> QED  BY <1>2, <1>3

\* From any place to start at, the probes reach every place of the table.
LEMMA Remainder ==
    ASSUME NEW m \in Nat \ {0}, NEW k \in Nat, NEW i \in 0 .. (m - 1)
    PROVE  (k * m + i) % m = i
  BY SMTT(30)

LEMMA ProbeReaches ==
    ASSUME NEW Keys, NEW Values, Setting(Keys, Values),
           NEW key \in Keys, NEW i \in Place
    PROVE  \E j \in Place : Probe(key, j) = i
  <1> DEFINE m == HtMax
             h == Hash[key]
             r == h % m
             k == h \div m
  <1>1. m \in Nat \ {0} /\ h \in Nat /\ i \in 0 .. (m - 1)
    BY DEF Setting, Place
  <1>2. h = (k * m) + r /\ k \in Nat /\ r \in 0 .. (m - 1)
    <2> HIDE DEF m, h
    <2> QED  BY <1>1, SMTT(30)
  <1> DEFINE j == IF i >= r THEN i - r ELSE i - r + m
  <1> HIDE DEF m, h, r, k
  <1>3. j \in 0 .. (m - 1)  BY <1>1, <1>2
  <1>4. (h + j) % m = i
    <2>1. CASE i >= r
      <3>1. h + j = (k * m) + i  BY <1>1, <1>2, <2>1
      <3> QED  BY <1>1, <1>2, <3>1, Remainder
    <2>2. CASE ~(i >= r)
      <3>1. h + j = ((k + 1) * m) + i  BY <1>1, <1>2, <2>2
      <3>2. k + 1 \in Nat  BY <1>2
      <3> QED  BY <1>1, <3>1, <3>2, Remainder
    <2> QED  BY <2>1, <2>2
  <1> HIDE DEF j
  <1> QED  BY <1>3, <1>4 DEF Place, Probe, m, h

\* A place is refused only when every item has been used, be it deleted again
\* (lib.c:63-83).
THEOREM ReserveFails ==
    ASSUME NEW Keys, NEW Values, Setting(Keys, Values), NEW ht,
           NEW key \in Keys, HashtableReserve(ht, key) = HT_NOKEY
    PROVE  \A i \in Place : Valid(ht, i)
  <1>1. Matches(ht, key) = {} /\ Unused(ht, key) = {}
    <2>1. ASSUME NEW S \in SUBSET Place, S # {}
          PROVE  Probe(key, Min(S)) # HT_NOKEY
      <3>1. Min(S) \in Place
        <4>1. S \in SUBSET Nat  BY DEF Place, Setting
        <4> QED  BY <2>1, <4>1, MinIs
      <3>2. Probe(key, Min(S)) \in Place  BY <3>1, ProbeInTable
      <3> QED  BY <3>2 DEF Place, HT_NOKEY
    <2>2. /\ Matches(ht, key) \subseteq Place
          /\ Unused(ht, key) \cup Deleted(ht, key) \subseteq Place
      BY ProbesInTable DEF Matches, Unused, Deleted
    <2>3. Matches(ht, key) = {}  BY <2>1, <2>2 DEF HashtableReserve
    <2>4. Unused(ht, key) = {}
      BY <2>1, <2>2, <2>3 DEF HashtableReserve
    <2> QED  BY <2>3, <2>4
  <1> DEFINE gaps == {j \in Place : ~Valid(ht, Probe(key, j))}
  <1>2. gaps = {}
    <2> SUFFICES ASSUME gaps # {} PROVE FALSE  OBVIOUS
    <2> DEFINE j == Min(gaps)
    <2>1. gaps \in SUBSET Nat /\ Place \subseteq Nat  BY DEF Place, Setting
    <2> HIDE DEF gaps
    <2>2. j \in gaps /\ \A x \in gaps : j <= x  BY <2>1, MinIs
    <2> HIDE DEF j
    <2>3. \A i \in 0 .. (j - 1) : i \in Place /\ i \notin gaps
      BY <2>1, <2>2 DEF gaps, Place, Setting
    <2>4. j \in Unused(ht, key)
      BY <2>2, <2>3 DEF gaps, Unused, Probes
    <2> QED  BY <1>1, <2>4
  <1> QED  BY <1>2, ProbeReaches

\* A place that is reserved for a key is the place of the key, if the table
\* has it, and else one that is free and that searches for the key reach
\* (lib.c:63-83).
THEOREM ReserveFinds ==
    ASSUME NEW Keys, NEW Values, Setting(Keys, Values),
           NEW ht \in TableOf(Keys, Values), KeysReachable(ht), NEW key \in Keys
    PROVE  LET i == HashtableReserve(ht, key) IN
           /\ i # HT_NOKEY => /\ i \in Place
                              /\ \E j \in Probes(ht, key) : Probe(key, j) = i
           /\ IF i # HT_NOKEY /\ Active(ht, i) THEN ht[i].key = key
              ELSE Absent(ht, key)
  <1> DEFINE free == Unused(ht, key) \cup Deleted(ht, key)
  <1>1. /\ Matches(ht, key) \subseteq Probes(ht, key)
        /\ free \subseteq Probes(ht, key)
        /\ Probes(ht, key) \subseteq Place /\ Place \subseteq Nat
    BY ProbesInTable DEF Matches, Unused, Deleted
  <1>2. CASE Matches(ht, key) # {}
    <2> DEFINE j == Min(Matches(ht, key))
    <2>1. j \in Matches(ht, key)  BY <1>1, <1>2, MinIs
    <2>2. HashtableReserve(ht, key) = Probe(key, j)
      BY <1>2 DEF HashtableReserve
    <2> HIDE DEF j
    <2>3. Probe(key, j) \in Place /\ j \in Probes(ht, key)
      BY <1>1, <2>1, ProbeInTable
    <2>4. Probe(key, j) # HT_NOKEY  BY <2>3 DEF Place, HT_NOKEY
    <2>5. Active(ht, Probe(key, j)) /\ ht[Probe(key, j)].key = key
      BY <2>1 DEF Matches
    <2> QED  BY <2>2, <2>3, <2>4, <2>5
  <1>3. CASE Matches(ht, key) = {}
    <2>1. Absent(ht, key)
      <3>1. HashtableGet(ht, key) = HT_NOKEY  BY <1>3 DEF HashtableGet
      <3> QED  BY <3>1, GetFinds
    <2>2. CASE Unused(ht, key) = {}
      BY <1>3, <2>1, <2>2 DEF HashtableReserve
    <2>3. CASE Unused(ht, key) # {}
      <3> DEFINE j == Min(free)
      <3>1. j \in free  BY <1>1, <2>3, MinIs
      <3>2. HashtableReserve(ht, key) = Probe(key, j)
        BY <1>3, <2>3 DEF HashtableReserve
      <3> HIDE DEF j
      <3>3. Probe(key, j) \in Place /\ j \in Probes(ht, key)
        BY <1>1, <3>1, ProbeInTable
      <3>4. ~Active(ht, Probe(key, j))
        BY <3>1 DEF Unused, Deleted, Active
      <3> QED  BY <2>1, <3>2, <3>3, <3>4
    <2> QED  BY <2>2, <2>3
  <1> QED  BY <1>2, <1>3

\* A table that is set up holds nothing (lib.c:34-44).
THEOREM EmptyHoldsNothing ==
    ASSUME NEW Keys, NEW Values, Setting(Keys, Values)
    PROVE  /\ EmptyTable \in TableOf(Keys, Values)
           /\ KeysOnce(EmptyTable) /\ KeysReachable(EmptyTable)
           /\ \A key \in Keys : Absent(EmptyTable, key)
  <1>1. \A i \in Place : ~Active(EmptyTable, i)
    BY DEF EmptyTable, Active, Valid
  <1> QED
    BY <1>1 DEF EmptyTable, TableOf, KeysOnce, KeysReachable, Absent

\* To activate a place that searches for a key reach, when the key is there or
\* nowhere, changes what is there, and what is found under no other key.
LEMMA ActivateAt ==
    ASSUME NEW Keys, NEW Values, Setting(Keys, Values),
           NEW ht \in TableOf(Keys, Values), KeysOnce(ht), KeysReachable(ht),
           NEW key \in Keys, NEW value \in Values,
           NEW i \in Place, \E j \in Probes(ht, key) : Probe(key, j) = i,
           IF Active(ht, i) THEN ht[i].key = key ELSE Absent(ht, key)
    PROVE  LET new == Activate(ht, i, key, value)
           IN  /\ new \in TableOf(Keys, Values)
               /\ KeysOnce(new) /\ KeysReachable(new)
               /\ new[i] = Item(key, value) /\ Active(new, i)
               /\ \A k \in Place \ {i} : new[k] = ht[k]
  <1> DEFINE new == Activate(ht, i, key, value)
  <1>1. /\ i \in Place
        /\ \E j \in Probes(ht, key) : Probe(key, j) = i
        /\ IF Active(ht, i) THEN ht[i].key = key ELSE Absent(ht, key)
    OBVIOUS
  <1>2. Item(key, value) \in ItemOf(Keys, Values)  BY DEF Item, ItemOf
  <1>3. /\ new \in TableOf(Keys, Values)
        /\ new[i] = Item(key, value)
        /\ \A k \in Place \ {i} : new[k] = ht[k]
    BY <1>1, <1>2 DEF TableOf, Activate
  <1> HIDE DEF new
  <1>4. Valid(new, i) /\ Active(new, i) /\ new[i].key = key
    <2>1. new[i] # NoItem  BY <1>2, <1>3 DEF Setting
    <2>2. new[i].key = key /\ new[i].deleted = FALSE  BY <1>3 DEF Item
    <2> QED  BY <2>1, <2>2 DEF Active, Valid
  <1>5. \A k \in Place \ {i} : /\ Active(new, k) <=> Active(ht, k)
                               /\ Valid(new, k) <=> Valid(ht, k)
    BY <1>3 DEF Active, Valid
  <1>6. ASSUME NEW k \in Place \ {i}, Active(new, k) PROVE new[k].key # key
    BY <1>1, <1>3, <1>5, <1>6 DEF KeysOnce, Absent
  <1>7. KeysOnce(new)
    <2> SUFFICES ASSUME NEW k \in Place, NEW l \in Place, Active(new, k),
                        Active(new, l), new[k].key = new[l].key
                 PROVE  k = l
      BY DEF KeysOnce
    <2>1. CASE k = i \/ l = i  BY <1>4, <1>6, <2>1
    <2>2. CASE k # i /\ l # i  BY <1>3, <1>5, <2>2 DEF KeysOnce
    <2> QED  BY <2>1, <2>2
  <1>8. ASSUME NEW other \in Keys
        PROVE  Probes(ht, other) \subseteq Probes(new, other)
    <2>1. ASSUME NEW k \in Place, Valid(ht, k) PROVE Valid(new, k)
      BY <1>4, <1>5, <2>1
    <2>2. ASSUME NEW j \in Place, NEW k \in 0 .. (j - 1)
          PROVE  Probe(other, k) \in Place
      <3>1. k \in Place  BY DEF Place, Setting
      <3> QED  BY <3>1, ProbeInTable
    <2> QED  BY <2>1, <2>2 DEF Probes
  <1>9. KeysReachable(new)
    <2> SUFFICES ASSUME NEW k \in Place, Active(new, k)
                 PROVE  \E j \in Probes(new, new[k].key) :
                            Probe(new[k].key, j) = k
      BY DEF KeysReachable
    <2>1. CASE k = i  BY <1>1, <1>4, <1>8, <2>1
    <2>2. CASE k # i
      <3>1. Active(ht, k) /\ new[k].key = ht[k].key  BY <1>3, <1>5, <2>2
      <3>2. ht[k].key \in Keys  BY <3>1, ActiveItem DEF ItemOf
      <3> QED  BY <1>8, <3>1, <3>2 DEF KeysReachable
    <2> QED  BY <2>1, <2>2
  <1> QED  BY <1>3, <1>4, <1>7, <1>9 DEF new

\* To activate a reserved place does the same (hashtable.h:65-69).
THEOREM ActivatePuts ==
    ASSUME NEW Keys, NEW Values, Setting(Keys, Values),
           NEW ht \in TableOf(Keys, Values), KeysOnce(ht), KeysReachable(ht),
           NEW key \in Keys, NEW value \in Values,
           HashtableReserve(ht, key) # HT_NOKEY
    PROVE  LET i   == HashtableReserve(ht, key)
               new == Activate(ht, i, key, value)
           IN  /\ new \in TableOf(Keys, Values)
               /\ KeysOnce(new) /\ KeysReachable(new)
               /\ i \in Place /\ new[i] = Item(key, value) /\ Active(new, i)
               /\ \A k \in Place \ {i} : new[k] = ht[k]
  <1> DEFINE i == HashtableReserve(ht, key)
  <1>1. /\ i \in Place
        /\ \E j \in Probes(ht, key) : Probe(key, j) = i
        /\ IF Active(ht, i) THEN ht[i].key = key ELSE Absent(ht, key)
    BY ReserveFinds
  <1> HIDE DEF i
  <1>2. LET new == Activate(ht, i, key, value)
        IN  /\ new \in TableOf(Keys, Values)
            /\ KeysOnce(new) /\ KeysReachable(new)
            /\ new[i] = Item(key, value) /\ Active(new, i)
            /\ \A k \in Place \ {i} : new[k] = ht[k]
    BY <1>1, ActivateAt
  <1> QED  BY <1>1, <1>2 DEF i

\* To delete a key takes it out of the table, and every other key is still
\* found: the item stays for searches to go on past it (hashtable.h:61-64).
THEOREM DeleteRemoves ==
    ASSUME NEW Keys, NEW Values, Setting(Keys, Values),
           NEW ht \in TableOf(Keys, Values), KeysOnce(ht), KeysReachable(ht),
           NEW i \in Place, Active(ht, i)
    PROVE  LET new == Delete(ht, i)
           IN  /\ new \in TableOf(Keys, Values)
               /\ KeysOnce(new) /\ KeysReachable(new)
               /\ ~Active(new, i) /\ Absent(new, ht[i].key)
               /\ \A k \in Place \ {i} : new[k] = ht[k]
               /\ \A other \in Keys : Probes(ht, other) \subseteq Probes(new, other)
  <1> DEFINE new == Delete(ht, i)
  <1>1. /\ new \in TableOf(Keys, Values)
        /\ new[i] = DeletedItem
        /\ \A k \in Place \ {i} : new[k] = ht[k]
    BY DEF TableOf, Delete
  <1> HIDE DEF new
  <1>2. Valid(new, i) /\ ~Active(new, i)
    BY <1>1 DEF Active, Valid, DeletedItem, Setting
  <1>3. \A k \in Place \ {i} : /\ Active(new, k) <=> Active(ht, k)
                               /\ Valid(new, k) <=> Valid(ht, k)
    BY <1>1 DEF Active, Valid
  <1>4. \A k \in Place : Active(new, k) =>
            k # i /\ Active(ht, k) /\ new[k] = ht[k]
    BY <1>1, <1>2, <1>3
  <1>5. KeysOnce(new) /\ Absent(new, ht[i].key)
    BY <1>4 DEF KeysOnce, Absent
  <1>6. ASSUME NEW other \in Keys
        PROVE  Probes(ht, other) \subseteq Probes(new, other)
    <2>1. ASSUME NEW k \in Place, Valid(ht, k) PROVE Valid(new, k)
      BY <1>2, <1>3, <2>1
    <2>2. ASSUME NEW j \in Place, NEW k \in 0 .. (j - 1)
          PROVE  Probe(other, k) \in Place
      <3>1. k \in Place  BY DEF Place, Setting
      <3> QED  BY <3>1, ProbeInTable
    <2> QED  BY <2>1, <2>2 DEF Probes
  <1>7. KeysReachable(new)
    <2> SUFFICES ASSUME NEW k \in Place, Active(new, k)
                 PROVE  \E j \in Probes(new, new[k].key) :
                            Probe(new[k].key, j) = k
      BY DEF KeysReachable
    <2>1. Active(ht, k) /\ new[k].key = ht[k].key  BY <1>4
    <2>2. ht[k].key \in Keys  BY <2>1, ActiveItem DEF ItemOf
    <2> QED  BY <1>6, <2>1, <2>2 DEF KeysReachable
  <1> QED  BY <1>1, <1>2, <1>5, <1>6, <1>7 DEF new

-----------------------------------------------------------------------------
(***************************************************************************)
(* The circular queues of lib/lib.c are first-in first-out queues: for     *)
(* every size, each operation on the array does to Elements what its name  *)
(* says, wherever in the array the queue begins.                           *)
(***************************************************************************)

LEMMA ModIs ==
    ASSUME NEW m \in Nat \ {0}, NEW x \in Nat, x < m + m
    PROVE  /\ x % m = IF x < m THEN x ELSE x - m
           /\ x % m \in 0 .. m - 1
  <1>1. CASE x < m
    <2>1. x % m = x  BY <1>1, SMT
    <2> QED  BY <1>1, <2>1
  <1>2. CASE m <= x
    <2>1. x % m = x - m  BY <1>2, SMT
    <2> QED  BY <1>2, <2>1
  <1> QED  BY <1>1, <1>2

LEMMA QueueParts ==
    ASSUME NEW Val, NEW max \in Nat \ {0}, NEW q \in Queue(Val, max)
    PROVE  /\ q.arr \in [0 .. max - 1 -> Val]
           /\ q.idx \in Nat /\ q.idx < max
           /\ q.len \in Nat /\ q.len <= max
           /\ q.max = max
  BY DEF Queue

\* A place is in the array, on one side of its end or the other.
LEMMA PlaceIs ==
    ASSUME NEW Val, NEW max \in Nat \ {0}, NEW q \in Queue(Val, max),
           NEW n \in 0 .. max
    PROVE  /\ At(q, n) = IF q.idx + n < max THEN q.idx + n
                                               ELSE (q.idx + n) - max
           /\ At(q, n) \in 0 .. max - 1
  <1>1. q.idx + n \in Nat /\ q.idx + n < max + max  BY QueueParts
  <1>2. At(q, n) = (q.idx + n) % max  BY QueueParts DEF At
  <1> QED  BY <1>1, <1>2, ModIs

LEMMA ElementsType ==
    ASSUME NEW Val, NEW max \in Nat \ {0}, NEW q \in Queue(Val, max)
    PROVE  /\ Elements(q) \in Seq(Val)
           /\ Len(Elements(q)) = q.len
           /\ \A k \in 1 .. q.len : Elements(q)[k] = q.arr[At(q, k - 1)]
  <1>1. ASSUME NEW k \in 1 .. q.len PROVE q.arr[At(q, k - 1)] \in Val
    <2>1. k - 1 \in 0 .. max  BY QueueParts
    <2>2. At(q, k - 1) \in 0 .. max - 1  BY <2>1, PlaceIs
    <2> QED  BY <2>2, QueueParts
  <1> QED  BY <1>1, QueueParts DEF Elements

\* A queue that is set up is a queue, and it is empty (lib.c:11-12).
THEOREM InitIsEmpty ==
    ASSUME NEW Val, NEW max \in Nat \ {0}, NEW arr \in [0 .. max - 1 -> Val]
    PROVE  /\ QueueOf(arr, max) \in Queue(Val, max)
           /\ Elements(QueueOf(arr, max)) = << >>
  <1>1. QueueOf(arr, max) \in Queue(Val, max)  BY DEF QueueOf, Queue
  <1>2. QueueOf(arr, max).len = 0  BY DEF QueueOf
  <1> QED  BY <1>1, <1>2, ElementsType

\* What is pushed goes to the end, and overwrites nothing (lib.c:13-14): the
\* callers look first whether there is room.
THEOREM PushAppends ==
    ASSUME NEW Val, NEW max \in Nat \ {0}, NEW q \in Queue(Val, max),
           NEW v \in Val, ~Full(q)
    PROVE  /\ Push(q, v) \in Queue(Val, max)
           /\ Elements(Push(q, v)) = Append(Elements(q), v)
  <1> DEFINE r == Push(q, v)
             at == At(q, q.len)
  <1>1. q.len < max  BY QueueParts DEF Full
  <1>2. at \in 0 .. max - 1  BY PlaceIs, QueueParts
  <1>3. /\ r.arr = [q.arr EXCEPT ![at] = v] /\ r.idx = q.idx
        /\ r.len = q.len + 1 /\ r.max = max
    BY QueueParts DEF Push
  <1>4. r \in Queue(Val, max)
    <2>1. r.arr \in [0 .. max - 1 -> Val]  BY <1>2, <1>3, QueueParts
    <2> QED  BY <1>1, <1>3, <2>1, QueueParts DEF Queue, Push
  <1>5. ASSUME NEW n \in 0 .. max PROVE At(r, n) = At(q, n)
    BY <1>3, QueueParts DEF At
  <1>6. ASSUME NEW k \in 1 .. q.len
        PROVE  r.arr[At(q, k - 1)] = q.arr[At(q, k - 1)]
    <2>1. k - 1 \in 0 .. max /\ k - 1 < q.len  BY QueueParts
    <2>2. At(q, k - 1) # at
      <3>1. At(q, k - 1) = IF q.idx + (k - 1) < max THEN q.idx + (k - 1)
                                                ELSE (q.idx + (k - 1)) - max
        BY <2>1, PlaceIs
      <3>2. q.len \in 0 .. max  BY QueueParts
      <3>3. at = IF q.idx + q.len < max THEN q.idx + q.len
                                        ELSE (q.idx + q.len) - max
        BY <3>2, PlaceIs
      <3> HIDE DEF at
      <3> QED  BY <1>1, <2>1, <3>1, <3>3, QueueParts
    <2>3. At(q, k - 1) \in 0 .. max - 1  BY <2>1, PlaceIs
    <2> QED  BY <1>3, <2>2, <2>3, QueueParts
  <1>7. r.arr[at] = v  BY <1>2, <1>3, QueueParts
  <1> HIDE DEF r, at
  <1>8. ASSUME NEW k \in 1 .. q.len + 1
        PROVE  Elements(r)[k] = Append(Elements(q), v)[k]
    <2>1. k - 1 \in 0 .. max  BY <1>1, QueueParts
    <2>2. Elements(r)[k] = r.arr[At(q, k - 1)]
      <3>1. k \in 1 .. r.len  BY <1>3
      <3>2. Elements(r)[k] = r.arr[At(r, k - 1)]
        BY <1>4, <3>1, ElementsType
      <3> QED  BY <1>5, <2>1, <3>2
    <2>3. CASE k \in 1 .. q.len
      BY <1>6, <2>2, <2>3, ElementsType, QueueParts
    <2>4. CASE k = q.len + 1
      <3>1. k - 1 = q.len  BY <2>4, QueueParts
      <3> QED  BY <1>7, <2>2, <2>4, <3>1, ElementsType DEF at
    <2>5. k \in 1 .. q.len \/ k = q.len + 1  BY QueueParts
    <2> QED  BY <2>3, <2>4, <2>5
  <1>9. /\ Elements(r) \in Seq(Val) /\ Len(Elements(r)) = q.len + 1
        /\ Append(Elements(q), v) \in Seq(Val)
        /\ Len(Append(Elements(q), v)) = q.len + 1
    BY <1>3, <1>4, ElementsType
  <1>10. Elements(r) = Append(Elements(q), v)
    <2> DEFINE s == Elements(r)
               t == Append(Elements(q), v)
    <2>1. /\ s \in Seq(Val) /\ t \in Seq(Val) /\ Len(s) = Len(t)
          /\ \A k \in 1 .. Len(s) : s[k] = t[k]
      BY <1>8, <1>9
    <2> HIDE DEF s, t
    <2>2. s = t  BY <2>1, SeqEqual
    <2> QED  BY <2>2 DEF s, t
  <1> QED  BY <1>4, <1>10 DEF r

\* What is at the front came first, and is what pop returns (lib.c:15-18).
THEOREM FrontIsHead ==
    ASSUME NEW Val, NEW max \in Nat \ {0}, NEW q \in Queue(Val, max), ~Empty(q)
    PROVE  Front(q) = Head(Elements(q))
  <1>1. q.len >= 1  BY QueueParts DEF Empty
  <1>2. Head(Elements(q)) = q.arr[At(q, 0)]
    BY <1>1, ElementsType, QueueParts
  <1>3. At(q, 0) = q.idx  BY PlaceIs, QueueParts
  <1> QED  BY <1>2, <1>3 DEF Front

\* pop takes off the front and leaves the others in their order (lib.c:17-18).
THEOREM PopIsTail ==
    ASSUME NEW Val, NEW max \in Nat \ {0}, NEW q \in Queue(Val, max), ~Empty(q)
    PROVE  /\ Pop(q) \in Queue(Val, max)
           /\ Elements(Pop(q)) = Tail(Elements(q))
  <1> DEFINE r == Pop(q)
  <1>1. q.len >= 1  BY QueueParts DEF Empty
  <1>2. /\ r.arr = q.arr /\ r.idx = At(q, 1)
        /\ r.len = q.len - 1 /\ r.max = max
    BY QueueParts DEF Pop
  <1>3. r.idx \in 0 .. max - 1  BY <1>2, PlaceIs
  <1>4. r \in Queue(Val, max)
    BY <1>1, <1>2, <1>3, QueueParts DEF Queue, Pop
  <1> HIDE DEF r
  <1>5. ASSUME NEW k \in 1 .. q.len - 1 PROVE At(r, k - 1) = At(q, k)
    <2>1. k - 1 \in 0 .. max /\ k \in 0 .. max /\ 1 \in 0 .. max
      BY QueueParts
    <2>2. r.idx = IF q.idx + 1 < max THEN q.idx + 1 ELSE (q.idx + 1) - max
      BY <1>2, <2>1, PlaceIs
    <2>3. At(r, k - 1) = IF r.idx + (k - 1) < max THEN r.idx + (k - 1)
                                                 ELSE (r.idx + (k - 1)) - max
      BY <1>4, <2>1, PlaceIs
    <2>4. At(q, k) = IF q.idx + k < max THEN q.idx + k ELSE (q.idx + k) - max
      BY <2>1, PlaceIs
    <2>5. k < max  BY QueueParts
    <2>6. CASE q.idx + 1 < max
      BY <2>1, <2>2, <2>3, <2>4, <2>5, <2>6, QueueParts
    <2>7. CASE ~(q.idx + 1 < max)
      <3>1. r.idx = 0 /\ q.idx = max - 1  BY <2>2, <2>7, QueueParts, SMTT(30)
      <3>2. At(r, k - 1) = k - 1  BY <2>1, <2>3, <2>5, <3>1
      <3>3. At(q, k) = k - 1  BY <2>1, <2>4, <2>5, <3>1
      <3> QED  BY <3>2, <3>3
    <2> QED  BY <2>6, <2>7
  <1>6. ASSUME NEW k \in 1 .. q.len - 1
        PROVE  Elements(r)[k] = Tail(Elements(q))[k]
    <2>1. Elements(r)[k] = q.arr[At(r, k - 1)]
      BY <1>2, <1>4, ElementsType
    <2>2. Tail(Elements(q))[k] = Elements(q)[k + 1]
      BY <1>1, ElementsType, QueueParts
    <2>3. k + 1 \in 1 .. q.len /\ k + 1 - 1 = k  BY QueueParts
    <2>4. Elements(q)[k + 1] = q.arr[At(q, k)]  BY <2>3, ElementsType
    <2> QED  BY <1>5, <2>1, <2>2, <2>4
  <1>7. /\ Elements(r) \in Seq(Val) /\ Len(Elements(r)) = q.len - 1
        /\ Tail(Elements(q)) \in Seq(Val)
        /\ Len(Tail(Elements(q))) = q.len - 1
    BY <1>1, <1>2, <1>4, ElementsType
  <1>8. Elements(r) = Tail(Elements(q))  BY <1>6, <1>7, QueueParts
  <1> QED  BY <1>4, <1>8 DEF r

\* empty and full say what they should, full that no place is left
\* (lib.c:19-22).
THEOREM EmptyAndFull ==
    ASSUME NEW Val, NEW max \in Nat \ {0}, NEW q \in Queue(Val, max)
    PROVE  /\ Empty(q) <=> Elements(q) = << >>
           /\ Full(q) <=> Len(Elements(q)) = max
           /\ Len(Elements(q)) <= max
  BY ElementsType, QueueParts DEF Empty, Full
=============================================================================
