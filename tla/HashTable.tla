----------------------------- MODULE HashTable ------------------------------
(***************************************************************************)
(* The hash tables of lib/lib.c and include/hashtable.h: an array with     *)
(* linear probing, whose items are valid once they have been used and stay *)
(* so, deleted or not, for probes to go on past them.                      *)
(***************************************************************************)
EXTENDS Integers, FiniteSetsExt

CONSTANTS
    HtMax,   \* places in the array
    Hash,    \* [keys -> Nat], the hash function
    NoItem   \* what an item never used holds

HT_NOKEY == -1
Place == 0 .. (HtMax - 1)

\* (Nothing reads the key and the value of a deleted item.)
Item(key, value) == [key |-> key, value |-> value, deleted |-> FALSE]
DeletedItem == [deleted |-> TRUE]
EmptyTable == [i \in Place |-> NoItem]

Valid(ht, i)  == ht[i] # NoItem
Active(ht, i) == Valid(ht, i) /\ ~ht[i].deleted

\* The j-th place that is probed for a key, if those before it are valid.
Probe(key, j) == (Hash[key] + j) % HtMax
Probes(ht, key) ==
    {j \in Place : \A i \in 0 .. (j - 1) : Valid(ht, Probe(key, i))}

Matches(ht, key) ==
    {j \in Probes(ht, key) : LET i == Probe(key, j) IN
        Active(ht, i) /\ ht[i].key = key}
Unused(ht, key) == {j \in Probes(ht, key) : ~Valid(ht, Probe(key, j))}
Deleted(ht, key) ==
    {j \in Probes(ht, key) : LET i == Probe(key, j) IN
        Valid(ht, i) /\ ht[i].deleted}

HashtableGet(ht, key) ==
    IF Matches(ht, key) = {} THEN HT_NOKEY ELSE Probe(key, Min(Matches(ht, key)))

\* (A mutant: the search ends at the first inactive item.)
ReserveFirstInactive(ht, key) ==
    IF Unused(ht, key) = {} THEN HT_NOKEY
    ELSE Probe(key, Min(Unused(ht, key) \cup Deleted(ht, key) \cup Matches(ht, key)))

\* Deleted items are used again, but only when the probes end at an item that
\* has never been used.
HashtableReserve(ht, key) ==
    IF Matches(ht, key) # {} THEN Probe(key, Min(Matches(ht, key)))
    ELSE IF Unused(ht, key) = {} THEN HT_NOKEY
    ELSE Probe(key, Min(Unused(ht, key) \cup Deleted(ht, key)))

Activate(ht, i, key, value) == [ht EXCEPT ![i] = Item(key, value)]
Delete(ht, i) == [ht EXCEPT ![i] = DeletedItem]
=============================================================================
