------------------------------ MODULE ArpTable ------------------------------
(***************************************************************************)
(* The addresses that the ARP server of servers/net.c knows: a hash table  *)
(* from IP addresses to places of mac_arr, and the queue of the addresses  *)
(* in the order they came, the oldest of which makes room for a new one.   *)
(***************************************************************************)
EXTENDS Integers, Sequences

CONSTANTS
    ARP_MAX,         \* room in mac_arr and in the queue
    ADDRMAP_MAX,     \* room in the hash table
    Ip, IpHash, NoItem

Ipq     == INSTANCE CircularQueue
Addrmap == INSTANCE HashTable WITH HtMax <- ADDRMAP_MAX, Hash <- IpHash

\* A table is a record of the three.
EmptyArp == [addrmap |-> Addrmap!EmptyTable,
             ipq     |-> Ipq!QueueOf([i \in 0 .. (ARP_MAX - 1) |-> NoItem], ARP_MAX),
             mac_arr |-> [i \in 0 .. (ARP_MAX - 1) |-> 0]]

\* arpserver_store.  There may be no place left for a new address, although
\* old ones have been deleted; then it panics.
NoPlace(arp, addr) ==
    Addrmap!HashtableReserve(arp.addrmap, addr) = Addrmap!HT_NOKEY

Updated(arp, i, mac) == [arp EXCEPT !.mac_arr[arp.addrmap[i].value] = mac]

Appended(arp, i, addr, loc, mac) ==
    [addrmap |-> Addrmap!Activate(arp.addrmap, i, addr, loc),
     ipq     |-> Ipq!Push(arp.ipq, addr),
     mac_arr |-> [arp.mac_arr EXCEPT ![loc] = mac]]

\* The place of the oldest address in the table.
OldIdx(arp) == Addrmap!HashtableGet(arp.addrmap, Ipq!Front(arp.ipq))

\* (A mutant: only the queue is popped.)
WithoutOldestKept(arp) == [arp EXCEPT !.ipq = Ipq!Pop(@)]
WithoutOldest(arp) ==
    [arp EXCEPT !.addrmap = Addrmap!Delete(@, OldIdx(arp)), !.ipq = Ipq!Pop(@)]

\* Where the MAC address of a new entry goes.
Loc(arp) == IF Ipq!Full(arp.ipq) THEN arp.addrmap[OldIdx(arp)].value ELSE arp.ipq.len

ArpserverStore(arp, addr, mac) ==
    LET i == Addrmap!HashtableReserve(arp.addrmap, addr) IN
    IF Addrmap!Active(arp.addrmap, i) THEN Updated(arp, i, mac)
    ELSE IF ~Ipq!Full(arp.ipq) THEN Appended(arp, i, addr, Loc(arp), mac)
    ELSE IF OldIdx(arp) = Addrmap!HT_NOKEY THEN arp
    ELSE Appended(WithoutOldest(arp), i, addr, Loc(arp), mac)

\* The MAC address of an entry, 0 if there is none.
KnownMac(arp, addr) ==
    LET i == Addrmap!HashtableGet(arp.addrmap, addr) IN
    IF i = Addrmap!HT_NOKEY THEN 0 ELSE arp.mac_arr[arp.addrmap[i].value]
=============================================================================
