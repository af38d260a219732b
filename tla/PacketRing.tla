----------------------------- MODULE PacketRing -----------------------------
(***************************************************************************)
(* The buffer of a port in servers/net.c: packet records of different      *)
(* lengths one after the other, from head to tail or, when tail has gone   *)
(* back to the beginning, from head to top and from the beginning to tail. *)
(* A cell is as long as the header of a record, the unit of all sizes; it  *)
(* holds the header of the record that begins there, or NoPkt: data.       *)
(***************************************************************************)
EXTENDS Integers

CONSTANTS UDP_BUF_MAX, NoPkt

EmptyRing == [mem |-> [i \in 0 .. (UDP_BUF_MAX - 1) |-> NoPkt],
              head |-> 0, tail |-> 0, top |-> 0, lost |-> FALSE]

Empty(b) == b.head = b.tail
Reset(b) == [mem |-> b.mem, head |-> 0, tail |-> 0, top |-> 0, lost |-> b.lost]

\* pop_pkt: the packet, and the buffer without it.  Where no record begins,
\* what it takes for the length of one is data of another: it is lost.
AtRecord(b) == b.head \in DOMAIN b.mem /\ b.mem[b.head] # NoPkt
PopPkt(b) == b.mem[b.head].pkt
NextHead(b) ==
    LET h == b.head + b.mem[b.head].size IN IF h = b.top THEN 0 ELSE h
Popped(b) ==
    CASE Empty(b) -> b
      [] ~Empty(b) /\ AtRecord(b)  -> [b EXCEPT !.head = NextHead(b)]
      [] ~Empty(b) /\ ~AtRecord(b) -> [b EXCEPT !.lost = TRUE]

\* alloc_pkt and the copy of the packet into its record.
Fits(size) == size < UDP_BUF_MAX
Restarted(b) == IF Empty(b) THEN Reset(b) ELSE b
WrapsAt(b, size) == b.tail + size >= UDP_BUF_MAX
Wrapped(b, size) ==
    IF WrapsAt(b, size)
    THEN LET t == [b EXCEPT !.top = b.tail] IN
         [(IF b.head = 0 THEN Popped(t) ELSE t) EXCEPT !.tail = 0]
    ELSE b

\* The loop pops a record in each of its rounds: UDP_BUF_MAX are enough.
InTheWay(b, size) == b.tail < b.head /\ b.tail + size >= b.head
MadeRoom(b, size) ==
    LET after[n \in 0 .. UDP_BUF_MAX] ==
            IF n = 0 THEN b
            ELSE IF InTheWay(after[n - 1], size) THEN Popped(after[n - 1])
            ELSE after[n - 1]
        last == after[UDP_BUF_MAX]
    IN  IF InTheWay(b, size)
        THEN [mem |-> b.mem, head |-> last.head, tail |-> b.tail, top |-> b.top, lost |-> last.lost]
        ELSE b

Written(mem, at, rec) ==
    [i \in DOMAIN mem |->
        IF i = at THEN rec ELSE IF i \in at .. (at + rec.size - 1) THEN NoPkt ELSE mem[i]]
Copied(b, rec) ==
    [mem |-> Written(b.mem, b.tail, rec), head |-> b.head, tail |-> b.tail + rec.size,
     top |-> b.top, lost |-> b.lost]

Stored(b, pkt, size) ==
    LET rec  == [pkt |-> pkt, size |-> size]
        room == MadeRoom(Wrapped(Restarted(b), size), size)
    IN  IF Fits(size) THEN Copied(room, rec) ELSE Restarted(b)
=============================================================================
