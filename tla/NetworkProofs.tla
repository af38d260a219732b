---------------------------- MODULE NetworkProofs ----------------------------
(***************************************************************************)
(* Theorems about the network servers, for any programs, any traffic and   *)
(* any sizes of tables and buffers: packets are given out to the ports they *)
(* are for, once and in their order, and datagrams go to addresses that    *)
(* were announced.                                                         *)
(***************************************************************************)
EXTENDS Network, MessageProofs

\* The tables and the queue with the theorems about them.
PortT == INSTANCE LibProofs WITH HtMax <- PORTMAP_MAX, Hash <- PortHash
IpT   == INSTANCE LibProofs WITH HtMax <- ADDRMAP_MAX, Hash <- IpHash

-----------------------------------------------------------------------------
(* What the tasks know of themselves.                                      *)

Job == {NoJob} \cup [at : {"ask", "asked"}, addr : Ip, count : Nat]
               \cup {[at |-> "sent"]}
Sends(t) == t \in App \cup {ConTx}

EthKeeps ==
    /\ frames \in Seq(Frame) /\ rxfifo \in Seq(DOMAIN frames)
    /\ rsfl \in BOOLEAN /\ waiting \in BOOLEAN /\ ethpc \in {"receive", "drain"}
ConKeeps ==
    /\ chq \in Seq(Int) /\ Len(chq) <= RX_BUF_MAX
    /\ tidq \in Seq(Fd) /\ Len(tidq) <= RX_TIDS_MAX
    /\ contid \in Fd \cup {NoTid} /\ (job[ConTx] # NoJob => contid \in Fd)
JobsKeep ==
    /\ job \in [Task -> Job]
    /\ \A t \in Task : job[t] # NoJob => Sends(t)
    /\ \A t \in Task : job[t].at = "sent" => t = ConTx

(* A program is a sequence of calls, and an assertion is about the call    *)
(* before it: no two of them follow each other.                            *)
ProgramOf(q) ==
    /\ q \in Seq(Call \cup {ASSERTNOERR})
    /\ \A i \in DOMAIN q : i > 1 /\ q[i] = ASSERTNOERR => q[i - 1] # ASSERTNOERR
ProgramsLeft ==
    /\ todo \in [App -> Seq(Call \cup {ASSERTNOERR})]
    /\ \A t \in App : ProgramOf(todo[t])

(* What is sent to a server is for it, and only lookups are answered with  *)
(* an address.                                                             *)
PacketFor(s, pkt) ==
    /\ pkt \in DOMAIN frames
    /\ \/ s = Arp /\ frames[pkt].type = "ARP"
       \/ s = Icmp /\ frames[pkt].type = "ICMP"
       \/ s = Udprx /\ frames[pkt].type = "UDP"
Fits(s, m) ==
    \/ s = Ethrx /\ m.code = "NOTIFY"
    \/ s = ConRx /\ m.code = "NOTIFY" /\ m.pkt \in Int
    \/ m.code = "DISPATCH" /\ PacketFor(s, m.pkt)
    \/ s = Arp /\ m.code = "QUERY" /\ m.addr \in Ip
    \/ s = Udprx /\ m.code \in {"BIND", "REQ", "RELEASE"} /\ m.port \in Port
    \/ s = ConTx /\ m.code = "WRITE"
    \/ s = ConRx /\ m.code = "GETCHAR"
RequestsFit == \A s \in Server : \A i \in DOMAIN inbox[s] : Fits(s, msg[inbox[s][i]])

(* The addresses that hosts have announced, and what a task that asked for *)
(* one has been told.                                                      *)
Announced(addr, mac) ==
    \E i \in DOMAIN frames : /\ frames[i].type = "ARP"
                             /\ frames[i].spa = addr /\ frames[i].sha = mac
QueriesAnswered ==
    \A s \in Server, fd \in Fd :
        tids[s][fd] # Nobody => msg[tids[s][fd]].code # "QUERY"
Asked ==
    \A t \in Task : job[t].at = "asked" =>
        LET addr == Resolved(job[t].addr) IN
        IF phase[t] = "ready"
        THEN status[t] = EARP_PENDING \/ Announced(addr, status[t])
        ELSE msg[t].code = "QUERY" /\ msg[t].addr = addr

TasksInv ==
    /\ MsgInv /\ EthKeeps /\ ConKeeps /\ JobsKeep /\ ProgramsLeft
    /\ RequestsFit /\ QueriesAnswered /\ Asked

-----------------------------------------------------------------------------
(* The ARP cache: every address in the table has a place of its own, among *)
(* those that the queue has given out, with a MAC address announced for it. *)

ActiveAt(a, i) == i \in IpT!Place /\ IpT!Active(a.addrmap, i)
ArpKeeps(a) ==
    /\ a.addrmap \in IpT!TableOf(Ip, 0 .. (ARP_MAX - 1))
    /\ a.ipq \in IpT!Queue(Ip \cup {NoItem}, ARP_MAX)
    /\ a.mac_arr \in [0 .. (ARP_MAX - 1) -> Int]
    /\ a = [addrmap |-> a.addrmap, ipq |-> a.ipq, mac_arr |-> a.mac_arr]
    /\ IpT!KeysOnce(a.addrmap) /\ IpT!KeysReachable(a.addrmap)
    /\ IpT!Elements(a.ipq) \in Seq(Ip)
PlacesOwn(a) ==
    \A i, j \in IpT!Place :
        ActiveAt(a, i) /\ ActiveAt(a, j) /\ a.addrmap[i].value = a.addrmap[j].value => i = j
EntriesAnnounced(a) ==
    \A i \in IpT!Place : ActiveAt(a, i) =>
        /\ a.addrmap[i].value < a.ipq.len
        /\ Announced(a.addrmap[i].key, a.mac_arr[a.addrmap[i].value])
ArpInv == ArpKeeps(arp) /\ PlacesOwn(arp) /\ EntriesAnnounced(arp)

-----------------------------------------------------------------------------
(* The buffers: each is the one of a port, or free.                        *)

LastCell == UDP_BUF_MAX - 1
Rec == [pkt : Nat, size : Nat \ {0}]
Mem == [0 .. LastCell -> Rec \cup {NoPkt}]

(* Where a buffer has gone round, head may be anywhere: only what is in    *)
(* the cells matters.                                                      *)
RingWith(m, h, t, p, l) == [mem |-> m, head |-> h, tail |-> t, top |-> p, lost |-> l]
IsRing(r) == r = RingWith(r.mem, r.head, r.tail, r.top, r.lost) /\ r.mem \in Mem
IsBuf(buf) ==
    /\ buf = [ring |-> buf.ring, tid |-> buf.tid]
    /\ IsRing(buf.ring) /\ buf.tid \in Fd \cup {NoTid}
IsSeq(q) == \E S : q \in Seq(S)

(* A buffer that has not gone round holds the packets of came after the    *)
(* first g, one record after the other: pos says where each of them begins. *)
RecordAt(r, at, pkt) ==
    at < r.tail /\ r.mem[at] \in Rec /\ r.mem[at].pkt = pkt
HoldsAt(r, came, g, pos) ==
    /\ pos[g + 1] = r.head /\ pos[Len(came) + 1] = r.tail
    /\ \A i \in (g + 1) .. Len(came) :
          RecordAt(r, pos[i], came[i]) /\ pos[i + 1] = pos[i] + r.mem[pos[i]].size
Holds(r, came, g) ==
    /\ r.top = 0 /\ r.tail \in 0 .. LastCell
    /\ \E pos \in [Nat -> Nat] : HoldsAt(r, came, g, pos)

Bound(pm, p, b) ==
    \E i \in PortT!Place : PortT!Active(pm, i) /\ pm[i].key = p /\ pm[i].value = b

PortTable(pm) ==
    /\ pm \in PortT!TableOf(Port, Nat)
    /\ PortT!KeysOnce(pm) /\ PortT!KeysReachable(pm)
HistType == [came : Seq(Nat), given : Seq(Nat), wrapped : BOOLEAN]
BufsKeep ==
    /\ IsSeq(bufs) /\ \A b \in DOMAIN bufs : IsBuf(bufs[b])
    /\ free_head \in Seq(DOMAIN bufs)
    /\ hist \in [Port -> HistType]
BufsOwn ==
    /\ \A i, j \in DOMAIN free_head : free_head[i] = free_head[j] => i = j
    /\ \A p \in Port, b \in Nat : Bound(portmap, p, b) =>
          /\ b \in DOMAIN bufs /\ \A i \in DOMAIN free_head : free_head[i] # b
          /\ \A q \in Port : Bound(portmap, q, b) => q = p

(* The buffer of a port holds what came and was not given out; whoever     *)
(* waits at it waits because it is empty.                                  *)
GivenSoFar(h) ==
    /\ Len(h.given) <= Len(h.came)
    /\ \A i \in DOMAIN h.given : h.given[i] = h.came[i]
RingHolds(r, h) == ~h.wrapped => GivenSoFar(h) /\ Holds(r, h.came, Len(h.given))
PortHolds(buf, h) ==
    /\ buf.tid # NoTid => Ring!Empty(buf.ring)
    /\ RingHolds(buf.ring, h)
BufsHold == \A p \in Port, b \in Nat : Bound(portmap, p, b) => PortHolds(bufs[b], hist[p])

UdpInv == PortTable(portmap) /\ BufsKeep /\ BufsOwn /\ BufsHold

NetworkInv == TasksInv /\ ArpInv /\ UdpInv /\ MacsAnnounced
-----------------------------------------------------------------------------
(* The buffer of a port, by itself.                                        *)

LEMMA LastCellIs == LastCell \in Nat \ {0} /\ UDP_BUF_MAX \in Nat /\ UDP_BUF_MAX = LastCell + 1
BY SizeAssumption DEF LastCell

LEMMA NoPktIs == NoPkt \notin Rec
<1> SUFFICES ASSUME NoPkt \in Rec PROVE FALSE
  OBVIOUS
<1>1. NoPkt = [pkt |-> NoPkt.pkt, size |-> NoPkt.size] /\ NoPkt.pkt \in Nat /\ NoPkt.size \in Nat
  BY DEF Rec
<1>2. NoPkt \in [pkt : Nat, size : Nat]
  BY <1>1
<1> QED
  BY <1>2, SizeAssumption

LEMMA RingPartsAre ==
    ASSUME NEW m, NEW h, NEW t, NEW p, NEW l
    PROVE  LET r == RingWith(m, h, t, p, l) IN
           /\ r.mem = m /\ r.head = h /\ r.tail = t /\ r.top = p /\ r.lost = l
           /\ m \in Mem => IsRing(r)
BY DEF RingWith, IsRing

(* Assignments to the fields of a buffer.                                  *)
LEMMA RingSets ==
    ASSUME NEW r, IsRing(r), NEW x
    PROVE  /\ [r EXCEPT !.head = x] = RingWith(r.mem, x, r.tail, r.top, r.lost)
           /\ [r EXCEPT !.tail = x] = RingWith(r.mem, r.head, x, r.top, r.lost)
           /\ [r EXCEPT !.top = x] = RingWith(r.mem, r.head, r.tail, x, r.lost)
           /\ [r EXCEPT !.lost = x] = RingWith(r.mem, r.head, r.tail, r.top, x)
<1>1. ASSUME NEW m, NEW h, NEW t, NEW p, NEW l, r = RingWith(m, h, t, p, l)
      PROVE  /\ [r EXCEPT !.head = x] = RingWith(m, x, t, p, l)
             /\ [r EXCEPT !.tail = x] = RingWith(m, h, x, p, l)
             /\ [r EXCEPT !.top = x] = RingWith(m, h, t, x, l)
             /\ [r EXCEPT !.lost = x] = RingWith(m, h, t, p, x)
  <2>1. [r EXCEPT !.head = x] = RingWith(m, x, t, p, l)
    BY <1>1 DEF RingWith
  <2>2. [r EXCEPT !.tail = x] = RingWith(m, h, x, p, l)
    BY <1>1 DEF RingWith
  <2>3. [r EXCEPT !.top = x] = RingWith(m, h, t, x, l)
    BY <1>1 DEF RingWith
  <2>4. [r EXCEPT !.lost = x] = RingWith(m, h, t, p, x)
    BY <1>1 DEF RingWith
  <2> QED
    BY <2>1, <2>2, <2>3, <2>4
<1> QED
  BY <1>1 DEF IsRing

(* What pop_pkt does: it takes the record at head, or finds none.          *)
LEMMA PoppedIs ==
    ASSUME NEW r, IsRing(r)
    PROVE  LET s == Ring!Popped(r) IN
           /\ IsRing(s) /\ s.mem = r.mem /\ s.tail = r.tail /\ s.top = r.top
           /\ ~Ring!Empty(r) /\ ~s.lost =>
                /\ r.mem[r.head] \in Rec /\ Ring!PopPkt(r) \in Nat
                /\ s = RingWith(r.mem, Ring!NextHead(r), r.tail, r.top, r.lost)
<1>1. r.mem \in Mem
  BY DEF IsRing
<1>2. CASE Ring!Empty(r)
  BY <1>2 DEF Ring!Popped
<1>3. CASE ~Ring!Empty(r) /\ Ring!AtRecord(r)
  <2>1. Ring!Popped(r) = RingWith(r.mem, Ring!NextHead(r), r.tail, r.top, r.lost)
    BY <1>3, RingSets DEF Ring!Popped
  <2>2. r.mem[r.head] \in Rec
    BY <1>1, <1>3 DEF Ring!AtRecord, Mem
  <2>3. Ring!PopPkt(r) \in Nat
    BY <2>2 DEF Ring!PopPkt, Rec
  <2>4. IsRing(Ring!Popped(r))
    BY <1>1, <2>1, RingPartsAre
  <2>5. LET s == Ring!Popped(r) IN s.mem = r.mem /\ s.tail = r.tail /\ s.top = r.top
    BY <2>1, RingPartsAre
  <2> QED
    BY <2>1, <2>2, <2>3, <2>4, <2>5
<1>4. CASE ~Ring!Empty(r) /\ ~Ring!AtRecord(r)
  <2>0. PICK l : l = TRUE
    OBVIOUS
  <2>1. Ring!Popped(r) = RingWith(r.mem, r.head, r.tail, r.top, l)
    BY <1>4, <2>0, RingSets DEF Ring!Popped
  <2>2. Ring!Popped(r).lost
    <3>1. Ring!Popped(r).lost = l
      BY <2>1, RingPartsAre
    <3> QED
      BY <2>0, <3>1
  <2>3. IsRing(Ring!Popped(r))
    BY <1>1, <2>1, RingPartsAre
  <2>4. LET s == Ring!Popped(r) IN s.mem = r.mem /\ s.tail = r.tail /\ s.top = r.top
    BY <2>1, RingPartsAre
  <2> QED
    BY <1>4, <2>2, <2>3, <2>4
<1> QED
  BY <1>2, <1>3, <1>4

(* alloc_pkt, step by step.                                                *)
LEMMA RestartedIs ==
    ASSUME NEW r, IsRing(r)
    PROVE  LET s == Ring!Restarted(r) IN
           /\ IsRing(s) /\ s.mem = r.mem
           /\ Ring!Empty(r) => s = RingWith(r.mem, 0, 0, 0, r.lost)
           /\ ~Ring!Empty(r) => s = r
<1>1. r.mem \in Mem
  BY DEF IsRing
<1>2. CASE Ring!Empty(r)
  <2>1. Ring!Restarted(r) = RingWith(r.mem, 0, 0, 0, r.lost)
    BY <1>2 DEF Ring!Restarted, Ring!Reset, RingWith
  <2> QED
    BY <1>1, <1>2, <2>1, RingPartsAre
<1>3. CASE ~Ring!Empty(r)
  BY <1>3 DEF Ring!Restarted
<1> QED
  BY <1>2, <1>3

LEMMA WrappedIs ==
    ASSUME NEW r, IsRing(r), NEW size
    PROVE  LET s == Ring!Wrapped(r, size) IN
           IsRing(s) /\ (~Ring!WrapsAt(r, size) => s = r)
<1>1. CASE ~Ring!WrapsAt(r, size)
  BY <1>1 DEF Ring!Wrapped
<1>2. CASE Ring!WrapsAt(r, size)
  <2> DEFINE t == [r EXCEPT !.top = r.tail]
             u == IF r.head = 0 THEN Ring!Popped(t) ELSE t
  <2>1. r.mem \in Mem
    BY DEF IsRing
  <2>2. t = RingWith(r.mem, r.head, r.tail, r.tail, r.lost)
    BY RingSets
  <2>3. IsRing(t)
    BY <2>1, <2>2, RingPartsAre
  <2>4. Ring!Wrapped(r, size) = [u EXCEPT !.tail = 0]
    BY <1>2 DEF Ring!Wrapped
  <2> HIDE DEF t
  <2>5. IsRing(u)
    BY <2>3, PoppedIs
  <2> HIDE DEF u
  <2>6. u.mem \in Mem
    BY <2>5 DEF IsRing
  <2>7. [u EXCEPT !.tail = 0] = RingWith(u.mem, u.head, 0, u.top, u.lost)
    BY <2>5, RingSets
  <2>8. IsRing(RingWith(u.mem, u.head, 0, u.top, u.lost))
    BY <2>6, RingPartsAre
  <2> QED
    BY <1>2, <2>4, <2>7, <2>8
<1> QED
  BY <1>1, <1>2

LEMMA MadeRoomIs ==
    ASSUME NEW r, IsRing(r), NEW size
    PROVE  LET s == Ring!MadeRoom(r, size) IN
           IsRing(s) /\ (~Ring!InTheWay(r, size) => s = r)
<1>1. r.mem \in Mem
  BY DEF IsRing
<1>2. CASE ~Ring!InTheWay(r, size)
  BY <1>2 DEF Ring!MadeRoom
<1>3. CASE Ring!InTheWay(r, size)
  <2>1. \E h, l : Ring!MadeRoom(r, size) = RingWith(r.mem, h, r.tail, r.top, l)
    BY <1>3, Zenon DEF Ring!MadeRoom, RingWith
  <2>3. PICK h, l : Ring!MadeRoom(r, size) = RingWith(r.mem, h, r.tail, r.top, l)
    BY <2>1
  <2>4. IsRing(RingWith(r.mem, h, r.tail, r.top, l))
    BY <1>1, RingPartsAre
  <2> QED
    BY <1>3, <2>3, <2>4
<1> QED
  BY <1>2, <1>3

LEMMA CopiedIs ==
    ASSUME NEW r, IsRing(r), NEW rec \in Rec
    PROVE  LET s == Ring!Copied(r, rec) IN
           /\ IsRing(s)
           /\ s = RingWith(Ring!Written(r.mem, r.tail, rec), r.head, r.tail + rec.size,
                           r.top, r.lost)
<1>1. r.mem \in Mem
  BY DEF IsRing
<1>2. Ring!Copied(r, rec) = RingWith(Ring!Written(r.mem, r.tail, rec), r.head,
                                     r.tail + rec.size, r.top, r.lost)
  BY DEF Ring!Copied, RingWith
<1>3. Ring!Written(r.mem, r.tail, rec) \in Mem
  BY <1>1 DEF Ring!Written, Mem
<1> QED
  BY <1>2, <1>3, RingPartsAre

LEMMA StoredIs ==
    ASSUME NEW r, IsRing(r), NEW pkt \in Nat, NEW size \in Nat \ {0}
    PROVE  LET s == Ring!Stored(r, pkt, size)
               e == Ring!Restarted(r)
               rec == [pkt |-> pkt, size |-> size]
           IN  /\ IsRing(s)
               /\ ~Ring!Fits(size) => s = e
               /\ Ring!Fits(size) /\ ~Ring!WrapsAt(e, size) /\ ~Ring!InTheWay(e, size) =>
                    s = RingWith(Ring!Written(e.mem, e.tail, rec), e.head, e.tail + size,
                                 e.top, e.lost)
<1> DEFINE e == Ring!Restarted(r)
           w == Ring!Wrapped(e, size)
           m == Ring!MadeRoom(w, size)
           rec == [pkt |-> pkt, size |-> size]
<1>1. rec \in Rec /\ rec.size = size
  BY DEF Rec
<1>2. Ring!Stored(r, pkt, size) = IF Ring!Fits(size) THEN Ring!Copied(m, rec) ELSE e
  BY DEF Ring!Stored
<1> HIDE DEF rec
<1>3. IsRing(e)
  BY RestartedIs
<1> HIDE DEF e
<1>4. IsRing(w) /\ (~Ring!WrapsAt(e, size) => w = e)
  BY <1>3, WrappedIs
<1> HIDE DEF w
<1>5. IsRing(m) /\ (~Ring!InTheWay(w, size) => m = w)
  BY <1>4, MadeRoomIs
<1> HIDE DEF m
<1>6. /\ IsRing(Ring!Copied(m, rec))
      /\ Ring!Copied(m, rec) = RingWith(Ring!Written(m.mem, m.tail, rec), m.head,
                                        m.tail + size, m.top, m.lost)
  BY <1>1, <1>5, CopiedIs
<1> QED
  BY <1>2, <1>3, <1>4, <1>5, <1>6 DEF e, rec

-----------------------------------------------------------------------------
(* What a buffer holds that has not gone round.                            *)

LEMMA Sums ==
    ASSUME NEW a \in Nat, NEW b \in Nat \ {0}
    PROVE  /\ a + b \in Nat /\ a < a + b /\ \A c \in Nat : c < a => c < a + b
           /\ a + b <= LastCell => a \in 0 .. LastCell
           /\ \A c \in Nat : c < a /\ a + b <= LastCell => c \in 0 .. LastCell
BY LastCellIs

LEMMA NextPlace ==
    ASSUME NEW pos \in [Nat -> Nat], NEW k \in Nat
    PROVE  k + 1 \in Nat /\ pos[k + 1] \in Nat
OBVIOUS

LEMMA EmptyHolds ==
    ASSUME NEW r, NEW came \in Seq(Nat), NEW g \in Nat, g <= Len(came), Holds(r, came, g)
    PROVE  Ring!Empty(r) <=> g = Len(came)
<1>1. PICK pos \in [Nat -> Nat] : HoldsAt(r, came, g, pos)
  BY DEF Holds
<1>2. Len(came) \in Nat /\ g \in Nat /\ r.tail \in Nat
  <2>1. r.tail \in 0 .. LastCell
    BY DEF Holds
  <2>2. r.tail \in Nat
    BY <2>1, LastCellIs
  <2>3. Len(came) \in Nat
    OBVIOUS
  <2>4. g \in Nat
    BY <2>3
  <2> QED
    BY <2>2, <2>3, <2>4
<1>3. ASSUME g # Len(came) PROVE r.head < r.tail
  <2>1. g + 1 \in (g + 1) .. Len(came)
    BY <1>2, <1>3
  <2> QED
    BY <1>1, <2>1 DEF HoldsAt, RecordAt
<1>4. r.head = pos[g + 1] /\ r.tail = pos[Len(came) + 1] /\ pos[g + 1] \in Nat
  <2>1. pos[g + 1] \in Nat
    BY <1>1, <1>2, NextPlace
  <2> QED
    BY <1>1, <2>1 DEF HoldsAt
<1>5. g = Len(came) => r.head = r.tail
  BY <1>4
<1>6. g # Len(came) => r.head # r.tail
  BY <1>2, <1>3, <1>4
<1> QED
  BY <1>5, <1>6 DEF Ring!Empty

(* A packet goes out.                                                      *)
LEMMA PopHolds ==
    ASSUME NEW r, IsRing(r), NEW came \in Seq(Nat), NEW g \in Nat, g <= Len(came),
           Holds(r, came, g), ~Ring!Empty(r), ~Ring!Popped(r).lost
    PROVE  /\ g + 1 <= Len(came) /\ Ring!PopPkt(r) = came[g + 1]
           /\ Holds(Ring!Popped(r), came, g + 1)
<1> DEFINE s == Ring!Popped(r)
<1>1. /\ r.mem[r.head] \in Rec
      /\ s = RingWith(r.mem, Ring!NextHead(r), r.tail, r.top, r.lost)
  BY PoppedIs
<1>2. s.mem = r.mem /\ s.head = Ring!NextHead(r) /\ s.tail = r.tail /\ s.top = r.top
  BY <1>1, RingPartsAre
<1> HIDE DEF s
<1>3. Len(came) \in Nat /\ g \in Nat /\ r.tail \in Nat /\ r.tail \in 0 .. LastCell /\ r.top = 0
  BY LastCellIs DEF Holds
<1>4. PICK pos \in [Nat -> Nat] : HoldsAt(r, came, g, pos)
  BY DEF Holds
<1>5. g # Len(came)
  BY EmptyHolds
<1>6. g + 1 \in (g + 1) .. Len(came) /\ g + 1 <= Len(came)
  BY <1>3, <1>5
<1>7. r.head = pos[g + 1] /\ RecordAt(r, pos[g + 1], came[g + 1])
      /\ pos[(g + 1) + 1] = pos[g + 1] + r.mem[pos[g + 1]].size
  BY <1>4, <1>6 DEF HoldsAt
<1>8. Ring!PopPkt(r) = came[g + 1]
  BY <1>7 DEF Ring!PopPkt, RecordAt
<1>9. s.head = pos[(g + 1) + 1]
  <2> DEFINE h == r.head
             z == r.mem[r.head].size
  <2>1. z \in Nat /\ z # 0
    BY <1>1 DEF Rec
  <2>a. h \in Nat
    <3>1. g + 1 \in Nat
      BY <1>3
    <3>2. pos[g + 1] \in Nat
      BY <1>4, <3>1
    <3> QED
      BY <1>7, <3>2
  <2> HIDE DEF h, z
  <2>b. h + z # 0
    BY <2>1, <2>a
  <2>2. r.head + r.mem[r.head].size # 0
    BY <2>b DEF h, z
  <2>3. Ring!NextHead(r) = r.head + r.mem[r.head].size
    BY <1>3, <2>2 DEF Ring!NextHead
  <2> QED
    BY <1>2, <1>7, <2>3
<1>10. ASSUME NEW i \in ((g + 1) + 1) .. Len(came)
       PROVE  RecordAt(s, pos[i], came[i]) /\ pos[i + 1] = pos[i] + s.mem[pos[i]].size
  <2>1. i \in (g + 1) .. Len(came)
    BY <1>3
  <2> QED
    BY <1>2, <1>4, <2>1 DEF HoldsAt, RecordAt
<1>11. HoldsAt(s, came, g + 1, pos)
  BY <1>2, <1>4, <1>9, <1>10 DEF HoldsAt
<1>12. Holds(s, came, g + 1)
  BY <1>2, <1>3, <1>11 DEF Holds
<1> QED
  BY <1>6, <1>8, <1>12 DEF s

LEMMA RestartHolds ==
    ASSUME NEW r, IsRing(r), NEW came \in Seq(Nat), NEW g \in Nat, g <= Len(came), Holds(r, came, g)
    PROVE  Holds(Ring!Restarted(r), came, g)
<1> DEFINE s == Ring!Restarted(r)
           n == Len(came)
<1>1. CASE ~Ring!Empty(r)
  BY <1>1, RestartedIs
<1>2. CASE Ring!Empty(r)
  <2>1. s = RingWith(r.mem, 0, 0, 0, r.lost)
    BY <1>2, RestartedIs
  <2>2. s.head = 0 /\ s.tail = 0 /\ s.top = 0
    BY <2>1, RingPartsAre
  <2> HIDE DEF s
  <2>3. g = n /\ n \in Nat
    BY <1>2, EmptyHolds
  <2> HIDE DEF n
  <2> DEFINE pos == [i \in Nat |-> 0]
  <2>4. pos \in [Nat -> Nat] /\ pos[n + 1] = 0
    BY <2>3
  <2>5. \A i \in (g + 1) .. n : FALSE
    BY <2>3
  <2> HIDE DEF pos
  <2>6. HoldsAt(s, came, g, pos)
    BY <2>2, <2>3, <2>4, <2>5 DEF HoldsAt, n
  <2>7. 0 \in 0 .. LastCell
    BY LastCellIs
  <2> QED
    BY <2>2, <2>4, <2>6, <2>7 DEF Holds, s
<1> QED
  BY <1>1, <1>2

(* A packet comes in: its record is behind the others.                     *)
LEMMA WriteHolds ==
    ASSUME NEW r, IsRing(r), NEW came \in Seq(Nat), NEW g \in Nat, g <= Len(came), Holds(r, came, g),
           NEW rec \in Rec, ~Ring!WrapsAt(r, rec.size)
    PROVE  Holds(RingWith(Ring!Written(r.mem, r.tail, rec), r.head, r.tail + rec.size, r.top, r.lost),
                 Append(came, rec.pkt), g)
<1> DEFINE m == Ring!Written(r.mem, r.tail, rec)
           s == RingWith(m, r.head, r.tail + rec.size, r.top, r.lost)
           n == Len(came)
           all == Append(came, rec.pkt)
<1>1. s.mem = m /\ s.head = r.head /\ s.tail = r.tail + rec.size /\ s.top = r.top
  BY RingPartsAre
<1>2. /\ n \in Nat /\ g \in Nat /\ g <= n
      /\ r.tail \in Nat /\ r.top = 0 /\ rec.size \in Nat \ {0} /\ rec.pkt \in Nat
  <2>1. n \in Nat
    OBVIOUS
  <2>2. g \in Nat /\ g <= n
    BY <2>1
  <2>3. r.tail \in 0 .. LastCell /\ r.top = 0
    BY DEF Holds
  <2>4. r.tail \in Nat
    BY <2>3, LastCellIs
  <2>5. rec.size \in Nat \ {0} /\ rec.pkt \in Nat
    BY DEF Rec
  <2> QED
    BY <2>1, <2>2, <2>3, <2>4, <2>5
<1>3. r.tail + rec.size \in 0 .. LastCell
  BY <1>2, LastCellIs DEF Ring!WrapsAt
<1>4. Len(all) = n + 1 /\ all[n + 1] = rec.pkt /\ \A i \in 1 .. n : all[i] = came[i]
  BY <1>2
<1>5. /\ m[r.tail] = rec
      /\ \A i \in 0 .. LastCell : i < r.tail => m[i] = r.mem[i]
  <2>1. DOMAIN r.mem = 0 .. LastCell /\ r.tail \in 0 .. LastCell
    BY <1>2, <1>3, LastCellIs DEF IsRing, Mem
  <2>2. \A i \in 0 .. LastCell : i < r.tail => i # r.tail /\ i \notin r.tail .. (r.tail + rec.size - 1)
    BY <1>2, LastCellIs
  <2> QED
    BY <2>1, <2>2 DEF Ring!Written
<1>6. PICK old \in [Nat -> Nat] : HoldsAt(r, came, g, old)
  BY DEF Holds
<1> DEFINE pos == [old EXCEPT ![n + 2] = r.tail + rec.size]
<1>7. /\ pos \in [Nat -> Nat] /\ pos[n + 2] = r.tail + rec.size
      /\ \A i \in Nat : i <= n + 1 => pos[i] = old[i]
  <2> DEFINE z == r.tail + rec.size
             k == n + 2
  <2> HIDE DEF n
  <2>1. z \in Nat /\ k \in Nat /\ \A i \in Nat : i <= n + 1 => i # k
    <3>1. z \in Nat
      BY <1>2, Sums
    <3>2. k \in Nat /\ \A i \in Nat : i <= n + 1 => i # k
      BY <1>2
    <3> QED
      BY <3>1, <3>2
  <2> HIDE DEF z, k
  <2>2. pos = [old EXCEPT ![k] = z]
    BY DEF pos, z, k
  <2> HIDE DEF pos
  <2>3. pos \in [Nat -> Nat] /\ pos[k] = z /\ \A i \in Nat : i # k => pos[i] = old[i]
    BY <1>6, <2>1, <2>2
  <2> QED
    BY <2>1, <2>3 DEF z, k
<1>8. old[g + 1] = r.head /\ old[n + 1] = r.tail
  BY <1>6 DEF HoldsAt
<1> HIDE DEF m, s, all, pos, n
<1>9. ASSUME NEW i \in (g + 1) .. (n + 1)
      PROVE  RecordAt(s, pos[i], all[i]) /\ pos[i + 1] = pos[i] + s.mem[pos[i]].size
  <2>1. CASE i = n + 1
    <3>1. pos[i] = r.tail /\ pos[i + 1] = r.tail + rec.size
      BY <1>2, <1>7, <1>8, <2>1
    <3>2. m[r.tail] = rec /\ all[i] = rec.pkt
      BY <1>4, <1>5, <2>1
    <3>3. r.tail < r.tail + rec.size
      BY <1>2, Sums
    <3> QED
      BY <1>1, <3>1, <3>2, <3>3 DEF RecordAt
  <2>2. CASE i # n + 1
    <3>1. i \in (g + 1) .. n /\ i \in Nat /\ i + 1 \in Nat /\ i + 1 <= n + 1 /\ i \in 1 .. n
      BY <1>2, <2>2
    <3>2. RecordAt(r, old[i], came[i]) /\ old[i + 1] = old[i] + r.mem[old[i]].size
      BY <1>6, <3>1 DEF HoldsAt, n
    <3>3. pos[i] = old[i] /\ pos[i + 1] = old[i + 1] /\ all[i] = came[i]
      <4>1. i <= n + 1
        BY <1>2, <3>1
      <4> QED
        BY <1>4, <1>7, <3>1, <4>1
    <3>4. old[i] \in Nat /\ old[i] < r.tail
      BY <1>6, <3>1, <3>2 DEF RecordAt
    <3>5. old[i] \in 0 .. LastCell
      <4>1. r.tail + rec.size <= LastCell
        BY <1>3, LastCellIs
      <4> QED
        BY <1>2, <3>4, <4>1, Sums
    <3>6. m[old[i]] = r.mem[old[i]]
      BY <1>5, <3>4, <3>5
    <3>7. old[i] < r.tail + rec.size
      BY <1>2, <3>4, Sums
    <3> QED
      BY <1>1, <3>2, <3>3, <3>6, <3>7 DEF RecordAt
  <2> QED
    BY <2>1, <2>2
<1>10. pos[g + 1] = s.head /\ pos[Len(all) + 1] = s.tail
  <2>1. pos[g + 1] = old[g + 1]
    BY <1>2, <1>7
  <2>2. Len(all) + 1 = n + 2
    BY <1>2, <1>4
  <2> QED
    BY <1>1, <1>7, <1>8, <2>1, <2>2
<1>11. HoldsAt(s, all, g, pos)
  BY <1>4, <1>9, <1>10 DEF HoldsAt
<1>12. Holds(s, all, g)
  BY <1>1, <1>2, <1>3, <1>7, <1>11 DEF Holds
<1> QED
  BY <1>12 DEF s, m, all

LEMMA StoreHolds ==
    ASSUME NEW r, IsRing(r), NEW came \in Seq(Nat), NEW g \in Nat, g <= Len(came), Holds(r, came, g),
           NEW pkt \in Nat, NEW size \in Nat \ {0}
    PROVE  LET s == Ring!Stored(r, pkt, size) IN
           /\ ~Ring!Fits(size) => Holds(s, came, g)
           /\ Ring!Fits(size) /\ ~Ring!WrapsAt(Ring!Restarted(r), size) =>
                Holds(s, Append(came, pkt), g)
<1> DEFINE s == Ring!Stored(r, pkt, size)
           e == Ring!Restarted(r)
           rec == [pkt |-> pkt, size |-> size]
<1>1. rec \in Rec /\ rec.pkt = pkt /\ rec.size = size
  BY DEF Rec
<1>2. IsRing(e) /\ Holds(e, came, g)
  BY RestartedIs, RestartHolds
<1>3. /\ ~Ring!Fits(size) => s = e
      /\ Ring!Fits(size) /\ ~Ring!WrapsAt(e, size) /\ ~Ring!InTheWay(e, size) =>
           s = RingWith(Ring!Written(e.mem, e.tail, rec), e.head, e.tail + size, e.top, e.lost)
  BY StoredIs
<1> HIDE DEF s, e, rec
<1>4. ~Ring!InTheWay(e, size)
  <2>1. PICK pos \in [Nat -> Nat] : HoldsAt(e, came, g, pos)
    BY <1>2 DEF Holds
  <2>2. Len(came) \in Nat /\ g \in Nat /\ g <= Len(came)
    OBVIOUS
  <2>a. pos[g + 1] \in Nat /\ pos[Len(came) + 1] \in Nat
    BY <2>1, <2>2, NextPlace
  <2>3. e.head = pos[g + 1] /\ e.tail = pos[Len(came) + 1] /\ e.head \in Nat /\ e.tail \in Nat
    BY <2>1, <2>a DEF HoldsAt
  <2>4. CASE g = Len(came)
    BY <2>3, <2>4 DEF Ring!InTheWay
  <2>5. CASE g # Len(came)
    <3>1. g + 1 \in (g + 1) .. Len(came)
      BY <2>2, <2>5
    <3>2. e.head < e.tail
      BY <2>1, <2>3, <3>1 DEF HoldsAt, RecordAt
    <3> QED
      BY <2>3, <3>2 DEF Ring!InTheWay
  <2> QED
    BY <2>4, <2>5
<1>5. ~Ring!WrapsAt(e, size) =>
        Holds(RingWith(Ring!Written(e.mem, e.tail, rec), e.head, e.tail + size, e.top, e.lost),
              Append(came, pkt), g)
  BY <1>1, <1>2, WriteHolds
<1> QED
  BY <1>2, <1>3, <1>4, <1>5 DEF s, e

-----------------------------------------------------------------------------
(* What came to a port and was given out.                                  *)

LEMMA CameIs ==
    ASSUME NEW h \in HistType, NEW r, NEW pkt \in Nat, NEW size
    PROVE  LET n == Came(h, r, pkt, size) IN
           /\ n \in HistType /\ n.given = h.given
           /\ ~Ring!Fits(size) => n = h
           /\ Ring!Fits(size) => n.came = Append(h.came, pkt)
           /\ Ring!Fits(size) /\ ~n.wrapped =>
                ~h.wrapped /\ ~Ring!WrapsAt(Ring!Restarted(r), size)
<1> DEFINE c == Append(h.came, pkt)
           w == h.wrapped \/ Ring!WrapsAt(Ring!Restarted(r), size)
<1>1. CASE ~Ring!Fits(size)
  BY <1>1 DEF Came
<1>2. CASE Ring!Fits(size)
  <2>1. c \in Seq(Nat) /\ h.given \in Seq(Nat)
    BY DEF HistType
  <2>2. w \in BOOLEAN /\ (~w => ~h.wrapped /\ ~Ring!WrapsAt(Ring!Restarted(r), size))
    OBVIOUS
  <2> DEFINE n == [came |-> c, given |-> h.given, wrapped |-> w]
  <2>3. Came(h, r, pkt, size) = n
    BY <1>2 DEF Came
  <2> HIDE DEF c, w
  <2>4. n \in HistType /\ n.given = h.given /\ n.came = c /\ n.wrapped = w
    BY <2>1, <2>2 DEF HistType
  <2> HIDE DEF n
  <2> QED
    BY <1>2, <2>2, <2>3, <2>4 DEF c
<1> QED
  BY <1>1, <1>2

LEMMA CameGiven ==
    ASSUME NEW h, NEW r, NEW pkt, NEW size
    PROVE  Came(h, r, pkt, size).given = h.given
BY DEF Came

LEMMA GivenIs ==
    ASSUME NEW h \in HistType, NEW pkt \in Nat
    PROVE  LET n == Given(h, pkt) IN
           /\ n \in HistType /\ n.came = h.came /\ n.wrapped = h.wrapped
           /\ n.given = Append(h.given, pkt)
<1> DEFINE g == Append(h.given, pkt)
<1>1. h = [came |-> h.came, given |-> h.given, wrapped |-> h.wrapped] /\ g \in Seq(Nat)
  BY DEF HistType
<1>2. Given(h, pkt) = [h EXCEPT !.given = g]
  BY DEF Given
<1> HIDE DEF g
<1>3. [h EXCEPT !.given = g] = [came |-> h.came, given |-> g, wrapped |-> h.wrapped]
  BY <1>1
<1>4. [came |-> h.came, given |-> g, wrapped |-> h.wrapped] \in HistType
  BY <1>1 DEF HistType
<1> QED
  BY <1>2, <1>3, <1>4 DEF g

(* A packet that comes in is among those that came; one that goes out is   *)
(* the next of them.                                                       *)
LEMMA CameHolds ==
    ASSUME NEW r, IsRing(r), NEW h \in HistType, RingHolds(r, h),
           NEW pkt \in Nat, NEW size \in Nat \ {0}
    PROVE  LET s == Ring!Stored(r, pkt, size)
               n == Came(h, r, pkt, size)
           IN  IsRing(s) /\ n \in HistType /\ RingHolds(s, n)
<1> DEFINE s == Ring!Stored(r, pkt, size)
           n == Came(h, r, pkt, size)
           came == h.came
           g == Len(h.given)
<1>1. IsRing(s)
  BY StoredIs
<1>2. /\ n \in HistType /\ n.given = h.given /\ (~Ring!Fits(size) => n = h)
      /\ Ring!Fits(size) => n.came = Append(came, pkt)
      /\ Ring!Fits(size) /\ ~n.wrapped =>
           ~h.wrapped /\ ~Ring!WrapsAt(Ring!Restarted(r), size)
  <2>0. n \in HistType
    BY CameIs
  <2>1. n.given = h.given
    BY CameGiven
  <2>2. ~Ring!Fits(size) => n = h
    BY CameIs
  <2>3. Ring!Fits(size) => n.came = Append(came, pkt)
    BY CameIs
  <2>4. Ring!Fits(size) /\ ~n.wrapped =>
           ~h.wrapped /\ ~Ring!WrapsAt(Ring!Restarted(r), size)
    BY CameIs
  <2> QED
    BY <2>0, <2>1, <2>2, <2>3, <2>4
<1> HIDE DEF n
<1>3. came \in Seq(Nat) /\ g \in Nat /\ h.given \in Seq(Nat)
  BY DEF HistType
<1>4. ASSUME ~n.wrapped PROVE GivenSoFar(n) /\ Holds(s, n.came, Len(n.given))
  <2>1. CASE ~Ring!Fits(size)
    <3>1. n = h
      BY <1>2, <2>1
    <3>2. GivenSoFar(h) /\ Holds(r, came, g) /\ g <= Len(came)
      BY <1>4, <3>1 DEF RingHolds, GivenSoFar
    <3>3. Holds(s, came, g)
      BY <1>3, <2>1, <3>2, StoreHolds
    <3> QED
      BY <3>1, <3>2, <3>3
  <2>2. CASE Ring!Fits(size)
    <3>1. n.came = Append(came, pkt) /\ ~h.wrapped /\ ~Ring!WrapsAt(Ring!Restarted(r), size)
      BY <1>2, <1>4, <2>2
    <3>2. GivenSoFar(h) /\ Holds(r, came, g) /\ g <= Len(came)
      BY <3>1 DEF RingHolds, GivenSoFar
    <3>3. Holds(s, n.came, g)
      BY <1>3, <2>2, <3>1, <3>2, StoreHolds
    <3>4. GivenSoFar(n)
      <4>1. Len(n.came) = Len(came) + 1 /\ \A i \in 1 .. Len(came) : n.came[i] = came[i]
        BY <1>3, <3>1
      <4>2. g <= Len(n.came)
        BY <1>3, <3>2, <4>1
      <4>3. \A i \in 1 .. g : i \in 1 .. Len(came) /\ h.given[i] = came[i]
        BY <1>3, <3>2 DEF GivenSoFar
      <4>4. DOMAIN h.given = 1 .. g
        BY <1>3
      <4> QED
        BY <1>2, <4>1, <4>2, <4>3, <4>4 DEF GivenSoFar
    <3> QED
      BY <1>2, <3>3, <3>4
  <2> QED
    BY <2>1, <2>2
<1> QED
  BY <1>1, <1>2, <1>4 DEF RingHolds, n

LEMMA GivenHolds ==
    ASSUME NEW r, IsRing(r), NEW h \in HistType, RingHolds(r, h),
           ~Ring!Empty(r), ~Ring!Popped(r).lost
    PROVE  LET n == Given(h, Ring!PopPkt(r)) IN
           /\ IsRing(Ring!Popped(r)) /\ Ring!PopPkt(r) \in Nat
           /\ n \in HistType /\ RingHolds(Ring!Popped(r), n)
<1> DEFINE s == Ring!Popped(r)
           pkt == Ring!PopPkt(r)
           n == Given(h, pkt)
           came == h.came
           g == Len(h.given)
<1>1. IsRing(s) /\ pkt \in Nat
  BY PoppedIs
<1>2. n \in HistType /\ n.came = came /\ n.wrapped = h.wrapped /\ n.given = Append(h.given, pkt)
  BY <1>1, GivenIs
<1>3. came \in Seq(Nat) /\ g \in Nat /\ h.given \in Seq(Nat)
  BY DEF HistType
<1>4. ASSUME ~h.wrapped PROVE GivenSoFar(n) /\ Holds(s, came, Len(n.given))
  <2>1. GivenSoFar(h) /\ Holds(r, came, g) /\ g <= Len(came)
    BY <1>4 DEF RingHolds, GivenSoFar
  <2>2. g + 1 <= Len(came) /\ pkt = came[g + 1] /\ Holds(s, came, g + 1)
    BY <1>3, <2>1, PopHolds
  <2> HIDE DEF n
  <2>3. /\ Len(n.given) = g + 1 /\ DOMAIN n.given = 1 .. (g + 1)
        /\ n.given[g + 1] = pkt /\ \A i \in 1 .. g : n.given[i] = h.given[i]
    BY <1>1, <1>2, <1>3
  <2>4. \A i \in 1 .. g : h.given[i] = came[i]
    BY <1>3, <2>1 DEF GivenSoFar
  <2>5. \A i \in 1 .. (g + 1) : i = g + 1 \/ i \in 1 .. g
    BY <1>3
  <2>6. \A i \in DOMAIN n.given : n.given[i] = came[i]
    BY <2>2, <2>3, <2>4, <2>5
  <2> QED
    BY <1>2, <2>2, <2>3, <2>6 DEF GivenSoFar
<1> QED
  BY <1>1, <1>2, <1>4 DEF RingHolds

(* A new buffer, or one that is used again, is empty.                      *)
LEMMA EmptyIsRing == IsRing(Ring!EmptyRing)
<1> DEFINE m == [i \in 0 .. (UDP_BUF_MAX - 1) |-> NoPkt]
<1>1. m \in Mem
  BY DEF Mem, LastCell
<1>2. Ring!EmptyRing = RingWith(m, 0, 0, 0, FALSE)
  BY DEF Ring!EmptyRing, RingWith
<1> HIDE DEF m
<1> QED
  BY <1>1, <1>2, RingPartsAre

LEMMA NewHolds ==
    ASSUME NEW r, IsRing(r)
    PROVE  IsBuf(NewBuf(r)) /\ NewHist \in HistType /\ PortHolds(NewBuf(r), NewHist)
<1> DEFINE s == Ring!Reset(r)
           pos == [i \in Nat |-> 0]
<1>1. s = RingWith(r.mem, 0, 0, 0, r.lost) /\ r.mem \in Mem
  BY DEF Ring!Reset, RingWith, IsRing
<1>2. IsRing(s) /\ s.head = 0 /\ s.tail = 0 /\ s.top = 0
  BY <1>1, RingPartsAre
<1> HIDE DEF s
<1>3. /\ NewHist \in HistType /\ NewHist.came = <<>> /\ NewHist.given = <<>>
      /\ Len(NewHist.came) = 0 /\ Len(NewHist.given) = 0
  BY DEF NewHist, HistType
<1>4. NewBuf(r) = [ring |-> s, tid |-> NoTid]
  BY DEF NewBuf, s
<1>5. pos \in [Nat -> Nat] /\ pos[0 + 1] = 0
  OBVIOUS
<1> HIDE DEF pos
<1>6. \A i \in (0 + 1) .. 0 : FALSE
  OBVIOUS
<1>7. HoldsAt(s, NewHist.came, 0, pos)
  BY <1>2, <1>3, <1>5, <1>6 DEF HoldsAt
<1>8. 0 \in 0 .. LastCell
  BY LastCellIs
<1>9. Holds(s, NewHist.came, Len(NewHist.given))
  BY <1>2, <1>3, <1>5, <1>7, <1>8 DEF Holds
<1>10. GivenSoFar(NewHist)
  BY <1>3 DEF GivenSoFar
<1> QED
  BY <1>2, <1>3, <1>4, <1>9, <1>10 DEF IsBuf, PortHolds, RingHolds

-----------------------------------------------------------------------------
(* The tables and the queue are those with the theorems about them.        *)

LEMMA SamePortmap ==
    ASSUME NEW h, NEW k, NEW i, NEW v
    PROVE  /\ Portmap!HashtableGet(h, k) = PortT!HashtableGet(h, k)
           /\ Portmap!HashtableReserve(h, k) = PortT!HashtableReserve(h, k)
           /\ Portmap!Active(h, i) = PortT!Active(h, i)
           /\ Portmap!Activate(h, i, k, v) = PortT!Activate(h, i, k, v)
           /\ Portmap!Delete(h, i) = PortT!Delete(h, i)
           /\ Portmap!EmptyTable = PortT!EmptyTable
           /\ Portmap!HT_NOKEY = PortT!HT_NOKEY
BY DEF Portmap!HashtableGet, PortT!HashtableGet, Portmap!HashtableReserve,
       PortT!HashtableReserve, Portmap!Matches, PortT!Matches, Portmap!Unused,
       PortT!Unused, Portmap!Deleted, PortT!Deleted, Portmap!Probes, PortT!Probes,
       Portmap!Probe, PortT!Probe, Portmap!Place, PortT!Place, Portmap!Active,
       PortT!Active, Portmap!Valid, PortT!Valid, Portmap!HT_NOKEY, PortT!HT_NOKEY,
       Portmap!Min, PortT!Min, Portmap!Activate, PortT!Activate, Portmap!Item,
       PortT!Item, Portmap!Delete, PortT!Delete, Portmap!DeletedItem,
       PortT!DeletedItem, Portmap!EmptyTable, PortT!EmptyTable

LEMMA SameAddrmap ==
    ASSUME NEW h, NEW k, NEW i, NEW v
    PROVE  /\ ArpTables!Addrmap!HashtableGet(h, k) = IpT!HashtableGet(h, k)
           /\ ArpTables!Addrmap!HashtableReserve(h, k) = IpT!HashtableReserve(h, k)
           /\ ArpTables!Addrmap!Active(h, i) = IpT!Active(h, i)
           /\ ArpTables!Addrmap!Activate(h, i, k, v) = IpT!Activate(h, i, k, v)
           /\ ArpTables!Addrmap!Delete(h, i) = IpT!Delete(h, i)
           /\ ArpTables!Addrmap!EmptyTable = IpT!EmptyTable
           /\ ArpTables!Addrmap!HT_NOKEY = IpT!HT_NOKEY
BY DEF ArpTables!Addrmap!HashtableGet, IpT!HashtableGet,
       ArpTables!Addrmap!HashtableReserve, IpT!HashtableReserve,
       ArpTables!Addrmap!Matches, IpT!Matches, ArpTables!Addrmap!Unused,
       IpT!Unused, ArpTables!Addrmap!Deleted, IpT!Deleted,
       ArpTables!Addrmap!Probes, IpT!Probes, ArpTables!Addrmap!Probe, IpT!Probe,
       ArpTables!Addrmap!Place, IpT!Place, ArpTables!Addrmap!Active, IpT!Active,
       ArpTables!Addrmap!Valid, IpT!Valid, ArpTables!Addrmap!HT_NOKEY,
       IpT!HT_NOKEY, ArpTables!Addrmap!Min, IpT!Min, ArpTables!Addrmap!Activate,
       IpT!Activate, ArpTables!Addrmap!Item, IpT!Item, ArpTables!Addrmap!Delete,
       IpT!Delete, ArpTables!Addrmap!DeletedItem, IpT!DeletedItem,
       ArpTables!Addrmap!EmptyTable, IpT!EmptyTable

LEMMA SameIpq ==
    ASSUME NEW q, NEW v, NEW arr, NEW Val, NEW max
    PROVE  /\ ArpTables!Ipq!Push(q, v) = IpT!Push(q, v)
           /\ ArpTables!Ipq!Pop(q) = IpT!Pop(q)
           /\ ArpTables!Ipq!Front(q) = IpT!Front(q)
           /\ ArpTables!Ipq!Full(q) = IpT!Full(q)
           /\ ArpTables!Ipq!QueueOf(arr, max) = IpT!QueueOf(arr, max)
           /\ ArpTables!Ipq!Queue(Val, max) = IpT!Queue(Val, max)
BY DEF ArpTables!Ipq!Push, IpT!Push, ArpTables!Ipq!Pop, IpT!Pop,
       ArpTables!Ipq!Front, IpT!Front, ArpTables!Ipq!Full, IpT!Full,
       ArpTables!Ipq!At, IpT!At, ArpTables!Ipq!QueueOf, IpT!QueueOf,
       ArpTables!Ipq!Queue, IpT!Queue

LEMMA PortSetting == PortT!Setting(Port, Nat)
BY SizeAssumption DEF PortT!Setting, PortT!ItemOf, PortT!DeletedItem

LEMMA IpSetting ==
    /\ IpT!Setting(Ip, 0 .. (ARP_MAX - 1))
    /\ ARP_MAX \in Nat \ {0}
<1>1. ARP_MAX \in Nat \ {0} /\ 0 .. (ARP_MAX - 1) \subseteq Nat
  BY SizeAssumption
<1>2. NoItem \notin IpT!ItemOf(Ip, 0 .. (ARP_MAX - 1))
  BY <1>1, SizeAssumption DEF IpT!ItemOf
<1> QED
  BY <1>1, <1>2, SizeAssumption DEF IpT!Setting, IpT!DeletedItem

-----------------------------------------------------------------------------
(* The table of the ports.                                                 *)

LEMMA PortItem ==
    ASSUME NEW pm, PortTable(pm), NEW i \in PortT!Place, PortT!Active(pm, i)
    PROVE  pm[i].key \in Port /\ pm[i].value \in Nat
BY PortSetting, PortT!ActiveItem DEF PortTable, PortT!ItemOf

(* The buffer of a port.                                                   *)
LEMMA BufIs ==
    ASSUME PortTable(portmap), NEW p \in Port
    PROVE  /\ \A b : b \in BufsOf(p) <=> Bound(portmap, p, b)
           /\ \A b \in BufsOf(p) : /\ b \in Nat
                                   /\ PortIdx(p) \in PortT!Place /\ PortT!Active(portmap, PortIdx(p))
                                   /\ portmap[PortIdx(p)].key = p /\ portmap[PortIdx(p)].value = b
<1> DEFINE i == PortT!HashtableGet(portmap, p)
<1>1. PortIdx(p) = i /\ BufsOf(p) = {portmap[idx].value : idx \in {i} \ {PortT!HT_NOKEY}}
  BY SamePortmap DEF PortIdx, BufsOf
<1>2. IF i = PortT!HT_NOKEY THEN PortT!Absent(portmap, p)
      ELSE i \in PortT!Place /\ PortT!Active(portmap, i) /\ portmap[i].key = p
  BY PortSetting, PortT!GetFinds DEF PortTable
<1> HIDE DEF i
<1>3. CASE i = PortT!HT_NOKEY
  BY <1>1, <1>2, <1>3 DEF PortT!Absent, Bound
<1>4. CASE i # PortT!HT_NOKEY
  <2>1. i \in PortT!Place /\ PortT!Active(portmap, i) /\ portmap[i].key = p
    BY <1>2, <1>4
  <2>2. \A j \in PortT!Place : PortT!Active(portmap, j) /\ portmap[j].key = p => j = i
    BY <2>1 DEF PortTable, PortT!KeysOnce
  <2>3. BufsOf(p) = {portmap[i].value}
    BY <1>1, <1>4
  <2>4. portmap[i].value \in Nat
    BY <2>1, PortItem
  <2> QED
    BY <1>1, <2>1, <2>2, <2>3, <2>4 DEF Bound
<1> QED
  BY <1>3, <1>4

LEMMA UniqueBuf ==
    ASSUME NEW pm, PortTable(pm), NEW p, NEW b, NEW c, Bound(pm, p, b), Bound(pm, p, c)
    PROVE  b = c
<1>1. PICK i \in PortT!Place : PortT!Active(pm, i) /\ pm[i].key = p /\ pm[i].value = b
  BY DEF Bound
<1>2. PICK j \in PortT!Place : PortT!Active(pm, j) /\ pm[j].key = p /\ pm[j].value = c
  BY DEF Bound
<1>3. i = j
  BY <1>1, <1>2 DEF PortTable, PortT!KeysOnce
<1> QED
  BY <1>1, <1>2, <1>3

LEMMA BindAdds ==
    ASSUME NEW pm, PortTable(pm), NEW p \in Port, NEW b \in Nat,
           Portmap!HashtableReserve(pm, p) # Portmap!HT_NOKEY,
           ~Portmap!Active(pm, Portmap!HashtableReserve(pm, p))
    PROVE  LET new == Portmap!Activate(pm, Portmap!HashtableReserve(pm, p), p, b)
           IN  /\ PortTable(new)
               /\ \A c : ~Bound(pm, p, c)
               /\ \A q, c : Bound(new, q, c) <=> Bound(pm, q, c) \/ (q = p /\ c = b)
<1> DEFINE i == PortT!HashtableReserve(pm, p)
           new == PortT!Activate(pm, i, p, b)
<1>1. /\ Portmap!HashtableReserve(pm, p) = i /\ i # PortT!HT_NOKEY /\ ~PortT!Active(pm, i)
      /\ Portmap!Activate(pm, Portmap!HashtableReserve(pm, p), p, b) = new
  BY SamePortmap
<1>2. PortT!Absent(pm, p)
  BY <1>1, PortSetting, PortT!ReserveFinds DEF PortTable
<1>3. /\ new \in PortT!TableOf(Port, Nat) /\ PortT!KeysOnce(new) /\ PortT!KeysReachable(new)
      /\ i \in PortT!Place /\ new[i] = PortT!Item(p, b) /\ PortT!Active(new, i)
      /\ \A k \in PortT!Place \ {i} : new[k] = pm[k]
  BY <1>1, PortSetting, PortT!ActivatePuts DEF PortTable
<1> HIDE DEF new, i
<1>4. \A c : ~Bound(pm, p, c)
  BY <1>2 DEF Bound, PortT!Absent
<1>5. new[i].key = p /\ new[i].value = b
  BY <1>3 DEF PortT!Item
<1>6. \A k \in PortT!Place \ {i} : PortT!Active(new, k) <=> PortT!Active(pm, k)
  BY <1>3 DEF PortT!Active, PortT!Valid
<1>7. ASSUME NEW q, NEW c PROVE Bound(new, q, c) <=> Bound(pm, q, c) \/ (q = p /\ c = b)
  BY <1>1, <1>3, <1>5, <1>6 DEF Bound
<1> QED
  BY <1>1, <1>3, <1>4, <1>7 DEF PortTable

LEMMA ReleaseRemoves ==
    ASSUME PortTable(portmap), NEW p \in Port, NEW b \in BufsOf(p)
    PROVE  LET new == Portmap!Delete(portmap, PortIdx(p))
           IN  /\ PortTable(new)
               /\ \A q, c : Bound(new, q, c) <=> Bound(portmap, q, c) /\ q # p
<1> DEFINE i == PortIdx(p)
           new == PortT!Delete(portmap, i)
<1>1. i \in PortT!Place /\ PortT!Active(portmap, i) /\ portmap[i].key = p
  BY BufIs
<1>2. Portmap!Delete(portmap, i) = new
  BY SamePortmap
<1> HIDE DEF i
<1>3. /\ new \in PortT!TableOf(Port, Nat) /\ PortT!KeysOnce(new) /\ PortT!KeysReachable(new)
      /\ ~PortT!Active(new, i) /\ \A k \in PortT!Place \ {i} : new[k] = portmap[k]
  BY <1>1, PortSetting, PortT!DeleteRemoves DEF PortTable
<1> HIDE DEF new
<1>4. \A k \in PortT!Place \ {i} : PortT!Active(new, k) <=> PortT!Active(portmap, k)
  BY <1>3 DEF PortT!Active, PortT!Valid
<1>5. \A k \in PortT!Place : PortT!Active(portmap, k) /\ portmap[k].key = p => k = i
  BY <1>1 DEF PortTable, PortT!KeysOnce
<1>6. ASSUME NEW q, NEW c PROVE Bound(new, q, c) <=> Bound(portmap, q, c) /\ q # p
  BY <1>1, <1>3, <1>4, <1>5 DEF Bound
<1> QED
  BY <1>2, <1>3, <1>6 DEF PortTable, i

-----------------------------------------------------------------------------
(* The ARP cache.                                                          *)

LEMMA AddrItem ==
    ASSUME NEW a, ArpKeeps(a), NEW i, ActiveAt(a, i)
    PROVE  /\ i \in IpT!Place /\ a.addrmap[i].key \in Ip
           /\ a.addrmap[i].value \in 0 .. (ARP_MAX - 1)
           /\ a.mac_arr[a.addrmap[i].value] \in Int
<1>1. a.addrmap[i] \in IpT!ItemOf(Ip, 0 .. (ARP_MAX - 1))
  BY IpSetting, IpT!ActiveItem DEF ArpKeeps, ActiveAt
<1> QED
  BY <1>1 DEF IpT!ItemOf, ArpKeeps, ActiveAt

LEMMA KnownAnnounced ==
    ASSUME ArpInv, NEW addr \in Ip
    PROVE  LET mac == ArpTables!KnownMac(arp, addr)
           IN  mac \in Int /\ (mac # 0 => Announced(addr, mac))
<1> DEFINE i == IpT!HashtableGet(arp.addrmap, addr)
<1>1. /\ ArpTables!KnownMac(arp, addr)
           = IF i = IpT!HT_NOKEY THEN 0 ELSE arp.mac_arr[arp.addrmap[i].value]
  BY SameAddrmap DEF ArpTables!KnownMac
<1>2. i # IpT!HT_NOKEY => ActiveAt(arp, i) /\ arp.addrmap[i].key = addr
  BY IpSetting, IpT!GetFinds DEF ArpInv, ArpKeeps, ActiveAt
<1> HIDE DEF i
<1>3. CASE i = IpT!HT_NOKEY
  BY <1>1, <1>3
<1>4. CASE i # IpT!HT_NOKEY
  BY <1>1, <1>2, <1>4, AddrItem DEF ArpInv, EntriesAnnounced
<1> QED
  BY <1>3, <1>4

(* What arpserver_store does with an address that the table has.           *)
LEMMA UpdatedKeeps ==
    ASSUME NEW a, ArpKeeps(a), PlacesOwn(a), EntriesAnnounced(a),
           NEW i, ActiveAt(a, i), NEW mac \in Int, Announced(a.addrmap[i].key, mac)
    PROVE  LET n == ArpTables!Updated(a, i, mac)
           IN  ArpKeeps(n) /\ PlacesOwn(n) /\ EntriesAnnounced(n)
<1> DEFINE v == a.addrmap[i].value
           n == ArpTables!Updated(a, i, mac)
<1>1. /\ v \in 0 .. (ARP_MAX - 1) /\ a.mac_arr \in [0 .. (ARP_MAX - 1) -> Int]
  BY AddrItem DEF ArpKeeps
<1>2. /\ n.addrmap = a.addrmap /\ n.ipq = a.ipq /\ n.mac_arr = [a.mac_arr EXCEPT ![v] = mac]
      /\ n = [addrmap |-> n.addrmap, ipq |-> n.ipq, mac_arr |-> n.mac_arr]
  <2>1. a = [addrmap |-> a.addrmap, ipq |-> a.ipq, mac_arr |-> a.mac_arr]
    BY DEF ArpKeeps
  <2> QED
    BY <2>1 DEF ArpTables!Updated
<1> HIDE DEF n
<1>3. /\ n.mac_arr \in [0 .. (ARP_MAX - 1) -> Int] /\ n.mac_arr[v] = mac
      /\ \A x \in 0 .. (ARP_MAX - 1) : x # v => n.mac_arr[x] = a.mac_arr[x]
  BY <1>1, <1>2
<1>4. ArpKeeps(n)
  BY <1>2, <1>3 DEF ArpKeeps
<1>5. \A j : ActiveAt(n, j) <=> ActiveAt(a, j)
  BY <1>2 DEF ActiveAt
<1>6. PlacesOwn(n)
  BY <1>2, <1>5 DEF PlacesOwn
<1>7. ASSUME NEW j \in IpT!Place, ActiveAt(n, j)
      PROVE  /\ n.addrmap[j].value < n.ipq.len
             /\ Announced(n.addrmap[j].key, n.mac_arr[n.addrmap[j].value])
  <2>1. ActiveAt(a, j) /\ a.addrmap[j].value \in 0 .. (ARP_MAX - 1)
    BY <1>5, <1>7, AddrItem
  <2>2. /\ a.addrmap[j].value < a.ipq.len
        /\ Announced(a.addrmap[j].key, a.mac_arr[a.addrmap[j].value])
    BY <2>1 DEF EntriesAnnounced
  <2>3. CASE a.addrmap[j].value = v
    <3>1. j = i
      BY <2>1, <2>3 DEF PlacesOwn, ActiveAt
    <3> QED
      BY <1>2, <1>3, <2>2, <2>3, <3>1
  <2>4. CASE a.addrmap[j].value # v
    BY <1>2, <1>3, <2>1, <2>2, <2>4
  <2> QED
    BY <2>3, <2>4
<1>8. EntriesAnnounced(n)
  BY <1>7 DEF EntriesAnnounced
<1> QED
  BY <1>4, <1>6, <1>8 DEF n

(* With a new one, at a place of mac_arr that no other one has.            *)
LEMMA AppendedKeeps ==
    ASSUME NEW a, ArpKeeps(a), PlacesOwn(a),
           \A j \in IpT!Place : ActiveAt(a, j) =>
              Announced(a.addrmap[j].key, a.mac_arr[a.addrmap[j].value]),
           ~IpT!Full(a.ipq),
           NEW addr \in Ip, NEW i \in IpT!Place, ~ActiveAt(a, i), IpT!Absent(a.addrmap, addr),
           \E j \in IpT!Probes(a.addrmap, addr) : IpT!Probe(addr, j) = i,
           NEW loc \in 0 .. (ARP_MAX - 1), loc <= a.ipq.len,
           \A j \in IpT!Place : ActiveAt(a, j) =>
              a.addrmap[j].value # loc /\ a.addrmap[j].value <= a.ipq.len,
           NEW mac \in Int, Announced(addr, mac)
    PROVE  LET n == ArpTables!Appended(a, i, addr, loc, mac)
           IN  ArpKeeps(n) /\ PlacesOwn(n) /\ EntriesAnnounced(n)
<1> DEFINE n == ArpTables!Appended(a, i, addr, loc, mac)
           new == IpT!Activate(a.addrmap, i, addr, loc)
           q == IpT!Push(a.ipq, addr)
           m == [a.mac_arr EXCEPT ![loc] = mac]
<1>1. n.addrmap = new /\ n.ipq = q /\ n.mac_arr = m
      /\ n = [addrmap |-> n.addrmap, ipq |-> n.ipq, mac_arr |-> n.mac_arr]
  BY SameAddrmap, SameIpq DEF ArpTables!Appended
<1>2. q \in IpT!Queue(Ip \cup {NoItem}, ARP_MAX) /\ IpT!Elements(q) \in Seq(Ip)
  <2>1. /\ q \in IpT!Queue(Ip \cup {NoItem}, ARP_MAX)
        /\ IpT!Elements(q) = Append(IpT!Elements(a.ipq), addr)
    BY IpSetting, IpT!PushAppends DEF ArpKeeps
  <2> QED
    BY <2>1 DEF ArpKeeps
<1>3. q.len = a.ipq.len + 1 /\ a.ipq.len \in Nat
  <2>1. a.ipq.len \in Nat
    BY IpSetting, IpT!QueueParts DEF ArpKeeps
  <2> QED
    BY <2>1 DEF IpT!Push
<1>4. m \in [0 .. (ARP_MAX - 1) -> Int] /\ m[loc] = mac
      /\ \A x \in 0 .. (ARP_MAX - 1) : x # loc => m[x] = a.mac_arr[x]
  BY DEF ArpKeeps
<1>5. /\ new \in IpT!TableOf(Ip, 0 .. (ARP_MAX - 1))
      /\ IpT!KeysOnce(new) /\ IpT!KeysReachable(new)
      /\ new[i] = IpT!Item(addr, loc) /\ IpT!Active(new, i)
      /\ \A k \in IpT!Place \ {i} : new[k] = a.addrmap[k]
  <2>1. IF IpT!Active(a.addrmap, i) THEN a.addrmap[i].key = addr ELSE IpT!Absent(a.addrmap, addr)
    BY DEF ActiveAt
  <2>2. /\ IpT!Setting(Ip, 0 .. (ARP_MAX - 1)) /\ loc \in 0 .. (ARP_MAX - 1)
        /\ a.addrmap \in IpT!TableOf(Ip, 0 .. (ARP_MAX - 1))
        /\ IpT!KeysOnce(a.addrmap) /\ IpT!KeysReachable(a.addrmap)
    BY IpSetting DEF ArpKeeps
  <2> DEFINE ht == a.addrmap
             Values == 0 .. (ARP_MAX - 1)
  <2>3. /\ IpT!Setting(Ip, Values) /\ loc \in Values /\ ht \in IpT!TableOf(Ip, Values)
        /\ IpT!KeysOnce(ht) /\ IpT!KeysReachable(ht)
        /\ IF IpT!Active(ht, i) THEN ht[i].key = addr ELSE IpT!Absent(ht, addr)
        /\ \E j \in IpT!Probes(ht, addr) : IpT!Probe(addr, j) = i
    BY <2>1, <2>2
  <2> HIDE DEF ht, Values
  <2>4. LET v == IpT!Activate(ht, i, addr, loc)
        IN  /\ v \in IpT!TableOf(Ip, Values)
            /\ IpT!KeysOnce(v) /\ IpT!KeysReachable(v)
            /\ v[i] = IpT!Item(addr, loc) /\ IpT!Active(v, i)
            /\ \A k \in IpT!Place \ {i} : v[k] = ht[k]
    BY <2>3, IpT!ActivateAt
  <2> QED
    BY <2>4 DEF ht, Values
<1> HIDE DEF n, new, q, m
<1>6. new[i].key = addr /\ new[i].value = loc
  BY <1>5 DEF IpT!Item
<1>7. \A k \in IpT!Place \ {i} : ActiveAt(n, k) <=> ActiveAt(a, k)
  BY <1>1, <1>5 DEF ActiveAt, IpT!Active, IpT!Valid
<1>8. ArpKeeps(n)
  BY <1>1, <1>2, <1>4, <1>5 DEF ArpKeeps
<1>9. ASSUME NEW k \in IpT!Place, NEW l \in IpT!Place, ActiveAt(n, k), ActiveAt(n, l),
             n.addrmap[k].value = n.addrmap[l].value
      PROVE  k = l
  <2>1. CASE k = i \/ l = i
    BY <1>1, <1>5, <1>6, <1>7, <1>9, <2>1
  <2>2. CASE k # i /\ l # i
    BY <1>1, <1>5, <1>7, <1>9, <2>2 DEF PlacesOwn
  <2> QED
    BY <2>1, <2>2
<1>10. PlacesOwn(n)
  BY <1>9 DEF PlacesOwn
<1>11. ASSUME NEW k \in IpT!Place, ActiveAt(n, k)
       PROVE  /\ n.addrmap[k].value < n.ipq.len
              /\ Announced(n.addrmap[k].key, n.mac_arr[n.addrmap[k].value])
  <2>1. CASE k = i
    BY <1>1, <1>3, <1>4, <1>6, <2>1
  <2>2. CASE k # i
    <3>1. ActiveAt(a, k) /\ new[k] = a.addrmap[k]
      BY <1>5, <1>7, <1>11, <2>2
    <3>2. /\ a.addrmap[k].value \in 0 .. (ARP_MAX - 1)
          /\ a.addrmap[k].value # loc /\ a.addrmap[k].value <= a.ipq.len
      BY <3>1, AddrItem
    <3>3. Announced(a.addrmap[k].key, a.mac_arr[a.addrmap[k].value])
      BY <3>1
    <3> QED
      BY <1>1, <1>3, <1>4, <3>1, <3>2, <3>3
  <2> QED
    BY <2>1, <2>2
<1>12. EntriesAnnounced(n)
  BY <1>11 DEF EntriesAnnounced
<1> QED
  BY <1>8, <1>10, <1>12 DEF n

(* When the oldest one goes, its place becomes free.                       *)
LEMMA OldestGoes ==
    ASSUME NEW a, ArpKeeps(a), PlacesOwn(a), EntriesAnnounced(a), IpT!Full(a.ipq),
           NEW k, k = ArpTables!OldIdx(a), k # IpT!HT_NOKEY
    PROVE  LET w == ArpTables!WithoutOldest(a)
               loc == a.addrmap[k].value
           IN  /\ ActiveAt(a, k) /\ ArpKeeps(w) /\ PlacesOwn(w) /\ ~IpT!Full(w.ipq)
               /\ w.mac_arr = a.mac_arr /\ w.ipq.len = ARP_MAX - 1
               /\ loc \in 0 .. (ARP_MAX - 1)
               /\ \A j \in IpT!Place : ActiveAt(w, j) =>
                     j # k /\ ActiveAt(a, j) /\ w.addrmap[j] = a.addrmap[j]
               /\ \A other \in Ip : IpT!Probes(a.addrmap, other) \subseteq IpT!Probes(w.addrmap, other)
<1> DEFINE w == ArpTables!WithoutOldest(a)
           new == IpT!Delete(a.addrmap, k)
           q == IpT!Pop(a.ipq)
<1>1. /\ w.addrmap = new /\ w.ipq = q /\ w.mac_arr = a.mac_arr
      /\ w = [addrmap |-> w.addrmap, ipq |-> w.ipq, mac_arr |-> w.mac_arr]
  <2>1. a = [addrmap |-> a.addrmap, ipq |-> a.ipq, mac_arr |-> a.mac_arr]
    BY DEF ArpKeeps
  <2>2. w = [a EXCEPT !.addrmap = new, !.ipq = q]
    BY SameAddrmap, SameIpq DEF ArpTables!WithoutOldest
  <2> HIDE DEF w, new, q
  <2>3. w = [addrmap |-> new, ipq |-> q, mac_arr |-> a.mac_arr]
    BY <2>1, <2>2
  <2> QED
    BY <2>3
<1>2. /\ a.ipq \in IpT!Queue(Ip \cup {NoItem}, ARP_MAX) /\ ARP_MAX \in Nat \ {0}
      /\ a.ipq.len = ARP_MAX /\ ~IpT!Empty(a.ipq)
  <2>1. a.ipq.len = a.ipq.max /\ a.ipq.max = ARP_MAX
    BY IpSetting, IpT!QueueParts DEF ArpKeeps, IpT!Full
  <2> QED
    BY <2>1, IpSetting DEF ArpKeeps, IpT!Empty
<1>3. ActiveAt(a, k)
  <2>1. /\ IpT!Front(a.ipq) = Head(IpT!Elements(a.ipq))
        /\ Len(IpT!Elements(a.ipq)) = a.ipq.len
    BY <1>2, IpT!FrontIsHead, IpT!ElementsType
  <2>2. IpT!Front(a.ipq) \in Ip
    BY <1>2, <2>1 DEF ArpKeeps
  <2>3. k = IpT!HashtableGet(a.addrmap, IpT!Front(a.ipq))
    BY SameAddrmap, SameIpq DEF ArpTables!OldIdx
  <2> QED
    BY <2>2, <2>3, IpSetting, IpT!GetFinds DEF ArpKeeps, ActiveAt
<1>4. /\ q \in IpT!Queue(Ip \cup {NoItem}, ARP_MAX) /\ IpT!Elements(q) \in Seq(Ip)
      /\ q.len = ARP_MAX - 1 /\ ~IpT!Full(q)
  <2>1. /\ q \in IpT!Queue(Ip \cup {NoItem}, ARP_MAX)
        /\ IpT!Elements(q) = Tail(IpT!Elements(a.ipq))
    BY <1>2, IpT!PopIsTail
  <2>2. Len(IpT!Elements(a.ipq)) = a.ipq.len
    BY <1>2, IpT!ElementsType
  <2>3. IpT!Elements(q) \in Seq(Ip)
    <3>1. IpT!Elements(a.ipq) \in Seq(Ip) /\ IpT!Elements(a.ipq) # <<>>
      BY <1>2, <2>2 DEF ArpKeeps
    <3> QED
      BY <2>1, <3>1
  <2>4. q.len = a.ipq.len - 1
    BY DEF IpT!Pop
  <2>5. q.max = ARP_MAX
    BY <1>2, <2>1, IpT!QueueParts
  <2> QED
    BY <1>2, <2>1, <2>3, <2>4, <2>5 DEF IpT!Full
<1>5. /\ new \in IpT!TableOf(Ip, 0 .. (ARP_MAX - 1))
      /\ IpT!KeysOnce(new) /\ IpT!KeysReachable(new) /\ ~IpT!Active(new, k)
      /\ \A j \in IpT!Place \ {k} : new[j] = a.addrmap[j]
      /\ \A other \in Ip : IpT!Probes(a.addrmap, other) \subseteq IpT!Probes(new, other)
  BY <1>3, IpSetting, IpT!DeleteRemoves DEF ArpKeeps, ActiveAt
<1> HIDE DEF w, new, q
<1>6. ArpKeeps(w)
  BY <1>1, <1>4, <1>5 DEF ArpKeeps
<1>7. \A j \in IpT!Place : ActiveAt(w, j) =>
         j # k /\ ActiveAt(a, j) /\ w.addrmap[j] = a.addrmap[j]
  BY <1>1, <1>5 DEF ActiveAt, IpT!Active, IpT!Valid
<1>8. PlacesOwn(w)
  BY <1>7 DEF PlacesOwn
<1>9. a.addrmap[k].value \in 0 .. (ARP_MAX - 1)
  BY <1>3, AddrItem
<1> QED
  BY <1>1, <1>3, <1>4, <1>5, <1>6, <1>7, <1>8, <1>9 DEF w

LEMMA StoreKeeps ==
    ASSUME NEW a, ArpKeeps(a), PlacesOwn(a), EntriesAnnounced(a),
           NEW addr \in Ip, NEW mac \in Int, Announced(addr, mac), ~ArpTables!NoPlace(a, addr)
    PROVE  LET n == ArpTables!ArpserverStore(a, addr, mac)
           IN  ArpKeeps(n) /\ PlacesOwn(n) /\ EntriesAnnounced(n)
<1> DEFINE i == IpT!HashtableReserve(a.addrmap, addr)
           k == ArpTables!OldIdx(a)
<1>1. /\ i = ArpTables!Addrmap!HashtableReserve(a.addrmap, addr) /\ i # IpT!HT_NOKEY
      /\ ArpTables!Addrmap!HT_NOKEY = IpT!HT_NOKEY
      /\ ArpTables!Addrmap!Active(a.addrmap, i) = IpT!Active(a.addrmap, i)
      /\ ArpTables!Ipq!Full(a.ipq) = IpT!Full(a.ipq)
  BY SameAddrmap, SameIpq DEF ArpTables!NoPlace
<1>2. /\ i \in IpT!Place
      /\ \E j \in IpT!Probes(a.addrmap, addr) : IpT!Probe(addr, j) = i
      /\ IF IpT!Active(a.addrmap, i) THEN a.addrmap[i].key = addr ELSE IpT!Absent(a.addrmap, addr)
  BY <1>1, IpSetting, IpT!ReserveFinds DEF ArpKeeps
<1> HIDE DEF i, k
<1>3. ArpTables!ArpserverStore(a, addr, mac) =
        IF IpT!Active(a.addrmap, i) THEN ArpTables!Updated(a, i, mac)
        ELSE IF ~IpT!Full(a.ipq) THEN ArpTables!Appended(a, i, addr, ArpTables!Loc(a), mac)
        ELSE IF k = IpT!HT_NOKEY THEN a
        ELSE ArpTables!Appended(ArpTables!WithoutOldest(a), i, addr, ArpTables!Loc(a), mac)
  BY <1>1 DEF ArpTables!ArpserverStore, k
<1>4. CASE IpT!Active(a.addrmap, i)
  <2>1. ActiveAt(a, i) /\ a.addrmap[i].key = addr
    BY <1>2, <1>4 DEF ActiveAt
  <2> QED
    BY <1>3, <1>4, <2>1, UpdatedKeeps
<1>5. CASE ~IpT!Active(a.addrmap, i) /\ ~IpT!Full(a.ipq)
  <2>1. ArpTables!Loc(a) = a.ipq.len
    BY <1>1, <1>5 DEF ArpTables!Loc
  <2>2. a.ipq.len \in 0 .. (ARP_MAX - 1)
    BY <1>5, IpSetting, IpT!QueueParts DEF ArpKeeps, IpT!Full
  <2>3. \A j \in IpT!Place : ActiveAt(a, j) =>
           /\ Announced(a.addrmap[j].key, a.mac_arr[a.addrmap[j].value])
           /\ a.addrmap[j].value # a.ipq.len /\ a.addrmap[j].value <= a.ipq.len
    BY <2>2, AddrItem DEF EntriesAnnounced
  <2>4. ~ActiveAt(a, i)
    BY <1>5 DEF ActiveAt
  <2>5. a.ipq.len <= a.ipq.len
    BY <2>2
  <2>6. LET n == ArpTables!Appended(a, i, addr, a.ipq.len, mac)
        IN  ArpKeeps(n) /\ PlacesOwn(n) /\ EntriesAnnounced(n)
    BY <1>2, <1>5, <2>2, <2>3, <2>4, <2>5, AppendedKeeps
  <2> QED
    BY <1>3, <1>5, <2>1, <2>6
<1>6. CASE ~IpT!Active(a.addrmap, i) /\ IpT!Full(a.ipq) /\ k = IpT!HT_NOKEY
  BY <1>3, <1>6
<1>7. CASE ~IpT!Active(a.addrmap, i) /\ IpT!Full(a.ipq) /\ k # IpT!HT_NOKEY
  <2> DEFINE w == ArpTables!WithoutOldest(a)
             loc == a.addrmap[k].value
  <2>1. ArpTables!Loc(a) = loc
    BY <1>1, <1>7 DEF ArpTables!Loc, k
  <2>2. /\ ActiveAt(a, k) /\ ArpKeeps(w) /\ PlacesOwn(w) /\ ~IpT!Full(w.ipq)
        /\ w.mac_arr = a.mac_arr /\ w.ipq.len = ARP_MAX - 1
        /\ loc \in 0 .. (ARP_MAX - 1)
        /\ \A j \in IpT!Place : ActiveAt(w, j) =>
              j # k /\ ActiveAt(a, j) /\ w.addrmap[j] = a.addrmap[j]
        /\ IpT!Probes(a.addrmap, addr) \subseteq IpT!Probes(w.addrmap, addr)
    BY <1>7, OldestGoes DEF k
  <2> HIDE DEF w, loc
  <2>3. ASSUME NEW j \in IpT!Place, ActiveAt(w, j)
        PROVE  /\ Announced(w.addrmap[j].key, w.mac_arr[w.addrmap[j].value])
               /\ w.addrmap[j].value # loc /\ w.addrmap[j].value <= w.ipq.len
    <3>1. j # k /\ ActiveAt(a, j) /\ w.addrmap[j] = a.addrmap[j]
      BY <2>2, <2>3
    <3>2. Announced(a.addrmap[j].key, a.mac_arr[a.addrmap[j].value])
      BY <3>1 DEF EntriesAnnounced
    <3>3. a.addrmap[j].value # loc
      BY <2>2, <3>1 DEF PlacesOwn, ActiveAt, loc
    <3>4. a.addrmap[j].value \in 0 .. (ARP_MAX - 1)
      BY <3>1, AddrItem
    <3> QED
      BY <2>2, <3>1, <3>2, <3>3, <3>4
  <2>4. ~ActiveAt(w, i) /\ IpT!Absent(w.addrmap, addr)
    <3>1. ~ActiveAt(w, i)
      BY <1>2, <1>7, <2>2 DEF ActiveAt
    <3>2. \A j \in IpT!Place : IpT!Active(w.addrmap, j) => w.addrmap[j].key # addr
      BY <1>2, <1>7, <2>2 DEF ActiveAt, IpT!Absent
    <3> QED
      BY <3>1, <3>2 DEF IpT!Absent
  <2>5. \E j \in IpT!Probes(w.addrmap, addr) : IpT!Probe(addr, j) = i
    BY <1>2, <2>2
  <2>6. loc <= w.ipq.len
    BY <2>2, IpSetting
  <2>7. LET n == ArpTables!Appended(w, i, addr, loc, mac)
        IN  ArpKeeps(n) /\ PlacesOwn(n) /\ EntriesAnnounced(n)
    BY <1>2, <2>2, <2>3, <2>4, <2>5, <2>6, AppendedKeeps
  <2> QED
    BY <1>3, <1>7, <2>1, <2>7 DEF w
<1> QED
  BY <1>4, <1>5, <1>6, <1>7

-----------------------------------------------------------------------------
(* What a step of the server does to all the ports.                        *)

(* Sequences of anything.                                                  *)
LEMMA SeqOfAny ==
    ASSUME NEW q, IsSeq(q)
    PROVE  /\ Len(q) \in Nat /\ DOMAIN q = 1 .. Len(q)
           /\ \A b \in DOMAIN q : \A x :
                 LET s == [q EXCEPT ![b] = x] IN
                 /\ IsSeq(s) /\ DOMAIN s = DOMAIN q /\ s[b] = x
                 /\ \A c \in DOMAIN q : c # b => s[c] = q[c]
           /\ \A x : LET s == Append(q, x) IN
                 /\ IsSeq(s) /\ DOMAIN s = 1 .. (Len(q) + 1) /\ s[Len(q) + 1] = x
                 /\ \A c \in DOMAIN q : s[c] = q[c]
<1>1. PICK S : q \in Seq(S)
  BY DEF IsSeq
<1>2. Len(q) \in Nat /\ DOMAIN q = 1 .. Len(q)
  BY <1>1
<1>3. ASSUME NEW b \in DOMAIN q, NEW x
      PROVE  LET s == [q EXCEPT ![b] = x] IN
             /\ IsSeq(s) /\ DOMAIN s = DOMAIN q /\ s[b] = x
             /\ \A c \in DOMAIN q : c # b => s[c] = q[c]
  <2> DEFINE T == S \cup {x}
             s == [q EXCEPT ![b] = x]
  <2>1. q \in Seq(T) /\ x \in T
    BY <1>1
  <2> HIDE DEF T
  <2>2. s \in Seq(T)
    BY <2>1
  <2>3. DOMAIN s = DOMAIN q /\ s[b] = x /\ \A c \in DOMAIN q : c # b => s[c] = q[c]
    BY <2>1
  <2> QED
    BY <2>2, <2>3 DEF IsSeq
<1>4. ASSUME NEW x
      PROVE  LET s == Append(q, x) IN
             /\ IsSeq(s) /\ DOMAIN s = 1 .. (Len(q) + 1) /\ s[Len(q) + 1] = x
             /\ \A c \in DOMAIN q : s[c] = q[c]
  <2> DEFINE T == S \cup {x}
             s == Append(q, x)
  <2>1. q \in Seq(T) /\ x \in T
    BY <1>1
  <2> HIDE DEF T
  <2>2. s \in Seq(T)
    BY <2>1
  <2>3. /\ DOMAIN s = 1 .. (Len(q) + 1) /\ s[Len(q) + 1] = x
        /\ \A c \in DOMAIN q : s[c] = q[c]
    BY <2>1
  <2> QED
    BY <2>2, <2>3 DEF IsSeq
<1> QED
  BY <1>2, <1>3, <1>4

(* A sequence put after another one that has one element.                  *)
LEMMA ConcatOne ==
    ASSUME NEW S, NEW a \in S, NEW z \in Seq(S)
    PROVE  /\ <<a>> \o z \in Seq(S) /\ Len(<<a>> \o z) = 1 + Len(z)
           /\ (<<a>> \o z)[1] = a
           /\ \A i \in 1 .. Len(z) : (<<a>> \o z)[i + 1] = z[i]
<1> DEFINE x == <<a>>
<1>1. x \in Seq(S) /\ Len(x) = 1 /\ x[1] = a
  OBVIOUS
<1> HIDE DEF x
<1>2. x \o z \in Seq(S) /\ Len(x \o z) = Len(x) + Len(z)
  BY <1>1, ConcatProperties
<1>3. \A i \in 1 .. Len(x) + Len(z) : (x \o z)[i] = IF i <= Len(x) THEN x[i] ELSE z[i - Len(x)]
  BY <1>1, ConcatProperties
<1>4. Len(z) \in Nat
  OBVIOUS
<1>5. (x \o z)[1] = a
  BY <1>1, <1>3, <1>4
<1>6. ASSUME NEW i \in 1 .. Len(z) PROVE (x \o z)[i + 1] = z[i]
  <2>1. i + 1 \in 1 .. Len(x) + Len(z) /\ ~(i + 1 <= Len(x)) /\ (i + 1) - Len(x) = i
    BY <1>1, <1>4
  <2>2. (x \o z)[i + 1] = z[(i + 1) - Len(x)]
    BY <1>3, <2>1
  <2> QED
    BY <2>1, <2>2
<1> QED
  BY <1>1, <1>2, <1>5, <1>6 DEF x

(* Frames come in, and stay.                                               *)
MoreFrames ==
    /\ DOMAIN frames \subseteq DOMAIN frames'
    /\ \A i \in DOMAIN frames : frames'[i] = frames[i]

LEMMA UdpUnchanged ==
    ASSUME UdpInv, UNCHANGED udpVars
    PROVE  UdpInv'
<1>1. /\ UNCHANGED <<portmap, bufs, free_head, hist>>
  BY DEF udpVars
<1>2. PortTable(portmap)' /\ BufsKeep' /\ BufsOwn'
  BY <1>1 DEF UdpInv, PortTable, BufsKeep, BufsOwn, Bound
<1>3. BufsHold'
  BY <1>1 DEF UdpInv, BufsHold, Bound
<1> QED
  BY <1>2, <1>3 DEF UdpInv

LEMMA BoundBuf ==
    ASSUME UdpInv, NEW p \in Port, NEW b \in Nat, Bound(portmap, p, b)
    PROVE  /\ b \in DOMAIN bufs /\ IsBuf(bufs[b]) /\ hist[p] \in HistType
           /\ PortHolds(bufs[b], hist[p])
<1>1. b \in DOMAIN bufs
  BY DEF UdpInv, BufsOwn
<1> QED
  BY <1>1 DEF UdpInv, BufsKeep, BufsHold

(* Only the buffer of a port, and what the port has given out, change.     *)
LEMMA PortKeeps ==
    ASSUME UdpInv, UNCHANGED <<portmap, free_head>>,
           NEW p \in Port, NEW b \in Nat, Bound(portmap, p, b),
           NEW nb, IsBuf(nb), NEW nh \in HistType, PortHolds(nb, nh),
           bufs' = [bufs EXCEPT ![b] = nb], hist' = [hist EXCEPT ![p] = nh]
    PROVE  UdpInv'
<1>1. /\ IsSeq(bufs) /\ b \in DOMAIN bufs /\ hist \in [Port -> HistType]
      /\ free_head \in Seq(DOMAIN bufs) /\ \A c \in DOMAIN bufs : IsBuf(bufs[c])
  BY BoundBuf DEF UdpInv, BufsKeep
<1>2. /\ IsSeq(bufs') /\ DOMAIN bufs' = DOMAIN bufs
      /\ bufs'[b] = nb /\ \A c \in DOMAIN bufs : c # b => bufs'[c] = bufs[c]
  BY <1>1, SeqOfAny
<1>3. /\ hist' \in [Port -> HistType]
      /\ hist'[p] = nh /\ \A q \in Port : q # p => hist'[q] = hist[q]
  BY <1>1
<1>4. PortTable(portmap)' /\ BufsKeep' /\ BufsOwn'
  <2>1. PortTable(portmap)'
    BY DEF UdpInv, PortTable
  <2>2. BufsKeep'
    <3>1. \A c \in DOMAIN bufs' : IsBuf(bufs'[c])
      BY <1>1, <1>2
    <3>2. free_head' \in Seq(DOMAIN bufs')
      BY <1>1, <1>2
    <3>3. BufsKeep' <=> /\ IsSeq(bufs') /\ \A c \in DOMAIN bufs' : IsBuf(bufs'[c])
                        /\ free_head' \in Seq(DOMAIN bufs') /\ hist' \in [Port -> HistType]
      BY Zenon DEF BufsKeep, IsSeq, IsBuf, IsRing, RingWith
    <3> QED
      BY <1>2, <1>3, <3>1, <3>2, <3>3
  <2>3. BufsOwn'
    BY <1>2 DEF UdpInv, BufsOwn, Bound
  <2> QED
    BY <2>1, <2>2, <2>3
<1>5. ASSUME NEW q \in Port, NEW c \in Nat, Bound(portmap, q, c)
      PROVE  PortHolds(bufs'[c], hist'[q])
  <2>1. CASE q = p
    <3>1. c = b
      BY <1>5, <2>1, UniqueBuf DEF UdpInv
    <3> QED
      BY <1>2, <1>3, <2>1, <3>1
  <2>2. CASE q # p
    <3>1. c # b /\ c \in DOMAIN bufs
      BY <1>5, <2>2 DEF UdpInv, BufsOwn
    <3> QED
      BY <1>2, <1>3, <1>5, <2>2, <3>1 DEF UdpInv, BufsHold
  <2> QED
    BY <2>1, <2>2
<1>6. BufsHold'
  BY <1>5 DEF BufsHold, Bound
<1> QED
  BY <1>4, <1>6 DEF UdpInv

(* A port is bound to a buffer that nobody has.                            *)
LEMMA BindKeeps ==
    ASSUME UdpInv, NEW p \in Port, NEW b \in Nat, NEW old, IsRing(old),
           PortTable(portmap'), \A c : ~Bound(portmap, p, c),
           \A q, c : Bound(portmap', q, c) <=> Bound(portmap, q, c) \/ (q = p /\ c = b),
           \A q \in Port : ~Bound(portmap, q, b),
           IsSeq(bufs'), DOMAIN bufs \subseteq DOMAIN bufs', b \in DOMAIN bufs',
           bufs'[b] = NewBuf(old), \A c \in DOMAIN bufs' : c # b => c \in DOMAIN bufs /\ bufs'[c] = bufs[c],
           free_head' \in Seq(DOMAIN bufs'),
           \A i, j \in DOMAIN free_head' : free_head'[i] = free_head'[j] => i = j,
           \A i \in DOMAIN free_head' : /\ free_head'[i] # b
                                        /\ \E j \in DOMAIN free_head : free_head'[i] = free_head[j],
           hist' = [hist EXCEPT ![p] = NewHist]
    PROVE  UdpInv'
<1>1. /\ hist' \in [Port -> HistType]
      /\ hist'[p] = NewHist /\ \A q \in Port : q # p => hist'[q] = hist[q]
  BY NewHolds DEF UdpInv, BufsKeep
<1>2. BufsKeep' /\ PortTable(portmap)'
  <2>1. \A c \in DOMAIN bufs' : IsBuf(bufs'[c])
    BY NewHolds DEF UdpInv, BufsKeep
  <2>2. BufsKeep' <=> /\ IsSeq(bufs') /\ \A c \in DOMAIN bufs' : IsBuf(bufs'[c])
                      /\ free_head' \in Seq(DOMAIN bufs') /\ hist' \in [Port -> HistType]
    BY Zenon DEF BufsKeep, IsSeq, IsBuf, IsRing, RingWith
  <2>3. PortTable(portmap)'
    BY DEF PortTable
  <2> QED
    BY <1>1, <2>1, <2>2, <2>3
<1>3. BufsOwn'
  <2>1. ASSUME NEW q \in Port, NEW c \in Nat, Bound(portmap', q, c)
        PROVE  /\ c \in DOMAIN bufs' /\ \A i \in DOMAIN free_head' : free_head'[i] # c
               /\ \A r \in Port : Bound(portmap', r, c) => r = q
    <3>1. CASE Bound(portmap, q, c)
      <4>1. c \in DOMAIN bufs /\ \A i \in DOMAIN free_head : free_head[i] # c
        BY <3>1 DEF UdpInv, BufsOwn
      <4>2. c # b
        BY <3>1
      <4>3. \A r \in Port : Bound(portmap', r, c) => Bound(portmap, r, c)
        BY <4>2
      <4> QED
        BY <3>1, <4>1, <4>3 DEF UdpInv, BufsOwn
    <3>2. CASE q = p /\ c = b
      <4>1. \A r \in Port : Bound(portmap', r, b) => r = p
        OBVIOUS
      <4> QED
        BY <3>2, <4>1
    <3> QED
      BY <2>1, <3>1, <3>2
  <2> QED
    BY <2>1 DEF BufsOwn
<1>5. ASSUME NEW q \in Port, NEW c \in Nat, Bound(portmap', q, c)
      PROVE  PortHolds(bufs'[c], hist'[q])
  <2>1. CASE Bound(portmap, q, c)
    <3>1. q # p /\ c # b
      BY <2>1
    <3>2. c \in DOMAIN bufs /\ c \in DOMAIN bufs' /\ PortHolds(bufs[c], hist[q])
      BY <2>1, BoundBuf
    <3> QED
      BY <1>1, <3>1, <3>2
  <2>2. CASE q = p /\ c = b
    BY <1>1, <2>2, NewHolds
  <2> QED
    BY <1>5, <2>1, <2>2
<1>6. BufsHold'
  BY <1>5 DEF BufsHold, Bound
<1> QED
  BY <1>2, <1>3, <1>6 DEF UdpInv

(* The buffer of a port becomes free.                                      *)
LEMMA ReleaseKeeps ==
    ASSUME UdpInv, UNCHANGED <<bufs, hist>>, NEW p \in Port, NEW b \in Nat,
           Bound(portmap, p, b), PortTable(portmap'),
           \A q, c : Bound(portmap', q, c) <=> Bound(portmap, q, c) /\ q # p,
           free_head' = <<b>> \o free_head
    PROVE  UdpInv'
<1>1. /\ b \in DOMAIN bufs /\ free_head \in Seq(DOMAIN bufs)
      /\ \A i \in DOMAIN free_head : free_head[i] # b
  BY DEF UdpInv, BufsKeep, BufsOwn
<1>2. /\ free_head' \in Seq(DOMAIN bufs) /\ Len(free_head') = 1 + Len(free_head)
      /\ free_head'[1] = b
      /\ \A i \in 1 .. Len(free_head) : free_head'[i + 1] = free_head[i]
  BY <1>1, ConcatOne
<1>3. ASSUME NEW i \in DOMAIN free_head', i # 1
      PROVE  i - 1 \in DOMAIN free_head /\ free_head'[i] = free_head[i - 1]
  <2>1. i \in 1 .. (1 + Len(free_head)) /\ Len(free_head) \in Nat
    BY <1>1, <1>2
  <2>2. i - 1 \in 1 .. Len(free_head) /\ (i - 1) + 1 = i
    BY <1>3, <2>1
  <2>3. free_head'[(i - 1) + 1] = free_head[i - 1]
    BY <1>2, <2>2
  <2> QED
    BY <1>1, <2>2, <2>3
<1>4. \A i, j \in DOMAIN free_head' : free_head'[i] = free_head'[j] => i = j
  <2> SUFFICES ASSUME NEW i \in DOMAIN free_head', NEW j \in DOMAIN free_head',
                      free_head'[i] = free_head'[j]
               PROVE  i = j
    OBVIOUS
  <2>1. CASE i = 1 \/ j = 1
    BY <1>1, <1>2, <1>3, <2>1
  <2>2. CASE i # 1 /\ j # 1
    <3>1. i - 1 = j - 1
      BY <1>3, <2>2 DEF UdpInv, BufsOwn
    <3>2. i \in Nat /\ j \in Nat
      BY <1>2
    <3> QED
      BY <3>1, <3>2
  <2> QED
    BY <2>1, <2>2
<1>5. BufsKeep' /\ PortTable(portmap)'
  BY <1>2 DEF UdpInv, BufsKeep, PortTable
<1>6. BufsOwn'
  <2>1. ASSUME NEW q \in Port, NEW c \in Nat, Bound(portmap', q, c)
        PROVE  /\ c \in DOMAIN bufs' /\ \A i \in DOMAIN free_head' : free_head'[i] # c
               /\ \A r \in Port : Bound(portmap', r, c) => r = q
    <3>1. Bound(portmap, q, c) /\ q # p
      BY <2>1
    <3>2. c # b
      BY <3>1 DEF UdpInv, BufsOwn
    <3>3. \A i \in DOMAIN free_head' : free_head'[i] # c
      <4> SUFFICES ASSUME NEW i \in DOMAIN free_head' PROVE free_head'[i] # c
        OBVIOUS
      <4>1. \A j \in DOMAIN free_head : free_head[j] # c
        BY <3>1 DEF UdpInv, BufsOwn
      <4> QED
        BY <1>2, <1>3, <3>2, <4>1
    <3> QED
      BY <3>1, <3>3 DEF UdpInv, BufsOwn
  <2> QED
    BY <1>4, <2>1 DEF BufsOwn
<1>7. BufsHold'
  BY DEF UdpInv, BufsHold, Bound
<1> QED
  BY <1>5, <1>6, <1>7 DEF UdpInv

-----------------------------------------------------------------------------
(* Requests and answers.                                                   *)

MsgsInv == MsgInv /\ RequestsFit /\ QueriesAnswered /\ Asked

(* A step in which nobody's lookup begins.                                 *)
NoneAsks == \A u \in Task : job'[u].at = "asked" => job'[u] = job[u]

LEMMA Later ==
    ASSUME MoreFrames
    PROVE  /\ \A addr, mac : Announced(addr, mac) => Announced(addr, mac)'
           /\ \A s, m : Fits(s, m) => Fits(s, m)'
<1>1. \A addr, mac : Announced(addr, mac) => Announced(addr, mac)'
  BY DEF MoreFrames, Announced
<1>2. \A s, pkt : PacketFor(s, pkt) => PacketFor(s, pkt)'
  BY DEF MoreFrames, PacketFor
<1>3. \A s, m : Fits(s, m) => Fits(s, m)'
  BY <1>2 DEF Fits
<1> QED
  BY <1>1, <1>3

LEMMA RequestFits ==
    ASSUME MsgsInv, NEW s \in Server, Incoming(s)
    PROVE  Sender(s) \in Task /\ Fits(s, Request(s))
<1>1. Sender(s) \in Task /\ 1 \in DOMAIN inbox[s] /\ inbox[s][1] = Sender(s)
  BY SenderIs DEF MsgsInv
<1>2. Fits(s, msg[inbox[s][1]])
  BY <1>1 DEF MsgsInv, RequestsFit
<1> QED
  BY <1>1, <1>2 DEF Request

LEMMA KeptAre ==
    ASSUME MsgsInv, NEW s \in Server, NEW fd \in Fd, tids[s][fd] # Nobody
    PROVE  /\ tids[s][fd] \in Task /\ phase[tids[s][fd]] = "waiting"
           /\ msg[tids[s][fd]].code # "QUERY" /\ job[tids[s][fd]].at # "asked"
<1>1. tids[s][fd] \in Task
  BY DEF MsgsInv, MsgInv, MsgTypeOK
<1>2. phase[tids[s][fd]] = "waiting"
  BY <1>1 DEF MsgsInv, MsgInv, PhaseTells, Kept
<1>3. msg[tids[s][fd]].code # "QUERY"
  BY DEF MsgsInv, QueriesAnswered
<1> QED
  BY <1>1, <1>2, <1>3 DEF MsgsInv, Asked

LEMMA MsgsUnchanged ==
    ASSUME MsgsInv, MoreFrames, NoneAsks,
           UNCHANGED <<phase, msg, status, inbox, tids>>, crashed' \in BOOLEAN
    PROVE  MsgsInv'
<1>1. MsgInv'
  BY MsgUnchanged DEF MsgsInv
<1>2. RequestsFit'
  BY Later DEF MsgsInv, RequestsFit
<1>3. QueriesAnswered'
  BY DEF MsgsInv, QueriesAnswered
<1>4. Asked'
  <2> SUFFICES ASSUME NEW u \in Task, job'[u].at = "asked"
               PROVE  IF phase'[u] = "ready"
                      THEN status'[u] = EARP_PENDING \/ (Announced(Resolved(job[u].addr), status[u]))'
                      ELSE msg'[u].code = "QUERY" /\ msg'[u].addr = Resolved(job'[u].addr)
    BY DEF Asked, Resolved, Announced
  <2>1. job'[u] = job[u] /\ job[u].at = "asked"
    BY DEF NoneAsks
  <2>2. Announced(Resolved(job[u].addr), status[u]) => (Announced(Resolved(job[u].addr), status[u]))'
    BY <2>1 DEF Announced, MoreFrames, Resolved
  <2> QED
    BY <2>1, <2>2 DEF MsgsInv, Asked
<1> QED
  BY <1>1, <1>2, <1>3, <1>4 DEF MsgsInv

(* A task takes what its send_udp returns.                                 *)
LEMMA ReturnKeeps ==
    ASSUME MsgsInv, MoreFrames, NEW t \in Task, NEW ret \in Int,
           status' = [status EXCEPT ![t] = ret], UNCHANGED <<phase, msg, inbox, tids, crashed>>,
           \A u \in Task : job'[u].at = "asked" => job'[u] = job[u] /\ u # t
    PROVE  MsgsInv'
<1>1. /\ status' \in [Task -> Int] /\ \A u \in Task : u # t => status'[u] = status[u]
  BY DEF MsgsInv, MsgInv, MsgTypeOK
<1>2. MsgInv'
  <2>1. MsgTypeOK' /\ DOMAIN msg' = Task
    <3>1. /\ phase' \in [Task -> Phase] /\ inbox' \in [Server -> Seq(Task)]
          /\ tids' \in [Server -> [Fd -> Task \cup {Nobody}]]
          /\ crashed' \in BOOLEAN /\ DOMAIN msg' = Task
      BY DEF MsgsInv, MsgInv, MsgTypeOK
    <3> QED
      BY <1>1, <3>1, Zenon DEF MsgTypeOK
  <2>2. QueuedOnce' /\ KeptOnce'
    BY DEF MsgsInv, MsgInv, QueuedOnce, KeptOnce
  <2>3. PhaseTells'
    BY DEF MsgsInv, MsgInv, PhaseTells, Queued, Kept
  <2> QED
    BY <2>1, <2>2, <2>3 DEF MsgInv
<1>3. RequestsFit'
  BY Later DEF MsgsInv, RequestsFit
<1>4. QueriesAnswered'
  BY DEF MsgsInv, QueriesAnswered
<1>5. Asked'
  <2> SUFFICES ASSUME NEW u \in Task, job'[u].at = "asked"
               PROVE  IF phase'[u] = "ready"
                      THEN status'[u] = EARP_PENDING \/ (Announced(Resolved(job[u].addr), status[u]))'
                      ELSE msg'[u].code = "QUERY" /\ msg'[u].addr = Resolved(job'[u].addr)
    BY DEF Asked, Resolved, Announced
  <2>1. job'[u] = job[u] /\ job[u].at = "asked" /\ status'[u] = status[u]
    BY <1>1
  <2>2. Announced(Resolved(job[u].addr), status[u]) => (Announced(Resolved(job[u].addr), status[u]))'
    BY <2>1 DEF Announced, MoreFrames, Resolved
  <2> QED
    BY <2>1, <2>2 DEF MsgsInv, Asked
<1> QED
  BY <1>2, <1>3, <1>4, <1>5 DEF MsgsInv

LEMMA MsgsSame ==
    ASSUME MsgsInv, MoreFrames, NoneAsks, UNCHANGED msgVars
    PROVE  MsgsInv'
<1>1. crashed \in BOOLEAN
  BY DEF MsgsInv, MsgInv, MsgTypeOK
<1>2. UNCHANGED <<phase, msg, status, inbox, tids, crashed>>
  BY DEF msgVars
<1> QED
  BY <1>1, <1>2, MsgsUnchanged

LEMMA SendKeeps ==
    ASSUME MsgsInv, frames' = frames, NEW t \in Task, NEW s \in Server, NEW m, Fits(s, m),
           MsgSend(t, s, m),
           \A u \in Task \ {t} : job'[u].at = "asked" => job'[u] = job[u],
           job'[t].at = "asked" => m.code = "QUERY" /\ m.addr = Resolved(job'[t].addr)
    PROVE  MsgsInv'
<1>1. /\ MsgInv' /\ phase[t] = "ready" /\ phase'[t] = "sending" /\ msg'[t] = m
      /\ \A u \in Task \ {t} : /\ phase'[u] = phase[u] /\ msg'[u] = msg[u]
                               /\ status'[u] = status[u]
      /\ \A q \in Server : \A i \in DOMAIN inbox'[q] :
            \/ q = s /\ inbox'[q][i] = t
            \/ /\ i \in DOMAIN inbox[q] /\ inbox'[q][i] = inbox[q][i]
               /\ inbox[q][i] \in Task \ {t}
      /\ tids' = tids
  BY SendFrame DEF MsgsInv
<1>0. \A q, n : Fits(q, n)' <=> Fits(q, n)
  BY DEF Fits, PacketFor
<1>2. RequestsFit'
  <2> SUFFICES ASSUME NEW q \in Server, NEW i \in DOMAIN inbox'[q]
               PROVE  Fits(q, msg'[inbox'[q][i]])
    BY <1>0 DEF RequestsFit
  <2>1. CASE q = s /\ inbox'[q][i] = t
    BY <1>1, <2>1
  <2>2. CASE /\ i \in DOMAIN inbox[q] /\ inbox'[q][i] = inbox[q][i]
             /\ inbox[q][i] \in Task \ {t}
    BY <1>1, <2>2 DEF MsgsInv, RequestsFit
  <2> QED
    BY <1>1, <2>1, <2>2
<1>3. QueriesAnswered'
  <2> SUFFICES ASSUME NEW q \in Server, NEW fd \in Fd, tids[q][fd] # Nobody
               PROVE  msg'[tids[q][fd]].code # "QUERY"
    BY <1>1 DEF QueriesAnswered
  <2>1. tids[q][fd] \in Task \ {t} /\ msg[tids[q][fd]].code # "QUERY"
    BY <1>1, KeptAre
  <2> QED
    BY <1>1, <2>1
<1>4. Asked'
  <2> SUFFICES ASSUME NEW u \in Task, job'[u].at = "asked"
               PROVE  LET addr == Resolved(job'[u].addr) IN
                      IF phase'[u] = "ready"
                      THEN status'[u] = EARP_PENDING \/ Announced(addr, status'[u])
                      ELSE msg'[u].code = "QUERY" /\ msg'[u].addr = addr
    BY DEF Asked, Resolved, Announced
  <2>1. CASE u = t
    BY <1>1, <2>1
  <2>2. CASE u # t
    <3>1. job'[u] = job[u] /\ job[u].at = "asked"
      BY <2>2
    <3> QED
      BY <1>1, <2>2, <3>1 DEF MsgsInv, Asked
  <2> QED
    BY <2>1, <2>2
<1> QED
  BY <1>1, <1>2, <1>3, <1>4 DEF MsgsInv

(* A query is answered at once, with what is known.                        *)
AnswersQuery(s, replies) ==
    Request(s).code = "QUERY" =>
        /\ Tid(s) \in DOMAIN replies
        /\ \/ replies[Tid(s)] = EARP_PENDING
           \/ Announced(Request(s).addr, replies[Tid(s)])

LEMMA AnswerKeeps ==
    ASSUME MsgsInv, frames' = frames, NoneAsks, NEW s \in Server, Incoming(s), NEW replies,
           DOMAIN replies \subseteq Fd, \A f \in DOMAIN replies : replies[f] \in Int,
           Serve(s, replies), AnswersQuery(s, replies)
    PROVE  MsgsInv' /\ Tid(s) \in Fd
<1> DEFINE me == Sender(s)
<1>1. /\ MsgInv' /\ me \in Task /\ phase[me] = "sending"
      /\ Tid(s) \in Fd /\ tids[s][Tid(s)] = Nobody
      /\ 1 \in DOMAIN inbox[s] /\ inbox[s][1] = me
  BY ServeFrame DEF MsgsInv
<1>2. \A t \in Task :
         \/ /\ phase'[t] = "ready" /\ msg'[t] = None
            /\ \E f \in DOMAIN replies :
                  \/ f = Tid(s) /\ t = me
                  \/ f # Tid(s) /\ t = tids[s][f] /\ phase[t] = "waiting"
         \/ /\ t = me /\ phase'[t] = "waiting" /\ msg'[t] = msg[t]
            /\ status'[t] = status[t]
         \/ /\ t # me /\ phase'[t] = phase[t] /\ msg'[t] = msg[t]
            /\ status'[t] = status[t]
  BY ServeFrame DEF MsgsInv
<1>3. Tid(s) \in DOMAIN replies => status'[me] = replies[Tid(s)]
  <2>1. \A f \in DOMAIN replies :
            LET t == IF f = Tid(s) THEN Sender(s) ELSE tids[s][f]
            IN  t \in Task => status'[t] = replies[f]
    BY ServeFrame DEF MsgsInv
  <2> QED
    BY <1>1, <2>1
<1>4. /\ \A q \in Server \ {s} : tids'[q] = tids[q]
      /\ \A fd \in Fd : tids'[s][fd] =
            IF fd \in DOMAIN replies THEN Nobody
            ELSE IF fd = Tid(s) THEN me ELSE tids[s][fd]
      /\ \A q \in Server, fd \in Fd : tids'[q][fd] # Nobody =>
            msg'[tids'[q][fd]] = msg[tids'[q][fd]]
      /\ \A q \in Server : \A i \in DOMAIN inbox'[q] :
            \E j \in DOMAIN inbox[q] :
               inbox'[q][i] = inbox[q][j] /\ (q = s => j = i + 1)
  BY ServeFrame DEF MsgsInv
<1>5. Request(s) = msg[me]
  BY DEF Request
<1> HIDE DEF me
<1>0. \A q, n : Fits(q, n)' <=> Fits(q, n)
  BY DEF Fits, PacketFor
<1>6. RequestsFit'
  <2> SUFFICES ASSUME NEW q \in Server, NEW i \in DOMAIN inbox'[q]
               PROVE  Fits(q, msg'[inbox'[q][i]])
    BY <1>0 DEF RequestsFit
  <2>1. PICK j \in DOMAIN inbox[q] : inbox'[q][i] = inbox[q][j] /\ (q = s => j = i + 1)
    BY <1>4
  <2>2. inbox[q][j] \in Task /\ phase[inbox[q][j]] = "sending"
    <3>1. inbox[q][j] \in Task
      BY DEF MsgsInv, MsgInv, MsgTypeOK
    <3> QED
      BY <3>1 DEF MsgsInv, MsgInv, PhaseTells, Queued
  <2>3. inbox[q][j] # me
    <3>1. inbox[q][j] = inbox[s][1] => q = s /\ j = 1
      BY <1>1 DEF MsgsInv, MsgInv, QueuedOnce
    <3>2. q = s => j # 1
      <4>1. q = s => i \in Nat /\ i >= 1
        <5>1. inbox'[q] \in Seq(Task)
          BY <1>1 DEF MsgInv, MsgTypeOK
        <5> QED
          BY <5>1
      <4> QED
        BY <2>1, <4>1
    <3> QED
      BY <1>1, <3>1, <3>2
  <2>4. msg'[inbox[q][j]] = msg[inbox[q][j]]
    BY <1>2, <2>2, <2>3
  <2> QED
    BY <2>1, <2>4 DEF MsgsInv, RequestsFit
<1>7. QueriesAnswered'
  <2> SUFFICES ASSUME NEW q \in Server, NEW fd \in Fd, tids'[q][fd] # Nobody
               PROVE  msg'[tids'[q][fd]].code # "QUERY"
    BY DEF QueriesAnswered
  <2>1. msg'[tids'[q][fd]] = msg[tids'[q][fd]]
    BY <1>4
  <2>2. CASE q = s /\ fd = Tid(s)
    <3>1. Tid(s) \notin DOMAIN replies /\ tids'[q][fd] = me
      BY <1>4, <2>2
    <3> QED
      BY <1>5, <2>1, <3>1 DEF AnswersQuery
  <2>3. CASE ~(q = s /\ fd = Tid(s))
    <3>1. tids'[q][fd] = tids[q][fd]
      BY <1>4, <2>3
    <3> QED
      BY <2>1, <3>1 DEF MsgsInv, QueriesAnswered
  <2> QED
    BY <2>2, <2>3
<1>8. Asked'
  <2> SUFFICES ASSUME NEW u \in Task, job'[u].at = "asked"
               PROVE  LET addr == Resolved(job'[u].addr) IN
                      IF phase'[u] = "ready"
                      THEN status'[u] = EARP_PENDING \/ Announced(addr, status'[u])
                      ELSE msg'[u].code = "QUERY" /\ msg'[u].addr = addr
    BY DEF Asked, Resolved, Announced
  <2>1. job'[u] = job[u] /\ job[u].at = "asked"
    BY DEF NoneAsks
  <2>2. IF phase[u] = "ready"
        THEN status[u] = EARP_PENDING \/ Announced(Resolved(job[u].addr), status[u])
        ELSE msg[u].code = "QUERY" /\ msg[u].addr = Resolved(job[u].addr)
    BY <2>1 DEF MsgsInv, Asked
  <2>3. CASE u = me
    <3>1. msg[me].code = "QUERY" /\ msg[me].addr = Resolved(job[u].addr)
      BY <1>1, <2>2, <2>3
    <3>2. /\ Tid(s) \in DOMAIN replies
          /\ \/ replies[Tid(s)] = EARP_PENDING
             \/ Announced(Resolved(job[u].addr), replies[Tid(s)])
      BY <1>5, <3>1 DEF AnswersQuery
    <3>3. status'[u] = replies[Tid(s)]
      BY <1>3, <2>3, <3>2
    <3>4. phase'[u] = "ready"
      <4>1. tids'[s][Tid(s)] = Nobody
        BY <1>1, <1>4, <3>2
      <4>2. \A q \in Server, fd \in Fd : tids'[q][fd] # me
        BY <1>1, <1>4, <3>2, KeptAre, NobodyAssumption
      <4>3. phase'[u] # "waiting"
        BY <1>1, <2>3, <4>2 DEF MsgInv, PhaseTells, Kept
      <4> QED
        BY <1>2, <2>3, <4>3
    <3> QED
      BY <2>1, <3>2, <3>3, <3>4
  <2>4. CASE u # me
    <3>1. ~(\E f \in DOMAIN replies : f # Tid(s) /\ u = tids[s][f])
      <4>1. \A f \in Fd : tids[s][f] # u
        BY <2>1, KeptAre, NobodyAssumption
      <4> QED
        BY <4>1
    <3>2. phase'[u] = phase[u] /\ msg'[u] = msg[u] /\ status'[u] = status[u]
      BY <1>2, <2>4, <3>1
    <3> QED
      BY <2>1, <2>2, <3>2
  <2> QED
    BY <2>3, <2>4
<1> QED
  BY <1>1, <1>6, <1>7, <1>8 DEF MsgsInv

LEMMA LateReplyKeeps ==
    ASSUME MsgsInv, frames' = frames, NoneAsks, NEW s \in Server, NEW fd \in Fd, NEW st \in Int,
           MsgReply(s, fd, st)
    PROVE  MsgsInv'
<1> DEFINE t == tids[s][fd]
<1>1. /\ MsgInv' /\ inbox' = inbox /\ t \in Task /\ phase[t] = "waiting"
      /\ phase'[t] = "ready" /\ msg'[t] = None
      /\ \A u \in Task \ {t} : /\ phase'[u] = phase[u] /\ msg'[u] = msg[u]
                               /\ status'[u] = status[u]
      /\ \A q \in Server \ {s} : tids'[q] = tids[q]
      /\ tids'[s][fd] = Nobody
      /\ \A f \in Fd \ {fd} : tids'[s][f] = tids[s][f]
  BY ReplyFrame DEF MsgsInv
<1>2. tids[s][fd] # Nobody /\ job[t].at # "asked"
  BY KeptAre DEF MsgReply
<1> HIDE DEF t
<1>0. \A q, n : Fits(q, n)' <=> Fits(q, n)
  BY DEF Fits, PacketFor
<1>3. RequestsFit'
  <2> SUFFICES ASSUME NEW q \in Server, NEW i \in DOMAIN inbox[q]
               PROVE  Fits(q, msg'[inbox[q][i]])
    BY <1>0, <1>1 DEF RequestsFit
  <2>1. inbox[q][i] \in Task
    BY DEF MsgsInv, MsgInv, MsgTypeOK
  <2>2. phase[inbox[q][i]] = "sending"
    BY <2>1 DEF MsgsInv, MsgInv, PhaseTells, Queued
  <2> QED
    BY <1>1, <2>1, <2>2 DEF MsgsInv, RequestsFit
<1>4. QueriesAnswered'
  <2> SUFFICES ASSUME NEW q \in Server, NEW f \in Fd, tids'[q][f] # Nobody
               PROVE  msg'[tids'[q][f]].code # "QUERY"
    BY DEF QueriesAnswered
  <2>1. tids'[q][f] = tids[q][f] /\ ~(q = s /\ f = fd)
    BY <1>1
  <2>2. tids[q][f] \in Task /\ msg[tids[q][f]].code # "QUERY"
    BY <2>1, KeptAre
  <2>3. tids[q][f] # t
    BY <1>2, <2>1 DEF MsgsInv, MsgInv, KeptOnce, t
  <2> QED
    BY <1>1, <2>1, <2>2, <2>3
<1>5. Asked'
  <2> SUFFICES ASSUME NEW u \in Task, job'[u].at = "asked"
               PROVE  LET addr == Resolved(job'[u].addr) IN
                      IF phase'[u] = "ready"
                      THEN status'[u] = EARP_PENDING \/ Announced(addr, status'[u])
                      ELSE msg'[u].code = "QUERY" /\ msg'[u].addr = addr
    BY DEF Asked, Resolved, Announced
  <2>1. job'[u] = job[u] /\ job[u].at = "asked"
    BY DEF NoneAsks
  <2>2. u # t
    BY <1>2, <2>1
  <2> QED
    BY <1>1, <2>1, <2>2 DEF MsgsInv, Asked
<1> QED
  BY <1>1, <1>3, <1>4, <1>5 DEF MsgsInv

-----------------------------------------------------------------------------
(* What the steps leave alone stays as it is.                              *)

LEMMA ArpUnchanged ==
    ASSUME ArpInv, MoreFrames, arp' = arp
    PROVE  ArpInv'
<1>1. ArpKeeps(arp)' /\ PlacesOwn(arp)'
  BY DEF ArpInv, ArpKeeps, PlacesOwn, ActiveAt
<1>2. ASSUME NEW addr, NEW mac, Announced(addr, mac)
      PROVE  \E i \in DOMAIN frames' : /\ frames'[i].type = "ARP"
                                       /\ frames'[i].spa = addr /\ frames'[i].sha = mac
  BY <1>2 DEF MoreFrames, Announced
<1>3. EntriesAnnounced(arp)'
  BY <1>2 DEF ArpInv, EntriesAnnounced, ActiveAt, Announced
<1> QED
  BY <1>1, <1>3 DEF ArpInv

(* A frame that is transmitted is no datagram, or goes where it should.    *)
LEMMA SentKeeps ==
    ASSUME MacsAnnounced, MoreFrames, NEW x, sent' = sent \/ Transmit(x),
           x.type = "UDP" => Announced(Resolved(x.addr), x.mac)
    PROVE  MacsAnnounced'
<1> SUFFICES ASSUME NEW y \in sent', y.type = "UDP"
             PROVE  \E i \in DOMAIN frames' :
                       /\ frames'[i].type = "ARP"
                       /\ frames'[i].spa = Resolved(y.addr) /\ frames'[i].sha = y.mac
  BY DEF MacsAnnounced, Resolved
<1>1. Announced(Resolved(y.addr), y.mac)
  <2>1. CASE y \in sent
    BY <2>1 DEF MacsAnnounced, Announced
  <2>2. CASE y \notin sent
    <3>1. y = x
      BY <2>2 DEF Transmit
    <3> QED
      BY <3>1
  <2> QED
    BY <2>1, <2>2
<1> QED
  BY <1>1 DEF Announced, MoreFrames

LEMMA EthUnchanged ==
    ASSUME EthKeeps, UNCHANGED ethVars
    PROVE  EthKeeps' /\ frames' = frames /\ MoreFrames
BY DEF ethVars, EthKeeps, MoreFrames

LEMMA AppUnchanged ==
    ASSUME ConKeeps, JobsKeep, ProgramsLeft,
           UNCHANGED <<chq, tidq, job, contid, todo>>
    PROVE  ConKeeps' /\ JobsKeep' /\ ProgramsLeft' /\ NoneAsks
BY DEF ConKeeps, JobsKeep, ProgramsLeft, NoneAsks

(* Tasks that do not send datagrams are in no lookup.                      *)
LEMMA NoJobs ==
    ASSUME JobsKeep, NEW t \in Task, ~Sends(t)
    PROVE  job[t] = NoJob /\ job[t].at = "none"
BY DEF JobsKeep, NoJob

LEMMA TaskAre ==
    /\ {Ethrx, ConTx, EthNotifier, ConNotifier, Genesis} \subseteq Task /\ App \subseteq Task
    /\ \A t \in {Ethrx, EthNotifier, ConNotifier, Genesis} : ~Sends(t)
    /\ {Ethrx, Arp, Icmp, Udprx, ConTx, ConRx} = Server
BY NetworkAssumption DEF Sends

(* Answers to the client that was received.                                *)
LEMMA ServesOne ==
    ASSUME MsgsInv, frames' = frames, NoneAsks, NEW s \in Server, Incoming(s), NEW st \in Int,
           Serve(s, Reply(s, st)),
           Request(s).code = "QUERY" => st = EARP_PENDING \/ Announced(Request(s).addr, st)
    PROVE  MsgsInv'
<1>1. Tid(s) \in Fd
  BY TidIsFree DEF Serve
<1> DEFINE r == Reply(s, st)
<1>2. DOMAIN r = {Tid(s)} /\ r[Tid(s)] = st
  BY DEF Reply
<1> HIDE DEF r
<1>3. DOMAIN r \subseteq Fd /\ \A f \in DOMAIN r : r[f] \in Int
  BY <1>1, <1>2
<1>4. AnswersQuery(s, r)
  BY <1>2 DEF AnswersQuery
<1>5. Serve(s, r)
  BY DEF r
<1> QED
  BY <1>3, <1>4, <1>5, AnswerKeeps

LEMMA ServesNone ==
    ASSUME MsgsInv, frames' = frames, NoneAsks, NEW s \in Server, Incoming(s),
           Serve(s, NoReply), Request(s).code # "QUERY"
    PROVE  MsgsInv' /\ Tid(s) \in Fd
<1> DEFINE r == NoReply
<1>1. DOMAIN r = {}
  BY DEF NoReply
<1>2. Serve(s, r)
  OBVIOUS
<1> HIDE DEF r
<1>3. AnswersQuery(s, r)
  BY DEF AnswersQuery
<1> QED
  BY <1>1, <1>2, <1>3, AnswerKeeps

-----------------------------------------------------------------------------
(* The controller, its notifier and ethrx_task.                            *)

Rest == ConKeeps /\ JobsKeep /\ ProgramsLeft

LEMMA InvParts ==
    NetworkInv <=> MsgsInv /\ EthKeeps /\ Rest /\ ArpInv /\ UdpInv /\ MacsAnnounced
BY DEF NetworkInv, TasksInv, MsgsInv, Rest

LEMMA RestUnchanged ==
    ASSUME Rest, UNCHANGED appVars
    PROVE  Rest' /\ NoneAsks
BY AppUnchanged DEF Rest, appVars

LEMMA CrashKeeps ==
    ASSUME NetworkInv, crashed' \in BOOLEAN, UNCHANGED <<phase, msg, status, inbox, tids>>,
           UNCHANGED <<ethVars, arp, udpVars, appVars, sent>>
    PROVE  NetworkInv'
<1>0. MsgsInv /\ EthKeeps /\ Rest /\ ArpInv /\ UdpInv /\ MacsAnnounced
  BY InvParts
<1>1. EthKeeps' /\ frames' = frames /\ MoreFrames
  BY <1>0, EthUnchanged
<1>2. Rest' /\ NoneAsks
  BY <1>0, RestUnchanged
<1>3. MsgsInv'
  BY <1>0, <1>1, <1>2, MsgsUnchanged
<1>4. ArpInv' /\ UdpInv'
  BY <1>0, <1>1, ArpUnchanged, UdpUnchanged
<1>5. MacsAnnounced'
  <2>1. [type |-> "NONE"].type # "UDP"
    OBVIOUS
  <2> QED
    BY <1>0, <1>1, <2>1, SentKeeps
<1> QED
  BY <1>1, <1>2, <1>3, <1>4, <1>5 DEF NetworkInv, TasksInv, MsgsInv, Rest

(* A step that leaves the ARP cache, the ports and the frames alone.       *)
LEMMA MsgStepKeeps ==
    ASSUME NetworkInv, MsgsInv', EthKeeps', MoreFrames, Rest', UNCHANGED <<arp, udpVars, sent>>
    PROVE  NetworkInv'
<1>0. ArpInv /\ UdpInv /\ MacsAnnounced
  BY InvParts
<1>1. ArpInv' /\ UdpInv'
  BY <1>0, ArpUnchanged, UdpUnchanged
<1>2. MacsAnnounced'
  <2>1. [type |-> "NONE"].type # "UDP"
    OBVIOUS
  <2> QED
    BY <1>0, <2>1, SentKeeps
<1> QED
  BY <1>1, <1>2 DEF NetworkInv, TasksInv, MsgsInv, Rest

LEMMA ArriveKeeps ==
    ASSUME NetworkInv, NEW f \in Frame, Arrive(f)
    PROVE  NetworkInv'
<1>0. MsgsInv /\ EthKeeps /\ Rest
  BY InvParts
<1>1. /\ frames \in Seq(Frame) /\ rxfifo \in Seq(DOMAIN frames)
      /\ frames' = Append(frames, f) /\ rxfifo' = Append(rxfifo, Len(frames) + 1)
      /\ UNCHANGED <<msgVars, rsfl, ethpc, waiting, arp, udpVars, appVars, sent>>
  BY <1>0 DEF EthKeeps, Arrive
<1>2. /\ frames' \in Seq(Frame) /\ DOMAIN frames' = DOMAIN frames \cup {Len(frames) + 1}
      /\ \A i \in DOMAIN frames : frames'[i] = frames[i]
  BY <1>1
<1>3. MoreFrames
  BY <1>2 DEF MoreFrames
<1>4. EthKeeps'
  <2>1. rxfifo \in Seq(DOMAIN frames') /\ Len(frames) + 1 \in DOMAIN frames'
    BY <1>1, <1>2
  <2>2. rxfifo' \in Seq(DOMAIN frames')
    BY <1>1, <2>1
  <2> QED
    BY <1>0, <1>1, <1>2, <2>2 DEF EthKeeps
<1>5. Rest' /\ NoneAsks
  BY <1>0, <1>1, RestUnchanged
<1>6. MsgsInv'
  BY <1>0, <1>1, <1>3, <1>5, MsgsSame
<1> QED
  BY <1>1, <1>3, <1>4, <1>5, <1>6, MsgStepKeeps

LEMMA EthIsrKeeps ==
    ASSUME NetworkInv, EthIsr
    PROVE  NetworkInv'
<1>0. MsgsInv /\ EthKeeps /\ Rest
  BY InvParts
<1>1. MoreFrames /\ frames' = frames /\ EthKeeps'
  BY <1>0 DEF EthIsr, MoreFrames, EthKeeps
<1>2. Rest' /\ NoneAsks
  BY <1>0, RestUnchanged DEF EthIsr
<1>3. MsgsInv'
  BY <1>0, <1>1, <1>2, MsgsSame DEF EthIsr
<1> QED
  BY <1>1, <1>2, <1>3, MsgStepKeeps DEF EthIsr

LEMMA EthDoneKeeps ==
    ASSUME NetworkInv, EthDone
    PROVE  NetworkInv'
<1>0. MsgsInv /\ EthKeeps /\ Rest
  BY InvParts
<1>1. MoreFrames /\ frames' = frames /\ EthKeeps'
  BY <1>0 DEF EthDone, EthIntenable, MoreFrames, EthKeeps
<1>2. Rest' /\ NoneAsks
  BY <1>0, RestUnchanged DEF EthDone
<1>3. MsgsInv'
  BY <1>0, <1>1, <1>2, MsgsSame DEF EthDone
<1> QED
  BY <1>1, <1>2, <1>3, MsgStepKeeps DEF EthDone

(* A task without a lookup sends a request.                                *)
LEMMA SendStepKeeps ==
    ASSUME NetworkInv, EthKeeps', frames' = frames, Rest', NoneAsks, UNCHANGED <<arp, udpVars, sent>>,
           NEW t \in Task, job'[t].at # "asked", NEW s \in Server, NEW m, Fits(s, m),
           MsgSend(t, s, m)
    PROVE  NetworkInv'
<1>1. MsgsInv' /\ MoreFrames
  BY InvParts, SendKeeps DEF NoneAsks, MoreFrames
<1> QED
  BY <1>1, MsgStepKeeps

LEMMA EthNotifyKeeps ==
    ASSUME NetworkInv, EthNotify
    PROVE  NetworkInv'
<1>0. MsgsInv /\ EthKeeps /\ Rest
  BY InvParts
<1>1. EthKeeps' /\ frames' = frames /\ Rest' /\ NoneAsks
  BY <1>0, EthUnchanged, RestUnchanged DEF EthNotify
<1> DEFINE m == [code |-> "NOTIFY"]
<1>2. Fits(Ethrx, m)
  BY DEF Fits
<1> HIDE DEF m
<1>3. EthNotifier \in Task /\ Ethrx \in Server /\ job'[EthNotifier].at # "asked"
  <2>1. job' = job
    BY DEF EthNotify, appVars
  <2> QED
    BY <1>0, <2>1, TaskAre, NoJobs DEF Rest
<1>4. MsgSend(EthNotifier, Ethrx, m) /\ UNCHANGED <<arp, udpVars, sent>>
  BY DEF EthNotify, m
<1> QED
  BY <1>1, <1>2, <1>3, <1>4, SendStepKeeps

LEMMA EthReceiveKeeps ==
    ASSUME NetworkInv, EthReceive
    PROVE  NetworkInv'
<1>0. MsgsInv /\ EthKeeps /\ Rest
  BY InvParts
<1>1. MoreFrames /\ frames' = frames /\ EthKeeps'
  BY <1>0 DEF EthReceive, MoreFrames, EthKeeps
<1>2. Rest' /\ NoneAsks
  BY <1>0, RestUnchanged DEF EthReceive
<1>3. Ethrx \in Server /\ Incoming(Ethrx) /\ Serve(Ethrx, Reply(Ethrx, 0))
  BY TaskAre DEF EthReceive
<1>4. Request(Ethrx).code # "QUERY"
  BY <1>0, <1>3, RequestFits, NetworkAssumption DEF Fits
<1>5. MsgsInv'
  BY <1>0, <1>1, <1>2, <1>3, <1>4, ServesOne
<1> QED
  BY <1>1, <1>2, <1>5, MsgStepKeeps DEF EthReceive

LEMMA EthDispatchKeeps ==
    ASSUME NetworkInv, EthDispatch
    PROVE  NetworkInv'
<1> DEFINE k == Head(rxfifo)
           to == Destination(frames[k])
<1>0. MsgsInv /\ EthKeeps /\ Rest
  BY InvParts
<1>1. /\ rxfifo # <<>> /\ rxfifo \in Seq(DOMAIN frames) /\ frames \in Seq(Frame)
      /\ rxfifo' = Tail(rxfifo) /\ UNCHANGED <<frames, rsfl, ethpc, waiting>>
      /\ UNCHANGED <<arp, udpVars, appVars, sent>>
  BY <1>0 DEF EthDispatch, EthKeeps
<1>2. k \in DOMAIN frames /\ rxfifo' \in Seq(DOMAIN frames)
  BY <1>1
<1>3. frames[k] \in Frame
  BY <1>1, <1>2
<1>4. EthKeeps' /\ MoreFrames
  BY <1>0, <1>1, <1>2 DEF EthKeeps, MoreFrames
<1>5. Rest' /\ NoneAsks
  BY <1>0, <1>1, RestUnchanged
<1>6. IF to = Nobody THEN UNCHANGED msgVars
      ELSE MsgSend(Ethrx, to, [code |-> "DISPATCH", pkt |-> k])
  BY DEF EthDispatch
<1> HIDE DEF k
<1>7. CASE to = Nobody
  <2>1. MsgsInv'
    BY <1>0, <1>4, <1>5, <1>6, <1>7, MsgsSame
  <2> QED
    BY <1>1, <1>4, <1>5, <2>1, MsgStepKeeps
<1>8. CASE to # Nobody
  <2>1. \/ frames[k].type = "ARP" /\ to = Arp
        \/ frames[k].type = "ICMP" /\ to = Icmp
        \/ frames[k].type = "UDP" /\ to = Udprx
    BY <1>3, <1>8, FrameAssumption DEF Destination
  <2> HIDE DEF to
  <2> DEFINE m == [code |-> "DISPATCH", pkt |-> k]
  <2>2. m.code = "DISPATCH" /\ m.pkt = k
    OBVIOUS
  <2>3. MsgSend(Ethrx, to, m)
    BY <1>6, <1>8
  <2> HIDE DEF m
  <2>4. to \in Server /\ Fits(to, m)
    BY <1>2, <2>1, <2>2, TaskAre DEF Fits, PacketFor
  <2>5. Ethrx \in Task /\ job'[Ethrx].at # "asked"
    <3>1. job' = job
      BY <1>1 DEF appVars
    <3> QED
      BY <1>0, <3>1, TaskAre, NoJobs DEF Rest
  <2> QED
    BY <1>1, <1>4, <1>5, <2>3, <2>4, <2>5, SendStepKeeps
<1> QED
  BY <1>7, <1>8

-----------------------------------------------------------------------------
(* ICMP and ARP.                                                           *)

(* A server that answers at once, and may transmit a frame.                *)
LEMMA ServeStepKeeps ==
    ASSUME NetworkInv, NEW s \in Server, Incoming(s), NEW st \in Int, Serve(s, Reply(s, st)),
           Request(s).code = "QUERY" => st = EARP_PENDING \/ Announced(Request(s).addr, st),
           UNCHANGED <<ethVars, udpVars, appVars>>, ArpInv',
           NEW x, sent' = sent \/ Transmit(x), x.type # "UDP"
    PROVE  NetworkInv'
<1>0. MsgsInv /\ EthKeeps /\ Rest /\ UdpInv /\ MacsAnnounced
  BY InvParts
<1>1. EthKeeps' /\ frames' = frames /\ MoreFrames
  BY <1>0, EthUnchanged
<1>2. Rest' /\ NoneAsks
  BY <1>0, RestUnchanged
<1>3. MsgsInv'
  BY <1>0, <1>1, <1>2, ServesOne
<1>4. UdpInv'
  BY <1>0, <1>1, UdpUnchanged
<1>5. MacsAnnounced'
  BY <1>0, <1>1, SentKeeps
<1> QED
  BY <1>1, <1>2, <1>3, <1>4, <1>5 DEF NetworkInv, TasksInv, MsgsInv, Rest

LEMMA IcmpServeKeeps ==
    ASSUME NetworkInv, IcmpServe
    PROVE  NetworkInv'
<1> DEFINE x == EchoReply(Packet(Icmp))
<1>0. EthKeeps /\ ArpInv
  BY InvParts
<1>1. /\ Icmp \in Server /\ Incoming(Icmp) /\ Request(Icmp).code # "QUERY"
      /\ Serve(Icmp, Reply(Icmp, 0)) /\ UNCHANGED <<ethVars, arp, udpVars, appVars>>
      /\ sent' = sent \/ Transmit(x)
  BY TaskAre DEF IcmpServe, Receives
<1>2. x.type # "UDP"
  BY DEF EchoReply
<1> HIDE DEF x
<1>3. ArpInv'
  BY <1>0, <1>1, EthUnchanged, ArpUnchanged
<1> QED
  BY <1>1, <1>2, <1>3, ServeStepKeeps

LEMMA ArpQueryKeeps ==
    ASSUME NetworkInv, ArpQuery
    PROVE  NetworkInv'
<1> DEFINE addr == Request(Arp).addr
           mac  == ArpTables!KnownMac(arp, addr)
           x    == ArpRequest(addr)
           st   == IF mac = 0 THEN EARP_PENDING ELSE mac
<1>0. MsgsInv /\ EthKeeps /\ ArpInv
  BY InvParts
<1>1. /\ Arp \in Server /\ Incoming(Arp) /\ Request(Arp).code = "QUERY"
      /\ UNCHANGED <<ethVars, arp, udpVars, appVars>>
      /\ sent' = sent \/ Transmit(x)
  BY TaskAre DEF ArpQuery, Receives
<1>2. Serve(Arp, Reply(Arp, st))
  BY DEF ArpQuery
<1>3. x.type # "UDP"
  BY DEF ArpRequest
<1>4. addr \in Ip
  BY <1>0, <1>1, RequestFits, NetworkAssumption DEF Fits
<1> HIDE DEF addr, x
<1>5. mac \in Int /\ (mac # 0 => Announced(addr, mac))
  BY <1>0, <1>4, KnownAnnounced
<1> HIDE DEF mac
<1>6. st \in Int /\ (st = EARP_PENDING \/ Announced(addr, st))
  BY <1>5 DEF EARP_PENDING
<1> HIDE DEF st
<1>7. ArpInv'
  BY <1>0, <1>1, EthUnchanged, ArpUnchanged
<1>8. Request(Arp).code = "QUERY" => st = EARP_PENDING \/ Announced(Request(Arp).addr, st)
  BY <1>6 DEF addr
<1> QED
  BY <1>1, <1>2, <1>3, <1>6, <1>7, <1>8, ServeStepKeeps

LEMMA ArpDispatchKeeps ==
    ASSUME NetworkInv, ArpDispatch
    PROVE  NetworkInv'
<1> DEFINE pkt == Request(Arp).pkt
           p   == Packet(Arp)
           x   == ArpReply(p.spa, p.sha)
<1>0. MsgsInv /\ EthKeeps /\ ArpInv
  BY InvParts
<1>1. /\ Arp \in Server /\ Incoming(Arp) /\ Request(Arp).code = "DISPATCH"
      /\ UNCHANGED <<ethVars, udpVars, appVars>>
  BY TaskAre DEF ArpDispatch, Receives
<1>2. PacketFor(Arp, pkt)
  BY <1>0, <1>1, RequestFits, NetworkAssumption DEF Fits
<1>3. /\ pkt \in DOMAIN frames /\ frames[pkt].type = "ARP" /\ p = frames[pkt]
  <2>1. Arp # Icmp /\ Arp # Udprx
    BY NetworkAssumption
  <2> QED
    BY <1>2, <2>1 DEF PacketFor, Packet
<1>4. frames[pkt] \in Frame
  BY <1>0, <1>3 DEF EthKeeps
<1>5. p.spa \in Ip /\ p.sha \in Int
  BY <1>3, <1>4, FrameAssumption
<1>6. Announced(p.spa, p.sha)
  BY <1>3 DEF Announced
<1>7. x.type # "UDP"
  BY DEF ArpReply
<1>8. \/ /\ crashed' = TRUE
         /\ UNCHANGED <<phase, msg, status, inbox, tids, arp, sent>>
      \/ /\ ~ArpTables!NoPlace(arp, p.spa)
         /\ Serve(Arp, Reply(Arp, 0))
         /\ arp' = ArpTables!ArpserverStore(arp, p.spa, p.sha)
         /\ sent' = sent \/ Transmit(x)
  BY DEF ArpDispatch, Ends
<1> HIDE DEF p, x
<1>9. CASE crashed' = TRUE /\ UNCHANGED <<phase, msg, status, inbox, tids, arp, sent>>
  BY <1>1, <1>9, CrashKeeps
<1>10. CASE /\ ~ArpTables!NoPlace(arp, p.spa)
            /\ Serve(Arp, Reply(Arp, 0))
            /\ arp' = ArpTables!ArpserverStore(arp, p.spa, p.sha)
            /\ sent' = sent \/ Transmit(x)
  <2> DEFINE n == ArpTables!ArpserverStore(arp, p.spa, p.sha)
  <2>1. ArpKeeps(n) /\ PlacesOwn(n) /\ EntriesAnnounced(n)
    BY <1>0, <1>5, <1>6, <1>10, StoreKeeps DEF ArpInv
  <2>2. arp' = n
    BY <1>10
  <2> HIDE DEF n
  <2>3. frames' = frames
    BY <1>1 DEF ethVars
  <2>4. ArpInv'
    BY <2>1, <2>2, <2>3 DEF ArpInv, ArpKeeps, PlacesOwn, EntriesAnnounced, ActiveAt, Announced
  <2> QED
    BY <1>1, <1>7, <1>10, <2>4, ServeStepKeeps
<1> QED
  BY <1>8, <1>9, <1>10

-----------------------------------------------------------------------------
(* send_udp.                                                               *)

LEMMA JobIs ==
    ASSUME JobsKeep, NEW t \in Task, job[t].at \in {"ask", "asked"}
    PROVE  /\ job[t] \in [at : {"ask", "asked"}, addr : Ip, count : Nat]
           /\ Sends(t)
BY DEF JobsKeep, Job, NoJob

LEMMA ResolvedIs ==
    ASSUME NEW addr \in Ip
    PROVE  Resolved(addr) \in Ip
BY NetworkAssumption DEF Resolved

(* A task takes the next step of its send_udp.                             *)
LEMMA JobStep ==
    ASSUME JobsKeep, ConKeeps, ProgramsLeft, NEW t \in Task, Sends(t), NEW j \in Job,
           j.at = "sent" => t = ConTx, job[ConTx] # NoJob \/ t # ConTx,
           job' = [job EXCEPT ![t] = j], UNCHANGED <<chq, tidq, contid, todo>>
    PROVE  Rest' /\ job'[t] = j /\ \A u \in Task \ {t} : job'[u] = job[u]
<1>1. job' \in [Task -> Job] /\ job'[t] = j /\ \A u \in Task \ {t} : job'[u] = job[u]
  BY DEF JobsKeep
<1>2. JobsKeep'
  BY <1>1 DEF JobsKeep, Sends
<1>3. ConKeeps'
  BY <1>1, TaskAre DEF ConKeeps
<1>4. ProgramsLeft'
  BY DEF ProgramsLeft
<1> QED
  BY <1>1, <1>2, <1>3, <1>4 DEF Rest

LEMMA LookupKeeps ==
    ASSUME NetworkInv, NEW t \in App \cup {ConTx}, Lookup(t)
    PROVE  NetworkInv'
<1> DEFINE a == Resolved(job[t].addr)
           m == [code |-> "QUERY", addr |-> a]
           j == [at |-> "asked", addr |-> job[t].addr, count |-> job[t].count]
<1>0. MsgsInv /\ EthKeeps /\ Rest
  BY InvParts
<1>1. /\ t \in Task /\ Sends(t) /\ job[t].at = "ask" /\ MsgSend(t, Arp, m) /\ Arp \in Server
      /\ UNCHANGED <<ethVars, arp, udpVars, chq, tidq, contid, upc, spawned, todo, sent>>
  BY TaskAre DEF Lookup, Sends
<1>2. job[t] \in [at : {"ask", "asked"}, addr : Ip, count : Nat]
  BY <1>0, <1>1, JobIs DEF Rest
<1>3. job[t].addr \in Ip /\ j \in Job /\ j.at = "asked" /\ j.addr = job[t].addr
  BY <1>2 DEF Job
<1>4. job' = [job EXCEPT ![t] = j]
  <2>1. job' = [job EXCEPT ![t] = [job[t] EXCEPT !.at = "asked"]]
    BY DEF Lookup
  <2>2. [job[t] EXCEPT !.at = "asked"] = j
    BY <1>2
  <2> QED
    BY <2>1, <2>2
<1>5. job[ConTx] # NoJob \/ t # ConTx
  BY <1>1 DEF NoJob
<1> HIDE DEF j
<1>6. Rest' /\ job'[t] = j /\ \A u \in Task \ {t} : job'[u] = job[u]
  BY <1>0, <1>1, <1>3, <1>4, <1>5, JobStep DEF Rest
<1>7. a \in Ip
  BY <1>3, ResolvedIs
<1>8. m.code = "QUERY" /\ m.addr = a
  OBVIOUS
<1>9. a = Resolved(job'[t].addr)
  BY <1>3, <1>6 DEF Resolved
<1> HIDE DEF a, m
<1>10. Fits(Arp, m)
  BY <1>7, <1>8 DEF Fits
<1>11. EthKeeps' /\ frames' = frames /\ MoreFrames
  BY <1>0, <1>1, EthUnchanged
<1>12. MsgsInv'
  BY <1>0, <1>1, <1>6, <1>8, <1>9, <1>10, <1>11, SendKeeps
<1> QED
  BY <1>1, <1>6, <1>11, <1>12, MsgStepKeeps

LEMMA LookedUpKeeps ==
    ASSUME NetworkInv, NEW t \in App \cup {ConTx}, LookedUp(t)
    PROVE  NetworkInv'
<1> DEFINE slept == Slept(job[t])
           over  == IF t = ConTx THEN [at |-> "sent"] ELSE NoJob
           x     == Datagram(job[t].addr, status[t])
<1>0. MsgsInv /\ EthKeeps /\ Rest /\ ArpInv /\ UdpInv /\ MacsAnnounced
  BY InvParts
<1>1. /\ t \in Task /\ Sends(t) /\ job[t].at = "asked" /\ phase[t] = "ready"
      /\ UNCHANGED <<ethVars, arp, udpVars, chq, tidq, contid, todo>>
  BY TaskAre DEF LookedUp, Sends
<1>2. job[t] \in [at : {"ask", "asked"}, addr : Ip, count : Nat]
  BY <1>0, <1>1, JobIs DEF Rest
<1>3. \/ job' = [job EXCEPT ![t] = slept] /\ UNCHANGED sent /\ UNCHANGED msgVars
      \/ Return(t, EARP_TIMEOUT) /\ UNCHANGED sent
      \/ status[t] # EARP_PENDING /\ (\E ret \in TxStatus : Return(t, ret)) /\ Transmit(x)
  BY DEF LookedUp
<1>4. slept \in Job /\ slept.at = "ask"
  <2> DEFINE r == job[t]
             n == r.count + 1
  <2>1. slept = [r EXCEPT !.at = "ask", !.count = @ + 1]
    BY DEF Slept
  <2>2. slept = [r EXCEPT !.at = "ask", !.count = n]
    BY <2>1
  <2>3. r.addr \in Ip /\ n \in Nat
    BY <1>2
  <2> HIDE DEF slept, n
  <2>4. r = [at |-> r.at, addr |-> r.addr, count |-> r.count]
    BY <1>2
  <2> HIDE DEF r
  <2>5. slept = [at |-> "ask", addr |-> r.addr, count |-> n]
    BY <2>2, <2>4
  <2> QED
    BY <2>3, <2>5 DEF Job
<1>5. over \in Job /\ over.at # "asked" /\ (over.at = "sent" => t = ConTx)
  BY DEF Job, NoJob
<1>6. job[ConTx] # NoJob \/ t # ConTx
  BY <1>1 DEF NoJob
<1>7. x.type = "UDP" /\ x.addr = job[t].addr /\ x.mac = status[t]
  BY DEF Datagram
<1>8. status[t] # EARP_PENDING => Announced(Resolved(job[t].addr), status[t])
  BY <1>0, <1>1 DEF MsgsInv, Asked
<1>9. EARP_TIMEOUT \in Int /\ TxStatus \subseteq Int
  BY DEF EARP_TIMEOUT, TxStatus, EINVAL, TX_ERROR
<1>10. ASSUME NEW ret, Return(t, ret)
       PROVE  /\ status' = [status EXCEPT ![t] = ret]
              /\ UNCHANGED <<phase, msg, inbox, tids, crashed>>
              /\ job' = [job EXCEPT ![t] = over]
  BY <1>10 DEF Return
<1>11. \/ UNCHANGED msgVars /\ job' = [job EXCEPT ![t] = slept]
       \/ /\ \E ret \in Int : status' = [status EXCEPT ![t] = ret]
          /\ UNCHANGED <<phase, msg, inbox, tids, crashed>>
          /\ job' = [job EXCEPT ![t] = over]
  BY <1>3, <1>9, <1>10
<1> HIDE DEF slept, over, x
<1>12. PICK j \in Job : /\ job' = [job EXCEPT ![t] = j]
                        /\ j.at # "asked" /\ (j.at = "sent" => t = ConTx)
  BY <1>4, <1>5, <1>11
<1>13. Rest' /\ job'[t] = j /\ \A u \in Task \ {t} : job'[u] = job[u]
  BY <1>0, <1>1, <1>6, <1>12, JobStep DEF Rest
<1>14. NoneAsks /\ \A u \in Task : job'[u].at = "asked" => job'[u] = job[u] /\ u # t
  BY <1>12, <1>13 DEF NoneAsks
<1>15. EthKeeps' /\ frames' = frames /\ MoreFrames
  BY <1>0, <1>1, EthUnchanged
<1>16. MsgsInv'
  <2>1. CASE UNCHANGED msgVars
    BY <1>0, <1>14, <1>15, <2>1, MsgsSame
  <2>2. CASE /\ \E ret \in Int : status' = [status EXCEPT ![t] = ret]
             /\ UNCHANGED <<phase, msg, inbox, tids, crashed>>
    <3>1. PICK ret \in Int : status' = [status EXCEPT ![t] = ret]
      BY <2>2
    <3> QED
      BY <1>0, <1>1, <1>14, <1>15, <2>2, <3>1, ReturnKeeps
  <2> QED
    BY <1>11, <2>1, <2>2
<1>17. ArpInv' /\ UdpInv'
  BY <1>0, <1>1, <1>15, ArpUnchanged, UdpUnchanged
<1>18. MacsAnnounced'
  <2>1. CASE UNCHANGED sent
    <3>1. [type |-> "NONE"].type # "UDP"
      OBVIOUS
    <3> QED
      BY <1>0, <1>15, <2>1, <3>1, SentKeeps
  <2>2. CASE status[t] # EARP_PENDING /\ Transmit(x)
    <3>1. Announced(Resolved(x.addr), x.mac)
      BY <1>7, <1>8, <2>2
    <3> QED
      BY <1>0, <1>15, <2>2, <3>1, SentKeeps
  <2> QED
    BY <1>3, <2>1, <2>2
<1> QED
  BY <1>13, <1>15, <1>16, <1>17, <1>18 DEF NetworkInv, TasksInv, MsgsInv, Rest

LEMMA ConTxReceiveKeeps ==
    ASSUME NetworkInv, ConTxReceive
    PROVE  NetworkInv'
<1> DEFINE j == SendUdp(Gateway)
<1>0. MsgsInv /\ EthKeeps /\ Rest
  BY InvParts
<1>1. /\ ConTx \in Server /\ ConTx \in Task /\ Sends(ConTx) /\ Incoming(ConTx)
      /\ Request(ConTx).code # "QUERY" /\ Serve(ConTx, NoReply)
      /\ contid' = Tid(ConTx) /\ job' = [job EXCEPT ![ConTx] = j]
      /\ UNCHANGED <<ethVars, arp, udpVars, chq, tidq, todo, sent>>
  BY TaskAre DEF ConTxReceive, Receives, Sends
<1>2. j \in Job /\ j.at = "ask"
  BY NetworkAssumption DEF SendUdp, Job
<1> HIDE DEF j
<1>3. job' \in [Task -> Job] /\ job'[ConTx] = j /\ \A u \in Task \ {ConTx} : job'[u] = job[u]
  BY <1>0, <1>1, <1>2 DEF Rest, JobsKeep
<1>4. JobsKeep'
  BY <1>0, <1>1, <1>2, <1>3 DEF Rest, JobsKeep, Sends
<1>5. NoneAsks
  BY <1>2, <1>3 DEF NoneAsks
<1>6. EthKeeps' /\ frames' = frames /\ MoreFrames
  BY <1>0, <1>1, EthUnchanged
<1>7. MsgsInv' /\ Tid(ConTx) \in Fd
  BY <1>0, <1>1, <1>5, <1>6, ServesNone
<1>8. ConKeeps' /\ ProgramsLeft'
  BY <1>0, <1>1, <1>7 DEF Rest, ConKeeps, ProgramsLeft
<1> QED
  BY <1>1, <1>4, <1>6, <1>7, <1>8, MsgStepKeeps DEF Rest

LEMMA ConTxReplyKeeps ==
    ASSUME NetworkInv, ConTxReply
    PROVE  NetworkInv'
<1>0. MsgsInv /\ EthKeeps /\ Rest
  BY InvParts
<1>1. /\ ConTx \in Server /\ ConTx \in Task /\ job[ConTx].at = "sent"
      /\ MsgReply(ConTx, contid, status[ConTx])
      /\ contid' = NoTid /\ job' = [job EXCEPT ![ConTx] = NoJob]
      /\ UNCHANGED <<ethVars, arp, udpVars, chq, tidq, todo, sent>>
  BY TaskAre DEF ConTxReply
<1>2. job[ConTx] # NoJob /\ status[ConTx] \in Int
  BY <1>0, <1>1 DEF NoJob, MsgsInv, MsgInv, MsgTypeOK
<1>3. contid \in Fd
  BY <1>0, <1>2 DEF Rest, ConKeeps
<1>4. NoJob \in Job /\ NoJob.at = "none"
  BY DEF Job, NoJob
<1>5. job' \in [Task -> Job] /\ job'[ConTx] = NoJob /\ \A u \in Task \ {ConTx} : job'[u] = job[u]
  BY <1>0, <1>1, <1>4 DEF Rest, JobsKeep
<1>6. JobsKeep'
  BY <1>0, <1>4, <1>5 DEF Rest, JobsKeep, Sends
<1>7. NoneAsks
  BY <1>4, <1>5 DEF NoneAsks
<1>8. EthKeeps' /\ frames' = frames /\ MoreFrames
  BY <1>0, <1>1, EthUnchanged
<1>9. MsgsInv'
  BY <1>0, <1>1, <1>2, <1>3, <1>7, <1>8, LateReplyKeeps
<1>10. ConKeeps' /\ ProgramsLeft'
  BY <1>0, <1>1, <1>5 DEF Rest, ConKeeps, ProgramsLeft
<1> QED
  BY <1>1, <1>6, <1>8, <1>9, <1>10, MsgStepKeeps DEF Rest

-----------------------------------------------------------------------------
(* udprx_task.                                                             *)

LEMMA UdpStepKeeps ==
    ASSUME NetworkInv, MsgsInv', UdpInv', UNCHANGED <<ethVars, arp, appVars, sent>>
    PROVE  NetworkInv'
<1>0. MsgsInv /\ EthKeeps /\ Rest /\ ArpInv /\ MacsAnnounced
  BY InvParts
<1>1. EthKeeps' /\ frames' = frames /\ MoreFrames
  BY <1>0, EthUnchanged
<1>2. Rest' /\ NoneAsks
  BY <1>0, RestUnchanged
<1>3. ArpInv'
  BY <1>0, <1>1, ArpUnchanged
<1>4. MacsAnnounced'
  <2>1. [type |-> "NONE"].type # "UDP"
    OBVIOUS
  <2> QED
    BY <1>0, <1>1, <2>1, SentKeeps
<1> QED
  BY <1>1, <1>2, <1>3, <1>4 DEF NetworkInv, TasksInv, MsgsInv, Rest

LEMMA UdpServesIs ==
    ASSUME NetworkInv, NEW code, code # "QUERY", UdpServe(code)
    PROVE  /\ Udprx \in Server /\ Incoming(Udprx) /\ Request(Udprx).code = code
           /\ UNCHANGED <<ethVars, arp, appVars, sent>> /\ frames' = frames /\ NoneAsks
           /\ MsgsInv /\ UdpInv /\ frames \in Seq(Frame) /\ MoreFrames
           /\ Fits(Udprx, Request(Udprx))
<1>0. MsgsInv /\ EthKeeps /\ Rest /\ UdpInv
  BY InvParts
<1>1. /\ Udprx \in Server /\ Incoming(Udprx) /\ Request(Udprx).code = code
      /\ UNCHANGED <<ethVars, arp, appVars, sent>>
  BY TaskAre DEF UdpServe, Receives
<1>2. NoneAsks
  BY <1>0, <1>1, RestUnchanged
<1>3. Fits(Udprx, Request(Udprx))
  BY <1>0, <1>1, RequestFits
<1>4. frames' = frames /\ MoreFrames
  BY <1>0, <1>1, EthUnchanged
<1> QED
  BY <1>0, <1>1, <1>2, <1>3, <1>4 DEF EthKeeps

LEMMA UdpReplyKeeps ==
    ASSUME NetworkInv, NEW code, code # "QUERY", UdpServe(code), NEW st \in Int, UdpReply(st)
    PROVE  MsgsInv'
<1>1. /\ Udprx \in Server /\ Incoming(Udprx) /\ Request(Udprx).code # "QUERY"
      /\ frames' = frames /\ NoneAsks /\ MsgsInv
  BY UdpServesIs
<1>2. Serve(Udprx, Reply(Udprx, st))
  BY DEF UdpReply
<1> QED
  BY <1>1, <1>2, ServesOne

(* A request that changes no port.                                         *)
LEMMA UdpRefuseKeeps ==
    ASSUME NetworkInv, NEW code, code # "QUERY", UdpServe(code), NEW st \in Int, UdpReply(st),
           UNCHANGED <<portmap, free_head, bufs, hist>>
    PROVE  NetworkInv'
<1>1. MsgsInv'
  BY UdpReplyKeeps
<1>2. UdpInv /\ MoreFrames /\ UNCHANGED <<ethVars, arp, appVars, sent>>
  BY UdpServesIs
<1>3. UdpInv'
  BY <1>2, UdpUnchanged DEF udpVars
<1> QED
  BY <1>1, <1>2, <1>3, UdpStepKeeps

LEMMA UdpOutOfFdsKeeps ==
    ASSUME NetworkInv, UdpOutOfFds
    PROVE  NetworkInv'
BY CrashKeeps DEF UdpOutOfFds, OutOfFds

LEMMA PortAsked ==
    ASSUME NetworkInv, NEW code \in {"BIND", "REQ", "RELEASE"}, UdpServe(code)
    PROVE  Request(Udprx).port \in Port
<1>1. Fits(Udprx, Request(Udprx)) /\ Request(Udprx).code = code
  BY UdpServesIs
<1> QED
  BY <1>1, NetworkAssumption DEF Fits

LEMMA PacketHere ==
    ASSUME NetworkInv, UdpServe("DISPATCH"), NEW pkt, pkt = Request(Udprx).pkt
    PROVE  /\ frames[pkt].port \in Port /\ frames[pkt].size \in Nat \ {0} /\ pkt \in Nat
<1>1. Fits(Udprx, Request(Udprx)) /\ Request(Udprx).code = "DISPATCH" /\ frames \in Seq(Frame)
  BY UdpServesIs
<1>2. PacketFor(Udprx, pkt)
  BY <1>1, NetworkAssumption DEF Fits
<1>3. Udprx # Arp /\ Udprx # Icmp
  BY NetworkAssumption
<1>4. pkt \in DOMAIN frames /\ frames[pkt].type = "UDP"
  BY <1>2, <1>3 DEF PacketFor
<1>5. frames[pkt] \in Frame /\ pkt \in Nat
  BY <1>1, <1>4
<1> QED
  BY <1>4, <1>5, FrameAssumption

(* Assignments to a field of a buffer.                                     *)
RingSet(bs, b, x, new) == new = [bs EXCEPT ![b].ring = x]
TidSet(bs, b, x, new) == new = [bs EXCEPT ![b].tid = x]

LEMMA BufFields ==
    ASSUME NEW bs, NEW b, IsBuf(bs[b]), NEW x, NEW new
    PROVE  /\ RingSet(bs, b, x, new) => new = [bs EXCEPT ![b] = [ring |-> x, tid |-> bs[b].tid]]
           /\ TidSet(bs, b, x, new) => new = [bs EXCEPT ![b] = [ring |-> bs[b].ring, tid |-> x]]
<1> DEFINE r == bs[b]
<1>1. /\ RingSet(bs, b, x, new) => new = [bs EXCEPT ![b] = [r EXCEPT !.ring = x]]
      /\ TidSet(bs, b, x, new) => new = [bs EXCEPT ![b] = [r EXCEPT !.tid = x]]
  BY DEF RingSet, TidSet
<1>2. r = [ring |-> r.ring, tid |-> r.tid]
  BY DEF IsBuf
<1> HIDE DEF r
<1>3. [r EXCEPT !.ring = x] = [ring |-> x, tid |-> r.tid]
  BY <1>2
<1>4. [r EXCEPT !.tid = x] = [ring |-> r.ring, tid |-> x]
  BY <1>2
<1> QED
  BY <1>1, <1>3, <1>4 DEF r

LEMMA BufWith ==
    ASSUME NEW r, IsRing(r), NEW fd \in Fd \cup {NoTid}
    PROVE  LET nb == [ring |-> r, tid |-> fd] IN IsBuf(nb) /\ nb.ring = r /\ nb.tid = fd
BY DEF IsBuf

(* The buffer that serves a port, as a request finds it.                   *)
LEMMA BufFound ==
    ASSUME UdpInv, NEW p \in Port, NEW b \in BufsOf(p)
    PROVE  /\ b \in Nat /\ Bound(portmap, p, b) /\ IsBuf(bufs[b])
           /\ IsRing(bufs[b].ring) /\ bufs[b].tid \in Fd \cup {NoTid}
           /\ hist \in [Port -> HistType] /\ hist[p] \in HistType
           /\ PortHolds(bufs[b], hist[p])
<1>1. b \in Nat /\ Bound(portmap, p, b)
  BY BufIs DEF UdpInv
<1>2. IsBuf(bufs[b]) /\ hist[p] \in HistType /\ PortHolds(bufs[b], hist[p])
  BY <1>1, BoundBuf
<1>3. bufs[b].tid \in Fd \cup {NoTid} /\ IsRing(bufs[b].ring)
  BY <1>2 DEF IsBuf
<1> QED
  BY <1>1, <1>2, <1>3 DEF UdpInv, BufsKeep

LEMMA UdpEndsKeeps ==
    ASSUME NetworkInv, NEW code, code # "QUERY", UdpServe(code), Ends,
           UNCHANGED <<portmap, free_head, bufs, hist>>
    PROVE  NetworkInv'
<1>1. UNCHANGED <<ethVars, arp, appVars, sent>>
  BY UdpServesIs
<1> QED
  BY <1>1, CrashKeeps DEF Ends, udpVars

LEMMA UdpDispatchKeeps ==
    ASSUME NetworkInv, UdpDispatch
    PROVE  NetworkInv'
<1> DEFINE pkt  == Request(Udprx).pkt
           port == frames[pkt].port
           size == frames[pkt].size
           With(b) == Ring!Stored(bufs[b].ring, pkt, size)
           Hist(b) == Came(hist[port], bufs[b].ring, pkt, size)
<1>1. UdpServe("DISPATCH") /\ UNCHANGED <<portmap, free_head>>
  BY DEF UdpDispatch
<1>2. port \in Port /\ size \in Nat \ {0} /\ pkt \in Nat
  BY <1>1, PacketHere
<1>3. /\ Udprx \in Server /\ Incoming(Udprx) /\ Request(Udprx).code = "DISPATCH"
      /\ UNCHANGED <<ethVars, arp, appVars, sent>> /\ frames' = frames /\ NoneAsks
      /\ MsgsInv /\ UdpInv
  BY <1>1, UdpServesIs
<1>4. \/ UdpReply(0) /\ UNCHANGED <<bufs, hist>>
      \/ Ends /\ UNCHANGED <<bufs, hist>>
      \/ \E b \in BufsOf(port) : \E ring \in {With(b)}, h \in {Hist(b)} :
            \/ /\ bufs[b].tid = NoTid \/ Ring!Empty(ring)
               /\ UdpReply(0)
               /\ bufs' = [bufs EXCEPT ![b].ring = ring]
               /\ hist' = [hist EXCEPT ![port] = h]
            \/ /\ bufs[b].tid # NoTid /\ ~Ring!Empty(ring) /\ ~Ring!Popped(ring).lost
               /\ Serve(Udprx, [fd \in {Tid(Udprx), bufs[b].tid} |->
                     IF fd = Tid(Udprx) THEN 0 ELSE Ring!PopPkt(ring)])
               /\ bufs' = [bufs EXCEPT ![b] = [ring |-> Ring!Popped(ring), tid |-> NoTid]]
               /\ hist' = [hist EXCEPT ![port] = Given(h, Ring!PopPkt(ring))]
  BY DEF UdpDispatch
<1> HIDE DEF pkt, port, size
<1>5. CASE UdpReply(0) /\ UNCHANGED <<bufs, hist>>
  BY <1>1, <1>5, UdpRefuseKeeps
<1>6. CASE Ends /\ UNCHANGED <<bufs, hist>>
  BY <1>1, <1>6, UdpEndsKeeps
<1>7. ASSUME NEW b \in BufsOf(port)
      PROVE  /\ b \in Nat /\ Bound(portmap, port, b) /\ IsBuf(bufs[b])
             /\ bufs[b].tid \in Fd \cup {NoTid}
             /\ IsRing(With(b)) /\ Hist(b) \in HistType /\ RingHolds(With(b), Hist(b))
  <2>1. /\ b \in Nat /\ Bound(portmap, port, b) /\ IsBuf(bufs[b])
        /\ IsRing(bufs[b].ring) /\ bufs[b].tid \in Fd \cup {NoTid}
        /\ hist[port] \in HistType /\ PortHolds(bufs[b], hist[port])
    BY <1>2, <1>3, BufFound
  <2>2. RingHolds(bufs[b].ring, hist[port])
    BY <2>1 DEF PortHolds
  <2> QED
    BY <1>2, <2>1, <2>2, CameHolds
<1> HIDE DEF With, Hist
<1>8. ASSUME NEW b \in BufsOf(port), bufs[b].tid = NoTid \/ Ring!Empty(With(b)), UdpReply(0),
             bufs' = [bufs EXCEPT ![b].ring = With(b)], hist' = [hist EXCEPT ![port] = Hist(b)]
      PROVE  NetworkInv'
  <2> DEFINE fd == bufs[b].tid
             nb == [ring |-> With(b), tid |-> fd]
  <2>1. bufs' = [bufs EXCEPT ![b] = nb]
    <3>1. RingSet(bufs, b, With(b), bufs')
      BY <1>8 DEF RingSet
    <3> QED
      BY <1>7, <3>1, BufFields
  <2>2. fd \in Fd \cup {NoTid} /\ (fd # NoTid => Ring!Empty(With(b)))
    BY <1>7, <1>8
  <2> HIDE DEF fd
  <2>3. IsBuf(nb) /\ nb.ring = With(b) /\ nb.tid = fd
    BY <1>7, <2>2, BufWith
  <2> HIDE DEF nb
  <2>4. PortHolds(nb, Hist(b))
    BY <1>7, <2>2, <2>3 DEF PortHolds
  <2>5. UdpInv'
    BY <1>1, <1>2, <1>3, <1>7, <1>8, <2>1, <2>3, <2>4, PortKeeps
  <2>6. MsgsInv'
    BY <1>1, <1>8, UdpReplyKeeps
  <2> QED
    BY <1>3, <2>5, <2>6, UdpStepKeeps
<1>9. ASSUME NEW b \in BufsOf(port), bufs[b].tid # NoTid,
             ~Ring!Empty(With(b)), ~Ring!Popped(With(b)).lost,
             Serve(Udprx, [fd \in {Tid(Udprx), bufs[b].tid} |->
                     IF fd = Tid(Udprx) THEN 0 ELSE Ring!PopPkt(With(b))]),
             bufs' = [bufs EXCEPT ![b] = [ring |-> Ring!Popped(With(b)), tid |-> NoTid]],
             hist' = [hist EXCEPT ![port] = Given(Hist(b), Ring!PopPkt(With(b)))]
      PROVE  NetworkInv'
  <2> DEFINE out == Ring!PopPkt(With(b))
             rest == Ring!Popped(With(b))
             nb == [ring |-> rest, tid |-> NoTid]
             nh == Given(Hist(b), out)
             rs == [fd \in {Tid(Udprx), bufs[b].tid} |-> IF fd = Tid(Udprx) THEN 0 ELSE out]
  <2>1. IsRing(rest) /\ out \in Nat /\ nh \in HistType /\ RingHolds(rest, nh)
    BY <1>7, <1>9, GivenHolds
  <2>2. bufs' = [bufs EXCEPT ![b] = nb] /\ hist' = [hist EXCEPT ![port] = nh]
    BY <1>9
  <2>3. Serve(Udprx, rs)
    BY <1>9
  <2> HIDE DEF rest, nh, out
  <2>4. IsBuf(nb) /\ nb.ring = rest /\ nb.tid = NoTid
    BY <2>1, BufWith
  <2> HIDE DEF nb
  <2>5. PortHolds(nb, nh)
    BY <2>1, <2>4 DEF PortHolds
  <2>6. UdpInv'
    BY <1>1, <1>2, <1>3, <1>7, <2>1, <2>2, <2>4, <2>5, PortKeeps
  <2>7. Tid(Udprx) \in Fd
    BY <2>3, TidIsFree DEF Serve
  <2>8. bufs[b].tid \in Fd /\ out \in Int
    BY <1>7, <1>9, <2>1
  <2>9. DOMAIN rs \subseteq Fd /\ \A f \in DOMAIN rs : rs[f] \in Int
    BY <2>7, <2>8
  <2> HIDE DEF rs
  <2>10. AnswersQuery(Udprx, rs)
    BY <1>3 DEF AnswersQuery
  <2>11. MsgsInv'
    BY <1>3, <2>3, <2>9, <2>10, AnswerKeeps
  <2> QED
    BY <1>3, <2>6, <2>11, UdpStepKeeps
<1> QED
  BY <1>4, <1>5, <1>6, <1>8, <1>9

LEMMA UdpReqKeeps ==
    ASSUME NetworkInv, UdpReq
    PROVE  NetworkInv'
<1> DEFINE port == Request(Udprx).port
<1>1. UdpServe("REQ") /\ UNCHANGED <<portmap, free_head>>
  BY DEF UdpReq
<1>2. port \in Port
  BY <1>1, PortAsked
<1>3. /\ Udprx \in Server /\ Incoming(Udprx) /\ Request(Udprx).code = "REQ"
      /\ UNCHANGED <<ethVars, arp, appVars, sent>> /\ frames' = frames /\ NoneAsks
      /\ MsgsInv /\ UdpInv
  BY <1>1, UdpServesIs
<1>4. \/ (UdpReply(ENOENT) \/ UdpReply(EBUSY)) /\ UNCHANGED <<bufs, hist>>
      \/ Ends /\ UNCHANGED <<bufs, hist>>
      \/ \E b \in BufsOf(port) :
            \/ /\ ~Ring!Empty(bufs[b].ring) /\ ~Ring!Popped(bufs[b].ring).lost
               /\ bufs[b].tid = NoTid
               /\ UdpReply(Ring!PopPkt(bufs[b].ring))
               /\ bufs' = [bufs EXCEPT ![b].ring = Ring!Popped(bufs[b].ring)]
               /\ hist' = [hist EXCEPT ![port] = Given(@, Ring!PopPkt(bufs[b].ring))]
            \/ /\ Ring!Empty(bufs[b].ring)
               /\ Serve(Udprx, NoReply)
               /\ bufs' = [bufs EXCEPT ![b].tid = Tid(Udprx)]
               /\ UNCHANGED hist
  BY DEF UdpReq
<1> HIDE DEF port
<1>5. CASE (UdpReply(ENOENT) \/ UdpReply(EBUSY)) /\ UNCHANGED <<bufs, hist>>
  <2>1. ENOENT \in Int /\ EBUSY \in Int
    BY DEF ENOENT, EBUSY
  <2> QED
    BY <1>1, <1>5, <2>1, UdpRefuseKeeps
<1>6. CASE Ends /\ UNCHANGED <<bufs, hist>>
  BY <1>1, <1>6, UdpEndsKeeps
<1>7. ASSUME NEW b \in BufsOf(port)
      PROVE  /\ b \in Nat /\ Bound(portmap, port, b) /\ IsBuf(bufs[b])
             /\ IsRing(bufs[b].ring) /\ bufs[b].tid \in Fd \cup {NoTid}
             /\ hist \in [Port -> HistType] /\ hist[port] \in HistType
             /\ PortHolds(bufs[b], hist[port]) /\ RingHolds(bufs[b].ring, hist[port])
  <2>1. /\ b \in Nat /\ Bound(portmap, port, b) /\ IsBuf(bufs[b])
        /\ IsRing(bufs[b].ring) /\ bufs[b].tid \in Fd \cup {NoTid}
        /\ hist \in [Port -> HistType] /\ hist[port] \in HistType
        /\ PortHolds(bufs[b], hist[port])
    BY <1>2, <1>3, BufFound
  <2> QED
    BY <2>1 DEF PortHolds
<1>8. ASSUME NEW b \in BufsOf(port), bufs[b].tid = NoTid,
             ~Ring!Empty(bufs[b].ring), ~Ring!Popped(bufs[b].ring).lost,
             UdpReply(Ring!PopPkt(bufs[b].ring)),
             bufs' = [bufs EXCEPT ![b].ring = Ring!Popped(bufs[b].ring)],
             hist' = [hist EXCEPT ![port] = Given(@, Ring!PopPkt(bufs[b].ring))]
      PROVE  NetworkInv'
  <2> DEFINE out == Ring!PopPkt(bufs[b].ring)
             rest == Ring!Popped(bufs[b].ring)
             nb == [ring |-> rest, tid |-> NoTid]
             nh == Given(hist[port], out)
  <2>1. IsRing(rest) /\ out \in Nat /\ nh \in HistType /\ RingHolds(rest, nh)
    BY <1>7, <1>8, GivenHolds
  <2>2. hist' = [hist EXCEPT ![port] = nh]
    BY <1>8
  <2>3. bufs' = [bufs EXCEPT ![b] = nb]
    <3>1. RingSet(bufs, b, rest, bufs')
      BY <1>8 DEF RingSet
    <3> HIDE DEF rest
    <3>2. bufs' = [bufs EXCEPT ![b] = [ring |-> rest, tid |-> bufs[b].tid]]
      BY <1>7, <3>1, BufFields
    <3> QED
      BY <1>8, <3>2
  <2>4. UdpReply(out)
    BY <1>8
  <2> HIDE DEF rest, nh, out
  <2>5. IsBuf(nb) /\ nb.ring = rest /\ nb.tid = NoTid
    BY <2>1, BufWith
  <2> HIDE DEF nb
  <2>6. PortHolds(nb, nh)
    BY <2>1, <2>5 DEF PortHolds
  <2>7. UdpInv'
    BY <1>1, <1>2, <1>3, <1>7, <2>1, <2>2, <2>3, <2>5, <2>6, PortKeeps
  <2>8. MsgsInv'
    BY <1>1, <2>1, <2>4, UdpReplyKeeps
  <2> QED
    BY <1>3, <2>7, <2>8, UdpStepKeeps
<1>9. ASSUME NEW b \in BufsOf(port), Ring!Empty(bufs[b].ring),
             Serve(Udprx, NoReply), bufs' = [bufs EXCEPT ![b].tid = Tid(Udprx)], UNCHANGED hist
      PROVE  NetworkInv'
  <2> DEFINE fd == Tid(Udprx)
             r == bufs[b].ring
             nb == [ring |-> r, tid |-> fd]
             h == hist[port]
  <2>1. MsgsInv' /\ fd \in Fd
    BY <1>3, <1>9, ServesNone
  <2>2. TidSet(bufs, b, fd, bufs')
    BY <1>9 DEF TidSet
  <2>3. hist' = [hist EXCEPT ![port] = h]
    BY <1>2, <1>7, <1>9
  <2> HIDE DEF fd
  <2>4. bufs' = [bufs EXCEPT ![b] = nb]
    BY <1>7, <2>2, BufFields
  <2>5. IsRing(r) /\ Ring!Empty(r) /\ RingHolds(r, h) /\ h \in HistType
    BY <1>7, <1>9
  <2> HIDE DEF r, h
  <2>6. IsBuf(nb) /\ nb.ring = r
    BY <2>1, <2>5, BufWith
  <2> HIDE DEF nb
  <2>7. PortHolds(nb, h)
    BY <2>5, <2>6 DEF PortHolds
  <2>8. UdpInv'
    BY <1>1, <1>2, <1>3, <1>7, <2>3, <2>4, <2>5, <2>6, <2>7, PortKeeps
  <2> QED
    BY <1>3, <2>1, <2>8, UdpStepKeeps
<1> QED
  BY <1>4, <1>5, <1>6, <1>8, <1>9

(* No port has a buffer that is free, or not there yet.                    *)
LEMMA UdpBindKeeps ==
    ASSUME NetworkInv, UdpBind
    PROVE  NetworkInv'
<1> DEFINE port == Request(Udprx).port
           idx == Portmap!HashtableReserve(portmap, port)
<1>1. UdpServe("BIND")
  BY DEF UdpBind
<1>2. port \in Port
  BY <1>1, PortAsked
<1>3. /\ UNCHANGED <<ethVars, arp, appVars, sent>> /\ frames' = frames /\ UdpInv
  BY <1>1, UdpServesIs
<1>4. \/ (UdpReply(ENOMEM) \/ UdpReply(EEXIST)) /\ UNCHANGED udpVars
      \/ /\ idx # Portmap!HT_NOKEY /\ ~Portmap!Active(portmap, idx) /\ UdpReply(0)
         /\ hist' = [hist EXCEPT ![port] = NewHist]
         /\ \/ /\ free_head # <<>>
               /\ free_head' = Tail(free_head)
               /\ bufs' = [bufs EXCEPT ![Head(free_head)] =
                                          NewBuf(bufs[Head(free_head)].ring)]
               /\ portmap' = Portmap!Activate(portmap, idx, port, Head(free_head))
            \/ /\ free_head = <<>>
               /\ bufs' = Append(bufs, NewBuf(Ring!EmptyRing))
               /\ portmap' = Portmap!Activate(portmap, idx, port, Len(bufs) + 1)
               /\ UNCHANGED free_head
  BY DEF UdpBind
<1> HIDE DEF port, idx
<1>5. CASE (UdpReply(ENOMEM) \/ UdpReply(EEXIST)) /\ UNCHANGED udpVars
  <2>1. ENOMEM \in Int /\ EEXIST \in Int
    BY DEF ENOMEM, EEXIST
  <2> QED
    BY <1>1, <1>5, <2>1, UdpRefuseKeeps DEF udpVars
<1>6. ASSUME idx # Portmap!HT_NOKEY, ~Portmap!Active(portmap, idx), NEW b \in Nat,
             portmap' = Portmap!Activate(portmap, idx, port, b)
      PROVE  /\ PortTable(portmap')
             /\ \A c : ~Bound(portmap, port, c)
             /\ \A q, c : Bound(portmap', q, c) <=> Bound(portmap, q, c) \/ (q = port /\ c = b)
  BY <1>2, <1>3, <1>6, BindAdds DEF idx, UdpInv
<1>7. /\ IsSeq(bufs) /\ (\A c \in DOMAIN bufs : IsBuf(bufs[c])) /\ free_head \in Seq(DOMAIN bufs)
      /\ \A i, j \in DOMAIN free_head : free_head[i] = free_head[j] => i = j
      /\ \A q \in Port, c \in Nat : Bound(portmap, q, c) =>
            c \in DOMAIN bufs /\ \A i \in DOMAIN free_head : free_head[i] # c
  BY <1>3 DEF UdpInv, BufsKeep, BufsOwn
<1>8. DOMAIN bufs = 1 .. Len(bufs) /\ Len(bufs) \in Nat
  BY <1>7, SeqOfAny
<1>9. ASSUME idx # Portmap!HT_NOKEY, ~Portmap!Active(portmap, idx),
             hist' = [hist EXCEPT ![port] = NewHist], free_head # <<>>,
             free_head' = Tail(free_head),
             bufs' = [bufs EXCEPT ![Head(free_head)] = NewBuf(bufs[Head(free_head)].ring)],
             portmap' = Portmap!Activate(portmap, idx, port, Head(free_head))
      PROVE  UdpInv'
  <2> DEFINE b == Head(free_head)
             r == bufs[b].ring
  <2>0. b \in DOMAIN bufs /\ b = free_head[1] /\ 1 \in DOMAIN free_head
    BY <1>7, <1>9
  <2>1. b \in DOMAIN bufs /\ b \in Nat /\ b = free_head[1] /\ 1 \in DOMAIN free_head
    BY <1>8, <2>0
  <2>2. /\ PortTable(portmap')
        /\ \A c : ~Bound(portmap, port, c)
        /\ \A q, c : Bound(portmap', q, c) <=> Bound(portmap, q, c) \/ (q = port /\ c = b)
    BY <1>6, <1>9, <2>1
  <2>3. \A q \in Port : ~Bound(portmap, q, b)
    BY <1>7, <2>1
  <2>4. \A i \in DOMAIN free_head' : i + 1 \in DOMAIN free_head /\ free_head'[i] = free_head[i + 1]
    BY <1>7, <1>9
  <2>5. /\ free_head' \in Seq(DOMAIN bufs)
        /\ DOMAIN free_head \subseteq Nat /\ DOMAIN free_head' \subseteq Nat \ {0}
    BY <1>7, <1>9
  <2>6. bufs' = [bufs EXCEPT ![b] = NewBuf(r)] /\ IsRing(r)
    BY <1>7, <1>9, <2>1 DEF IsBuf
  <2> HIDE DEF b, r
  <2>7. /\ IsSeq(bufs') /\ DOMAIN bufs' = DOMAIN bufs /\ bufs'[b] = NewBuf(r)
        /\ \A c \in DOMAIN bufs : c # b => bufs'[c] = bufs[c]
    BY <1>7, <2>1, <2>6, SeqOfAny
  <2>8. \A i, j \in DOMAIN free_head' : free_head'[i] = free_head'[j] => i = j
    <3> SUFFICES ASSUME NEW i \in DOMAIN free_head', NEW j \in DOMAIN free_head',
                        free_head'[i] = free_head'[j]
                 PROVE  i = j
      OBVIOUS
    <3>1. i + 1 = j + 1
      BY <1>7, <2>4
    <3> QED
      BY <2>5, <3>1
  <2>9. \A i \in DOMAIN free_head' : /\ free_head'[i] # b
                                     /\ \E j \in DOMAIN free_head : free_head'[i] = free_head[j]
    <3> SUFFICES ASSUME NEW i \in DOMAIN free_head'
                 PROVE  free_head[i + 1] # b /\ i + 1 \in DOMAIN free_head
      BY <2>4
    <3>1. i + 1 # 1 /\ i + 1 \in DOMAIN free_head
      BY <2>4, <2>5
    <3> QED
      BY <1>7, <2>1, <3>1
  <2> QED
    BY <1>2, <1>3, <1>9, <2>1, <2>2, <2>3, <2>5, <2>6, <2>7, <2>8, <2>9, BindKeeps
<1>10. ASSUME idx # Portmap!HT_NOKEY, ~Portmap!Active(portmap, idx),
              hist' = [hist EXCEPT ![port] = NewHist], free_head = <<>>,
              bufs' = Append(bufs, NewBuf(Ring!EmptyRing)), UNCHANGED free_head,
              portmap' = Portmap!Activate(portmap, idx, port, Len(bufs) + 1)
       PROVE  UdpInv'
  <2> DEFINE b == Len(bufs) + 1
             r == Ring!EmptyRing
  <2>1. b \in Nat /\ b \notin DOMAIN bufs
    BY <1>8
  <2>2. /\ PortTable(portmap')
        /\ \A c : ~Bound(portmap, port, c)
        /\ \A q, c : Bound(portmap', q, c) <=> Bound(portmap, q, c) \/ (q = port /\ c = b)
    BY <1>6, <1>10, <2>1
  <2>3. \A q \in Port : ~Bound(portmap, q, b)
    BY <1>7, <2>1
  <2>a. bufs' = Append(bufs, NewBuf(r)) /\ IsRing(r)
    BY <1>10, EmptyIsRing
  <2> HIDE DEF r
  <2>b. /\ IsSeq(bufs') /\ DOMAIN bufs' = 1 .. b /\ bufs'[b] = NewBuf(r)
        /\ \A c \in DOMAIN bufs : bufs'[c] = bufs[c]
    BY <1>7, <2>a, SeqOfAny
  <2>4. /\ DOMAIN bufs \subseteq DOMAIN bufs' /\ b \in DOMAIN bufs'
        /\ \A c \in DOMAIN bufs' : c # b => c \in DOMAIN bufs /\ bufs'[c] = bufs[c]
    BY <1>8, <2>b
  <2>5. free_head' \in Seq(DOMAIN bufs') /\ DOMAIN free_head' = {}
    BY <1>7, <1>10, <2>4
  <2> HIDE DEF b
  <2> QED
    BY <1>2, <1>3, <1>10, <2>1, <2>2, <2>3, <2>a, <2>b, <2>4, <2>5, BindKeeps
<1>11. CASE UdpReply(0) /\ UdpInv'
  <2>1. MsgsInv'
    BY <1>1, <1>11, UdpReplyKeeps
  <2> QED
    BY <1>3, <1>11, <2>1, UdpStepKeeps
<1> QED
  BY <1>4, <1>5, <1>9, <1>10, <1>11

LEMMA UdpReleaseKeeps ==
    ASSUME NetworkInv, UdpRelease
    PROVE  NetworkInv'
<1> DEFINE port == Request(Udprx).port
<1>1. UdpServe("RELEASE") /\ UNCHANGED <<bufs, hist>>
  BY DEF UdpRelease
<1>2. port \in Port
  BY <1>1, PortAsked
<1>3. /\ UNCHANGED <<ethVars, arp, appVars, sent>> /\ frames' = frames /\ UdpInv
  BY <1>1, UdpServesIs
<1>4. \/ (UdpReply(ENOENT) \/ UdpReply(EBUSY)) /\ UNCHANGED <<portmap, free_head>>
      \/ \E b \in BufsOf(port) : /\ UdpReply(0)
                                 /\ free_head' = <<b>> \o free_head
                                 /\ portmap' = Portmap!Delete(portmap, PortIdx(port))
  BY DEF UdpRelease
<1> HIDE DEF port
<1>5. CASE (UdpReply(ENOENT) \/ UdpReply(EBUSY)) /\ UNCHANGED <<portmap, free_head>>
  <2>1. ENOENT \in Int /\ EBUSY \in Int
    BY DEF ENOENT, EBUSY
  <2> QED
    BY <1>1, <1>5, <2>1, UdpRefuseKeeps
<1>6. ASSUME NEW b \in BufsOf(port), UdpReply(0), free_head' = <<b>> \o free_head,
             portmap' = Portmap!Delete(portmap, PortIdx(port))
      PROVE  NetworkInv'
  <2>1. b \in Nat /\ Bound(portmap, port, b)
    BY <1>2, <1>3, <1>6, BufFound
  <2>2. /\ PortTable(portmap')
        /\ \A q, c : Bound(portmap', q, c) <=> Bound(portmap, q, c) /\ q # port
    BY <1>2, <1>3, <1>6, ReleaseRemoves DEF UdpInv
  <2>3. UdpInv'
    BY <1>1, <1>2, <1>3, <1>6, <2>1, <2>2, ReleaseKeeps
  <2>4. MsgsInv'
    BY <1>1, <1>6, UdpReplyKeeps
  <2> QED
    BY <1>3, <2>3, <2>4, UdpStepKeeps
<1> QED
  BY <1>4, <1>5, <1>6

-----------------------------------------------------------------------------
(* udpconrx_task.                                                          *)

LEMMA DeliverKeeps ==
    ASSUME NetworkInv, NEW code, code # "QUERY", ConRxServe(code),
           NEW q \in Seq(Fd), Len(q) <= RX_TIDS_MAX, NEW c \in Seq(Int), Len(c) <= RX_BUF_MAX,
           NEW others, DOMAIN others \subseteq Fd, \A f \in DOMAIN others : others[f] \in Int,
           Deliver(q, c, others)
    PROVE  NetworkInv'
<1> DEFINE n == Delivered(q, c)
           rs == [fd \in {q[i] : i \in 1 .. n} \cup DOMAIN others |->
                     IF \E i \in 1 .. n : q[i] = fd
                     THEN c[CHOOSE i \in 1 .. n : q[i] = fd] ELSE others[fd]]
<1>0. MsgsInv /\ EthKeeps /\ Rest
  BY InvParts
<1>1. /\ ConRx \in Server /\ Incoming(ConRx) /\ Request(ConRx).code = code
      /\ UNCHANGED <<ethVars, arp, udpVars, job, contid, upc, spawned, todo, sent>>
  BY TaskAre DEF ConRxServe, Receives
<1>2. /\ Serve(ConRx, rs)
      /\ tidq' = SubSeq(q, n + 1, Len(q)) /\ chq' = SubSeq(c, n + 1, Len(c))
  BY DEF Deliver
<1>3. n \in Nat /\ n <= Len(q) /\ n <= Len(c)
  BY DEF Delivered
<1> HIDE DEF n
<1>4. \A i \in 1 .. n : q[i] \in Fd /\ c[i] \in Int
  BY <1>3
<1>5. DOMAIN rs \subseteq Fd
  BY <1>4
<1>6. \A f \in DOMAIN rs : rs[f] \in Int
  <2> SUFFICES ASSUME NEW f \in DOMAIN rs
               PROVE  rs[f] \in Int
    OBVIOUS
  <2>1. CASE \E i \in 1 .. n : q[i] = f
    <3> DEFINE k == CHOOSE i \in 1 .. n : q[i] = f
    <3>1. k \in 1 .. n
      BY <2>1
    <3>2. rs[f] = c[k]
      BY <2>1
    <3> HIDE DEF k
    <3> QED
      BY <1>4, <3>1, <3>2
  <2>2. CASE ~\E i \in 1 .. n : q[i] = f
    BY <2>2
  <2> QED
    BY <2>1, <2>2
<1> HIDE DEF rs
<1>7. AnswersQuery(ConRx, rs)
  BY <1>1 DEF AnswersQuery
<1>8. EthKeeps' /\ frames' = frames /\ MoreFrames
  BY <1>0, <1>1, EthUnchanged
<1>9. NoneAsks /\ JobsKeep' /\ ProgramsLeft'
  BY <1>0, <1>1 DEF Rest, NoneAsks, JobsKeep, ProgramsLeft
<1>10. MsgsInv'
  BY <1>0, <1>1, <1>2, <1>5, <1>6, <1>7, <1>8, <1>9, AnswerKeeps
<1>11. /\ tidq' \in Seq(Fd) /\ Len(tidq') <= RX_TIDS_MAX
       /\ chq' \in Seq(Int) /\ Len(chq') <= RX_BUF_MAX
  <2>1. /\ tidq' \in Seq(Fd) /\ Len(tidq') = Len(q) - n
        /\ chq' \in Seq(Int) /\ Len(chq') = Len(c) - n
    BY <1>2, <1>3
  <2>2. {RX_TIDS_MAX, RX_BUF_MAX} \subseteq Nat
    BY SizeAssumption
  <2> QED
    BY <1>3, <2>1, <2>2
<1>12. ConKeeps'
  BY <1>0, <1>1, <1>11 DEF Rest, ConKeeps
<1> QED
  BY <1>1, <1>8, <1>9, <1>10, <1>12, MsgStepKeeps DEF Rest

LEMMA PushedKeeps ==
    ASSUME NEW c \in Seq(Int), Len(c) <= RX_BUF_MAX, NEW pkt \in Int
    PROVE  Pushed(c, pkt) \in Seq(Int) /\ Len(Pushed(c, pkt)) <= RX_BUF_MAX
<1>1. RX_BUF_MAX \in Nat \ {0}
  BY SizeAssumption
<1>2. CASE Len(c) < RX_BUF_MAX
  BY <1>1, <1>2 DEF Pushed
<1>3. CASE ~(Len(c) < RX_BUF_MAX)
  <2>1. Tail(c) \in Seq(Int) /\ Len(Tail(c)) = Len(c) - 1
    BY <1>1, <1>3
  <2>2. Pushed(c, pkt) = Append(Tail(c), pkt)
    BY <1>3 DEF Pushed
  <2> QED
    BY <1>1, <2>1, <2>2
<1> QED
  BY <1>2, <1>3

LEMMA ConRxNotifyKeeps ==
    ASSUME NetworkInv, ConRxNotify
    PROVE  NetworkInv'
<1> DEFINE pkt == Request(ConRx).pkt
           c == Pushed(chq, pkt)
           r == Reply(ConRx, 0)
<1>0. MsgsInv /\ Rest
  BY InvParts
<1>1. ConRxServe("NOTIFY") /\ Deliver(tidq, c, r)
  BY DEF ConRxNotify
<1>2. ConRx \in Server /\ Incoming(ConRx) /\ Request(ConRx).code = "NOTIFY"
  BY <1>1, TaskAre DEF ConRxServe, Receives
<1>3. pkt \in Int
  BY <1>0, <1>2, RequestFits, NetworkAssumption DEF Fits
<1>4. c \in Seq(Int) /\ Len(c) <= RX_BUF_MAX
  BY <1>0, <1>3, PushedKeeps DEF Rest, ConKeeps
<1>5. DOMAIN r \subseteq Fd /\ \A f \in DOMAIN r : r[f] \in Int
  <2>1. Tid(ConRx) \in Fd
    BY <1>1, TidIsFree DEF Deliver, Serve
  <2> QED
    BY <2>1 DEF Reply
<1> HIDE DEF c, r
<1> QED
  BY <1>0, <1>1, <1>4, <1>5, DeliverKeeps DEF Rest, ConKeeps

LEMMA ConRxGetcharKeeps ==
    ASSUME NetworkInv, ConRxGetchar
    PROVE  NetworkInv'
<1>0. MsgsInv /\ EthKeeps /\ Rest
  BY InvParts
<1>1. ConRxServe("GETCHAR")
  BY DEF ConRxGetchar
<1>2. CASE Serve(ConRx, Reply(ConRx, ENOMEM)) /\ UNCHANGED <<chq, tidq>>
  <2>1. /\ ConRx \in Server /\ Incoming(ConRx) /\ Request(ConRx).code # "QUERY"
        /\ UNCHANGED <<ethVars, arp, udpVars, job, contid, todo, sent>>
    BY <1>1, TaskAre DEF ConRxServe, Receives
  <2>2. EthKeeps' /\ frames' = frames /\ MoreFrames
    BY <1>0, <2>1, EthUnchanged
  <2>3. Rest' /\ NoneAsks
    BY <1>0, <1>2, <2>1, AppUnchanged DEF Rest
  <2>4. ENOMEM \in Int
    BY DEF ENOMEM
  <2>5. MsgsInv'
    BY <1>0, <1>2, <2>1, <2>2, <2>3, <2>4, ServesOne
  <2> QED
    BY <2>1, <2>2, <2>3, <2>5, MsgStepKeeps
<1>3. CASE Len(tidq) < RX_TIDS_MAX /\ Deliver(Append(tidq, Tid(ConRx)), chq, NoReply)
  <2> DEFINE r == NoReply
             q == Append(tidq, Tid(ConRx))
  <2>1. DOMAIN r = {}
    BY DEF NoReply
  <2>2. Deliver(q, chq, r)
    BY <1>3
  <2>3. Tid(ConRx) \in Fd
    BY <1>3, TidIsFree DEF Deliver, Serve
  <2>4. /\ chq \in Seq(Int) /\ Len(chq) <= RX_BUF_MAX
        /\ tidq \in Seq(Fd) /\ RX_TIDS_MAX \in Nat
    BY <1>0, SizeAssumption DEF Rest, ConKeeps
  <2>5. q \in Seq(Fd) /\ Len(q) <= RX_TIDS_MAX
    BY <1>3, <2>3, <2>4
  <2> HIDE DEF r, q
  <2> QED
    BY <1>1, <2>1, <2>2, <2>4, <2>5, DeliverKeeps
<1> QED
  BY <1>2, <1>3 DEF ConRxGetchar

-----------------------------------------------------------------------------
(* The clients of ports, and programs.                                     *)

LEMMA UserStepIs ==
    ASSUME NetworkInv, NEW u \in PortUser, UserStep(u)
    PROVE  /\ u \in Task /\ ~Sends(u) /\ PortOf(u) \in Port /\ status[u] \in Int
           /\ EthKeeps' /\ frames' = frames /\ MoreFrames /\ Rest' /\ NoneAsks
           /\ UNCHANGED <<arp, udpVars, sent>> /\ job'[u].at # "asked"
           /\ Udprx \in Server /\ ConRx \in Server /\ MsgsInv
<1>0. MsgsInv /\ EthKeeps /\ Rest
  BY InvParts
<1>1. u \in Task /\ ~Sends(u) /\ Udprx \in Server /\ ConRx \in Server
  BY TaskAre DEF PortUser
<1>2. PortOf(u) \in Port
  BY NetworkAssumption DEF PortOf
<1>3. UNCHANGED <<ethVars, arp, udpVars, chq, tidq, job, contid, todo, sent>>
  BY DEF UserStep
<1>4. EthKeeps' /\ frames' = frames /\ MoreFrames
  BY <1>0, <1>3, EthUnchanged
<1>5. Rest' /\ NoneAsks
  BY <1>0, <1>3, AppUnchanged DEF Rest
<1>6. status[u] \in Int
  BY <1>0, <1>1 DEF MsgsInv, MsgInv, MsgTypeOK
<1>7. job'[u].at # "asked"
  BY <1>0, <1>1, <1>3, NoJobs DEF Rest
<1> QED
  BY <1>0, <1>1, <1>2, <1>3, <1>4, <1>5, <1>6, <1>7

LEMMA UserSendKeeps ==
    ASSUME NetworkInv, NEW u \in PortUser, UserStep(u), NEW s \in Server, NEW m, Fits(s, m),
           MsgSend(u, s, m)
    PROVE  NetworkInv'
BY UserStepIs, SendStepKeeps

LEMMA UserBindKeeps ==
    ASSUME NetworkInv, NEW u \in PortUser, UserBind(u)
    PROVE  NetworkInv'
<1> DEFINE m == [code |-> "BIND", port |-> PortOf(u)]
<1>1. UserStep(u) /\ MsgSend(u, Udprx, m)
  BY DEF UserBind
<1>2. PortOf(u) \in Port /\ Udprx \in Server
  BY <1>1, UserStepIs
<1>3. m.code = "BIND" /\ m.port \in Port
  BY <1>2
<1> HIDE DEF m
<1>4. Fits(Udprx, m)
  BY <1>3 DEF Fits
<1> QED
  BY <1>1, <1>2, <1>4, UserSendKeeps

LEMMA UserWaitKeeps ==
    ASSUME NetworkInv, NEW u \in PortUser, UserWait(u)
    PROVE  NetworkInv'
<1> DEFINE m == [code |-> "REQ", port |-> PortOf(u)]
<1>1. UserStep(u) /\ MsgSend(u, Udprx, m)
  BY DEF UserWait
<1>2. PortOf(u) \in Port /\ Udprx \in Server
  BY <1>1, UserStepIs
<1>3. m.code = "REQ" /\ m.port \in Port
  BY <1>2
<1> HIDE DEF m
<1>4. Fits(Udprx, m)
  BY <1>3 DEF Fits
<1> QED
  BY <1>1, <1>2, <1>4, UserSendKeeps

LEMMA ConNotifyKeeps ==
    ASSUME NetworkInv, ConNotify
    PROVE  NetworkInv'
<1> DEFINE m == [code |-> "NOTIFY", pkt |-> status[ConNotifier]]
<1>1. UserStep(ConNotifier) /\ MsgSend(ConNotifier, ConRx, m) /\ ConNotifier \in PortUser
  BY DEF ConNotify, PortUser
<1>2. status[ConNotifier] \in Int /\ ConRx \in Server
  BY <1>1, UserStepIs
<1>3. m.code = "NOTIFY" /\ m.pkt \in Int
  BY <1>2
<1> HIDE DEF m
<1>4. Fits(ConRx, m)
  BY <1>3 DEF Fits
<1> QED
  BY <1>1, <1>2, <1>4, UserSendKeeps

LEMMA GenesisSpawnKeeps ==
    ASSUME NetworkInv, GenesisSpawn
    PROVE  NetworkInv'
<1>1. UserStep(Genesis) /\ Genesis \in PortUser /\ UNCHANGED msgVars
  BY DEF GenesisSpawn, PortUser
<1>2. /\ EthKeeps' /\ frames' = frames /\ MoreFrames /\ Rest' /\ NoneAsks
      /\ UNCHANGED <<arp, udpVars, sent>> /\ MsgsInv
  BY <1>1, UserStepIs
<1>3. MsgsInv'
  BY <1>1, <1>2, MsgsSame
<1> QED
  BY <1>2, <1>3, MsgStepKeeps

(* The calls of a program, one after the other.                            *)
LEMMA TailOfProgram ==
    ASSUME NEW q, ProgramOf(q), q # <<>>
    PROVE  ProgramOf(Tail(q)) /\ Head(q) \in Call \cup {ASSERTNOERR}
<1>1. /\ q \in Seq(Call \cup {ASSERTNOERR})
      /\ \A i \in DOMAIN q : i > 1 /\ q[i] = ASSERTNOERR => q[i - 1] # ASSERTNOERR
  BY DEF ProgramOf
<1> HIDE DEF ASSERTNOERR
<1> DEFINE z == Tail(q)
<1>2. /\ z \in Seq(Call \cup {ASSERTNOERR}) /\ Head(q) \in Call \cup {ASSERTNOERR}
      /\ DOMAIN z \subseteq Nat \ {0}
      /\ \A i \in DOMAIN z : i + 1 \in DOMAIN q /\ z[i] = q[i + 1]
  BY <1>1
<1> HIDE DEF z
<1>3. ASSUME NEW i \in DOMAIN z, i > 1, z[i] = ASSERTNOERR
      PROVE  z[i - 1] # ASSERTNOERR
  <2>1. i - 1 \in DOMAIN z /\ i - 1 + 1 = i
    <3>1. DOMAIN z = 1 .. Len(z) /\ Len(z) \in Nat
      BY <1>2
    <3> QED
      BY <1>2, <1>3, <3>1
  <2>2. z[i - 1] = q[i]
    BY <1>2, <2>1
  <2>3. i + 1 \in DOMAIN q /\ q[i + 1] = ASSERTNOERR /\ i + 1 > 1 /\ (i + 1) - 1 = i
    BY <1>2, <1>3
  <2>4. q[(i + 1) - 1] # ASSERTNOERR
    BY <1>1, <2>3
  <2> QED
    BY <2>2, <2>3, <2>4
<1> QED
  BY <1>2, <1>3 DEF ProgramOf, z

LEMMA LeftIs ==
    ASSUME NEW t, ProgramOf(todo[t]), Left(t) # <<>>
    PROVE  Head(Left(t)) \in Call /\ ProgramOf(Tail(Left(t)))
<1> DEFINE q == todo[t]
<1>1. ProgramOf(q)
  OBVIOUS
<1>2. \/ q # <<>> /\ Head(q) # ASSERTNOERR /\ Left(t) = q
      \/ q # <<>> /\ Head(q) = ASSERTNOERR /\ Left(t) = Tail(q)
  BY DEF Left
<1> HIDE DEF q
<1>3. CASE q # <<>> /\ Head(q) # ASSERTNOERR /\ Left(t) = q
  BY <1>1, <1>3, TailOfProgram
<1>4. CASE q # <<>> /\ Head(q) = ASSERTNOERR /\ Left(t) = Tail(q)
  <2>1. ProgramOf(Tail(q))
    BY <1>1, <1>4, TailOfProgram
  <2>2. Head(Tail(q)) \in Call \cup {ASSERTNOERR} /\ ProgramOf(Tail(Tail(q)))
    BY <1>4, <2>1, TailOfProgram
  <2>3. Head(Tail(q)) # ASSERTNOERR
    <3>1. q \in Seq(Call \cup {ASSERTNOERR}) /\ q # <<>> /\ Tail(q) # <<>>
      BY <1>1, <1>4 DEF ProgramOf
    <3> DEFINE S == Call \cup {ASSERTNOERR}
    <3> HIDE DEF S
    <3>2. 2 \in DOMAIN q /\ q[2] = Head(Tail(q)) /\ q[1] = Head(q) /\ 2 - 1 = 1
      <4>1. q \in Seq(S)
        BY <3>1 DEF S
      <4>2. Len(q) \in Nat /\ Len(q) > 1
        <5> DEFINE z == Tail(q)
        <5>1. z \in Seq(S) /\ Len(z) = Len(q) - 1 /\ Len(q) \in Nat \ {0} /\ z # <<>>
          BY <3>1, <4>1
        <5> HIDE DEF z
        <5>2. Len(z) # 0
          BY <5>1
        <5> QED
          BY <5>1, <5>2
      <4>3. 2 \in DOMAIN q /\ q[1] = Head(q)
        BY <4>1, <4>2
      <4> DEFINE z == Tail(q)
      <4>4. z \in Seq(S) /\ Len(z) = Len(q) - 1 /\ \A i \in DOMAIN z : z[i] = q[i + 1]
        BY <3>1, <4>1
      <4> HIDE DEF z
      <4>5. Len(z) \in Nat /\ Len(z) > 0 /\ DOMAIN z = 1 .. Len(z)
        <5>1. Len(z) \in Nat /\ DOMAIN z = 1 .. Len(z)
          BY <4>4
        <5> QED
          BY <4>2, <4>4, <5>1
      <4>7. 1 \in DOMAIN z /\ 1 + 1 = 2
        BY <4>5
      <4>8. Head(z) = z[1]
        BY <4>4, <4>5
      <4>6. Head(z) = q[2]
        BY <4>4, <4>7, <4>8
      <4> QED
        BY <4>3, <4>6 DEF z
    <3>3. q[2] = ASSERTNOERR => q[1] # ASSERTNOERR
      <4>1. \A i \in DOMAIN q : i > 1 /\ q[i] = ASSERTNOERR => q[i - 1] # ASSERTNOERR
        BY <1>1 DEF ProgramOf
      <4>2. 2 \in DOMAIN q /\ 2 > 1 /\ 2 - 1 = 1
        BY <3>2
      <4> QED
        BY <4>1, <4>2
    <3> QED
      BY <1>4, <3>2, <3>3
  <2> QED
    BY <1>4, <2>2, <2>3
<1> QED
  BY <1>2, <1>3, <1>4

LEMMA AppCallIs ==
    ASSUME NetworkInv, NEW t \in App, AppCall(t)
    PROVE  /\ t \in Task /\ Sends(t) /\ t # ConTx /\ job[t] = NoJob /\ Head(Left(t)) \in Call
           /\ EthKeeps' /\ frames' = frames /\ MoreFrames /\ ProgramsLeft'
           /\ UNCHANGED <<arp, udpVars, sent>> /\ UNCHANGED <<chq, tidq, contid>>
           /\ MsgsInv /\ Rest
<1>0. MsgsInv /\ EthKeeps /\ Rest
  BY InvParts
<1>1. t \in Task /\ Sends(t) /\ t # ConTx
  BY TaskAre, NetworkAssumption DEF Sends
<1>2. /\ job[t] = NoJob /\ Left(t) # <<>> /\ todo' = [todo EXCEPT ![t] = Tail(Left(t))]
      /\ UNCHANGED <<ethVars, arp, udpVars, chq, tidq, contid, sent>>
  BY DEF AppCall
<1>3. EthKeeps' /\ frames' = frames /\ MoreFrames
  BY <1>0, <1>2, EthUnchanged
<1>4. todo \in [App -> Seq(Call \cup {ASSERTNOERR})] /\ \A u \in App : ProgramOf(todo[u])
  BY <1>0 DEF Rest, ProgramsLeft
<1>5. Head(Left(t)) \in Call /\ ProgramOf(Tail(Left(t)))
  BY <1>2, <1>4, LeftIs
<1>6. ProgramsLeft'
  <2> DEFINE z == Tail(Left(t))
  <2>1. z \in Seq(Call \cup {ASSERTNOERR}) /\ ProgramOf(z) /\ todo' = [todo EXCEPT ![t] = z]
    BY <1>2, <1>5 DEF ProgramOf
  <2> HIDE DEF z
  <2> DEFINE S == Seq(Call \cup {ASSERTNOERR})
  <2>2. todo \in [App -> S] /\ z \in S
    BY <1>4, <2>1
  <2> HIDE DEF S
  <2>3. todo' \in [App -> S] /\ \A u \in App : todo'[u] = (IF u = t THEN z ELSE todo[u])
    BY <2>1, <2>2
  <2> USE DEF S
  <2>4. \A u \in App : ProgramOf(todo'[u])
    BY <1>4, <2>1, <2>3
  <2> QED
    BY <2>3, <2>4 DEF ProgramsLeft, ProgramOf
<1> QED
  BY <1>0, <1>1, <1>2, <1>3, <1>5, <1>6

LEMMA CallFits ==
    ASSUME NEW c \in Call, c.code # "SEND"
    PROVE  ServerOf(c.code) \in Server /\ Fits(ServerOf(c.code), c)
<1>1. \/ c.code \in {"BIND", "REQ", "RELEASE"} /\ c.port \in Port
      \/ c.code \in {"WRITE", "GETCHAR"}
  BY DEF Call
<1>2. CASE c.code \in {"BIND", "REQ", "RELEASE"}
  <2>1. ServerOf(c.code) = Udprx /\ c.port \in Port
    BY <1>1, <1>2 DEF ServerOf
  <2> QED
    BY <1>2, <2>1, TaskAre DEF Fits
<1>3. CASE c.code = "WRITE"
  <2>1. ServerOf(c.code) = ConTx
    BY <1>3 DEF ServerOf
  <2> QED
    BY <1>3, <2>1, TaskAre DEF Fits
<1>4. CASE c.code = "GETCHAR"
  <2>1. ServerOf(c.code) = ConRx
    BY <1>4 DEF ServerOf
  <2> QED
    BY <1>4, <2>1, TaskAre DEF Fits
<1> QED
  BY <1>1, <1>2, <1>3, <1>4

LEMMA AppRequestKeeps ==
    ASSUME NetworkInv, NEW t \in App, AppRequest(t)
    PROVE  NetworkInv'
<1> DEFINE c == Head(Left(t))
<1>1. /\ AppCall(t) /\ c.code # "SEND" /\ MsgSend(t, ServerOf(c.code), c) /\ job' = job
  BY DEF AppRequest
<1>2. /\ t \in Task /\ job[t] = NoJob /\ c \in Call
      /\ EthKeeps' /\ frames' = frames /\ MoreFrames /\ ProgramsLeft'
      /\ UNCHANGED <<arp, udpVars, sent>> /\ UNCHANGED <<chq, tidq, contid>>
      /\ MsgsInv /\ Rest
  BY <1>1, AppCallIs
<1> HIDE DEF c
<1>3. ServerOf(c.code) \in Server /\ Fits(ServerOf(c.code), c)
  BY <1>1, <1>2, CallFits
<1>4. Rest' /\ NoneAsks
  BY <1>1, <1>2 DEF Rest, ConKeeps, JobsKeep, NoneAsks
<1>5. job'[t].at # "asked"
  BY <1>1, <1>2 DEF NoJob
<1> QED
  BY <1>1, <1>2, <1>3, <1>4, <1>5, SendStepKeeps

LEMMA AppSendKeeps ==
    ASSUME NetworkInv, NEW t \in App, AppSend(t)
    PROVE  NetworkInv'
<1> DEFINE c == Head(Left(t))
           j == SendUdp(c.addr)
<1>1. /\ AppCall(t) /\ c.code = "SEND" /\ job' = [job EXCEPT ![t] = j] /\ UNCHANGED msgVars
  BY DEF AppSend
<1>2. /\ t \in Task /\ Sends(t) /\ t # ConTx /\ job[t] = NoJob /\ c \in Call
      /\ EthKeeps' /\ frames' = frames /\ MoreFrames /\ ProgramsLeft'
      /\ UNCHANGED <<arp, udpVars, sent>> /\ UNCHANGED <<chq, tidq, contid>>
      /\ MsgsInv /\ Rest
  BY <1>1, AppCallIs
<1> HIDE DEF c
<1>3. c.addr \in Ip
  BY <1>1, <1>2 DEF Call
<1>4. j \in Job /\ j.at = "ask"
  BY <1>3 DEF SendUdp, Job
<1> HIDE DEF j
<1>5. job' \in [Task -> Job] /\ job'[t] = j /\ \A u \in Task \ {t} : job'[u] = job[u]
  BY <1>1, <1>2, <1>4 DEF Rest, JobsKeep
<1>6. JobsKeep' /\ NoneAsks
  BY <1>2, <1>4, <1>5 DEF Rest, JobsKeep, Sends, NoneAsks
<1>7. ConKeeps'
  BY <1>2, <1>5, TaskAre DEF Rest, ConKeeps
<1>8. MsgsInv'
  BY <1>1, <1>2, <1>6, MsgsSame
<1> QED
  BY <1>2, <1>6, <1>7, <1>8, MsgStepKeeps DEF Rest

-----------------------------------------------------------------------------
(* The invariant holds.                                                    *)

LEMMA InitKeepsTables ==
    ASSUME Init
    PROVE  ArpInv /\ UdpInv
<1>1. ArpInv
  <2> DEFINE table == IpT!EmptyTable
             cells == [i \in 0 .. (ARP_MAX - 1) |-> NoItem]
             queue == IpT!QueueOf(cells, ARP_MAX)
             macs == [i \in 0 .. (ARP_MAX - 1) |-> 0]
  <2>1. arp = [addrmap |-> table, ipq |-> queue, mac_arr |-> macs]
    BY SameAddrmap, SameIpq DEF Init, ArpTables!EmptyArp
  <2>2. table \in IpT!TableOf(Ip, 0 .. (ARP_MAX - 1)) /\ IpT!KeysOnce(table) /\ IpT!KeysReachable(table)
    BY IpSetting, IpT!EmptyHoldsNothing
  <2>3. \A i \in IpT!Place : ~IpT!Active(table, i)
    BY DEF IpT!EmptyTable, IpT!Active, IpT!Valid
  <2>4. queue \in IpT!Queue(Ip \cup {NoItem}, ARP_MAX) /\ IpT!Elements(queue) = <<>>
    <3>1. cells \in [0 .. ARP_MAX - 1 -> Ip \cup {NoItem}] /\ ARP_MAX \in Nat \ {0}
      BY IpSetting
    <3> HIDE DEF cells
    <3> QED
      BY <3>1, IpT!InitIsEmpty
  <2>5. macs \in [0 .. (ARP_MAX - 1) -> Int]
    OBVIOUS
  <2>6. <<>> \in Seq(Ip)
    OBVIOUS
  <2> HIDE DEF table, cells, queue, macs
  <2>7. arp.addrmap = table /\ arp.ipq = queue /\ arp.mac_arr = macs
    BY <2>1
  <2>8. ArpKeeps(arp)
    BY <2>1, <2>2, <2>4, <2>5, <2>6, <2>7 DEF ArpKeeps
  <2>9. \A i \in IpT!Place : ~ActiveAt(arp, i)
    BY <2>3, <2>7 DEF ActiveAt
  <2>10. PlacesOwn(arp) /\ EntriesAnnounced(arp)
    BY <2>9 DEF PlacesOwn, EntriesAnnounced
  <2> QED
    BY <2>8, <2>10 DEF ArpInv
<1>2. UdpInv
  <2>1. portmap = PortT!EmptyTable
    BY SamePortmap DEF Init
  <2>2. PortTable(portmap)
    BY <2>1, PortSetting, PortT!EmptyHoldsNothing DEF PortTable
  <2>3. \A p, b : ~Bound(portmap, p, b)
    BY <2>1 DEF Bound, PortT!EmptyTable, PortT!Active, PortT!Valid
  <2>4. NewHist \in HistType
    BY EmptyIsRing, NewHolds
  <2>5. bufs = <<>> /\ free_head = <<>> /\ hist = [p \in Port |-> NewHist]
    BY DEF Init
  <2>6. BufsKeep
    <3>1. \A S : <<>> \in Seq(S)
      OBVIOUS
    <3>2. IsSeq(bufs) /\ DOMAIN bufs = {} /\ free_head \in Seq(DOMAIN bufs)
      BY <2>5, <3>1 DEF IsSeq
    <3>3. hist \in [Port -> HistType]
      BY <2>4, <2>5
    <3> QED
      BY <3>2, <3>3 DEF BufsKeep
  <2>7. BufsOwn
    BY <2>3, <2>5 DEF BufsOwn
  <2>8. BufsHold
    BY <2>3 DEF BufsHold
  <2> QED
    BY <2>2, <2>6, <2>7, <2>8 DEF UdpInv
<1> QED
  BY <1>1, <1>2

LEMMA InitKeepsTasks ==
    ASSUME Init
    PROVE  TasksInv
<1>1. MsgInv
  BY MsgInitKeeps DEF Init
<1>2. \A S : <<>> \in Seq(S)
  OBVIOUS
<1>3. EthKeeps
  BY <1>2 DEF Init, EthKeeps
<1>4. job = [t \in Task |-> NoJob] /\ NoJob \in Job /\ NoJob.at = "none"
  BY DEF Init, Job, NoJob
<1>5. JobsKeep /\ Asked
  BY <1>4 DEF JobsKeep, Asked
<1>6. ConKeeps
  <2>1. {RX_BUF_MAX, RX_TIDS_MAX} \subseteq Nat /\ Len(<<>>) = 0
    BY SizeAssumption
  <2>2. job[ConTx] = NoJob
    BY <1>4, TaskAre
  <2> QED
    BY <1>2, <2>1, <2>2 DEF Init, ConKeeps
<1>7. ProgramsLeft
  <2>1. todo \in Programs
    BY DEF Init
  <2>2. todo \in [App -> Seq(Call \cup {ASSERTNOERR})]
    BY <2>1, ProgramAssumption
  <2>3. \A t \in App : \A i \in DOMAIN todo[t] :
           todo[t][i] = ASSERTNOERR => i > 1 /\ todo[t][i - 1] # ASSERTNOERR
    BY <2>1, ProgramAssumption
  <2>4. \A t \in App : ProgramOf(todo[t])
    BY <2>2, <2>3 DEF ProgramOf
  <2> QED
    BY <2>2, <2>4 DEF ProgramsLeft
<1>8. \A s \in Server : inbox[s] = <<>> /\ \A fd \in Fd : tids[s][fd] = Nobody
  BY DEF Init, MsgInit
<1>9. RequestsFit /\ QueriesAnswered
  BY <1>8 DEF RequestsFit, QueriesAnswered
<1> QED
  BY <1>1, <1>3, <1>5, <1>6, <1>7, <1>9 DEF TasksInv

LEMMA InitKeeps ==
    ASSUME Init
    PROVE  NetworkInv
<1>1. sent = {}
  BY DEF Init
<1> QED
  BY <1>1, InitKeepsTables, InitKeepsTasks DEF NetworkInv, MacsAnnounced

LEMMA StutterKeeps ==
    ASSUME NetworkInv, UNCHANGED vars
    PROVE  NetworkInv'
<1>0. MsgsInv /\ EthKeeps /\ Rest
  BY InvParts
<1>1. UNCHANGED <<ethVars, arp, udpVars, appVars, sent>> /\ UNCHANGED msgVars
  BY DEF vars
<1>2. EthKeeps' /\ frames' = frames /\ MoreFrames
  BY <1>0, <1>1, EthUnchanged
<1>3. Rest' /\ NoneAsks
  BY <1>0, <1>1, RestUnchanged
<1>4. MsgsInv'
  BY <1>0, <1>1, <1>2, <1>3, MsgsSame
<1> QED
  BY <1>1, <1>2, <1>3, <1>4, MsgStepKeeps

LEMMA NextKeeps ==
    ASSUME NetworkInv, [Next]_vars
    PROVE  NetworkInv'
<1>1. CASE Arrivals
  BY <1>1, ArriveKeeps DEF Arrivals
<1>2. CASE Eth
  BY <1>2, EthIsrKeeps, EthNotifyKeeps, EthReceiveKeeps, EthDispatchKeeps, EthDoneKeeps DEF Eth
<1>3. CASE Users
  BY <1>3, GenesisSpawnKeeps, UserBindKeeps, UserWaitKeeps DEF Users
<1>4. CASE Con
  BY <1>4, ConTxReceiveKeeps, ConTxReplyKeeps, ConRxNotifyKeeps, ConRxGetcharKeeps,
     ConNotifyKeeps DEF Con
<1>5. CASE Sending
  BY <1>5, LookupKeeps, LookedUpKeeps DEF Sending
<1>6. CASE Udp
  BY <1>6, UdpDispatchKeeps, UdpBindKeeps, UdpReleaseKeeps, UdpReqKeeps, UdpOutOfFdsKeeps DEF Udp
<1>7. CASE IcmpServe \/ ArpDispatch \/ ArpQuery
  BY <1>7, IcmpServeKeeps, ArpDispatchKeeps, ArpQueryKeeps
<1>8. CASE Apps
  BY <1>8, AppRequestKeeps, AppSendKeeps DEF Apps
<1>9. CASE UNCHANGED vars
  BY <1>9, StutterKeeps
<1> QED
  BY <1>1, <1>2, <1>3, <1>4, <1>5, <1>6, <1>7, <1>8, <1>9 DEF Next, System, Servers

LEMMA NetworkInvHolds == Spec => []NetworkInv
<1>1. Init => NetworkInv
  BY InitKeeps
<1>2. NetworkInv /\ [Next]_vars => NetworkInv'
  BY NextKeeps
<1> QED
  BY <1>1, <1>2, PTL DEF Spec

-----------------------------------------------------------------------------
(* The results.                                                            *)

(* The queues of addresses, characters and readers keep within their       *)
(* arrays, for any sizes of them, and what stands for a client that waits  *)
(* at a port or writes is a descriptor (net.c:366-384, 566, 669-681).      *)
THEOREM NetworkTypeOK == Spec => []TypeOK
<1>1. NetworkInv => TypeOK
  <2> SUFFICES ASSUME NetworkInv PROVE TypeOK
    OBVIOUS
  <2>1. MsgTypeOK
    BY DEF NetworkInv, TasksInv, MsgInv
  <2>2. EthKeeps /\ ConKeeps
    BY DEF NetworkInv, TasksInv
  <2>3. arp.ipq \in ArpTables!Ipq!Queue(Ip \cup {NoItem}, ARP_MAX)
    BY SameIpq DEF NetworkInv, ArpInv, ArpKeeps
  <2>4. free_head \in Seq(DOMAIN bufs)
    BY DEF NetworkInv, UdpInv, BufsKeep
  <2>5. \A b \in DOMAIN bufs : bufs[b].tid \in Fd \cup {NoTid}
    BY DEF NetworkInv, UdpInv, BufsKeep, IsBuf
  <2> QED
    BY <2>1, <2>2, <2>3, <2>4, <2>5 DEF TypeOK, EthKeeps, ConKeeps
<1> QED
  BY <1>1, NetworkInvHolds, PTL

(* As long as its buffer has not gone round, a port gives out every packet *)
(* that came for it since it was bound, once and in their order; nobody    *)
(* ever waits at it while it has one (net.c:452-488, 528-545, 604-611):    *)
(* with any number of ports, clients and frames, and packets of any        *)
(* lengths in buffers of any size.                                         *)
THEOREM PacketsInOrder == Spec => []RecordsInOrder
<1>1. NetworkInv => RecordsInOrder
  <2> SUFFICES ASSUME NetworkInv, NEW p \in Port, NEW b \in BufsOf(p)
               PROVE  LET h == hist[p] IN
                      /\ bufs[b].tid # NoTid => Ring!Empty(bufs[b].ring)
                      /\ ~h.wrapped =>
                            /\ Len(h.given) <= Len(h.came)
                            /\ \A i \in DOMAIN h.given : h.given[i] = h.came[i]
                            /\ Ring!Empty(bufs[b].ring) <=> Len(h.given) = Len(h.came)
    BY DEF RecordsInOrder
  <2>1. PortHolds(bufs[b], hist[p]) /\ hist[p] \in HistType
    BY BufFound DEF NetworkInv
  <2> DEFINE h == hist[p]
             r == bufs[b].ring
  <2>2. h.came \in Seq(Nat) /\ Len(h.given) \in Nat
    BY <2>1 DEF HistType
  <2>3. ASSUME ~h.wrapped
        PROVE  GivenSoFar(h) /\ (Ring!Empty(r) <=> Len(h.given) = Len(h.came))
    <3>1. GivenSoFar(h) /\ Holds(r, h.came, Len(h.given))
      BY <2>1, <2>3 DEF PortHolds, RingHolds
    <3> QED
      BY <2>2, <3>1, EmptyHolds DEF GivenSoFar
  <2> QED
    BY <2>1, <2>3 DEF PortHolds, GivenSoFar
<1> QED
  BY <1>1, NetworkInvHolds, PTL

(* A datagram goes to a MAC address that was announced for its next hop,   *)
(* however the entries of the ARP cache make room for each other           *)
(* (net.c:96-99, 353-385).                                                 *)
THEOREM MacsAreAnnounced == Spec => []MacsAnnounced
<1>1. NetworkInv => MacsAnnounced
  BY DEF NetworkInv
<1> QED
  BY <1>1, NetworkInvHolds, PTL

(* No reply of a server of the network reaches another client than the one *)
(* it is for, although udprx_task, udpcontx_task and udpconrx_task keep    *)
(* clients and answer them later, several at once (net.c:604-611, msg.c:58). *)
THEOREM NetworkNamesOnce == Spec => []ClientsNamedOnce
<1>1. NetworkInv => ClientsNamedOnce
  BY NamedOnce DEF NetworkInv, TasksInv
<1> QED
  BY <1>1, NetworkInvHolds, PTL
=============================================================================
