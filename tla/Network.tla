------------------------------ MODULE Network -------------------------------
(***************************************************************************)
(* servers/net.c and servers/genesis.c over lib/msg.c, with the receiving  *)
(* side of the Ethernet controller (drivers/eth.c, eth_isr of              *)
(* kern/interrupt.c): frames come in, ethrx_task hands them to the servers *)
(* of ARP, ICMP and UDP, and tasks send and receive datagrams.             *)
(*                                                                         *)
(* The servers have found each other by name (FileServer.tla).  A handler  *)
(* is one action, and so is the transmission of a frame: net.c:33 leaves   *)
(* open what happens when two tasks transmit at once.                      *)
(***************************************************************************)
EXTENDS Messages, SequencesExt

CONSTANTS
    Ethrx, Arp, Icmp, Udprx, ConTx, ConRx,     \* servers
    EthNotifier, ConNotifier, Genesis, App,    \* tasks; App are user programs
    Port, ConPort, GenesisPort,                \* UDP ports
    Ip, Gateway, OnNet,                        \* addresses, those of the net
    IpHash, PortHash,
    ARP_MAX, ADDRMAP_MAX, PORTMAP_MAX, UDP_BUF_MAX, RX_BUF_MAX, RX_TIDS_MAX,
    TIMEOUT,     \* timeout_msec of arp_lookup, in sleeps
    NoItem, NoPkt,
    Frame,
    Traffic,     \* bound: the sequences of frames that come in, or begin to
    Programs     \* bound: the calls that App make, [App -> a sequence] each

ASSUME NetworkAssumption ==
    /\ Server = {Ethrx, Arp, Icmp, Udprx, ConTx, ConRx}
    /\ Ethrx \notin {Arp, Icmp, Udprx, ConTx, ConRx} /\ Arp \notin {Icmp, Udprx, ConTx, ConRx}
    /\ Icmp \notin {Udprx, ConTx, ConRx} /\ Udprx \notin {ConTx, ConRx} /\ ConTx # ConRx
    /\ Task = {Ethrx, ConTx, EthNotifier, ConNotifier, Genesis} \cup App
    /\ {Ethrx, EthNotifier, ConNotifier, Genesis} \cap (App \cup {ConTx}) = {}
    /\ ConTx \notin App /\ ConNotifier # Genesis
    /\ {ConPort, GenesisPort} \subseteq Port /\ ConPort # GenesisPort
    /\ Gateway \in OnNet /\ OnNet \subseteq Ip

ASSUME SizeAssumption ==
    /\ {ARP_MAX, ADDRMAP_MAX, PORTMAP_MAX, RX_BUF_MAX, RX_TIDS_MAX} \subseteq Nat \ {0}
    /\ UDP_BUF_MAX \in Nat \ {0, 1} /\ TIMEOUT \in Nat
    /\ IpHash \in [Ip -> Nat] /\ PortHash \in [Port -> Nat]
    /\ NoItem \notin [key: Ip \cup Port, value: Nat, deleted: {FALSE}]
    /\ NoItem # [deleted |-> TRUE]
    /\ NoPkt \notin [pkt : Nat, size : Nat]

\* What the headers of a frame say that the servers look at.
ASSUME FrameAssumption ==
    /\ Traffic \subseteq Seq(Frame)
    /\ \A f \in Frame : /\ f.type \in {"ARP", "ICMP", "UDP", "OTHER"}
                        /\ f.type = "ARP" => f.spa \in Ip /\ f.sha \in Int
                        /\ f.type = "UDP" => f.port \in Port /\ f.size \in Nat \ {0}

EINVAL  == -3
ENOMEM  == -4
ENOFUNC == -7
ENOENT  == -12
EEXIST  == -13
EBUSY   == -14
EARP_PENDING == -257
EARP_TIMEOUT == -258
TX_ERROR == -65540    \* for all errors that the controller reports

ArpTables == INSTANCE ArpTable
Ring      == INSTANCE PacketRing
Portmap   == INSTANCE HashTable WITH HtMax <- PORTMAP_MAX, Hash <- PortHash

VARIABLES
    frames,     \* every frame that came in; a packet is its number in it
    rxfifo,     \* the controller's queue of them
    rsfl,       \* whether its interrupt is enabled
    ethpc,      \* where ethrx_task is
    waiting,    \* whether its notifier is in event_wait
    arp,        \* the ARP server's table
    portmap,    \* the UDP server's, from ports to buffers
    bufs,       \* its buffers: [ring, tid], in the order they are malloced
    free_head,  \* the free ones, a sequence
    chq, tidq,  \* of udpconrx_task
    job,        \* [Task -> the send_udp it is in, NoJob if none]
    contid,     \* tid of udpcontx_task, NoTid between requests
    upc,        \* [ConNotifier, Genesis -> where it is]
    spawned,    \* requests for which genesis_task has spawned a task
    todo,       \* [App -> the calls it has yet to make]
    sent,       \* what has been transmitted
    hist        \* [Port -> what came and was given since bind (for properties)]

ethVars == <<frames, rxfifo, rsfl, ethpc, waiting>>
udpVars == <<portmap, bufs, free_head, hist>>
appVars == <<chq, tidq, job, contid, upc, spawned, todo>>
vars == <<msgVars, ethVars, arp, udpVars, appVars, sent>>

NoTid == -1
NoJob == [at |-> "none"]
NewHist == [came |-> <<>>, given |-> <<>>, wrapped |-> FALSE]
PortUser == {ConNotifier, Genesis}
PortOf(u) == IF u = ConNotifier THEN ConPort ELSE GenesisPort

Init ==
    /\ MsgInit
    /\ frames = <<>> /\ rxfifo = <<>> /\ rsfl = TRUE
    /\ ethpc = "receive" /\ waiting = TRUE
    /\ arp = ArpTables!EmptyArp
    /\ portmap = Portmap!EmptyTable /\ bufs = <<>> /\ free_head = <<>>
    /\ chq = <<>> /\ tidq = <<>>
    /\ job = [t \in Task |-> NoJob] /\ contid = NoTid
    /\ upc = [u \in PortUser |-> "bind"]
    /\ spawned = {} /\ sent = {} /\ todo \in Programs
    /\ hist = [p \in Port |-> NewHist]

Transmit(frame) == sent' = sent \cup {frame}

\* A panic, or a step whose outcome the code leaves undefined: the end.
Ends == crashed' = TRUE /\ UNCHANGED <<phase, msg, status, inbox, tids>>

\* Whether a task of a priority, or of a higher one, can run: the notifiers;
\* the servers; those of the console; genesis_task.  (A task that sleeps in
\* arp_lookup wakes up at any time.)
Busy0 == (phase[EthNotifier] = "ready" /\ ~waiting) \/ phase[ConNotifier] = "ready"
Busy1 == \/ Busy0
         \/ IF ethpc = "receive" THEN inbox[Ethrx] # <<>>
                                ELSE phase[Ethrx] = "ready"
         \/ \E s \in {Icmp, Arp, Udprx} : inbox[s] # <<>>
Busy2 == \/ Busy1
         \/ inbox[ConRx] # <<>>
         \/ IF job[ConTx] = NoJob THEN inbox[ConTx] # <<>>
                                  ELSE phase[ConTx] = "ready" /\ job[ConTx].at # "ask"
Busy3 == Busy2 \/ phase[Genesis] = "ready"

\* Those that run before a task that sends datagrams.
Before(t) == IF t = ConTx THEN Busy1 ELSE Busy3

-----------------------------------------------------------------------------
(* The controller, the notifier and ethrx_task.                            *)

\* A frame comes in at any time, or never.
Arrive(f) ==
    /\ ~crashed
    /\ \E s \in Traffic : IsPrefix(Append(frames, f), s)
    /\ frames' = Append(frames, f)
    /\ rxfifo' = Append(rxfifo, Len(frames) + 1)
    /\ UNCHANGED <<msgVars, rsfl, ethpc, waiting, arp, udpVars, appVars, sent>>

EthIsr ==
    /\ ~crashed /\ rsfl /\ rxfifo # <<>>
    /\ rsfl' = FALSE
    /\ waiting' = FALSE
    /\ UNCHANGED <<msgVars, frames, rxfifo, ethpc, arp, udpVars, appVars, sent>>

EthNotify ==
    /\ ~waiting
    /\ MsgSend(EthNotifier, Ethrx, [code |-> "NOTIFY"])
    /\ UNCHANGED <<ethVars, arp, udpVars, appVars, sent>>

EthReceive ==
    /\ ethpc = "receive" /\ ~Busy0 /\ Incoming(Ethrx)
    /\ Serve(Ethrx, Reply(Ethrx, 0))
    /\ ethpc' = "drain" /\ waiting' = TRUE
    /\ UNCHANGED <<frames, rxfifo, rsfl, arp, udpVars, appVars, sent>>

\* ethrx_dispatch.
Destination(f) ==
    CASE f.type = "ARP"  -> Arp
      [] f.type = "ICMP" -> Icmp
      [] f.type = "UDP"  -> Udprx
      [] OTHER           -> Nobody

EthDispatch ==
    /\ ethpc = "drain" /\ ~Busy0 /\ phase[Ethrx] = "ready"
    /\ rxfifo # <<>>
    /\ rxfifo' = Tail(rxfifo)
    /\ LET to == Destination(frames[Head(rxfifo)]) IN
       IF to = Nobody THEN ~crashed /\ UNCHANGED msgVars
       ELSE MsgSend(Ethrx, to, [code |-> "DISPATCH", pkt |-> Head(rxfifo)])
    /\ UNCHANGED <<frames, rsfl, ethpc, waiting, arp, udpVars, appVars, sent>>

\* (A mutant: the bit of the interrupt stays as it is.)
EthIntenableNot == UNCHANGED rsfl
EthIntenable == rsfl' = TRUE

EthDone ==
    /\ ethpc = "drain" /\ ~Busy0 /\ phase[Ethrx] = "ready" /\ ~crashed
    /\ rxfifo = <<>>
    /\ EthIntenable /\ ethpc' = "receive"
    /\ UNCHANGED <<msgVars, frames, rxfifo, waiting, arp, udpVars, appVars, sent>>

-----------------------------------------------------------------------------
(* ICMP and ARP.                                                           *)

Receives(s, code) ==
    /\ Incoming(s) /\ Request(s).code = code
    /\ IF s \in {ConTx, ConRx} THEN ~Busy1 ELSE ~Busy0
Packet(s) == frames[Request(s).pkt]

EchoReply(p) == [type |-> "ECHO_REPLY", to |-> p.from]

IcmpServe ==
    /\ Receives(Icmp, "DISPATCH")
    /\ Serve(Icmp, Reply(Icmp, 0))
    /\ IF Packet(Icmp).echo
       THEN Transmit(EchoReply(Packet(Icmp)))
       ELSE UNCHANGED sent
    /\ UNCHANGED <<ethVars, arp, udpVars, appVars>>

ArpReply(addr, mac) == [type |-> "ARP_REPLY", to |-> addr, mac |-> mac]
ArpRequest(addr) == [type |-> "ARP_REQUEST", for |-> addr]

ArpDispatch ==
    LET p == Packet(Arp) IN
    /\ Receives(Arp, "DISPATCH")
    /\ \/ /\ ArpTables!NoPlace(arp, p.spa)
          /\ Ends    \* "ran out of space in arpserver"
          /\ UNCHANGED <<arp, sent>>
       \/ /\ ~ArpTables!NoPlace(arp, p.spa)
          /\ Serve(Arp, Reply(Arp, 0))
          /\ arp' = ArpTables!ArpserverStore(arp, p.spa, p.sha)
          /\ IF p.oper = "REQUEST" /\ p.ours
             THEN Transmit(ArpReply(p.spa, p.sha))
             ELSE UNCHANGED sent
    /\ UNCHANGED <<ethVars, udpVars, appVars>>

\* The status that stands for a reply with a MAC address is the address.
ArpQuery ==
    LET addr == Request(Arp).addr
        mac  == ArpTables!KnownMac(arp, addr)
    IN  /\ Receives(Arp, "QUERY")
        /\ IF mac = 0
           THEN /\ Serve(Arp, Reply(Arp, EARP_PENDING))
                /\ Transmit(ArpRequest(addr))
           ELSE /\ Serve(Arp, Reply(Arp, mac))
                /\ UNCHANGED sent
        /\ UNCHANGED <<ethVars, arp, udpVars, appVars>>

-----------------------------------------------------------------------------
(* send_udp, by udpcontx_task and App.                                     *)

Resolved(addr) == IF addr \in OnNet THEN addr ELSE Gateway

Datagram(addr, mac) == [type |-> "UDP", addr |-> addr, mac |-> mac]
SendUdp(addr) == [at |-> "ask", addr |-> addr, count |-> 0]

\* arp_lookup: ask, and sleep before asking again.
Lookup(t) ==
    /\ job[t].at = "ask" /\ ~Before(t)
    /\ MsgSend(t, Arp, [code |-> "QUERY", addr |-> Resolved(job[t].addr)])
    /\ job' = [job EXCEPT ![t].at = "asked"]
    /\ UNCHANGED <<ethVars, arp, udpVars, chq, tidq, contid, upc, spawned,
                   todo, sent>>

\* (A mutant: the time that has passed is not counted.)
SleptAgain(j) == [j EXCEPT !.at = "ask"]
Slept(j) == [j EXCEPT !.at = "ask", !.count = @ + 1]

\* What send_udp returns is what its caller looks at: udpcontx_task passes
\* it on.  tx_wait_sts may find an error, or the status of another frame.
TxStatus == {0, EINVAL, TX_ERROR}
Return(t, ret) ==
    /\ status' = [status EXCEPT ![t] = ret]
    /\ UNCHANGED <<phase, msg, inbox, tids, crashed>>
    /\ job' = [job EXCEPT ![t] = IF t = ConTx THEN [at |-> "sent"] ELSE NoJob]

LookedUp(t) ==
    /\ ~crashed /\ job[t].at = "asked" /\ phase[t] = "ready" /\ ~Before(t)
    /\ \/ /\ status[t] = EARP_PENDING /\ job[t].count < TIMEOUT
          /\ job' = [job EXCEPT ![t] = Slept(job[t])]
          /\ UNCHANGED <<msgVars, sent>>
       \/ /\ status[t] = EARP_PENDING /\ job[t].count >= TIMEOUT
          /\ Return(t, EARP_TIMEOUT)
          /\ UNCHANGED sent
       \/ /\ status[t] # EARP_PENDING
          /\ \E ret \in TxStatus : Return(t, ret)
          /\ Transmit(Datagram(job[t].addr, status[t]))
    /\ UNCHANGED <<ethVars, arp, udpVars, chq, tidq, contid, upc, spawned, todo>>

ConTxReceive ==
    /\ job[ConTx] = NoJob /\ Receives(ConTx, "WRITE")
    /\ Serve(ConTx, NoReply)
    /\ contid' = Tid(ConTx)
    /\ job' = [job EXCEPT ![ConTx] = SendUdp(Gateway)]   \* UDPCON_SERVER_IP
    /\ UNCHANGED <<ethVars, arp, udpVars, chq, tidq, upc, spawned, todo, sent>>

ConTxReply ==
    /\ job[ConTx].at = "sent" /\ ~Busy1
    /\ MsgReply(ConTx, contid, status[ConTx])
    /\ contid' = NoTid /\ job' = [job EXCEPT ![ConTx] = NoJob]
    /\ UNCHANGED <<ethVars, arp, udpVars, chq, tidq, upc, spawned, todo, sent>>

-----------------------------------------------------------------------------
(* udprx_task.  The status that stands for a reply with a packet is its    *)
(* number.                                                                 *)

\* The buffer of a port, if it is bound.
PortIdx(p) == Portmap!HashtableGet(portmap, p)
BufsOf(p) ==
    {portmap[idx].value : idx \in {PortIdx(p)} \ {Portmap!HT_NOKEY}}

Came(h, ring, pkt, size) ==
    IF Ring!Fits(size)
    THEN [came |-> Append(h.came, pkt), given |-> h.given,
          wrapped |-> h.wrapped \/ Ring!WrapsAt(Ring!Restarted(ring), size)]
    ELSE h
Given(h, pkt) == [h EXCEPT !.given = Append(@, pkt)]

UdpServe(code) == Receives(Udprx, code) /\ UNCHANGED <<ethVars, arp, appVars, sent>>
UdpReply(st) == Serve(Udprx, Reply(Udprx, st))

UdpDispatch ==
    LET pkt  == Request(Udprx).pkt
        port == frames[pkt].port
        size == frames[pkt].size
    IN  /\ UdpServe("DISPATCH")
        /\ UNCHANGED <<portmap, free_head>>
        /\ \/ /\ BufsOf(port) = {}
              /\ UdpReply(0)
              /\ UNCHANGED <<bufs, hist>>
           \/ \E b \in BufsOf(port) :
              \E ring \in {Ring!Stored(bufs[b].ring, pkt, size)},
                 h \in {Came(hist[port], bufs[b].ring, pkt, size)} :
              \/ /\ bufs[b].tid = NoTid \/ Ring!Empty(ring)
                 /\ ~ring.lost
                 /\ UdpReply(0)
                 /\ bufs' = [bufs EXCEPT ![b].ring = ring]
                 /\ hist' = [hist EXCEPT ![port] = h]
              \/ /\ bufs[b].tid # NoTid /\ ~Ring!Empty(ring)
                 /\ ~Ring!Popped(ring).lost
                 /\ Serve(Udprx, [fd \in {Tid(Udprx), bufs[b].tid} |->
                       IF fd = Tid(Udprx) THEN 0 ELSE Ring!PopPkt(ring)])
                 /\ bufs' = [bufs EXCEPT ![b] =
                       [ring |-> Ring!Popped(ring), tid |-> NoTid]]
                 /\ hist' = [hist EXCEPT ![port] = Given(h, Ring!PopPkt(ring))]
              \/ /\ (IF bufs[b].tid = NoTid THEN ring ELSE Ring!Popped(ring)).lost
                 /\ Ends
                 /\ UNCHANGED <<bufs, hist>>

\* (A mutant: head, tail and top are not reset.)
NewBufAsItWas(ring) == [ring |-> ring, tid |-> NoTid]
\* A buffer that is used again keeps what lies in it.
NewBuf(ring) == [ring |-> Ring!Reset(ring), tid |-> NoTid]

UdpBind ==
    LET port == Request(Udprx).port IN
    /\ UdpServe("BIND")
    /\ \E idx \in {Portmap!HashtableReserve(portmap, port)} :
       \/ /\ idx = Portmap!HT_NOKEY
          /\ UdpReply(ENOMEM)
          /\ UNCHANGED udpVars
       \/ /\ idx # Portmap!HT_NOKEY /\ Portmap!Active(portmap, idx)
          /\ UdpReply(EEXIST)
          /\ UNCHANGED udpVars
       \/ /\ idx # Portmap!HT_NOKEY /\ ~Portmap!Active(portmap, idx)
          /\ UdpReply(0)
          /\ hist' = [hist EXCEPT ![port] = NewHist]
          /\ \/ /\ free_head # <<>>
                /\ free_head' = Tail(free_head)
                /\ bufs' = [bufs EXCEPT ![Head(free_head)] =
                                           NewBuf(bufs[Head(free_head)].ring)]
                /\ portmap' = Portmap!Activate(portmap, idx, port, Head(free_head))
             \/ /\ free_head = <<>>
                /\ bufs' = Append(bufs, NewBuf(Ring!EmptyRing))
                /\ portmap' = Portmap!Activate(portmap, idx, port, Len(bufs) + 1)
                /\ UNCHANGED free_head

UdpRelease ==
    LET port == Request(Udprx).port IN
    /\ UdpServe("RELEASE")
    /\ UNCHANGED <<bufs, hist>>
    /\ \/ /\ BufsOf(port) = {}
          /\ UdpReply(ENOENT)
          /\ UNCHANGED <<portmap, free_head>>
       \/ \E b \in BufsOf(port) :
          \/ /\ bufs[b].tid # NoTid
             /\ UdpReply(EBUSY)
             /\ UNCHANGED <<portmap, free_head>>
          \/ /\ bufs[b].tid = NoTid
             /\ UdpReply(0)
             /\ free_head' = <<b>> \o free_head
             /\ portmap' = Portmap!Delete(portmap, PortIdx(port))

UdpReq ==
    LET port == Request(Udprx).port IN
    /\ UdpServe("REQ")
    /\ UNCHANGED <<portmap, free_head>>
    /\ \/ /\ BufsOf(port) = {}
          /\ UdpReply(ENOENT)
          /\ UNCHANGED <<bufs, hist>>
       \/ \E b \in BufsOf(port) :
          LET ring == bufs[b].ring IN
          \/ /\ bufs[b].tid # NoTid
             /\ UdpReply(EBUSY)
             /\ UNCHANGED <<bufs, hist>>
          \/ /\ bufs[b].tid = NoTid /\ ~Ring!Empty(ring)
             /\ ~Ring!Popped(ring).lost
             /\ UdpReply(Ring!PopPkt(ring))
             /\ bufs' = [bufs EXCEPT ![b].ring = Ring!Popped(ring)]
             /\ hist' = [hist EXCEPT ![port] = Given(@, Ring!PopPkt(ring))]
          \/ /\ bufs[b].tid = NoTid /\ Ring!Empty(ring)
             /\ Serve(Udprx, NoReply)
             /\ bufs' = [bufs EXCEPT ![b].tid = Tid(Udprx)]
             /\ UNCHANGED hist
          \/ /\ bufs[b].tid = NoTid /\ Ring!Popped(ring).lost
             /\ Ends
             /\ UNCHANGED <<bufs, hist>>

\* One descriptor is needed for a client even if it is answered at once.
UdpOutOfFds ==
    /\ ~Busy0
    /\ OutOfFds(Udprx)
    /\ UNCHANGED <<ethVars, arp, udpVars, appVars, sent>>

-----------------------------------------------------------------------------
(* udpconrx_task.  A packet holds one character, its number.               *)

\* Answers to those that wait, in their order, as far as the queues go.
Delivered(q, c) == IF Len(q) < Len(c) THEN Len(q) ELSE Len(c)
Deliver(q, c, others) ==
    LET n == Delivered(q, c) IN
    /\ Serve(ConRx, [fd \in {q[i] : i \in 1 .. n} \cup DOMAIN others |->
                         IF \E i \in 1 .. n : q[i] = fd
                         THEN c[CHOOSE i \in 1 .. n : q[i] = fd] ELSE others[fd]])
    /\ tidq' = SubSeq(q, n + 1, Len(q))
    /\ chq' = SubSeq(c, n + 1, Len(c))

ConRxServe(code) ==
    /\ Receives(ConRx, code)
    /\ UNCHANGED <<ethVars, arp, udpVars, job, contid, upc, spawned, todo, sent>>

\* (A mutant: a full queue is not looked at.)
PushedAnyway(c, pkt) == Append(c, pkt)
Pushed(c, pkt) == Append(IF Len(c) < RX_BUF_MAX THEN c ELSE Tail(c), pkt)

ConRxNotify ==
    /\ ConRxServe("NOTIFY")
    /\ Deliver(tidq, Pushed(chq, Request(ConRx).pkt), Reply(ConRx, 0))

ConRxGetchar ==
    /\ ConRxServe("GETCHAR")
    /\ \/ /\ Len(tidq) >= RX_TIDS_MAX
          /\ Serve(ConRx, Reply(ConRx, ENOMEM))
          /\ UNCHANGED <<chq, tidq>>
       \/ /\ Len(tidq) < RX_TIDS_MAX
          /\ Deliver(Append(tidq, Tid(ConRx)), chq, NoReply)

-----------------------------------------------------------------------------
(* The clients of ports.  They run, and bind them, before any program.  A  *)
(* negative status ends udpconrx_notifier (ASSERTNOERR); genesis_task does *)
(* not look at that of udp_bind.                                           *)

UserStep(u) ==
    /\ ~crashed /\ phase[u] = "ready"
    /\ u = Genesis => ~Busy2
    /\ UNCHANGED <<ethVars, arp, udpVars, chq, tidq, job, contid, todo, sent>>

UserBind(u) ==
    /\ UserStep(u) /\ upc[u] = "bind"
    /\ MsgSend(u, Udprx, [code |-> "BIND", port |-> PortOf(u)])
    /\ upc' = [upc EXCEPT ![u] = "bound"]
    /\ UNCHANGED spawned

UserWait(u) ==
    /\ UserStep(u) /\ upc[u] = "bound"
    /\ u = ConNotifier => status[u] >= 0
    /\ MsgSend(u, Udprx, [code |-> "REQ", port |-> PortOf(u)])
    /\ upc' = [upc EXCEPT ![u] = "got"]
    /\ UNCHANGED spawned

\* udpconrx_notifier sends the packet on.
ConNotify ==
    /\ UserStep(ConNotifier) /\ upc[ConNotifier] = "got" /\ status[ConNotifier] >= 0
    /\ MsgSend(ConNotifier, ConRx, [code |-> "NOTIFY", pkt |-> status[ConNotifier]])
    /\ upc' = [upc EXCEPT ![ConNotifier] = "bound"]
    /\ UNCHANGED spawned

\* genesis_task spawns a task, if the request is one.
GenesisSpawn ==
    /\ UserStep(Genesis) /\ upc[Genesis] = "got" /\ status[Genesis] >= 0
    /\ spawned' = IF frames[status[Genesis]].valid
                  THEN spawned \cup {status[Genesis]} ELSE spawned
    /\ upc' = [upc EXCEPT ![Genesis] = "bound"]
    /\ UNCHANGED msgVars

-----------------------------------------------------------------------------
(* User programs, which call print, getchar and the functions of net.c.  A *)
(* call may be followed by ASSERTNOERR, which ends the program if the      *)
(* status of the call is negative.                                         *)

ASSERTNOERR == [code |-> "ASSERTNOERR"]

Call == [code : {"BIND", "REQ", "RELEASE"}, port : Port] \cup
        [code : {"WRITE", "GETCHAR"}] \cup [code : {"SEND"}, addr : Ip]

\* An assertion is about the call before it.
ASSUME ProgramAssumption ==
    /\ Programs \subseteq [App -> Seq(Call \cup {ASSERTNOERR})]
    /\ \A prog \in Programs, t \in App : \A i \in DOMAIN prog[t] :
          prog[t][i] = ASSERTNOERR => i > 1 /\ prog[t][i - 1] # ASSERTNOERR

\* The calls that are left after the assertion, if there is one.
Left(t) ==
    IF todo[t] = <<>> \/ Head(todo[t]) # ASSERTNOERR THEN todo[t]
    ELSE IF status[t] < 0 THEN <<>> ELSE Tail(todo[t])

AppCall(t) ==
    /\ ~crashed /\ phase[t] = "ready" /\ job[t] = NoJob /\ ~Busy3
    /\ Left(t) # <<>>
    /\ todo' = [todo EXCEPT ![t] = Tail(Left(t))]
    /\ UNCHANGED <<ethVars, arp, udpVars, chq, tidq, contid, upc, spawned, sent>>

ServerOf(code) ==
    CASE code = "WRITE"   -> ConTx
      [] code = "GETCHAR" -> ConRx
      [] code \in {"BIND", "REQ", "RELEASE"} -> Udprx

AppRequest(t) ==
    /\ AppCall(t) /\ Head(Left(t)).code # "SEND"
    /\ MsgSend(t, ServerOf(Head(Left(t)).code), Head(Left(t)))
    /\ UNCHANGED job

\* send_udp, from send_createreq or directly.
AppSend(t) ==
    /\ AppCall(t) /\ Head(Left(t)).code = "SEND"
    /\ job' = [job EXCEPT ![t] = SendUdp(Head(Left(t)).addr)]
    /\ UNCHANGED msgVars

-----------------------------------------------------------------------------
Arrivals == \E f \in Frame : Arrive(f)

Eth == EthIsr \/ EthNotify \/ EthReceive \/ EthDispatch \/ EthDone
Udp == UdpDispatch \/ UdpBind \/ UdpRelease \/ UdpReq \/ UdpOutOfFds
Servers == IcmpServe \/ ArpDispatch \/ ArpQuery \/ Udp
Con == ConTxReceive \/ ConTxReply \/ ConRxNotify \/ ConRxGetchar \/ ConNotify
Sending == \E t \in App \cup {ConTx} : Lookup(t) \/ LookedUp(t)
Users == GenesisSpawn \/ \E u \in PortUser : UserBind(u) \/ UserWait(u)
Apps == \E t \in App : AppRequest(t) \/ AppSend(t)

System == Eth \/ Users \/ Con \/ Sending \/ Servers
Next == Arrivals \/ Apps \/ System

\* Tasks that can run do, by priority and in turn, and so does the interrupt.
Spec == Init /\ [][Next]_vars /\ WF_vars(System)

-----------------------------------------------------------------------------
(* Properties.                                                             *)

TypeOK ==
    /\ MsgTypeOK
    /\ frames \in Seq(Frame) /\ rxfifo \in Seq(DOMAIN frames)
    /\ rsfl \in BOOLEAN /\ waiting \in BOOLEAN /\ ethpc \in {"receive", "drain"}
    /\ arp.ipq \in ArpTables!Ipq!Queue(Ip \cup {NoItem}, ARP_MAX)
    /\ \A b \in DOMAIN bufs : bufs[b].tid \in Fd \cup {NoTid}
    /\ free_head \in Seq(DOMAIN bufs)
    /\ Len(chq) <= RX_BUF_MAX /\ Len(tidq) <= RX_TIDS_MAX
    /\ contid \in Fd \cup {NoTid}

\* As long as its buffer has not gone round, a port gives out the packets
\* that came since it was bound, each once, in their order and all of them,
\* whatever their lengths; and nobody ever waits at a port that has a packet
\* (net.c:452-488, 528-545, 604-611).
RecordsInOrder ==
    \A p \in Port : \A b \in BufsOf(p) :
        LET h == hist[p] IN
        /\ bufs[b].tid # NoTid => Ring!Empty(bufs[b].ring)
        /\ ~h.wrapped =>
              /\ Len(h.given) <= Len(h.came)
              /\ \A i \in DOMAIN h.given : h.given[i] = h.came[i]
              /\ Ring!Empty(bufs[b].ring) <=> Len(h.given) = Len(h.came)

\* "Pop the packet record at the head" (net.c:453): at the head of a buffer
\* that is not empty is a record, of a packet that was not popped before.
PacketAtHead ==
    \A p \in Port : \A b \in BufsOf(p) :
        LET ring == bufs[b].ring IN
        ~Ring!Empty(ring) =>
            /\ Ring!AtRecord(ring)
            /\ \A i \in DOMAIN hist[p].given : hist[p].given[i] # Ring!PopPkt(ring)

\* A datagram goes to a MAC address that was announced for its next hop, in
\* spite of the entries that make room for others (net.c:96-99, 353-385).
MacsAnnounced ==
    \A x \in sent : x.type = "UDP" =>
        \E i \in DOMAIN frames :
            /\ frames[i].type = "ARP"
            /\ frames[i].spa = Resolved(x.addr) /\ frames[i].sha = x.mac

\* Whoever sends a datagram gets on, whether or not an answer to the lookup
\* comes (net.c:100-113).
SendsEnd == \A t \in App \cup {ConTx} : []<>(crashed \/ job[t] = NoJob)

\* A frame that came in is taken from the controller and handed on: the
\* interrupt and the servers never wait for each other (net.c:283-287).
FramesServed == []<>(crashed \/ rxfifo = <<>>)
=============================================================================
