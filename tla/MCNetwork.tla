----------------------------- MODULE MCNetwork -----------------------------
(***************************************************************************)
(* The instance of the network servers that TLC checks: a gateway and a    *)
(* host announce themselves, packets come for every port, and programs     *)
(* bind, wait for and release ports, two of them like netsrr of the shell. *)
(***************************************************************************)
EXTENDS Netsrr

CONSTANTS gw, host, far, app1, app2, p1, p2, p3

Announces(addr, mac, oper, ours) ==
    [type |-> "ARP", spa |-> addr, sha |-> mac, oper |-> oper, ours |-> ours]
DatagramFor(p, size, v) == [type |-> "UDP", port |-> p, size |-> size, valid |-> v]

ArpGw   == Announces(gw, 1, "REPLY", TRUE)
ArpHost == Announces(host, 2, "REQUEST", TRUE)
Echo    == [type |-> "ICMP", echo |-> TRUE, from |-> host]
NoEcho  == [type |-> "ICMP", echo |-> FALSE, from |-> host]
Other   == [type |-> "OTHER"]
ToApp(n) == DatagramFor(p1, n, FALSE)
ToCon   == DatagramFor(ConPort, 1, FALSE)
Create  == DatagramFor(GenesisPort, 2, TRUE)
Noise   == DatagramFor(GenesisPort, 1, FALSE)

Frames == {ArpGw, ArpHost, Echo, ToCon, Create, Noise, NoEcho, Other} \cup
          {ToApp(n) : n \in 1 .. UDP_BUF_MAX}
\* Packets of different lengths for one port.
Packets(sizes) == [i \in DOMAIN sizes |-> ToApp(sizes[i])]

\* Buffers go round, entries are evicted, all ports are waited for.
FramesInOrder ==
    {Packets(sizes) : sizes \in {<<1, 2, 2>>, <<2, 4>>}} \cup
    {<<ArpGw, ArpHost, ArpGw>>,
     <<Create, ToCon, ToApp(1)>>, <<ArpHost, ToApp(1), ToApp(1)>>, <<ToCon, ToCon>>,
     <<Noise, Echo, Other>>, <<NoEcho>>}
WriteLine   == [code |-> "WRITE"]
Getchar == [code |-> "GETCHAR"]
BindTo(p)    == [code |-> "BIND", port |-> p]
WaitFor(p) == [code |-> "REQ", port |-> p]
Unbind(p)  == [code |-> "RELEASE", port |-> p]
SendTo(a)  == [code |-> "SEND", addr |-> a]
Both(a, b) == (app1 :> a) @@ (app2 :> b)

ProgramsOfTwo ==
    {Both(NetsrrServer(host), <<WriteLine, Getchar>>),
     Both(NetsrrClient(far), <<WriteLine>>),
     Both(<<BindTo(p1), WaitFor(p1)>>, <<BindTo(p2), WaitFor(p2)>>),
     Both(<<BindTo(p1), WaitFor(p1)>>, <<BindTo(p1), WaitFor(p1), Unbind(p1)>>),
     Both(<<BindTo(p1), Unbind(p1), BindTo(p1), WaitFor(p1)>>, <<Unbind(p1)>>),
     Both(<<BindTo(p1), BindTo(p2), BindTo(p3)>>, <<WaitFor(p3), WriteLine>>),
     Both(<<SendTo(host), SendTo(far)>>, <<>>),
     Both(<<Getchar, Getchar>>, <<Getchar>>)}

\* Packets of all lengths, and a program that takes them.
PacketsOfAllSizes ==
    {Packets(sizes) : sizes \in [1 .. 3 -> 1 .. 3] \cup {<<3, 1, 2, 3, 1>>}}
ProgramsOfOne ==
    {Both(<<BindTo(p1)>> \o [i \in 1 .. 4 |-> WaitFor(p1)], <<>>)}

HashOfIps == (gw :> 0) @@ (host :> 0) @@ (far :> 1)
HashOfPorts == (ConPort :> 0) @@ (GenesisPort :> 0) @@ (p1 :> 1) @@ (p2 :> 1) @@ (p3 :> 3)
=============================================================================
