------------------------------- MODULE Netsrr -------------------------------
(***************************************************************************)
(* The netsrr command of apps/shell.c, which sends datagrams back and      *)
(* forth between two hosts, as programs of Network.tla.  Only one of the   *)
(* hosts is modelled; what comes from the other is traffic.                *)
(***************************************************************************)
EXTENDS Network

CONSTANT
    NETSRR_PORT,
    NETSRR_RUNS      \* rounds, of all sizes (bound: 1 for 11 * 1024)

Bind    == <<[code |-> "BIND", port |-> NETSRR_PORT], ASSERTNOERR>>
Wait    == <<[code |-> "REQ", port |-> NETSRR_PORT], ASSERTNOERR>>
Release == <<[code |-> "RELEASE", port |-> NETSRR_PORT], ASSERTNOERR>>
Send(addr) == <<[code |-> "SEND", addr |-> addr], ASSERTNOERR>>

Rounds(calls) == FlattenSeq([i \in 1 .. NETSRR_RUNS |-> calls])

\* The server answers the address that its first packet comes from.
NetsrrServer(client_ip) ==
    Bind \o Wait \o Rounds(Wait \o Send(client_ip)) \o Release

NetsrrClient(dest_ip) ==
    Bind \o Send(dest_ip) \o Rounds(Send(dest_ip) \o Wait) \o Release
=============================================================================
