----------------------------- MODULE LockServer -----------------------------
(***************************************************************************)
(* servers/lock.c.  A lock is a channel.  To lock is to send on it and to  *)
(* unlock is to receive on it; the server stands in for the missing        *)
(* partner.  While the lock is free it polls for senders and receives one  *)
(* message, which lets one client in; while it is held it polls for        *)
(* receivers and sends one, which lets the holder out.  A client that      *)
(* unlocks while another waits takes that one's message itself, and the    *)
(* server never hears of it.                                               *)
(*                                                                         *)
(* An event that poll_wait reports may be over when the server acts on it, *)
(* so it acts without blocking.                                            *)
(***************************************************************************)
EXTENDS Naturals, Sequences, FiniteSets

CONSTANTS
    Client,   \* tasks that use locks
    Lock      \* channels they register

\* The server starts with descriptors 0 to 2; mkopenchan opens lock_fd while
\* it has one more, which is free again for the first lock.  Every lock takes
\* one of its 64 and a request one, and unregistering gives none back.
\* (Bound: there are less than 60 locks, and 0 is no descriptor of one.)
LOCK_FD == 4

VARIABLES
    lockstatus,     \* [Lock -> [Client -> Status]]
    senders,    \* [Lock -> Seq(Client)]: blocked in lock_channel
    receivers,  \* [Lock -> Seq(Client)]: blocked in unlock_channel
    reg,        \* [Lock -> how far the lock is registered]
    lockid,     \* [Lock -> what lockchan_register returned]
    requests,   \* clients blocked sending to lock_fd, and what they ask
    serverfd,   \* [Lock -> the server's descriptor of it, 0 for none]
    polled,     \* [Lock -> the events the server polls it for]
    pres        \* what poll_wait returned last, Polling while it waits

vars == <<lockstatus, senders, receivers, reg, lockid, requests, serverfd,
          polled, pres>>

Status  == {"out", "locking", "holding", "unlocking"}
RegState == {"new", "registering", "registered", "unregistering", "gone"}
PollEvent == {"RECV", "SEND"}
LockRequest == [code : {"REGISTER", "UNREGISTER"}, client : Client,
            lock : Lock, chan : Nat]
Polling == <<>>
Pres == {Polling, <<"lock_fd">>} \cup (Lock \X PollEvent)

Init ==
    /\ lockstatus = [l \in Lock |-> [c \in Client |-> "out"]]
    /\ senders = [l \in Lock |-> <<>>]
    /\ receivers = [l \in Lock |-> <<>>]
    /\ reg = [l \in Lock |-> "new"]
    /\ lockid = [l \in Lock |-> 0]
    /\ requests = <<>>
    /\ serverfd = [l \in Lock |-> 0]
    /\ polled = [l \in Lock |-> {}]
    /\ pres = Polling

-----------------------------------------------------------------------------
(* Clients.  A client is in one call at a time, and keeps to lock.h: it    *)
(* registers a channel once, before others know it, unlocks only what it   *)
(* holds, and uses no lock that is being unregistered.  Nothing else sends *)
(* to lock_fd, so no request is too short or unknown (lock.c:77-89).       *)

Running(c) ==
    /\ \A l \in Lock : lockstatus[l][c] \in {"out", "holding"}
    /\ \A i \in 1 .. Len(requests) : requests[i].client # c

Ask(c, code, l, chan) ==
    requests' = Append(requests,
        [code |-> code, client |-> c, lock |-> l, chan |-> chan])

\* The lock channel goes where a request has its reply channel.
LockchanRegister(c, l) ==
    /\ Running(c) /\ reg[l] = "new"
    /\ reg' = [reg EXCEPT ![l] = "registering"]
    /\ Ask(c, "REGISTER", l, 0)
    /\ UNCHANGED <<lockstatus, senders, receivers, lockid, serverfd, polled, pres>>

LockchanUnregister(c, l) ==
    /\ Running(c) /\ reg[l] = "registered"
    /\ \A d \in Client : lockstatus[l][d] = "out"
    /\ reg' = [reg EXCEPT ![l] = "unregistering"]
    /\ Ask(c, "UNREGISTER", l, lockid[l])
    /\ UNCHANGED <<lockstatus, senders, receivers, lockid, serverfd, polled, pres>>

\* send(chan) meets the first client that is unlocking, or waits.
LockChannel(c, l) ==
    /\ Running(c) /\ reg[l] = "registered" /\ lockstatus[l][c] = "out"
    /\ IF receivers[l] # <<>>
       THEN /\ lockstatus' = [lockstatus EXCEPT
                    ![l][Head(receivers[l])] = "out", ![l][c] = "holding"]
            /\ receivers' = [receivers EXCEPT ![l] = Tail(@)]
            /\ UNCHANGED senders
       ELSE /\ lockstatus' = [lockstatus EXCEPT ![l][c] = "locking"]
            /\ senders' = [senders EXCEPT ![l] = Append(@, c)]
            /\ UNCHANGED receivers
    /\ UNCHANGED <<reg, lockid, requests, serverfd, polled, pres>>

\* (Mutant: it waits for the server, whoever is locking.)
UnlockChannelWaits(c, l) ==
    /\ Running(c) /\ lockstatus[l][c] = "holding"
    /\ lockstatus' = [lockstatus EXCEPT ![l][c] = "unlocking"]
    /\ receivers' = [receivers EXCEPT ![l] = Append(@, c)]
    /\ UNCHANGED <<senders, reg, lockid, requests, serverfd, polled, pres>>

\* recv(chan) meets the first client that is locking, or waits.
UnlockChannel(c, l) ==
    /\ Running(c) /\ lockstatus[l][c] = "holding"
    /\ IF senders[l] # <<>>
       THEN /\ lockstatus' = [lockstatus EXCEPT
                    ![l][Head(senders[l])] = "holding", ![l][c] = "out"]
            /\ senders' = [senders EXCEPT ![l] = Tail(@)]
            /\ UNCHANGED receivers
       ELSE /\ lockstatus' = [lockstatus EXCEPT ![l][c] = "unlocking"]
            /\ receivers' = [receivers EXCEPT ![l] = Append(@, c)]
            /\ UNCHANGED senders
    /\ UNCHANGED <<reg, lockid, requests, serverfd, polled, pres>>

-----------------------------------------------------------------------------
(* The server, lockserver_task.                                            *)

Happening(l, ev) == IF ev = "RECV" THEN senders[l] # <<>>
                                   ELSE receivers[l] # <<>>

\* poll_wait reports some event that holds when it looks.
PollWait ==
    /\ pres = Polling
    /\ \/ requests # <<>> /\ pres' = <<"lock_fd">>
       \/ \E l \in Lock : \E ev \in polled[l] :
             Happening(l, ev) /\ pres' = <<l, ev>>
    /\ UNCHANGED <<lockstatus, senders, receivers, reg, lockid, requests,
                   serverfd, polled>>

\* The channel received takes the next descriptor.  The reply is the result
\* of poll_add, and goes back over the lock channel to the client, which
\* receives from it.
NextFd ==
    LET known == Cardinality({l \in Lock : serverfd[l] # 0}) IN
    IF known = 0 THEN LOCK_FD - 1 ELSE LOCK_FD + known

ServeRegister ==
    /\ pres = <<"lock_fd">> /\ requests # <<>>
    /\ Head(requests).code = "REGISTER"
    /\ LET l == Head(requests).lock IN
       /\ serverfd' = [serverfd EXCEPT ![l] = NextFd]
       /\ polled' = [polled EXCEPT ![l] = @ \cup {"RECV"}]
       /\ lockid' = [lockid EXCEPT ![l] = 0]
       /\ reg' = [reg EXCEPT ![l] = "registered"]
    /\ requests' = Tail(requests)
    /\ pres' = Polling
    /\ UNCHANGED <<lockstatus, senders, receivers>>

\* poll_remove on the descriptor that the client names.
ServeUnregister ==
    /\ pres = <<"lock_fd">> /\ requests # <<>>
    /\ Head(requests).code = "UNREGISTER"
    /\ polled' = [l \in Lock |->
            IF serverfd[l] # 0 /\ serverfd[l] = Head(requests).chan
            THEN {} ELSE polled[l]]
    /\ reg' = [reg EXCEPT ![Head(requests).lock] = "gone"]
    /\ requests' = Tail(requests)
    /\ pres' = Polling
    /\ UNCHANGED <<lockstatus, senders, receivers, lockid, serverfd>>

\* (Mutants: the server goes on polling for the same side; it polls for none;
\* it takes every event for real.)
PollNextSame(l, ev, other, done)   == polled' = polled
PollNextNone(l, ev, other, done)   == polled' = [polled EXCEPT ![l] = @ \ {ev}]
PollNextAlways(l, ev, other, done) ==
    polled' = [polled EXCEPT ![l] = (@ \ {ev}) \cup {other}]

\* When it has let a client pass, it polls for the other side.
PollNext(l, ev, other, done) ==
    polled' = IF done THEN [polled EXCEPT ![l] = (@ \ {ev}) \cup {other}]
                      ELSE polled

\* recv with RECV_NONBLOCK lets the first sender in, if there still is one.
ServeLock(l) ==
    /\ pres = <<l, "RECV">>
    /\ pres' = Polling
    /\ PollNext(l, "RECV", "SEND", senders[l] # <<>>)
    /\ IF senders[l] = <<>>
       THEN UNCHANGED <<lockstatus, senders>>
       ELSE /\ lockstatus' = [lockstatus EXCEPT ![l][Head(senders[l])] = "holding"]
            /\ senders' = [senders EXCEPT ![l] = Tail(@)]
    /\ UNCHANGED <<receivers, reg, lockid, requests, serverfd>>

\* send with SEND_NONBLOCK lets the first receiver out, likewise.
ServeUnlock(l) ==
    /\ pres = <<l, "SEND">>
    /\ pres' = Polling
    /\ PollNext(l, "SEND", "RECV", receivers[l] # <<>>)
    /\ IF receivers[l] = <<>>
       THEN UNCHANGED <<lockstatus, receivers>>
       ELSE /\ lockstatus' = [lockstatus EXCEPT ![l][Head(receivers[l])] = "out"]
            /\ receivers' = [receivers EXCEPT ![l] = Tail(@)]
    /\ UNCHANGED <<senders, reg, lockid, requests, serverfd>>

ServerStep ==
    \/ PollWait
    \/ ServeRegister
    \/ ServeUnregister
    \/ \E l \in Lock : ServeLock(l) \/ ServeUnlock(l)

Next ==
    \/ \E c \in Client, l \in Lock :
          \/ LockchanRegister(c, l)
          \/ LockchanUnregister(c, l)
          \/ LockChannel(c, l)
          \/ UnlockChannel(c, l)
    \/ ServerStep

Spec == Init /\ [][Next]_vars

-----------------------------------------------------------------------------
(* Properties.                                                             *)

TypeOK ==
    /\ lockstatus \in [Lock -> [Client -> Status]]
    /\ senders \in [Lock -> Seq(Client)]
    /\ receivers \in [Lock -> Seq(Client)]
    /\ reg \in [Lock -> RegState]
    /\ lockid \in [Lock -> Nat]
    /\ requests \in Seq(LockRequest)
    /\ serverfd \in [Lock -> Nat]
    /\ polled \in [Lock -> SUBSET PollEvent]
    /\ pres \in Pres

\* A client holds a lock until the message that lets it out is exchanged.
Holders(l) == {c \in Client : lockstatus[l][c] \in {"holding", "unlocking"}}

\* At most one client holds a lock, whoever let it in: the server, or the
\* client that unlocked (lock.c:40-49).
MutualExclusion ==
    \A l \in Lock : \A c, d \in Holders(l) : c = d

\* The server polls a lock it knows for one side only, and for the right one:
\* for unlocking exactly while a client holds it, although locks change hands
\* behind its back (lock.c:96-107).
SideMatches ==
    \A l \in Lock :
        /\ polled[l] # PollEvent
        /\ "SEND" \in polled[l] <=> Holders(l) # {}

\* What it implements: every lock on its own passes to the first that waits
\* for it, through the server or past it, and from one that is leaving it to
\* a newcomer only while nobody waits (lock.c:40-49, 96-107).
Leavers(l) == {c \in Client : lockstatus[l][c] = "unlocking"}
Abstract == INSTANCE Lock WITH holders <- [l \in Lock |-> Holders(l)],
                               waiting <- senders,
                               leaving <- [l \in Lock |-> Leavers(l)]
ImplementsLock == Abstract!Spec
=============================================================================
