------------------------------ MODULE Messages ------------------------------
(***************************************************************************)
(* lib/msg.c: requests and replies over the kernel's channels.             *)
(*                                                                         *)
(* MsgSend makes a channel for the reply, sends it along and receives from *)
(* it.  MsgReceive gets a descriptor of that channel, and this descriptor  *)
(* is all that the server knows of its client (it is called tid).          *)
(* MsgReply sends to it and closes it, after which the number may be given *)
(* to another client.  A server may keep several and answer in any order.  *)
(*                                                                         *)
(* A client that has been received does nothing but wait for the reply,    *)
(* and nobody else knows the reply channel.  So MsgReply only waits until  *)
(* the client gets there, and is one step with its return from MsgSend.    *)
(***************************************************************************)
EXTENDS Integers, Sequences, FiniteSets

CONSTANTS
    Task,      \* tasks that send requests
    Server,    \* servers, each with the channel it receives from
    Fd,        \* descriptors that a server has left for its clients
    Nobody     \* what a free descriptor stands for

ASSUME NobodyAssumption == Nobody \notin Task
ASSUME TaskAssumption == IsFiniteSet(Task)
ASSUME FdAssumption == Fd \subseteq Nat

VARIABLES
    phase,     \* [Task -> Phase]: where in MsgSend a task is
    msg,       \* [Task -> the request it is in, None outside MsgSend]
    status,    \* [Task -> what its last MsgSend returned, 0 in a request]
    inbox,     \* [Server -> tasks blocked sending to it]
    tids,      \* [Server -> [Fd -> the client a descriptor stands for]]
    crashed    \* whether the kernel has panicked

msgVars == <<phase, msg, status, inbox, tids, crashed>>

Phase == {"ready", "sending", "waiting", "exited"}
None == [code |-> "none"]

MsgInit ==
    /\ phase = [t \in Task |-> "ready"]
    /\ msg = [t \in Task |-> None]
    /\ status = [t \in Task |-> 0]
    /\ inbox = [s \in Server |-> <<>>]
    /\ tids = [s \in Server |-> [fd \in Fd |-> Nobody]]
    /\ crashed = FALSE

\* The first half of MsgSend: channel(0) and send.
MsgSend(t, s, m) ==
    /\ ~crashed
    /\ phase[t] = "ready"
    /\ phase' = [phase EXCEPT ![t] = "sending"]
    /\ msg' = [msg EXCEPT ![t] = m]
    /\ status' = [status EXCEPT ![t] = 0]
    /\ inbox' = [inbox EXCEPT ![s] = Append(@, t)]
    /\ UNCHANGED <<tids, crashed>>

\* The request that the server receives next, and the descriptor that the
\* kernel gives it for its reply channel: which one it is makes no difference,
\* as long as it is free.
Incoming(s) == ~crashed /\ inbox[s] # <<>>
Sender(s)   == Head(inbox[s])
Request(s)  == msg[Sender(s)]
FreeFds(s)  == {fd \in Fd : tids[s][fd] = Nobody}
\* (A mutant: any descriptor is taken for free.)
TidAny(s) == CHOOSE fd \in Fd : \A f \in Fd : fd <= f
Tid(s) == CHOOSE fd \in Fd : /\ tids[s][fd] = Nobody
                             /\ \A f \in Fd : f < fd => tids[s][f] # Nobody

\* MsgReceive, and the MsgReply's of the handler: replies is a function from
\* the descriptors answered to the status returned to their clients.
Serve(s, replies) ==
    /\ FreeFds(s) # {}
    /\ \E got \in {[tids[s] EXCEPT ![Tid(s)] = Sender(s)]}, done \in {replies} :
       \E answer \in {[t \in {got[f] : f \in DOMAIN done} |->
                         done[CHOOSE f \in DOMAIN done : got[f] = t]]} :
          /\ tids' = [tids EXCEPT ![s] =
                [f \in Fd |-> IF f \in DOMAIN done THEN Nobody ELSE got[f]]]
          /\ phase' = [t \in Task |->
                IF t \in DOMAIN answer THEN "ready"
                ELSE IF t = Sender(s) THEN "waiting" ELSE phase[t]]
          /\ status' = [t \in Task |->
                IF t \in DOMAIN answer THEN answer[t] ELSE status[t]]
          /\ msg' = [t \in Task |-> IF t \in DOMAIN answer THEN None ELSE msg[t]]
    /\ inbox' = [inbox EXCEPT ![s] = Tail(@)]
    /\ UNCHANGED crashed

\* Most handlers answer the client they received, and nobody else.
Reply(s, st) == [fd \in {Tid(s)} |-> st]
NoReply == <<>>

\* A MsgReply later in the handler.
MsgReply(s, fd, st) ==
    /\ ~crashed
    /\ tids[s][fd] # Nobody
    /\ phase' = [phase EXCEPT ![tids[s][fd]] = "ready"]
    /\ status' = [status EXCEPT ![tids[s][fd]] = st]
    /\ msg' = [msg EXCEPT ![tids[s][fd]] = None]
    /\ tids' = [tids EXCEPT ![s][fd] = Nobody]
    /\ UNCHANGED <<inbox, crashed>>

\* No descriptor is left for the reply channel of a request: the kernel
\* panics ("out of channel descriptors").
OutOfFds(s) ==
    /\ Incoming(s)
    /\ FreeFds(s) = {}
    /\ crashed' = TRUE
    /\ UNCHANGED <<phase, msg, status, inbox, tids>>

MsgTypeOK ==
    /\ phase \in [Task -> Phase]
    /\ inbox \in [Server -> Seq(Task)]
    /\ tids \in [Server -> [Fd -> Task \cup {Nobody}]]
    /\ status \in [Task -> Int]
    /\ crashed \in BOOLEAN

\* A server's descriptors and its queue name each client at most once, and
\* exactly those that are in a call: no reply can reach a wrong client.
ClientsNamedOnce ==
    /\ \A t \in Task :
          LET kept   == {p \in Server \X Fd : tids[p[1]][p[2]] = t}
              queued == {p \in Server \X (1 .. Cardinality(Task)) :
                            /\ p[2] <= Len(inbox[p[1]])
                            /\ inbox[p[1]][p[2]] = t}
          IN  /\ Cardinality(kept) = (IF phase[t] = "waiting" THEN 1 ELSE 0)
              /\ Cardinality(queued) = (IF phase[t] = "sending" THEN 1 ELSE 0)
=============================================================================
