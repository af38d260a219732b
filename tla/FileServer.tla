----------------------------- MODULE FileServer -----------------------------
(***************************************************************************)
(* servers/fs.c: the server that keeps channels under names, and the       *)
(* functions that tasks call.  A request and its reply are those of        *)
(* lib/msg.c; here the descriptors count, on both sides, which MsgSend and *)
(* MsgReceive take for the reply channel and which hold the channels.      *)
(*                                                                         *)
(* The server has priority 2; it handles one request at a time, in the     *)
(* order they are sent.  Clients, of any priority, run in between.         *)
(***************************************************************************)
EXTENDS Integers, Sequences, FiniteSets

CONSTANTS
    Client, Path,
    HASH_MAX, PathHash,   \* rootfs.ht and str_hash
    Fd,                   \* descriptors the server has left when it starts
    ClientFds,            \* and how many a client has
    Chan, NoChan,         \* bound: the channels that are made
    Uses,                 \* bound: [Client -> the functions it calls]
    NoItem

Api == {"open", "xopen", "mkdir", "mkchan", "rmchan", "mkopenchan", "sendpath"}

ASSUME FileServerAssumption ==
    /\ HASH_MAX \in Nat \ {0} /\ PathHash \in [Path -> Nat]
    /\ Fd # {} /\ Fd \subseteq Nat /\ IsFiniteSet(Fd) /\ ClientFds \in Nat
    /\ Uses \in [Client -> SUBSET Api]
    /\ NoChan \notin Chan
    /\ NoItem \notin [key: Path, value: Fd, deleted: {FALSE}]
    /\ NoItem # [deleted |-> TRUE]

VARIABLES
    ht,         \* the table, and the names in its items
    sfd,        \* [Fd -> the channel of a descriptor of the server]
    inbox,      \* clients blocked in MsgSend
    call,       \* [Client -> the call it is in, NoCall outside]
    held,       \* [Client -> how many channels it has open]
    answer,     \* [Client -> the answer to the call it is in]
    exited, crashed,
    used        \* channels that have been made

clientVars == <<inbox, call, held, answer, exited, crashed>>
vars == <<ht, sfd, used, clientVars>>

NoCall == [api |-> "none"]
Table == INSTANCE HashTable WITH HtMax <- HASH_MAX, Hash <- PathHash

Init ==
    /\ ht = Table!EmptyTable
    /\ sfd = [fd \in Fd |-> NoChan]
    /\ used = {}
    /\ inbox = <<>>
    /\ call = [c \in Client |-> NoCall]
    /\ held = [c \in Client |-> 0]
    /\ answer = [c \in Client |-> "none"]
    /\ exited = {} /\ crashed = FALSE

-----------------------------------------------------------------------------
(* Clients.                                                                *)

Running(c) == ~crashed /\ c \notin exited
\* (A mutant: what is opened takes none.)
FreeFdsForever(c) == ClientFds
FreeFds(c) == ClientFds - held[c]

\* MsgSend: without a descriptor for the reply channel, send is given an error
\* for it and fails, and the task exits.
XsendExits(c) == FreeFds(c) = 0

Request(c, api, code, path) ==
    /\ IF XsendExits(c)
       THEN /\ exited' = exited \cup {c}
            /\ UNCHANGED <<inbox, call>>
       ELSE /\ inbox' = Append(inbox, c)
            /\ call' = [call EXCEPT ![c] =
                    [api |-> api, code |-> code, path |-> path, done |-> FALSE]]
            /\ UNCHANGED exited
    /\ UNCHANGED <<ht, sfd, used, held, answer, crashed>>

\* The first request of each function.
FirstCode(api) ==
    CASE api \in {"mkchan", "mkopenchan"}         -> "MKCHAN"
      [] api \in {"open", "xopen", "sendpath"}    -> "OPEN"
      [] api = "rmchan"                           -> "RMCHAN"
      [] OTHER                                    -> "MKDIR"

Call(c, api, path) ==
    /\ Running(c) /\ call[c] = NoCall
    /\ Request(c, api, FirstCode(api), path)

\* What follows the reply.  xopen, mkopenchan and sendpath exit if it was an
\* error; mkopenchan goes on to open what it has made, and sendpath closes what
\* it opened (after a request to another server).
Failed(c) == answer[c] \in {"ENOENT", "EEXIST", "ENOSPC", "ENOFUNC"}
Exits == {"xopen", "mkopenchan", "sendpath"}

Return(c) ==
    /\ Running(c) /\ call[c] # NoCall /\ call[c].done
    /\ IF Failed(c) /\ call[c].api \in Exits
       THEN /\ exited' = exited \cup {c}
            /\ call' = [call EXCEPT ![c] = NoCall]
            /\ answer' = [answer EXCEPT ![c] = "none"]
            /\ UNCHANGED <<ht, sfd, used, inbox, held, crashed>>
       ELSE IF call[c].api = "mkopenchan" /\ call[c].code = "MKCHAN"
       THEN Request(c, "mkopenchan", "OPEN", call[c].path)
       ELSE /\ call' = [call EXCEPT ![c] = NoCall]
            /\ held' = [held EXCEPT ![c] =
                    IF call[c].api = "sendpath" THEN @ - 1 ELSE @]
            /\ answer' = [answer EXCEPT ![c] = "none"]
            /\ UNCHANGED <<ht, sfd, used, inbox, exited, crashed>>

Close(c) ==
    /\ Running(c) /\ call[c] = NoCall /\ held[c] > 0
    /\ held' = [held EXCEPT ![c] = @ - 1]
    /\ UNCHANGED <<ht, sfd, used, inbox, call, answer, exited, crashed>>

-----------------------------------------------------------------------------
(* The server, fileserver_task.  MsgReceive takes a descriptor for the     *)
(* reply channel, which MsgReply gives back at the end of the handler.     *)

FreeServerFds == {fd \in Fd : sfd[fd] = NoChan}
Sender  == Head(inbox)
ThePath == call[Sender].path
Slot    == Table!HashtableGet(ht, ThePath)
NewSlot == Table!HashtableReserve(ht, ThePath)

Handles(code) ==
    /\ ~crashed /\ inbox # <<>> /\ call[Sender].code = code
    /\ FreeServerFds # {}

MsgReply(a) ==
    /\ inbox' = Tail(inbox)
    /\ answer' = [answer EXCEPT ![Sender] = a]
    /\ call' = [call EXCEPT ![Sender].done = TRUE]
    /\ UNCHANGED exited

MsgReplyStatus(a) == MsgReply(a) /\ UNCHANGED <<held, crashed>>

\* The kernel panics when the client has no descriptor for the channel.
DoOpen ==
    /\ Handles("OPEN")
    /\ IF Slot = Table!HT_NOKEY THEN MsgReplyStatus("ENOENT")
       ELSE IF FreeFds(Sender) < 2
       THEN /\ crashed' = TRUE
            /\ UNCHANGED <<inbox, call, held, answer, exited>>
       ELSE /\ MsgReply(sfd[ht[Slot].value])
            /\ held' = [held EXCEPT ![Sender] = @ + 1]
            /\ UNCHANGED crashed
    /\ UNCHANGED <<ht, sfd, used>>

DoMkdir ==
    /\ Handles("MKDIR")
    /\ MsgReplyStatus("ENOFUNC")
    /\ UNCHANGED <<ht, sfd, used>>

\* (A mutant: the descriptor of the reply channel is not counted.)
RoomForOne == FreeServerFds # {}

\* The reply channel has taken one of the free descriptors.
RoomForChannel == \E fd, reply \in FreeServerFds : fd # reply

NextChan == CHOOSE ch \in Chan : ch \notin used

DoMkchan ==
    /\ Handles("MKCHAN")
    /\ \/ /\ NewSlot = Table!HT_NOKEY
          /\ MsgReplyStatus("ENOSPC")
          /\ UNCHANGED <<ht, sfd, used>>
       \/ /\ NewSlot # Table!HT_NOKEY /\ Table!Active(ht, NewSlot)
          /\ MsgReplyStatus("EEXIST")
          /\ UNCHANGED <<ht, sfd, used>>
       \/ /\ NewSlot # Table!HT_NOKEY /\ ~Table!Active(ht, NewSlot)
          /\ ~RoomForChannel
          /\ MsgReplyStatus("ENOSPC")
          /\ UNCHANGED <<ht, sfd, used>>
       \/ /\ NewSlot # Table!HT_NOKEY /\ ~Table!Active(ht, NewSlot)
          /\ RoomForChannel
          /\ MsgReplyStatus("made")
          /\ LET fd == CHOOSE f \in FreeServerFds : \A g \in FreeServerFds : f <= g
                 ch == NextChan
             IN  /\ Chan \ used # {}
                 /\ sfd' = [sfd EXCEPT ![fd] = ch]
                 /\ used' = used \cup {ch}
                 /\ ht' = Table!Activate(ht, NewSlot, ThePath, fd)

DoRmchan ==
    /\ Handles("RMCHAN")
    /\ UNCHANGED used
    /\ IF Slot = Table!HT_NOKEY
       THEN MsgReplyStatus("ENOENT") /\ UNCHANGED <<ht, sfd>>
       ELSE /\ MsgReplyStatus("removed")
            /\ sfd' = [sfd EXCEPT ![ht[Slot].value] = NoChan]
            /\ ht' = Table!Delete(ht, Slot)

Server == DoOpen \/ DoMkdir \/ DoMkchan \/ DoRmchan

Next ==
    \/ \E c \in Client :
          \/ \E api \in Uses[c], p \in Path : Call(c, api, p)
          \/ Return(c)
          \/ Close(c)
    \/ Server

Spec == Init /\ [][Next]_vars

-----------------------------------------------------------------------------
(* Properties.                                                             *)

TypeOK ==
    /\ DOMAIN ht = 0 .. (HASH_MAX - 1)
    /\ \A i \in DOMAIN ht : Table!Active(ht, i) =>
          ht[i].key \in Path /\ ht[i].value \in Fd
    /\ sfd \in [Fd -> Chan \cup {NoChan}]
    /\ inbox \in Seq(Client)
    /\ held \in [Client -> 0 .. ClientFds]
    /\ exited \subseteq Client /\ crashed \in BOOLEAN

\* The table and the descriptors together are a directory, whatever names
\* collide, are removed and are made again, and refuse a name only when all
\* places or descriptors are taken (fs.c:118-162, lib.c:46-83).
Directory == INSTANCE Directory WITH
    dir <- [p \in Path |-> LET i == Table!HashtableGet(ht, p) IN
                IF i = Table!HT_NOKEY THEN NoChan ELSE sfd[ht[i].value]],
    Places <- HASH_MAX,
    Room <- Cardinality(Fd) - 1
ImplementsDirectory == Directory!Spec

\* hashtable_reserve returns "the first inactive item" if there is one
\* (hashtable.h:55): a name is only refused when every item is active.
InactiveFound ==
    \A p \in Path : Table!HashtableReserve(ht, p) = Table!HT_NOKEY =>
        \A i \in DOMAIN ht : Table!Active(ht, i)

\* The open descriptors are those of the names, one each, and one is left for
\* the reply channel of the next request: the server never stops for want of a
\* descriptor (fs.c:139-142).
DescriptorsKept ==
    /\ \A fd \in Fd : sfd[fd] # NoChan =>
          \E i \in DOMAIN ht : Table!Active(ht, i) /\ ht[i].value = fd
                 /\ \A j \in DOMAIN ht \ {i} :
                       ~(Table!Active(ht, j) /\ ht[j].value = fd)
    /\ FreeServerFds # {}
=============================================================================
