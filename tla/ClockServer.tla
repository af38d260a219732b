---------------------------- MODULE ClockServer -----------------------------
(***************************************************************************)
(* servers/clock.c over the requests and replies of lib/msg.c: the server, *)
(* the notifier that turns timer interrupts into messages, and clients     *)
(* that sleep or ask for the time.                                         *)
(*                                                                         *)
(* The handler of a message is one action.  The notifier runs at priority  *)
(* 0, the server at 1 and clients below, so nobody else runs while the     *)
(* notifier can; an interrupt may come at any time.                        *)
(***************************************************************************)
EXTENDS Messages, DelayHeap

CONSTANTS
    Client,    \* tasks that use the clock
    Notifier,  \* the notifier task
    Clock,     \* the server
    DELAYS,    \* room in the heap
    IntMax,    \* the largest int
    Askers,    \* bound: the clients that send requests other than delays
    Msecs,     \* bound: what clients pass to msleep
    MaxNow     \* bound: nobody calls after that time

ASSUME ClockAssumption ==
    /\ Task = Client \cup {Notifier} /\ Notifier \notin Client
    /\ Clock \in Server
    /\ DELAYS \in Nat \ {0}
    /\ IntMax \in Nat /\ MaxNow < IntMax
    /\ Askers \subseteq Client /\ Msecs \subseteq 1 .. IntMax

EINVAL  == -3
ENOMEM  == -4
ENOFUNC == -7

VARIABLES
    now,         \* ticks the server has counted
    delays,      \* the heap, a function on 0 .. num_delays - 1
    num_delays,
    waiting,     \* whether the notifier is in event_wait
    elapsed      \* [Client -> ticks since it called msleep, up to what it
                 \* asked for; 0 when awake]: what it could see on a watch

clockVars == <<now, delays, num_delays, waiting, elapsed>>
vars == <<msgVars, clockVars>>

NoData == -1    \* a message of fewer bytes than an int

Init ==
    /\ MsgInit
    /\ now = 0 /\ delays = [i \in {} |-> 0] /\ num_delays = 0
    /\ waiting = TRUE
    /\ elapsed = [c \in Client |-> 0]

-----------------------------------------------------------------------------
(* The notifier and the interrupt.                                         *)

\* The notifier is about to run, and nothing of lower priority does.
NotifierReady == phase[Notifier] = "ready" /\ ~waiting

InSleep(c) == phase[c] \in {"sending", "waiting"} /\ msg[c].code = "DELAY"

\* event_unblock_all: a tick wakes the notifier if it waits for it, and is
\* lost if it does not.  (Bound: the count of ticks does not overflow.)
Tick ==
    /\ ~crashed /\ now < IntMax
    /\ now < MaxNow \/ \E c \in Client : InSleep(c)
    /\ waiting' = FALSE
    /\ elapsed' = [c \in Client |->
            IF InSleep(c) /\ elapsed[c] < msg[c].data
            THEN elapsed[c] + 1 ELSE elapsed[c]]
    /\ UNCHANGED <<msgVars, now, delays, num_delays>>

\* Replied to, the notifier goes back to event_wait (see Served); woken, it
\* sends to the server.
Notify ==
    /\ NotifierReady
    /\ MsgSend(Notifier, Clock, [code |-> "NOTIFY", data |-> 0])
    /\ UNCHANGED clockVars

-----------------------------------------------------------------------------
(* Clients.                                                                *)

Call(c, m) ==
    /\ now < MaxNow /\ ~NotifierReady
    /\ MsgSend(c, Clock, m)
    /\ UNCHANGED clockVars

Msleep(c) == \E msec \in Msecs : Call(c, [code |-> "DELAY", data |-> msec])
Time(c)   == Call(c, [code |-> "TIME", data |-> 0])

\* Any other message that a client may send: too short, or of no known code.
Other(c) ==
    \/ Call(c, [code |-> "DELAY", data |-> NoData])
    \/ Call(c, [code |-> "OTHER", data |-> 0])

-----------------------------------------------------------------------------
(* The server.                                                             *)

Incoming_(code) ==
    /\ ~NotifierReady
    /\ Incoming(Clock) /\ Request(Clock).code = code

\* (The watch stops when msleep returns.)
Awake == elapsed' = [c \in Client |->
            IF phase'[c] = "ready" THEN 0 ELSE elapsed[c]]

\* (Mutants: too late by a tick; on the tick only.)
DueLater(item, time)   == item.time < time
DueExactly(item, time) == item.time = time
Due(item, time) == item.time <= time

\* The loop of CLOCK_NOTIFY_MSG: the heap after up to k pops, and whom they
\* answered.
Popped(time) ==
    LET After[k \in Nat] ==
            IF k = 0 THEN [heap |-> delays, n |-> num_delays, woken |-> {}]
            ELSE LET p == After[k - 1] IN
                 IF p.n > 0 /\ Due(p.heap[0], time)
                 THEN [heap |-> Pop(p.heap, p.n), n |-> p.n - 1,
                       woken |-> p.woken \cup {p.heap[0].tid}]
                 ELSE p
    IN  After[num_delays]

ServeNotify ==
    LET p == Popped(now + 1) IN
    /\ Incoming_("NOTIFY")
    /\ Serve(Clock, [fd \in p.woken \cup {Tid(Clock)} |-> 0])
    /\ now' = now + 1
    /\ delays' = p.heap /\ num_delays' = p.n
    /\ waiting' = TRUE
    /\ Awake

\* (A mutant: the tick under way counts.)
SumsFromNext(msec) == {now + msec - 1}

\* The sum rcvdata + now is an int.  When it overflows, which C leaves
\* undefined, the compiler may compare the wrapped sum with now, or see that
\* rcvdata is positive and keep the wrapped time.
Sums(msec) ==
    IF now + msec <= IntMax THEN {now + msec}
    ELSE {now + msec - 2 * (IntMax + 1)}

ServeDelay ==
    LET msec == Request(Clock).data IN
    /\ Incoming_("DELAY")
    /\ UNCHANGED <<now, waiting>>
    /\ \/ /\ msec = NoData
          /\ Serve(Clock, Reply(Clock, EINVAL))
          /\ UNCHANGED <<delays, num_delays>>
       \/ /\ msec # NoData
          /\ \E time \in Sums(msec) :
             \/ /\ time <= now
                /\ Serve(Clock, Reply(Clock, 0))
                /\ UNCHANGED <<delays, num_delays>>
             \/ /\ num_delays = DELAYS
                /\ Serve(Clock, Reply(Clock, ENOMEM))
                /\ UNCHANGED <<delays, num_delays>>
             \/ /\ num_delays < DELAYS
                /\ Serve(Clock, NoReply)
                /\ delays' = Push(delays, num_delays,
                                  [tid |-> Tid(Clock), time |-> time])
                /\ num_delays' = num_delays + 1
    /\ Awake

ServeTime ==
    /\ Incoming_("TIME")
    /\ Serve(Clock, Reply(Clock, now))
    /\ UNCHANGED clockVars

ServeOther ==
    /\ Incoming_("OTHER")
    /\ Serve(Clock, Reply(Clock, ENOFUNC))
    /\ UNCHANGED clockVars

ServerStep ==
    \/ ServeNotify \/ ServeDelay \/ ServeTime \/ ServeOther
    \/ ~NotifierReady /\ OutOfFds(Clock) /\ UNCHANGED clockVars

Next ==
    \/ Tick
    \/ Notify
    \/ \E c \in Client : Msleep(c)
    \/ \E c \in Askers : Time(c) \/ Other(c)
    \/ ServerStep

\* Timer interrupts keep coming, and the scheduler runs the notifier and the
\* server, which have the highest priorities, whenever they are ready.
Spec == Init /\ [][Next]_vars
        /\ WF_vars(Tick) /\ WF_vars(Notify) /\ WF_vars(ServerStep)

-----------------------------------------------------------------------------
(* Properties.                                                             *)

TypeOK ==
    /\ MsgTypeOK
    /\ now \in 0 .. IntMax
    /\ num_delays \in 0 .. DELAYS
    /\ delays \in [0 .. (num_delays - 1) -> [tid : Fd, time : Int]]
    /\ waiting \in BOOLEAN
    /\ elapsed \in [Client -> 0 .. IntMax]

\* The array is a heap, and what it holds are exactly the descriptors that the
\* server keeps, each once: nobody who sleeps is forgotten or answered twice,
\* and no descriptor is lost (clock.c:100-115).
SleepersInHeap ==
    /\ IsHeap(delays, num_delays)
    /\ \A fd \in Fd :
          Cardinality({i \in DOMAIN delays : delays[i].tid = fd})
          = (IF fd \in FreeFds(Clock) THEN 0 ELSE 1)

\* Nobody is left to sleep past its time (clock.c:93-96); a time that
\* overflowed is negative and waits for the next tick.
NoneOverdue ==
    \A i \in DOMAIN delays : delays[i].time > now \/ delays[i].time < 0

\* msleep does not return before as many ticks as it asked for, unless the sum
\* overflows (clock.c:103): ticks may be lost, never counted twice or counted
\* for a client that came after them.
NotEarly ==
    [][\A c \in Client :
          /\ InSleep(c) /\ ~InSleep(c)'
          /\ status'[c] = 0
          /\ now' + msg[c].data <= IntMax
          => elapsed[c] >= msg[c].data]_vars

\* Every sleeper wakes up, however many ticks the notifier misses
\* (clock.c:124-131), unless the kernel has run out of descriptors.
Wakes == \A c \in Client : InSleep(c) ~> (~InSleep(c) \/ crashed)
=============================================================================
