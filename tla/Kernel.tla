------------------------------- MODULE Kernel -------------------------------
(***************************************************************************)
(* The task and message-passing core of the kernel: kern/task.c, driven by *)
(* the main loop of kern/main.c and the interrupt handlers of              *)
(* kern/interrupt.c.                                                       *)
(*                                                                         *)
(* There is one CPU and the kernel runs with interrupts off, so a system   *)
(* call or an interrupt is one action.  Between two of them the main loop  *)
(* schedules; the task it activates then makes one system call, faults, or *)
(* is interrupted.  What a user program does next is not known to the      *)
(* kernel: every call with every argument of the sets below may come.      *)
(*                                                                         *)
(* The machine stops when the last non-daemon task has exited, and at a    *)
(* kernel panic; what the panicking call did before no longer matters.     *)
(***************************************************************************)
EXTENDS TaskQueues

CONSTANTS
    MaxTasks,     \* MAX_TASKS: the size of task_lookup
    MaxFds,       \* MAX_TASK_CHANNELS: descriptors in a task
    NPrio,        \* TASK_NPRIO: priorities, 0 the highest
    NEvents,      \* NEVENTS: kernel events
    Channel,      \* the channel structures that fit in memory (a bound)
    NoChannel,    \* the NULL channel pointer
    MaxGen,       \* bound: how often one task structure is reused
    MaxPolls,     \* bound: poll_count, which closing does not decrease
    Calls,        \* the system calls user programs make
    FdArgs,       \* and their arguments: descriptors,
    Nonblock,     \*   whether a send or receive may block,
    Lens,         \*   message lengths,
    SendChans,    \*   sch of sys_send,
    RecvChans,    \*   whether a receiver is willing to receive a channel,
    NullArgs,     \*   whether a result pointer is NULL,
    PollArgs,     \*   events to poll for,
    SpawnPrios,   \*   priority and
    SpawnLists,   \*   chan[] of sys_spawn,
    DupTargets,   \*   newfd and
    FlagArgs      \*   flags of sys_dup

Task  == 1 .. (MaxTasks - 1)
NoTask == 0
Fd    == 0 .. (MaxFds - 1)
AnyFd == -1 .. MaxFds     \* and the nearest numbers that are none
Prio  == 0 .. (NPrio - 1)
Event == 0 .. (NEvents - 1)
Flag  == {"RECV", "SEND", "NONBLOCK"}
PollEvent == {"RECV", "SEND"}
Idle  == 1

ASSUME MaxTasksAssumption == MaxTasks \in 3 .. 4095
ASSUME MaxFdsAssumption == MaxFds \in Nat \ {0}
ASSUME NPrioAssumption == NPrio \in Nat \ {0, 1}
ASSUME NEventsAssumption == NEvents \in Nat
ASSUME ChannelAssumption == IsFiniteSet(Channel) /\ NoChannel \notin Channel
ASSUME InputAssumption ==
    /\ MaxGen \in Nat /\ MaxPolls \in Nat
    /\ FdArgs \subseteq AnyFd /\ SendChans \subseteq AnyFd
    /\ Lens \subseteq Nat
    /\ Nonblock \subseteq BOOLEAN /\ RecvChans \subseteq BOOLEAN
    /\ NullArgs \subseteq BOOLEAN /\ PollArgs \subseteq SUBSET PollEvent
    /\ SpawnPrios \subseteq Int
    /\ SpawnLists \subseteq Seq(AnyFd)
    /\ DupTargets \subseteq AnyFd
    /\ FlagArgs \subseteq SUBSET Flag

(* include/errno.h *)
EINVAL == -3
ENOMEM == -4
EMFILE == -8
EBADF  == -9
ESRCH  == -10
EWOULDBLOCK == -15
EFAULT == -16

VARIABLES
    next_tidx, tid, ptid, priority, daemon, task_count, nondaemon_count,
    state, queue, args,
    table, refcount, free_channel,
    poll_list, poll_queue, poll_count,
    current,     \* the activated task; NoTask while the main loop runs
    ret,         \* <<task, r0>>: results the last kernel entry handed out
    pollresult,  \* <<task, chan, event>>: the pollresults it filled in
    panic        \* the message of the kernel panic, "no" without one

taskVars == <<next_tidx, tid, ptid, priority, daemon,
              task_count, nondaemon_count>>
runVars  == <<state, queue, args>>
chanVars == <<table, refcount, free_channel>>
pollVars == <<poll_list, poll_queue, poll_count>>
vars == <<taskVars, runVars, chanVars, pollVars,
          current, ret, pollresult, panic>>

-----------------------------------------------------------------------------
(* Types.  A queue is named by its kind and its index.                     *)

QueueName ==
    ({"ready"} \X Prio) \cup ({"event"} \X Event) \cup
    ({"free", "poll"} \X {0}) \cup ({"senders", "receivers"} \X Channel)

TaskState == {"RUNNING", "SEND_BLOCKED", "RECV_BLOCKED", "DEAD",
              "EVENT_BLOCKED", "POLL_BLOCKED"}

(* struct channel_desc; its poll_nodes are named by <<task, descriptor>>. *)
Node == Task \X Fd
Desc == [channel : Channel \cup {NoChannel}, flags : SUBSET Flag,
         task : Task \cup {NoTask}, next_free_cd : Fd \cup {-1}]
Table == [cd : [Fd -> Desc], free_cd_head : Fd \cup {-1},
          next_free_cd : 0 .. MaxFds]

(* What a blocked sender or receiver waits with: sendchan, sendchanflags,  *)
(* sendlen or recvlen, and whether recvchan is a non-NULL pointer.         *)
Args == [chan : Channel \cup {NoChannel}, flags : SUBSET Flag,
         len : Nat, rch : BOOLEAN]
NoArgs == [chan |-> NoChannel, flags |-> {}, len |-> 0, rch |-> FALSE]

Panics == {"no", "no task to schedule", "Tried to exit non-running task!",
    "Task had a non-blocked task on send queue",
    "Task had a non-blocked task on receive queue",
    "message is too long", "unwilling to receive channel",
    "out of channel descriptors",
    "Invalid refcount on channel: receivers still exist",
    "Invalid refcount on channel: senders still exist",
    "Invalid refcount on channel: pollers still exist",
    "Unrecognized channel descriptor on poll queue",
    "NULL pointer in the kernel",   \* followed; what comes then is unknown
    "relinked poll node"}           \* cdnodes_init of a node on a list

TaskTypes ==
    /\ next_tidx \in 1 .. MaxTasks
    /\ tid \in [Task -> Nat] /\ ptid \in [Task -> Nat]
    /\ priority \in [Task -> Prio] /\ daemon \in [Task -> BOOLEAN]
    /\ task_count \in Int /\ nondaemon_count \in Int

RunTypes ==
    /\ state \in [Task -> TaskState]
    /\ queue \in [QueueName -> Seq(Task)]
    /\ args \in [Task -> Args]

ChannelTypes ==
    /\ table \in [Task -> Table]
    /\ refcount \in [Channel -> Int] /\ free_channel \subseteq Channel

PollTypes ==
    /\ poll_list \in [Channel \X PollEvent -> Seq(Node)]
    /\ poll_queue \in [Task \X PollEvent -> Seq(Node)]
    /\ poll_count \in [Task -> Int]

TypeOK ==
    /\ TaskTypes /\ RunTypes /\ ChannelTypes /\ PollTypes
    /\ current \in Task \cup {NoTask}
    /\ ret \in SUBSET (Task \X Int)
    /\ pollresult \in SUBSET (Task \X Fd \X PollEvent)
    /\ panic \in Panics

-----------------------------------------------------------------------------
(* Task identifiers: a 12-bit index and a generation.                      *)

MakeTid(idx, gen) == gen * 4096 + idx
TidIdx(id) == id % 4096
TidGen(id) == id \div 4096

SameGen(i) == TidGen(tid[i])      \* mutant: the old tid again
NextGen(i) == TidGen(tid[i]) + 1

(* get_task, as a set: the task a tid names, if it names one.  A task that *)
(* has exited keeps its tid until its structure is reused.                 *)
GetTask(id) ==
    {i \in Task : i = TidIdx(id) /\ i < next_tidx /\ tid[i] = id}

-----------------------------------------------------------------------------
(* Channel descriptors and their free list.                                *)

ClearDesc == [channel |-> NoChannel, flags |-> {}, task |-> NoTask,
              next_free_cd |-> 0]
ClearTable(n) == [cd |-> [fd \in Fd |-> ClearDesc], free_cd_head |-> -1,
                  next_free_cd |-> n]

ChannelOf(t, fd) == table[t].cd[fd].channel
ValidChannel(t, fd) == fd \in Fd /\ ChannelOf(t, fd) # NoChannel

(* The descriptor alloc_channel_desc returns; -1 when there is none. *)
NextFd(tb) ==
    IF tb.free_cd_head >= 0 THEN tb.free_cd_head
    ELSE IF tb.next_free_cd < MaxFds THEN tb.next_free_cd ELSE -1

TakeFdGrows(tb, t) ==     \* mutant: counts a reused descriptor as a new one
    LET no == NextFd(tb) IN
    [cd |-> [tb.cd EXCEPT ![no].task = t],
     free_cd_head |-> IF tb.free_cd_head >= 0 THEN tb.cd[no].next_free_cd
                                              ELSE tb.free_cd_head,
     next_free_cd |-> tb.next_free_cd + 1]

TakeFdStale(tb, t) ==     \* mutant: the head stays on the free list
    LET no == NextFd(tb) IN
    [tb EXCEPT !.cd[no].task = t,
               !.next_free_cd = IF tb.free_cd_head >= 0 THEN @ ELSE @ + 1]

(* The table it leaves behind (of a task t). *)
TakeFd(tb, t) ==
    LET no == NextFd(tb) IN
    [cd |-> [tb.cd EXCEPT ![no].task = t],
     free_cd_head |-> IF tb.free_cd_head >= 0 THEN tb.cd[no].next_free_cd
                                              ELSE tb.free_cd_head,
     next_free_cd |-> IF tb.free_cd_head >= 0 THEN tb.next_free_cd
                                              ELSE tb.next_free_cd + 1]

(* free_channel_desc, with the descriptor closed. *)
ReleaseFd(tb, no) ==
    [tb EXCEPT !.cd[no].channel = NoChannel,
               !.cd[no].next_free_cd = tb.free_cd_head,
               !.free_cd_head = no]

(* Descriptor no now refers to c. *)
Install(tb, no, c, flags) ==
    [tb EXCEPT !.cd[no].channel = c, !.cd[no].flags = flags]

-----------------------------------------------------------------------------
(* Poll lists.  The node of a descriptor and event is on the list of its   *)
(* channel, on the queue of its task, or on neither.                       *)

LinkedOnList(n, ev) ==    \* mutant: forgets the queues of reported events
    \E c \in Channel : n \in Range(poll_list[<<c, ev>>])

Linked(n, ev) ==
    \/ \E c \in Channel : n \in Range(poll_list[<<c, ev>>])
    \/ \E i \in Task : n \in Range(poll_queue[<<i, ev>>])

LinkedAtAll(n) == \E ev \in PollEvent : Linked(n, ev)

(* cdnode_delete of the nodes N for the events E. *)
Unlink(lists, N, E) ==
    [l \in DOMAIN lists |->
        IF l[2] \in E THEN Without(lists[l], N) ELSE lists[l]]

(* A RECV event is a waiting sender, a SEND event a waiting receiver. *)
Side(ev) == IF ev = "RECV" THEN "senders" ELSE "receivers"

ActiveOther(c, ev) ==     \* mutant: looks at the wrong side
    queue[<<IF ev = "RECV" THEN "receivers" ELSE "senders", c>>] # <<>>

(* poll_check *)
Active(c, ev) == queue[<<Side(ev), c>>] # <<>>

-----------------------------------------------------------------------------
(* How a kernel entry ends.                                                *)

Caller(t, call) ==
    /\ panic = "no" /\ current = t /\ t # Idle
    /\ call \in Calls

Leave(R) == current' = NoTask /\ ret' = R

(* The call returns r and changes nothing. *)
Answer(t, r) ==
    /\ Leave({<<t, r>>}) /\ pollresult' = {}
    /\ UNCHANGED <<taskVars, runVars, chanVars, pollVars, panic>>

Panic(why) ==
    /\ panic' = why
    /\ Leave({}) /\ pollresult' = {}
    /\ UNCHANGED <<taskVars, runVars, chanVars, pollVars>>

ReadyQueue(i) == <<"ready", priority[i]>>

-----------------------------------------------------------------------------
(* close_channel, of the descriptors F of task t whose table is tb: the    *)
(* nodes come off their lists (poll_count stays as it is), and a channel   *)
(* that loses its last reference goes to the free list.                    *)

ClosedOn(tb, F, c) == Cardinality({fd \in F : tb.cd[fd].channel = c})

ReleasedEarly(tb, F) ==   \* mutant: frees with one reference left
    {c \in Channel : /\ ClosedOn(tb, F, c) > 0
                     /\ refcount[c] <= ClosedOn(tb, F, c) + 1}

Released(tb, F) ==
    {c \in Channel : ClosedOn(tb, F, c) > 0 /\ refcount[c] = ClosedOn(tb, F, c)}

CloseFailure(t, tb, F) ==
    LET lists == Unlink(poll_list, {t} \X F, PollEvent)
        dying == Released(tb, F)
    IN  IF \E c \in dying : queue[<<"receivers", c>>] # <<>>
        THEN "Invalid refcount on channel: receivers still exist"
        ELSE IF \E c \in dying : queue[<<"senders", c>>] # <<>>
        THEN "Invalid refcount on channel: senders still exist"
        ELSE IF \E c \in dying, ev \in PollEvent : lists[<<c, ev>>] # <<>>
        THEN "Invalid refcount on channel: pollers still exist"
        ELSE "no"

ClosePolls(t, F) ==
    /\ poll_list' = Unlink(poll_list, {t} \X F, PollEvent)
    /\ poll_queue' = Unlink(poll_queue, {t} \X F, PollEvent)

(* sys_close *)
Close(t, no) ==
    /\ Caller(t, "close")
    /\ \/ ~ValidChannel(t, no) /\ Answer(t, EBADF)
       \/ /\ ValidChannel(t, no)
          /\ LET why == CloseFailure(t, table[t], {no}) IN
             \/ why # "no" /\ Panic(why)
             \/ /\ why = "no"
                /\ table' = [table EXCEPT ![t] = ReleaseFd(@, no)]
                /\ refcount' = [refcount EXCEPT ![ChannelOf(t, no)] = @ - 1]
                /\ free_channel' = free_channel \cup Released(table[t], {no})
                /\ ClosePolls(t, {no})
                /\ Leave({<<t, 0>>}) /\ pollresult' = {}
                /\ UNCHANGED <<taskVars, runVars, poll_count, panic>>

(* sys_channel.  Which of the free structures is reused cannot be seen.    *)
NewChannel(t) ==
    LET no == NextFd(table[t]) IN
    /\ Caller(t, "channel")
    /\ \/ no < 0 /\ Answer(t, EMFILE)
       \/ /\ no >= 0 /\ LinkedAtAll(<<t, no>>)
          /\ Panic("relinked poll node")
       \/ /\ no >= 0 /\ ~LinkedAtAll(<<t, no>>)
          /\ \E c \in free_channel :
                /\ free_channel' = free_channel \ {c}
                /\ refcount' = [refcount EXCEPT ![c] = 1]
                /\ queue' = [queue EXCEPT ![<<"senders", c>>] = <<>>,
                                          ![<<"receivers", c>>] = <<>>]
                /\ poll_list' = [l \in DOMAIN poll_list |->
                                    IF l[1] = c THEN <<>> ELSE poll_list[l]]
                /\ table' = [table EXCEPT ![t] =
                                Install(TakeFd(@, t), no, c, {"RECV", "SEND"})]
          /\ Leave({<<t, no>>}) /\ pollresult' = {}
          /\ UNCHANGED <<taskVars, state, args, poll_queue, poll_count, panic>>

(* sys_chanflags *)
FlagWord(f) ==
    (IF "RECV" \in f THEN 1 ELSE 0) + (IF "SEND" \in f THEN 2 ELSE 0)
        + (IF "NONBLOCK" \in f THEN 4 ELSE 0)

Chanflags(t, fd) ==
    /\ Caller(t, "chanflags")
    /\ Answer(t, IF ValidChannel(t, fd) THEN FlagWord(table[t].cd[fd].flags)
                 ELSE EBADF)

(* sys_dup, of a descriptor onto itself: sets the flags. *)
DupSelf(t, fd, flags) ==
    /\ Caller(t, "dup") /\ ValidChannel(t, fd)
    /\ table' = [table EXCEPT ![t].cd[fd].flags = flags]
    /\ Leave({<<t, fd>>}) /\ pollresult' = {}
    /\ UNCHANGED <<taskVars, runVars, refcount, free_channel, pollVars, panic>>

(* sys_dup, otherwise.  A newfd that is open is closed first, which puts   *)
(* it on the free list of descriptors; a newfd the task never allocated    *)
(* does not get its task pointer.                                          *)
DupError(t, oldfd, newfd) ==
    IF ~ValidChannel(t, oldfd) THEN EBADF
    ELSE IF newfd = -1 /\ NextFd(table[t]) < 0 THEN EMFILE
    ELSE IF newfd # -1 /\ newfd \notin Fd THEN EBADF
    ELSE 0

Dup(t, oldfd, newfd) ==
    /\ Caller(t, "dup") /\ (oldfd # newfd \/ ~ValidChannel(t, oldfd))
    /\ LET err == DupError(t, oldfd, newfd)
           no  == IF newfd = -1 THEN NextFd(table[t]) ELSE newfd
           tb  == IF newfd = -1 THEN TakeFd(table[t], t) ELSE table[t]
           old == tb.cd[no].channel
           c   == ChannelOf(t, oldfd)
           F   == IF old = NoChannel THEN {} ELSE {no}
           why == IF no = oldfd THEN "NULL pointer in the kernel"
                  ELSE IF F = {} /\ LinkedAtAll(<<t, no>>)
                  THEN "relinked poll node" ELSE CloseFailure(t, tb, F)
           tb2 == IF F = {} THEN tb ELSE ReleaseFd(tb, no)
       IN  \/ err # 0 /\ Answer(t, err)
           \/ err = 0 /\ why # "no" /\ Panic(why)
           \/ /\ err = 0 /\ why = "no"
              /\ table' = [table EXCEPT ![t] =
                              Install(tb2, no, c, tb.cd[oldfd].flags)]
              /\ refcount' = [d \in Channel |-> refcount[d]
                                - ClosedOn(tb, F, d) + (IF d = c THEN 1 ELSE 0)]
              /\ free_channel' = free_channel \cup Released(tb, F)
              /\ ClosePolls(t, F)
              /\ Leave({<<t, no>>}) /\ pollresult' = {}
              /\ UNCHANGED <<taskVars, runVars, poll_count, panic>>

-----------------------------------------------------------------------------
(* Tasks.                                                                  *)

CountAll(d) == 1                  \* mutant: daemons keep the system up
NonDaemon(d) == IF d THEN 0 ELSE 1

SpawnError(t, prio, chans, flags) ==
    IF flags \notin {0, 1} \/ prio \notin Prio \/ Len(chans) > MaxFds
    THEN EINVAL
    ELSE IF \E k \in DOMAIN chans : ~ValidChannel(t, chans[k]) THEN EBADF
    ELSE IF queue[<<"free", 0>>] = <<>> /\ next_tidx >= MaxTasks THEN ENOMEM
    ELSE 0

(* The descriptor table of a new task i: the channels of chans, in order. *)
SpawnTable(t, i, chans) ==
    [ClearTable(Len(chans)) EXCEPT !.cd =
        [fd \in Fd |->
            IF fd < Len(chans)
            THEN [ClearDesc EXCEPT !.channel = ChannelOf(t, chans[fd + 1]),
                                   !.flags = table[t].cd[chans[fd + 1]].flags,
                                   !.task = i]
            ELSE ClearDesc]]

(* sys_spawn: the structure of the task that has been dead longest is      *)
(* reused under its next generation; without a dead task a new structure   *)
(* is allocated.                                                           *)
Spawn(t, prio, chans, flags) ==
    /\ Caller(t, "spawn")
    /\ LET err  == SpawnError(t, prio, chans, flags)
           free == queue[<<"free", 0>>]
           i    == IF free = <<>> THEN next_tidx ELSE Head(free)
           gen  == IF free = <<>> THEN 0 ELSE NextGen(i)
       IN  \/ err # 0 /\ Answer(t, err)
           \/ /\ err = 0 /\ gen <= MaxGen
              /\ next_tidx' = IF free = <<>> THEN next_tidx + 1 ELSE next_tidx
              /\ tid' = [tid EXCEPT ![i] = MakeTid(i, gen)]
              /\ ptid' = [ptid EXCEPT ![i] = tid[t]]
              /\ priority' = [priority EXCEPT ![i] = prio]
              /\ daemon' = [daemon EXCEPT ![i] = (flags = 1)]
              /\ task_count' = task_count + 1
              /\ nondaemon_count' = nondaemon_count + NonDaemon(flags = 1)
              /\ state' = [state EXCEPT ![i] = "RUNNING"]
              /\ queue' = Requeue(queue, <<i>>, [k \in {i} |-> <<"ready", prio>>])
              /\ table' = [table EXCEPT ![i] = SpawnTable(t, i, chans)]
              /\ refcount' = [c \in Channel |-> refcount[c] + Cardinality(
                    {k \in DOMAIN chans : ChannelOf(t, chans[k]) = c})]
              /\ poll_queue' = [l \in DOMAIN poll_queue |->
                                   IF l[1] = i THEN <<>> ELSE poll_queue[l]]
              /\ poll_count' = [poll_count EXCEPT ![i] = 0]
              /\ Leave({<<t, MakeTid(i, gen)>>}) /\ pollresult' = {}
              /\ UNCHANGED <<args, free_channel, poll_list, panic>>

(* exit_task: sys_exit, and the end of a task that faults.  What is left   *)
(* in the descriptor table of a dead task is cleared when it is reused.    *)
ExitTask(t) ==
    /\ Caller(t, "exit")
    /\ LET open == {fd \in Fd : ChannelOf(t, fd) # NoChannel}
           why  == IF state[t] # "RUNNING" THEN "Tried to exit non-running task!"
                   ELSE CloseFailure(t, table[t], open)
       IN  \/ why # "no" /\ Panic(why)
           \/ /\ why = "no"
              /\ nondaemon_count' = nondaemon_count - NonDaemon(daemon[t])
              /\ task_count' = task_count - 1
              /\ table' = [table EXCEPT ![t] = ClearTable(0)]
              /\ refcount' = [c \in Channel |->
                                 refcount[c] - ClosedOn(table[t], open, c)]
              /\ free_channel' = free_channel \cup Released(table[t], open)
              /\ ClosePolls(t, open)
              /\ state' = [state EXCEPT ![t] = "DEAD"]
              /\ queue' = Requeue(queue, <<t>>, [k \in {t} |-> <<"free", 0>>])
              /\ Leave({}) /\ pollresult' = {}
              /\ UNCHANGED <<next_tidx, tid, ptid, priority, daemon, args,
                             poll_count, panic>>

-----------------------------------------------------------------------------
(* Polling.                                                                *)

(* The task that waits in poll_wait learns of the first of its reported    *)
(* descriptors that is still active.  Hit is that node's place, 0 if none  *)
(* is; the nodes before it go back to the lists of their channels, and it  *)
(* goes to the end of the task's queue (handle_poll).                      *)
AnyAt(t, ev) == DOMAIN poll_queue[<<t, ev>>]   \* mutant: no second look

ActiveAt(t, ev) ==
    {k \in DOMAIN poll_queue[<<t, ev>>] :
        Active(ChannelOf(poll_queue[<<t, ev>>][k][1],
                         poll_queue[<<t, ev>>][k][2]), ev)}

Hit(t, ev) ==
    IF ActiveAt(t, ev) = {} THEN 0
    ELSE CHOOSE k \in ActiveAt(t, ev) : \A j \in ActiveAt(t, ev) : k <= j

Looked(t, ev) ==
    IF Hit(t, ev) = 0 THEN poll_queue[<<t, ev>>]
    ELSE SubSeq(poll_queue[<<t, ev>>], 1, Hit(t, ev))

Inactive(t, ev) ==
    IF Hit(t, ev) = 0 THEN poll_queue[<<t, ev>>]
    ELSE SubSeq(poll_queue[<<t, ev>>], 1, Hit(t, ev) - 1)

Rotated(t, ev) ==
    LET s == poll_queue[<<t, ev>>] IN
    IF Hit(t, ev) = 0 THEN <<>>
    ELSE Append(SubSeq(s, Hit(t, ev) + 1, Len(s)), s[Hit(t, ev)])

(* sys_poll_wait.  The events are tried in their order, RECV first. *)
PollWait(t, null) ==
    /\ Caller(t, "poll_wait")
    /\ LET err   == IF poll_count[t] = 0 THEN EINVAL
                    ELSE IF null THEN EFAULT ELSE 0
           tried == IF Hit(t, "RECV") # 0 THEN {"RECV"} ELSE PollEvent
           found == {ev \in tried : Hit(t, ev) # 0}
           alien == \E ev \in tried : \E n \in Range(Looked(t, ev)) :
                        table[n[1]].cd[n[2]].task # t
       IN  \/ err # 0 /\ Answer(t, err)
           \/ /\ err = 0 /\ alien
              /\ Panic("Unrecognized channel descriptor on poll queue")
           \/ /\ err = 0 /\ ~alien
              /\ poll_list' = [l \in DOMAIN poll_list |->
                    IF l[2] \in tried
                    THEN poll_list[l] \o Keep(Inactive(t, l[2]),
                            {n \in Node : ChannelOf(n[1], n[2]) = l[1]})
                    ELSE poll_list[l]]
              /\ poll_queue' = [l \in DOMAIN poll_queue |->
                    IF l[1] = t /\ l[2] \in tried THEN Rotated(t, l[2])
                    ELSE poll_queue[l]]
              /\ \/ /\ found = {}
                    /\ state' = [state EXCEPT ![t] = "POLL_BLOCKED"]
                    /\ queue' = Requeue(queue, <<t>>, [i \in {t} |-> <<"poll", 0>>])
                    /\ Leave({}) /\ pollresult' = {}
                 \/ /\ found # {}
                    /\ queue' = Requeue(queue, <<t>>, [i \in {t} |-> ReadyQueue(i)])
                    /\ UNCHANGED state
                    /\ Leave({<<t, 0>>})
                    /\ pollresult' =
                        {<<t, poll_queue[<<t, ev>>][Hit(t, ev)][2], ev>> : ev \in found}
              /\ UNCHANGED <<taskVars, args, chanVars, poll_count, panic>>

(* sys_poll_add *)
PollAdd(t, fd, events) ==
    /\ Caller(t, "poll_add")
    /\ LET bad  == ValidChannel(t, fd) => ~(events \subseteq table[t].cd[fd].flags)
           new  == {ev \in events : ~Linked(<<t, fd>>, ev)}
           here == {ev \in new : Active(ChannelOf(t, fd), ev)}
       IN  \/ bad /\ Answer(t, EBADF)
           \/ /\ ~bad /\ poll_count[t] + Cardinality(new) <= MaxPolls
              /\ poll_queue' = [l \in DOMAIN poll_queue |->
                    IF l[1] = t /\ l[2] \in here
                    THEN Append(poll_queue[l], <<t, fd>>) ELSE poll_queue[l]]
              /\ poll_list' = [l \in DOMAIN poll_list |->
                    IF l[1] = ChannelOf(t, fd) /\ l[2] \in new \ here
                    THEN Append(poll_list[l], <<t, fd>>) ELSE poll_list[l]]
              /\ poll_count' = [poll_count EXCEPT ![t] = @ + Cardinality(new)]
              /\ Leave({<<t, 0>>}) /\ pollresult' = {}
              /\ UNCHANGED <<taskVars, runVars, chanVars, panic>>

(* sys_poll_remove *)
PollRemove(t, fd, events) ==
    /\ Caller(t, "poll_remove")
    /\ LET old == {ev \in events : Linked(<<t, fd>>, ev)} IN
       \/ ~ValidChannel(t, fd) /\ Answer(t, EBADF)
       \/ /\ ValidChannel(t, fd)
          /\ poll_list' = Unlink(poll_list, {<<t, fd>>}, events)
          /\ poll_queue' = Unlink(poll_queue, {<<t, fd>>}, events)
          /\ poll_count' = [poll_count EXCEPT ![t] = @ - Cardinality(old)]
          /\ Leave({<<t, 0>>}) /\ pollresult' = {}
          /\ UNCHANGED <<taskVars, runVars, chanVars, panic>>

-----------------------------------------------------------------------------
(* Message passing.                                                        *)

InPollWait(st, i) == st[i] = "POLL_BLOCKED"

(* The end of sys_send and sys_recv, from the queues q, task states st and *)
(* results R that handle_receive leaves.  If the caller still waits on c,  *)
(* poll_trigger_all moves every node that polls for it to the queue of its *)
(* task, and a task blocked in poll_wait wakes up on its first node: its   *)
(* queue was empty, so that node is the one handle_poll finds.             *)
Trigger(c, ev, q, st, R) ==
    LET nodes    == IF q[<<Side(ev), c>>] = <<>> THEN <<>> ELSE poll_list[<<c, ev>>]
        owner(n) == table[n[1]].cd[n[2]].task
        first    == {nodes[k] : k \in {k \in DOMAIN nodes :
                        \A j \in 1 .. (k-1) : owner(nodes[j]) # owner(nodes[k])}}
        hits     == Keep(nodes, {n \in first : /\ owner(n) # NoTask
                                               /\ InPollWait(st, owner(n))})
        woken    == [k \in DOMAIN hits |-> owner(hits[k])]
    IN  /\ poll_list' = IF nodes = <<>> THEN poll_list
                        ELSE [poll_list EXCEPT ![<<c, ev>>] = <<>>]
        /\ poll_queue' = [l \in DOMAIN poll_queue |->
                IF l[2] = ev
                THEN poll_queue[l] \o
                     Keep(nodes, {n \in Range(nodes) : owner(n) = l[1]})
                ELSE poll_queue[l]]
        /\ state' = [i \in Task |-> IF i \in Range(woken) THEN "RUNNING" ELSE st[i]]
        /\ queue' = Requeue(q, woken, [i \in Task |-> ReadyQueue(i)])
        /\ Leave(R \cup {<<i, 0>> : i \in Range(woken)})
        /\ pollresult' = {<<owner(n), n[2], ev>> : n \in Range(hits)}
        /\ panic' = IF \E n \in Range(nodes) : owner(n) = NoTask
                    THEN "NULL pointer in the kernel" ELSE panic

PeekLast(q) == q[Len(q)]                     \* mutant: last come, first served
Peek(q) == Head(q)

PairWaits(q, c) ==        \* mutant: looks before the caller has queued
    queue[<<"senders", c>>] # <<>> /\ queue[<<"receivers", c>>] # <<>>
Pair(q, c) == q[<<"senders", c>>] # <<>> /\ q[<<"receivers", c>>] # <<>>

(* The panics of handle_receive, for sender s and receiver r. *)
ReceiveFailure(s, r, st, a) ==
    LET no == NextFd(table[r]) IN
    IF st[s] # "SEND_BLOCKED" THEN "Task had a non-blocked task on send queue"
    ELSE IF st[r] # "RECV_BLOCKED" THEN "Task had a non-blocked task on receive queue"
    ELSE IF a[s].len > a[r].len THEN "message is too long"
    ELSE IF a[s].chan = NoChannel THEN "no"
    ELSE IF ~a[r].rch THEN "unwilling to receive channel"
    ELSE IF no < 0 THEN "out of channel descriptors"
    ELSE IF LinkedAtAll(<<r, no>>) THEN "relinked poll node"
    ELSE "no"

(* Task t joins side ev of channel c and waits there with x; if there is   *)
(* now a sender and a receiver, handle_receive passes the message of the   *)
(* first sender, and the channel that goes with it, to the first receiver. *)
Exchange(t, ev, c, x) ==
    LET st == [state EXCEPT ![t] = IF ev = "RECV" THEN "SEND_BLOCKED"
                                                  ELSE "RECV_BLOCKED"]
        q  == Requeue(queue, <<t>>, [i \in {t} |-> <<Side(ev), c>>])
        a  == [args EXCEPT ![t] = x]
    IN  \/ /\ ~Pair(q, c)
           /\ args' = a
           /\ Trigger(c, ev, q, st, {})
           /\ UNCHANGED <<taskVars, chanVars, poll_count>>
        \/ /\ Pair(q, c)
           /\ LET s   == Peek(q[<<"senders", c>>])
                  r   == Peek(q[<<"receivers", c>>])
                  no  == NextFd(table[r])
                  why == ReceiveFailure(s, r, st, a)
              IN  \/ why # "no" /\ Panic(why)
                  \/ /\ why = "no"
                     /\ \/ /\ a[s].chan = NoChannel
                           /\ UNCHANGED <<table, refcount>>
                        \/ /\ a[s].chan # NoChannel
                           /\ table' = [table EXCEPT ![r] =
                                Install(TakeFd(@, r), no, a[s].chan, a[s].flags)]
                           /\ refcount' = [refcount EXCEPT ![a[s].chan] = @ + 1]
                     /\ args' = [a EXCEPT ![s] = NoArgs, ![r] = NoArgs]
                     /\ Trigger(c, ev,
                            Requeue(q, <<r, s>>, [i \in Task |-> ReadyQueue(i)]),
                            [st EXCEPT ![s] = "RUNNING", ![r] = "RUNNING"],
                            {<<r, a[s].len>>, <<s, 0>>})
                     /\ UNCHANGED <<taskVars, free_channel, poll_count>>

(* The early returns of sys_send and sys_recv. *)
ExchangeError(t, fd, ev, nonblock, sch) ==
    LET cd == table[t].cd[fd]
        other == IF ev = "RECV" THEN "SEND" ELSE "RECV"
    IN  IF ~ValidChannel(t, fd) THEN EBADF
        ELSE IF other \notin cd.flags THEN EBADF
        ELSE IF (nonblock \/ "NONBLOCK" \in cd.flags) /\ ~Active(cd.channel, other)
        THEN EWOULDBLOCK
        ELSE IF sch # -1 /\ ~ValidChannel(t, sch) THEN EBADF
        ELSE 0

(* sys_send of len bytes, with channel sch unless that is -1. *)
Send(t, fd, len, sch, nonblock) ==
    LET err == ExchangeError(t, fd, "RECV", nonblock, sch) IN
    /\ Caller(t, "send")
    /\ \/ err # 0 /\ Answer(t, err)
       \/ /\ err = 0
          /\ Exchange(t, "RECV", ChannelOf(t, fd),
                IF sch = -1 THEN [NoArgs EXCEPT !.len = len]
                ELSE [chan |-> ChannelOf(t, sch), flags |-> table[t].cd[sch].flags,
                      len |-> len, rch |-> FALSE])

(* sys_recv into len bytes, willing to receive a channel or not. *)
Recv(t, fd, len, rch, nonblock) ==
    LET err == ExchangeError(t, fd, "SEND", nonblock, -1) IN
    /\ Caller(t, "recv")
    /\ \/ err # 0 /\ Answer(t, err)
       \/ /\ err = 0
          /\ Exchange(t, "SEND", ChannelOf(t, fd),
                [NoArgs EXCEPT !.len = len, !.rch = rch])

-----------------------------------------------------------------------------
(* Events and interrupts.                                                  *)

(* sys_event_wait *)
EventWait(t, e) ==
    /\ Caller(t, "event_wait")
    /\ \/ e \notin Event /\ Answer(t, EINVAL)
       \/ /\ e \in Event
          /\ state' = [state EXCEPT ![t] = "EVENT_BLOCKED"]
          /\ queue' = Requeue(queue, <<t>>, [i \in {t} |-> <<"event", e>>])
          /\ Leave({}) /\ pollresult' = {}
          /\ UNCHANGED <<taskVars, args, chanVars, pollVars, panic>>

AllButFirst(e) ==         \* mutant: loses the task it has in its hand
    IF e \in Event /\ queue[<<"event", e>>] # <<>>
    THEN Tail(queue[<<"event", e>>]) ELSE <<>>

Awaiting(e) == IF e \in Event THEN queue[<<"event", e>>] ELSE <<>>

(* event_unblock_all, from the handler of an interrupt; an interrupt that  *)
(* wakes nobody (another device's) has e = -1.                             *)
EventUnblockAll(e, R) ==
    LET woken == Awaiting(e) IN
    /\ queue' = Requeue(queue, woken, [i \in Task |-> ReadyQueue(i)])
    /\ state' = [i \in Task |-> IF i \in Range(woken) THEN "RUNNING" ELSE state[i]]
    /\ Leave(R \cup {<<i, 0>> : i \in Range(woken)}) /\ pollresult' = {}
    /\ UNCHANGED <<taskVars, args, chanVars, pollVars, panic>>

(* task_irq takes the CPU from the running task. *)
Interrupt(e) ==
    /\ panic = "no" /\ current # NoTask
    /\ EventUnblockAll(e, {})

(* sys_suspend waits for an interrupt inside the call; it is all the idle  *)
(* task ever does.                                                         *)
Suspend(t, e) ==
    /\ panic = "no" /\ current = t
    /\ t = Idle \/ "suspend" \in Calls
    /\ EventUnblockAll(e, {<<t, 0>>})

-----------------------------------------------------------------------------
(* Calls that ask the kernel about tasks.                                  *)

Gettid(t) == Caller(t, "gettid") /\ Answer(t, tid[t])

Yield(t) == Caller(t, "yield") /\ Answer(t, 0)

(* get_ptid forgets a parent whose task structure was reused. *)
ParentOf(t) == IF GetTask(ptid[t]) # {} THEN ptid[t] ELSE 0

Getptid(t) ==
    /\ Caller(t, "getptid")
    /\ ptid' = [ptid EXCEPT ![t] = ParentOf(t)]
    /\ Leave({<<t, ParentOf(t)>>}) /\ pollresult' = {}
    /\ UNCHANGED <<next_tidx, tid, priority, daemon, task_count,
                   nondaemon_count, runVars, chanVars, pollVars, panic>>

(* sys_taskstat of task id (0: the kernel), with a buffer or without one.  *)
(* What it writes to the buffer is left out, but it looks up the parent of *)
(* the caller for it.                                                      *)
Taskstat(t, id, null) ==
    /\ Caller(t, "taskstat")
    /\ LET r == IF id = 0 THEN (IF null THEN task_count ELSE 0)
                ELSE IF GetTask(id) = {} THEN ESRCH ELSE 0
       IN  \/ (id = 0 \/ null \/ r = ESRCH) /\ Answer(t, r)
           \/ /\ ~(id = 0 \/ null \/ r = ESRCH)
              /\ ptid' = [ptid EXCEPT ![t] = ParentOf(t)]
              /\ Leave({<<t, r>>}) /\ pollresult' = {}
              /\ UNCHANGED <<next_tidx, tid, priority, daemon, task_count,
                             nondaemon_count, runVars, chanVars, pollVars, panic>>

-----------------------------------------------------------------------------
(* The main loop.                                                          *)

ReadyPrios == {p \in Prio : queue[<<"ready", p>>] # <<>>}
Lowest == CHOOSE p \in ReadyPrios : \A r \in ReadyPrios : r <= p   \* mutant
Highest == CHOOSE p \in ReadyPrios : \A r \in ReadyPrios : p <= r

NoAdvance(s) == s         \* mutant: the queue does not go round
Advance(s) == Append(Tail(s), Head(s))

(* schedule: the first task of the highest non-empty priority, which goes  *)
(* to the end of its queue and runs.                                       *)
Schedule ==
    /\ panic = "no" /\ current = NoTask /\ nondaemon_count > 0
    /\ \/ ReadyPrios = {} /\ Panic("no task to schedule")
       \/ /\ ReadyPrios # {}
          /\ LET ready == queue[<<"ready", Highest>>] IN
             /\ queue' = [queue EXCEPT ![<<"ready", Highest>>] = Advance(ready)]
             /\ current' = Head(ready)
          /\ ret' = {} /\ pollresult' = {}
          /\ UNCHANGED <<taskVars, state, args, chanVars, pollVars, panic>>

(* The machine has stopped: by a panic, or because main returned. *)
Stopped ==
    /\ panic # "no" \/ (current = NoTask /\ nondaemon_count <= 0)
    /\ UNCHANGED vars

(* init_tasks, and the two tasks main spawns: idle and init. *)
Init ==
    /\ next_tidx = 3
    /\ tid = [i \in Task |-> IF i <= 2 THEN MakeTid(i, 0) ELSE 0]
    /\ ptid = [i \in Task |-> 0]
    /\ priority = [i \in Task |-> IF i = Idle THEN NPrio - 1 ELSE NPrio - 2]
    /\ daemon = [i \in Task |-> i = Idle]
    /\ task_count = 2 /\ nondaemon_count = 1
    /\ state = [i \in Task |-> IF i <= 2 THEN "RUNNING" ELSE "DEAD"]
    /\ queue = [q \in QueueName |->
                   IF q = <<"ready", NPrio - 1>> THEN <<1>>
                   ELSE IF q = <<"ready", NPrio - 2>> THEN <<2>> ELSE <<>>]
    /\ args = [i \in Task |-> NoArgs]
    /\ table = [i \in Task |-> ClearTable(0)]
    /\ refcount = [c \in Channel |-> 0] /\ free_channel = Channel
    /\ poll_list = [l \in Channel \X PollEvent |-> <<>>]
    /\ poll_queue = [l \in Task \X PollEvent |-> <<>>]
    /\ poll_count = [i \in Task |-> 0]
    /\ current = NoTask /\ ret = {} /\ pollresult = {} /\ panic = "no"

TidArg == {0} \cup {MakeTid(i, g) : i \in 1 .. MaxTasks, g \in 0 .. MaxGen}

ChannelCall(t) ==
    \/ NewChannel(t)
    \/ \E fd \in FdArgs : Close(t, fd) \/ Chanflags(t, fd)
    \/ \E fd \in FdArgs, f \in FlagArgs : DupSelf(t, fd, f)
    \/ \E fd \in FdArgs, new \in DupTargets : Dup(t, fd, new)

MessageCall(t) ==
    \E fd \in FdArgs, len \in Lens, nb \in Nonblock :
        \/ \E sch \in SendChans : Send(t, fd, len, sch, nb)
        \/ \E rch \in RecvChans : Recv(t, fd, len, rch, nb)

PollCall(t) ==
    \/ \E fd \in FdArgs, E \in PollArgs : PollAdd(t, fd, E) \/ PollRemove(t, fd, E)
    \/ \E null \in NullArgs : PollWait(t, null)

TaskCall(t) ==
    \/ \E prio \in SpawnPrios, chans \in SpawnLists, flags \in 0 .. 2 :
          Spawn(t, prio, chans, flags)
    \/ ExitTask(t) \/ Gettid(t) \/ Getptid(t) \/ Yield(t)
    \/ \E id \in TidArg, null \in NullArgs : Taskstat(t, id, null)
    \/ \E e \in -1 .. NEvents : EventWait(t, e) \/ Suspend(t, e)

Next ==
    \/ Schedule
    \/ \E t \in Task :
          ChannelCall(t) \/ MessageCall(t) \/ PollCall(t) \/ TaskCall(t)
    \/ \E e \in -1 .. (NEvents - 1) : Interrupt(e)
    \/ Stopped

Spec == Init /\ [][Next]_vars

(* The main loop goes on, and the clock interrupts user programs for ever  *)
(* (init_clock_irq starts it with autoreload): event 0 here.               *)
FairSpec == Spec /\ WF_vars(Schedule) /\ SF_vars(Interrupt(0))

=============================================================================
