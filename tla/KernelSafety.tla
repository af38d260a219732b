---------------------------- MODULE KernelSafety ----------------------------
(***************************************************************************)
(* What kern/task.c has to keep true, beyond the types.                    *)
(***************************************************************************)
EXTENDS Kernel

(* Every task that exists is on exactly one queue, once: the ready queue   *)
(* of its priority while it can run, the queue it blocked on while it is   *)
(* blocked, the free queue once it has exited.  (task_move trusts          *)
(* task->queue, and schedule, handle_receive, event_unblock_one and        *)
(* task_alloc trust what they find at the start of a queue.)               *)
HomeQueues(st, i) ==      \* by the task states st
    CASE st[i] = "RUNNING"       -> {ReadyQueue(i)}
      [] st[i] = "SEND_BLOCKED"  -> {"senders"} \X Channel
      [] st[i] = "RECV_BLOCKED"  -> {"receivers"} \X Channel
      [] st[i] = "EVENT_BLOCKED" -> {"event"} \X Event
      [] st[i] = "POLL_BLOCKED"  -> {<<"poll", 0>>}
      [] st[i] = "DEAD"          -> {<<"free", 0>>}

PlacesIn(seqs, names, x) ==     \* where x is on the sequences of these names
    UNION {{n} \X {k \in DOMAIN seqs[n] : seqs[n][k] = x} : n \in names}

Places(i) == PlacesIn(queue, QueueName, i)

QueuesAgree ==
    \A i \in Task :
        IF i >= next_tidx THEN Places(i) = {}
        ELSE /\ Cardinality(Places(i)) = 1
             /\ \A p \in Places(i) : p[1] \in HomeQueues(state, i)

(* task_count counts the tasks that have not exited, nondaemon_count those *)
(* among them the main loop keeps running for.                             *)
Alive == {i \in Task : i < next_tidx /\ state[i] # "DEAD"}

CountsAgree ==
    /\ task_count = Cardinality(Alive)
    /\ nondaemon_count = Cardinality({i \in Alive : ~daemon[i]})

(* The refcount of a channel is the number of open descriptors that refer  *)
(* to it, over all tasks (include/kern/task.h:50).                         *)
OpenOn(c) == {n \in Node : ChannelOf(n[1], n[2]) = c}

RefcountIsOpen ==
    \A c \in Channel : refcount[c] = Cardinality(OpenOn(c))

(* Besides, the free channels are exactly those nobody refers to: neither  *)
(* a leak nor a channel freed in use.                                      *)
RefcountExact ==
    /\ RefcountIsOpen
    /\ \A c \in Channel : c \in free_channel <=> refcount[c] = 0

(* A channel that some task waits on, polls, or waits to hand over is not  *)
(* freed: it is still referred to.                                         *)
InUse(c) ==
    \/ \E side \in {"senders", "receivers"} : queue[<<side, c>>] # <<>>
    \/ \E ev \in PollEvent : poll_list[<<c, ev>>] # <<>>
    \/ \E i \in Task : state[i] = "SEND_BLOCKED" /\ args[i].chan = c

ChannelsInUseLive ==
    \A c \in Channel : InUse(c) => refcount[c] > 0 /\ c \notin free_channel

(* None of the panics that check the kernel's own data is ever reached,    *)
(* whatever the tasks do.  (A task can panic the kernel with a message     *)
(* that is too long, an unwilling or a full receiver.)                     *)
InternalPanics == Panics \ {"no", "message is too long",
    "unwilling to receive channel", "out of channel descriptors"}

NoInternalPanic == panic \notin InternalPanics

(* A sender and a receiver never both wait on a channel: whoever comes     *)
(* second takes the message along.                                         *)
NobodyMissed ==
    \A c \in Channel :
        queue[<<"senders", c>>] = <<>> \/ queue[<<"receivers", c>>] = <<>>

(* No lost wakeup: while something waits on a channel, no descriptor still *)
(* waits on its poll list to be told, and a task that sleeps in poll_wait  *)
(* has no report it was not told of.                                       *)
NoLostPoll ==
    /\ \A c \in Channel, ev \in PollEvent :
          queue[<<Side(ev), c>>] # <<>> => poll_list[<<c, ev>>] = <<>>
    /\ \A i \in Task, ev \in PollEvent :
          state[i] = "POLL_BLOCKED" => poll_queue[<<i, ev>>] = <<>>

(* A descriptor is at most once on a list per event, and that list is its  *)
(* channel's or its task's (include/kern/task.h:61-63); only an open       *)
(* descriptor is on a list.                                                *)
PollPlaces(n, ev) ==
    PlacesIn(poll_list, Channel \X {ev}, n) \cup
    PlacesIn(poll_queue, Task \X {ev}, n)

NodesOnce ==
    \A n \in Node, ev \in PollEvent :
        /\ Cardinality(PollPlaces(n, ev)) <= 1
        /\ \A p \in PollPlaces(n, ev) :
              p[1][1] \in {ChannelOf(n[1], n[2]), n[1]}

(* poll_count is the "number of events polled by this task"                *)
(* (include/kern/task.h:82), so that poll_wait refuses to wait for ever.   *)
PollCountExact ==
    \A i \in Alive : poll_count[i] =
        Cardinality({p \in Fd \X PollEvent : PollPlaces(<<i, p[1]>>, p[2]) # {}})

(* The pollresult of a poll_wait names an open descriptor of the task,     *)
(* enrolled for that event, and the event is there at that moment.         *)
ReportsTrue ==
    \A r \in pollresult :
        /\ state[r[1]] = "RUNNING" /\ ValidChannel(r[1], r[2])
        /\ queue[<<Side(r[3]), ChannelOf(r[1], r[2])>>] # <<>>
        /\ PollPlaces(<<r[1], r[2]>>, r[3]) # {}

(* A descriptor below next_free_cd is open or once on the free list, the   *)
(* others are closed: alloc_channel_desc hands out no descriptor in use,   *)
(* and fails only when all are open.                                       *)
FreeCd(tb) ==
    LET f[k \in 0 .. MaxFds] ==
            IF k = 0 THEN tb.free_cd_head
            ELSE IF f[k-1] \in Fd THEN tb.cd[f[k-1]].next_free_cd ELSE -1
    IN  f

DescriptorsAccounted ==
    \A i \in Alive :
        LET free == FreeCd(table[i]) IN
        /\ free[MaxFds] = -1
        /\ \A fd \in Fd :
              Cardinality({k \in 0 .. MaxFds : free[k] = fd}) =
                 IF fd < table[i].next_free_cd /\ ~ValidChannel(i, fd) THEN 1 ELSE 0
        /\ \A fd \in Fd : fd >= table[i].next_free_cd => ~ValidChannel(i, fd)

(* No task runs while one of a higher priority is ready; the idle task can *)
(* always run, so that schedule finds a task.                              *)
PriorityRespected ==
    /\ current # NoTask =>
          \A i \in Alive : state[i] = "RUNNING" => priority[i] >= priority[current]
    /\ state[Idle] = "RUNNING"

-----------------------------------------------------------------------------
(* Steps.                                                                  *)

(* The waiters of a channel are served first come, first served, and none  *)
(* gives up: only the first task of a queue leaves it.                     *)
FirstComeFirstServed ==
    [][\A c \in Channel, side \in {"senders", "receivers"} :
          LET old == queue[<<side, c>>]
              new == queue'[<<side, c>>]
          IN  \/ new = old
              \/ old # <<>> /\ new = Tail(old)
              \/ \E t \in Task : t = current /\ new = Append(old, t)]_vars

(* A message is passed once: whenever a blocked sender goes on, the task   *)
(* then calling received its message, on the same channel, and whenever a  *)
(* blocked receiver goes on it got what the caller sent.                   *)
OneForOne ==
    [][\A i \in Task :
          /\ (state[i] = "SEND_BLOCKED" /\ state'[i] # "SEND_BLOCKED") =>
                /\ <<i, 0>> \in ret' /\ <<current, args[i].len>> \in ret'
                /\ Cardinality({j \in Task : state[j] = "SEND_BLOCKED"
                                          /\ state'[j] # "SEND_BLOCKED"}) = 1
          /\ (state[i] = "RECV_BLOCKED" /\ state'[i] # "RECV_BLOCKED") =>
                /\ <<current, 0>> \in ret'
                /\ \E len \in Lens : len <= args[i].len /\ <<i, len>> \in ret'
                /\ Cardinality({j \in Task : state[j] = "RECV_BLOCKED"
                                          /\ state'[j] # "RECV_BLOCKED"}) = 1]_vars

(* A new task is nobody's parent: the children of a task that has exited   *)
(* do not take the task that reuses its structure for their parent.        *)
OrphansStayOrphans ==
    [][\A i \in Task :
          (state[i] = "DEAD" /\ state'[i] # "DEAD") =>
              \A j \in Alive \cup {current} : ptid[j] # tid'[i]]_vars

-----------------------------------------------------------------------------
(* Progress.                                                               *)

Halted == panic # "no" \/ nondaemon_count <= 0

(* A task of the highest priority that can run gets the CPU, however many  *)
(* others of that priority there are and whatever they do: schedule goes   *)
(* round.                                                                  *)
RoundRobin ==
    \A i \in Task : (state[i] = "RUNNING" /\ priority[i] = 0)
                        ~> (current = i \/ Halted)

(* A task that waits for the clock tick wakes up. *)
TickWakes ==
    \A i \in Task : (i \in Range(queue[<<"event", 0>>]))
                        ~> (state[i] = "RUNNING" \/ Halted)

-----------------------------------------------------------------------------
(* How the programs of this system poll.                                   *)

(* No program closes a descriptor that it polls, unless by its exit:       *)
(* MsgSend (lib/msg.c:35) closes the reply channel it made itself, the     *)
(* lock server (servers/lock.c:93-94) the channels it did not register,    *)
(* the shell never closes what it polls.                                   *)
PolledStayOpen ==
    \A i \in Task, fd \in Fd :
        (LinkedAtAll(<<i, fd>>) /\ state'[i] # "DEAD")
            => table'[i].cd[fd].channel # NoChannel

CarefulSpec == Init /\ [][Next /\ PolledStayOpen]_vars

=============================================================================
