# A TLA+ model of the CS499 kernel and its servers

The repository is a small operating system in C for an OMAP3 (ARM) board: a
micro-kernel with channels for message passing (`kern/`), servers that run as
tasks on top of it (`servers/`), a support library (`lib/`), drivers and a few
programs. This directory holds models of it in TLA+, configurations that
check them with TLC, and theorems about them whose proofs TLAPS checks.

## 1. Inventory

| Component | State it keeps | Operations | Talks to |
|---|---|---|---|
| Kernel core: `kern/task.c`, driven by `kern/main.c` and `kern/interrupt.c` | task structures (tid, parent, priority, state, registers), one queue per priority, event, channel side, for pollers and for dead tasks; a descriptor table with a free list per task; reference-counted channels on a free list; a poll list per channel and event, a poll queue per task and event | 17 system calls, `schedule`, waking by interrupts, killing a task that faults | every task (system calls), every driver (interrupts) |
| Message library `lib/msg.c`, `lib/iovec.c` | none; a reply channel per request in flight | `MsgSend`, `MsgReceive`, `MsgReply` | kernel channels, all servers |
| Clock server `servers/clock.c` | `now`, a heap of delays | notify, delay, time; a notifier task | tick event, clients of `msleep`, `time` |
| Lock server `servers/lock.c` | which side of each registered channel it polls | register, unregister, lock and unlock events | clients send to lock and receive to unlock |
| File server `servers/fs.c` | hash table of paths to channels | open, mkdir, mkchan, rmchan | every task that looks up a service |
| Console server `servers/console.c` | transmit queue, receive queue, queue of readers | write, getchar, two notifiers | UART and its interrupts, clients |
| Network servers `servers/net.c` | ARP cache, port table, packet rings, console queues | ARP dispatch and query, UDP bind, release, request, dispatch, ICMP echo | Ethernet chip, each other, the clock |
| Genesis `servers/genesis.c` | none | start a task on request of another host | UDP |
| Support library `lib/lib.c`, `lib/string.c`, `include/hashtable.h` | hash tables and circular queues of its callers | get, reserve, delete; push, pop; `parse_args`, `strtoul` | servers, shell |
| Output `lib/printf.c`, `kern/printk.c` | none | formatting; `panic` | console, UART |
| Applications `apps/` | their own | shell, tests, benchmarks, game of life | servers |
| Drivers `drivers/` | device registers | UART, Ethernet, timers, interrupt controller, GPIO, watchdog | interrupts |
| Processor support `kern/*.S`, `kern/mmu.c`, `lib/*.S` | registers, page table | traps, context switch, memory routines | kernel |
| Symbols, backtraces, `kmalloc`, info | symbol table, heap pointer | lookup, printing | kernel, genesis |

What is hard in it:

- *Kernel.* Nothing runs in parallel inside the kernel (one CPU, interrupts
  off), but system calls of different tasks interleave freely and most of them
  leave state that another call trusts much later: a task on a queue, a node
  on a poll list, a reference in a message that waits, a descriptor on a free
  list. Correct means: every task is on the queue of its state; counts equal
  what they count; a channel is freed when nobody refers to it and not before;
  a sender and a receiver meet, in order and one for one; no wakeup is lost;
  the scheduler is strict about priorities and fair within one.
- *Servers.* They receive, keep the reply descriptor of a client that must
  wait, and answer later. Notifier tasks turn interrupts into messages and
  miss interrupts while their last message is not answered. Descriptors, queue
  slots and buffers run out. The lock server acts on events that others may
  have consumed.
- *Library.* Boundaries: a full hash table with deleted entries, wrapping
  queues, bases and digits.

Every hazard is listed at its line in `PROJECT.json`, with the properties that
watch it, or with the reason why none does.

## 2. Modules

| Layer | Modules | Stand for |
|---|---|---|
| Kernel | `TaskQueues`, `Kernel`, `KernelSafety`, `MCKernel` | `kern/task.c` and the main loop |
| Messages | `Messages` | `lib/msg.c`: request and reply between tasks and servers |
| Locks | `Lock` (abstract), `LockServer`, `LockTest` | `servers/lock.c`, `lock_test` of the shell |
| Time | `DelayHeap`, `ClockServer` | `servers/clock.c` |
| Names | `Directory` (abstract), `HashTable`, `FileServer`, `MCFileServer` | `servers/fs.c` on the table of `lib/lib.c` |
| Console | `Console` | `servers/console.c`, `drivers/uart.c`, `uart_isr` |
| Network | `PacketRing`, `ArpTable`, `CircularQueue`, `Network`, `Netsrr`, `MCNetwork` | `servers/net.c`, `servers/genesis.c`, the receiving side of `drivers/eth.c`, `eth_isr`, `netsrr` of the shell |
| Proofs | `KernelProofs`, `KernelDescriptorProofs`, `MessageProofs`, `ClockProofs`, `LockTestProofs`, `LibProofs`, `FileServerProofs`, `NetworkProofs` | theorems about the modules above |

How they compose: `ClockServer`, `Console` and `Network` EXTEND `Messages`,
which stands for what the kernel model shows of channels with one reader.
`LockTest` EXTENDS `Console` and `LockServer`: the children of `lock_test` are
clients of both, and the properties of a lock are checked, and proved, as they
stand in `LockServer`. `FileServer`, `ArpTable` and `Network` each
have an instance of `HashTable`, with the size and hash function of their own.
`Lock` and `Directory` say what a lock and a directory are; `LockServer` and
`FileServer` are shown to implement them.

What is left of the plan, in this order: the start-up of the system (init, the
order of its servers, interrupts that come before anybody waits for them) on
top of `FileServer` and `Network`; number and argument parsing against their
definitions.

## 3. The kernel model

| Module | Models |
|---|---|
| `TaskQueues` | the circular task lists of `task.c:71-143` as sequences: dequeueing and `task_move` of one or several tasks |
| `Kernel` | all system calls of `task.c`, the main loop, interrupts, faults |
| `KernelSafety` | what has to hold |
| `MCKernel` | argument sets for TLC |

**State.** `task_lookup` and `next_tidx` become functions of task indexes.
Index 0 is never a task (`NoTask`), 1 is the idle task, 2 is init. A task
queue is a sequence, named by its kind and index: `<<"ready", priority>>`,
`<<"event", n>>`, `<<"senders", c>>`, `<<"receivers", c>>`, `<<"free", 0>>`,
`<<"poll", 0>>`. The field `task->queue` is the name of the queue the task is
on. `table[t]` is the descriptor table: `cd`, `free_cd_head`, `next_free_cd`.
A poll node is named by task and descriptor; `poll_list` and `poll_queue` hold
the lists it can be on. `args[t]` is what a blocked sender or receiver waits
with. `ret` and `pollresult` hold the results the last kernel entry handed
out, to the caller or to tasks it woke; `panic` is the message of a panic.

**Actions.** One per system call, each with all its early returns in the order
of the code; `Answer` is a call that only returns a code. `Schedule` is one
turn of the main loop: it picks a task and sets `current`. The task then makes
one call, or is interrupted (`Interrupt`), or suspends. A fault ends a task by
`exit_task`, as `syscall_exit` does, and is the same action. `Trigger` is
`poll_trigger_all` with the `handle_poll` of each task it wakes; `Exchange` is
the rest of `syscall_send` and `syscall_recv` with `handle_receive`. What a user
program does next is not known to the kernel, so every call with every
argument of the constant sets may come.

**Panics** stop the machine (`Stopped`), as does the end of the last task that
is not a daemon. After a panic the state in which it happened is kept
unchanged; the rest of the call is of no interest.

**Undefined behaviour** in the code that the model can reach (a NULL task or
node pointer that is followed, a list node initialised while it is linked) ends in
a panic of its own, so that no property silently depends on what comes then.

**Left out**: registers, stacks, the bytes of messages and the copying of
iovecs (a message is its length), the virtual addresses of result pointers (a
pointer is NULL or not), and the contents `taskstat` writes. Allocation of
memory never fails, as `kmalloc` never does, but for the bound on `Channel`.

### Bounds

`MaxTasks`, `MaxFds`, `NPrio`, `NEvents` are constants of the code made small:
2 or 3 tasks besides idle, 1 or 2 descriptors, 2 or 3 priorities, up to 2
events. `Channel` is a bound on the number of channels alive at once, `MaxGen`
on how often one task structure is reused, `MaxPolls` on `poll_count`, which
the code lets grow with each poll of a descriptor closed and opened again. Two
user tasks are enough for a channel to be shared, handed over and closed on
either side, for a parent to die before its child and for a structure to be
reused; three are needed for two waiters on one side, for a waiter that is
passed by, and for a third party that closes. Two descriptors give a free list
of more than one entry. The number of calls is not bounded.

### Fairness

`FairSpec` assumes weak fairness of the main loop (`Schedule`) and strong
fairness of `Interrupt(0)`: the clock interrupt is set up with autoreload
(`interrupt.c:19`), so it comes again and again while user programs run,
whatever they do. It stands for event 0 there, since the model does not tell
events apart. Nothing is assumed of the tasks: a program may compute for ever.

### Runs

| Run | Instance | Properties |
|---|---|---|
| `kernel_ipc` | 2 user tasks, 2 channels, 2 descriptors each; channel, close, dup to a new descriptor, spawn, send, recv, exit, with bad arguments too | `RefcountExact`, `ChannelsInUseLive`, `NoInternalPanic`, `DescriptorsAccounted`, `NobodyMissed`, `TypeOK` |
| `kernel_pollers` | 3 user tasks that share 1 channel; send, recv, poll, close, also of what they poll, exit | `QueuesAgree`, `NoLostPoll`, `NodesOnce`, `ReportsTrue`, `FirstComeFirstServed`, `OneForOne` |
| `kernel_tasks` | up to 2 user tasks that spawn, exit, are reused, wait for 2 events, open a channel and change its flags, at 3 priorities | `CountsAgree`, `PriorityRespected`, `OrphansStayOrphans`, `RoundRobin`, `TickWakes` |
| `kernel_dup`, `kernel_poll_close` | small | one property each, violated: see the findings |

All state spaces are explored completely (20 thousand to 850 thousand states).
`RefcountExact`, `DescriptorsAccounted` and `NoInternalPanic` are checked where dup
only opens new descriptors.

### Findings

1. `syscall_dup(old, new)` with `new` open closes `new`, which puts it on the
   free list of descriptors, and opens it again without taking it off. A later
   `syscall_channel` overwrites it; its channel is never freed (`task.c:432`).
   `apps/init.c:27-28` makes exactly this call.
   A `new` that was never allocated is not set up either: its `cd->task` stays NULL,
   and polling it panics the kernel (`task.c:436`, `task.c:485`).
2. `close` of a polled descriptor does not decrease `poll_count`, so
   `poll_wait` may sleep for ever instead of returning `EINVAL`
   (`task.c:375`).

## 4. The servers

### Messages

`Messages` is the protocol of `lib/msg.c`: `MsgSend` opens a reply channel and
blocks in `send` and then in `recv`; `MsgReceive` takes the first message with
a descriptor for its reply channel; `MsgReply` answers on it and closes it.
`phase`, `msg` and `status` are of the sender, `inbox` and `tids` of the server:
`tids` maps each descriptor of the server to the client it stands for. `Serve`
is the receipt of one message together with the replies the handler makes, to
this client or to others. A server without a free descriptor panics the kernel
when it receives (`task.c:543`, `OutOfFds`); what happens then is `crashed`.

A handler of a server is one action where nothing it does can be seen half
done: the servers block nowhere but in their receive, run at a priority above
their clients, and share no memory. Where they can be interrupted with an effect
(the console servers and the UART, `ethrx_task` and the controller) each of
those points is an action of its own.

### Locks

A lock is a channel: locking sends on it and unlocking receives from it
(`lock.c:40-49`), so that clients often pass the lock on among themselves while
the server, which polls one side of the channel at a time, sees an event that
is over by the time it looks. The server opens `lock_fd` as descriptor 4, since the
file server's answer takes 3 meanwhile, and a lock gets 3 or what follows 4
(`NextFd`). `LockServer` has the clients' calls
(`LockChannel`, `UnlockChannel`, `LockchanRegister`), `PollWait`, which picks any
event that is active, and the handlers, which try without blocking. Registering
the same channel twice is excluded; the code would then let two clients in.
Requests that are too short or unknown (`lock.c:77-89`) are left out: the two
functions of `lock.h` are the only ones that send to the server.

`Lock` is what a client may rely on. Each lock is on its own: what happens to one
leaves the others as they are. It has at most one holder; those that wait get it in
the order in which they asked; a holder that unlocks while somebody waits hands
it to the first of them, and nobody else may have it. Otherwise he is leaving it
until the server, or the next that asks, lets him out, and a newcomer may take it
over then only because nobody waits. `ImplementsLock` maps `holders` to the
clients between the two calls, `waiting` to the senders on the channel and `leaving`
to those that are unlocking. The run `lock_test` checks it for the one lock of the
test, the theorem `LockImplements` for any number of locks.

`LockTest` is the command `lock_test`: the main task registers and takes the
lock, spawns the children, releases it and waits for them; each child locks,
prints a line in several messages and unlocks. Console, UART and lock server all
run at the same time.

### Console

`consoletx_task` is cut at the places where the UART, an interrupt or the
other server can come between: the flush of the queue, the direct writing, the
queueing, and the two halves of `uart_intenable`, which reads a register and
writes it back. `wire` is what the UART has sent. Characters carry the message
they come from, for the properties only. Characters typed are numbered.

### Clock

`Tick` is the timer interrupt, which only wakes the notifier if that waits;
`now` is the server's count, so it falls behind. `elapsed` is what a client
could see on a watch. The heap is a function on indexes, sifted as the code
does it (`DelayHeap`).

### Names

`FileServer` counts descriptors on both sides: clients need one for the
reply channel and one for what `open` returns, the server one for every channel
that has a name and one to receive. `Directory` is a function from names to
channels; `ImplementsDirectory` reads it off the table and the descriptors. It
says when a new name may be refused, too: when there are as many names as the
server has descriptors for (`Room`), or when as many channels have been made as
the table has places (`Places`), as places of removed names may stay taken. The
second is less than `hashtable.h` promises; the run `names_full` shows it (finding 4).

### Network

A frame comes in, the controller interrupts, `ethrx_task` takes frames out until
there is none and sends each to the server of its protocol. `Traffic` are the
sequences in which frames may come (or begin to come), `Programs` the calls that
user programs make; each sequence is there for a case: buffers that overflow
and go round, cache entries that are dropped, ports bound twice, released while
somebody waits, and `netsrr` on either side. Priorities decide who runs, which
`Busy0` to `Busy3` state for each level. `hist` records what came for a port and
what was given out, and whether its buffer has gone round.

`PacketRing` is the buffer of a port, with packets of different lengths. A cell is
as long as the header of a record, so a packet takes from one cell up, and
a cell holds a header or data. A record that is written over others
erases the headers it covers, as a whole or in the middle; what is not covered
stays, also when a buffer is emptied and goes to another port. `alloc_pkt` refuses
what is longer than the buffer, remembers the end of the last record in `top`
when it goes back to the beginning, and pops what is in the way. Where `pop_pkt`
finds no header, it takes data for the length of a record; what follows is
undefined, and the behaviour ends there (`lost`).

Transmission may fail with any of its errors (`TxStatus`); Genesis goes on
to `udp_wait` whatever `udp_bind` returned, as `genesis.c:82` does.

### Bounds

| Run | Bounds | Why they are enough |
|---|---|---|
| `clock` | 3 clients, 3 descriptors, 4 places, largest int 3, calls up to time 1 | the heap sifts in both directions; sums overflow; the third client takes the last descriptor |
| `lock_test` | 2 children, 1 line of 2 messages each, queues and FIFO of 1 character, 2 readers, 2 keys | the lock is handed over, waited for and taken when free; every queue is full and empty in turn; a reader waits and characters wait |
| `names`, `names_full` | 2 clients, 3 names of which 2 collide, a table of 3, 3 descriptors of the server, 2 of each client | a probe goes past used and deleted places, the table and the descriptors run out on either side |
| `network` | cache of 1 entry, 4 ports at most, a ring of 4 cells and packets of 1, 2 and 4, queues of 1, 4 descriptors, a lookup that asks twice, 1 round of `netsrr`, up to 3 frames | eviction, all kinds of failed requests, a lookup that times out and one that is answered late, a ring that fills and goes round |
| `ring_wrap` | one port with a buffer of 5 cells; all sequences of 3 packets of 1 to 3 cells, and a longer one | two packets are enough |

`MaxKeys`, `MaxNow`, `Traffic`, `Programs`, `Uses`, `Chan`, `Rounds`, `Chunks` and
`NETSRR_RUNS` bound the environment; the others are sizes of the code made small.

### Fairness

The clock's specification has weak fairness of the tick (the timer reloads
itself), of the notifier and of the server, which have the two highest
priorities. `LockTest` and `Network` have weak fairness of the system as a whole
(`System`: all tasks and the interrupts, without the environment): the
processor does not stop while a task can run. Nothing is assumed of frames that
come in or of keys. That is less than the scheduler gives, which takes tasks of
one priority in turn.

### Runs

| Run | Question | Properties |
|---|---|---|
| `clock` | do sleepers wake up, in time and not early, although ticks are lost and sums overflow? | `TypeOK`, `SleepersInHeap`, `NoneOverdue`, `NotEarly`, `Wakes` |
| `lock_test` | does the lock exclude, do lines stay whole and are clients told the truth, and does the test end? | `TestTypeOK`, `MutualExclusion`, `SideMatches`, `InputContiguous`, `LinesWhole`, `ImplementsLock`, `WriteReported`, `TestEnds` |
| `names` | is the file server a directory that never runs out of descriptors itself? | `TypeOK`, `DescriptorsKept`, `ImplementsDirectory` |
| `names_full` | is a name refused only when every item is active? | `InactiveFound`, violated |
| `network` | do packets and replies reach whom they are for, and does nobody wait for ever in a lookup or in the controller? | `TypeOK`, `ClientsNamedOnce`, `RecordsInOrder`, `MacsAnnounced`, `SendsEnd`, `FramesServed` |
| `ring_wrap` | is there a new packet at the head of every buffer that is not empty? | `PacketAtHead`, violated |
| `console_irq` | does the UART always interrupt when there is more to send? | `InterruptsIfMoreToSend`, violated |

`Wakes` and `SendsEnd` allow for a kernel that has panicked. `RecordsInOrder`
speaks of buffers that have not gone round, because beyond that the order fails
(finding 5). `WriteReported` says that the status a
client gets is an error exactly if a part of its message was not queued.

### Finding 3

`uart_intenable` reads the interrupt enable register, sets a bit and writes it
back (`uart.c:53`), and both console servers call it with interrupts on. When
`consolerx_task` is interrupted between the two, and `consoletx_task` enables the
transmit interrupt in the meantime, the value written back disables it again.
What is queued then stays there until somebody prints again, against
`console.c:143`: "Enable interrupts if there's still something which needs to be
sent". `lock_test` still ends, as nobody waits for queued characters.

### Finding 4

`hashtable.h:55` says that `hashtable_reserve` returns the first inactive item. When
every item has been used it goes round the table and returns `HT_NOKEY`, although
it has passed a deleted item and kept its index (`lib.c:77`). `do_mkchan` then
answers `ENOSPC` for every new name for ever; the ARP server panics (`net.c:357`).

### Finding 5

`alloc_pkt` sets `top` each time the tail goes back to the beginning
(`net.c:475`), also while the head has not yet reached the `top` of the round
before, and leaves it there afterwards; `pop_pkt` (`net.c:453`, "Pop the packet
record at the head") goes back to the beginning where head is `top`. In a buffer of 5
cells two packets of 3 are enough: the second drops the first and takes its
place, the old `top` is at its end, so head goes back to the beginning and the
same packet is given out again. With packets of 3, 1, 2 and 3 cells and nobody who reads
the tail goes round twice, the new `top` is below the head, and the head gets to
where no record begins.

### Observations

Met while modelling; the models contain these behaviours and no run asks about them.

- `lockchan_register` returns what `poll_add` returned, 0, not the ID of
  `lock.h:5-6`, so that `lockchan_unregister` removes nothing.
- With 64 descriptors, a server that keeps clients waiting panics the kernel
  before its own limit (64 readers, 5000 delays) answers `ENOMEM`.

## 5. Proofs

### The kernel

Everything here is proved for every value of the constants that satisfies the
named assumptions of `Kernel.tla` (a finite set of channels, at least three
task structures, and so on). Nothing is assumed of the calls the tasks make,
bad arguments and faults at any time included, but for the theorems about
descriptors: see there.

* `KernelProofs`: what the queue helpers return (`KeepProperties`,
  `WithoutProperties`, `RequeueProperties`): the elements of a queue after tasks
  were taken out of it or moved to it. That a set of positions can be ranked,
  which `Keep` rests on, is proved there from the facts about finite sets. Then
  `KernelTypes`, that `TypeOK` always holds. `TypeOK` is inductive as it
  stands; there is one lemma per operation, and one per helper.
  Then `KernelInvariant`, that `KernelInv == QueueInv /\ ChannelInv` always holds,
  and what follows from it: `NobodyIsMissed`, `NoPollIsLost`,
  `PriorityIsRespected`, `ChannelsInUseAreLive`.
* `KernelDescriptorProofs`: first that a task or a node is on one list, and once
  (`PollInvariant`, `WaitInvariant`), and with that `NodesAreOnce`,
  `QueuesAlwaysAgree`, `CountsAlwaysAgree`, `ReportsAreTrue` and the three action
  properties `ServedInOrder`, `MessagesOneForOne`, `NewTasksHaveNoChildren`. Then
  descriptors and the counts that depend on them (`DescriptorInvariant`),
  `RefcountsAreExact`, `NoDescriptorIsLost`, `NoPanicOverOwnData`,
  `PollsAreCovered`, `PollCountsAreExact`.

#### Queues and channels

`NobodyMissed`, `NoLostPoll`, `PriorityRespected` and `ChannelsInUseLive` are
not inductive by themselves, nor is their conjunction. What has to be added:

* `Settled`: a task is on a queue of the kind its state asks for, and only on
  such queues; a structure never allocated is on none. Without it a call could
  find a ready task on a channel and make it wait there twice; with it the
  first sender and the first receiver that `handle_receive` takes are blocked
  tasks, other than each other, and `NoQueuePanic` follows: the panics of
  `schedule`, `syscall_exit` and `handle_receive` over a task in the wrong state
  cannot happen.
* `CurrentRuns`: the activated task can run, so whoever makes a call is not
  on any channel.
* `FreeQuiet`: nothing waits on a free channel and nobody polls it. `syscall_channel`
  empties the queues of the structure it reuses; a task still on one would be
  lost. It is `close_channel` that checks this before it frees a channel, so
  the invariant needs:
* `Backed` and `FreeUnreferred`: a channel has at least as many references as
  open descriptors, and is free exactly when it has none. Only "at least":
  equality (`RefcountIsOpen`) fails after a dup onto an open descriptor, as
  the first finding shows. It is what makes a channel a task sends on or polls
  a live one.
* `HandedOpen`: a sender that waits with a channel to hand over has it open,
  since a blocked task cannot close anything and nobody else can close its
  descriptors. `handle_receive` adds the reference of the receiver only when
  the message is passed.

`QueueStep` shows that every step keeps `QueueInv` as long as `FreeQuiet`
holds, by operation; `ReferencesCounted`, `OpenChanges` and `OpenRefs` count
descriptors for the operations that open and close them; `LooksOn` deals with
all the others; `KernelStep` puts the two halves together.

#### Once on one list

`KernelInv` says on which queues a task may be, not how often. Order and number
of what is served need the rest:

* `NodesPlaced`: the node of a descriptor is on the poll list of its own channel
  or on the queue of its own task, never on both, once, and its descriptor is
  open. `handle_poll` and `poll_trigger_all` take a node off one list and put it on
  the other; one that was left behind would wake its task for a stale event.
* `Owned` and `DeadClosed`: a descriptor points to the task of its table or to
  none, and a task that does not exist has no open descriptor. They are what
  `exit_task` leaves behind for the task that reuses the structure.
* `ReportsTrue`, which is proved with these: whom `poll_trigger_all` wakes
  learns of a node of its own that was on that list, at a channel where somebody
  has just begun to wait (`Woken`, `Told`).

That is `PollInv`. `WaitInv` adds that no task is on the queues of the kernel
twice (`Once`), that a tid names the structure it was given for (`TidsKept`), and
`CountsAgree`. For the last three, and for the action
properties, it does not matter which of the calls a step is but which of a few
things it does to a task: `StepKind` lists them (somebody joins a queue, is
served by somebody, is born, dies, the others stay where they are), one lemma
per operation shows that it is one of them, and each property is then proved by
these cases. `FirstComeFirstServed` follows since whoever is taken off a queue
was its first element and is there no second time; `OneForOne` since the two
tasks of a message are other than each other and blocked where they were.

#### Descriptors

These last theorems assume `FreshDup`: no task calls dup with a second argument of its
own, only with -1. Without it they are false, as the run `kernel_dup`
shows; in the repository only `apps/init.c` makes such a
call. What has to be added to `WaitInv`:

* `FdsListed`: there is a sequence of descriptors that the free list of a
  table links from its head, without repetition, and they are the closed ones
  below `next_free_cd`. It is why `syscall_channel` and the receiver of a channel get
  a descriptor that is closed.
* `RefcountIsOpen`: a channel's refcount is the number of descriptors open on
  it, so that the last close frees it and no other. With `FreeUnreferred`
  of `KernelInv` this is `RefcountExact`.
* `WaitersOpen`: whoever waits at a channel has it open. A blocked task makes no
  call, and no other task closes its descriptors (`BlockedKeep`), so a channel with
  a waiter cannot be freed, and the panic of `close_channel` over one cannot
  happen (`LastClosed`).
* `TasksSet`: an open descriptor knows its task, without which `handle_poll` panics.

From the chain of `FdsListed` the theorem `NoDescriptorIsLost` follows the free list
link by link (`Follow`), as `DescriptorsAccounted` does.

`PollCountExact` has two halves. That `poll_count` is never less than what a
task polls (`PollsAreCovered`) holds whatever tasks do: so `poll_wait` never
returns `EINVAL` to somebody who could still be woken. That it is not more
(`PollCountsAreExact`) fails when a polled descriptor is closed, since `close` leaves
the count as it is (run `kernel_poll_close`); it is a theorem of `CarefulSpec`, the
behaviours in which no task does that. All programs of the repository keep to it:
`MsgSend` closes the reply channel it has just made (`msg.c:35`), the lock server
those it did not register (`lock.c:93-94`), and the shell nothing it polls. Only the
task's own `poll_remove` takes its nodes off for good then; closing other
descriptors changes neither side. TLC cannot be asked for this in the same run as
for what holds of all tasks, so it is only proved. Both follow from a case analysis
of what a step does to the lists: nodes come off them or a fresh task
starts with none (`Uncounted`, `Spawned`), or one node is put on or taken off by
`poll_add` or `poll_remove`, by as many events as the count changes (`CountedOn`,
`CountedOff`).

Only model-checked in the kernel: `RoundRobin` and `TickWakes`, liveness under
fairness, which the prover cannot do.

### Messages

`MessageProofs` is about `lib/msg.c` alone, for every server that uses it.
`ClientsNamedOnce` counts; what the steps keep says the same without counting.
`MsgInv` is `MsgTypeOK` and

* `QueuedOnce`: nobody is in an inbox twice, or in two;
* `KeptOnce`: two descriptors of servers stand for two clients;
* `PhaseTells`: who is in an inbox is sending, and who is kept is waiting, and
  the other way round.

`MsgSendKeeps`, `ServeKeeps`, `MsgReplyKeeps` and `OutOfFdsKeeps` are the steps;
`NamedOnce` gets `ClientsNamedOnce` from it. It assumes finitely many tasks, or no
one could count, and that descriptors are numbers: the kernel gives the
least free one, which is what `Tid` takes. The rest of the module says what one of
these steps does *not* touch (`SendFrame`, `ServeFrame`, `ReplyFrame`: whose phase,
message and status change), which is what a server's proof needs most.

The module also proves `RecursionDefines`: a recursion along a rank that falls
defines a function. The library states induction and recursion for operators, which
the provers cannot instantiate; here the property is a set and the step a function.
`ClockProofs` and `LockTestProofs` reason by it about a heap of any size and a
queue of any length.

### Clock

`ClockProofs` proves `ClockTypeOK`, `SleepersAreInHeap`, `NobodyOverdue`,
`NobodyWakesEarly` (an action property) and `ClockNamesOnce` for any number of
clients, any delays and any largest integer.

Half of it is about the heap. `PathIs`, `PushIs`, `PopAt` turn the recursive
definitions into their equations; `PushKeeps` and `PopKeeps` show that
`delayinfoheap_push` and `delayinfoheap_pop` keep the order of the heap (`IsHeap`)
and add and take off one item and no other. They rest on what sifting does at every
place: on the path from the new place to the root items move down by one, elsewhere
nothing changes (`PushPlace`), and likewise along the path of the lesser children
(`PopPlace`). `RootIsFirst` is why a server that pops while the root is due has
then popped everything that is due (`PoppedIs`).

Then `ClockInv`, since none of the properties is inductive:

* `OnlyClock`, `Callers`: the only server with an inbox is the clock; the notifier only
  sends `NOTIFY`, clients only their own requests, and who is kept waiting asked
  for a delay;
* `HeapKept`: the heap is one, each sleeper has one item in it, and the
  descriptors in it are those that the server keeps: without that a reply to a
  popped item could go to nobody, or leave a descriptor behind that nobody answers;
* `Ticking`, `TickSeen`: the notifier waits for a tick or one is on its way to the
  server; a client that asked for a delay before the notifier got into the inbox
  has already seen that tick on its watch;
* `Slept`: by the time the item of a sleeper is due, its watch will show at least what
  it asked for, the tick under way included, unless the sum overflowed.

### Locks

The first part of `LockTestProofs` needs nothing of the test: it proves, for
every set of clients and locks, that `LockInv` always
holds (`LockInvariant`), and from it `OneHolder` (`[]MutualExclusion`), `RightSide`
(`[]SideMatches`), `LockTypeOK` (for finitely many locks, since descriptors are
counted) and `LockImplements`, that the specification implements `Lock`.

Neither property is inductive: whether a second client can get in depends on
who waits where. `LockInv` adds that only clients whose status says so are
queued on the channel, each once (`SendersWait`, `ReceiverHolds`); that a
client can wait to unlock only while it is the one that holds; that the event in
hand was polled by the server (`EventsPolled`); and that a lock is asked for
registration once (`RegisteredOnce`). There is one lemma per action. For the
refinement, `HeldByOne` says from `LockInv` that the holder is the one who
leaves; `LockHandsOver`, `UnlockHandsOver`, `ServerGrants` and `ServerReleases` find
the step of `Lock` that a call or a handler takes, and `NothingToLocks` that the
others take none.

### Console and lock test

`LockTestProofs` is about `lock_test`, the console, the UART and the lock server
together, for any number of children, lines and parts of a line, any descriptors
and any room in the queues. It assumes (`LockTestAssumption`) that the tasks of the
test are different ones, and that no child prints line ends as its own
character; the lock server may have other clients and any finite number of other
locks.

`TestUsesLocks` says that every behaviour of the test is one of `LockServer`. So
the theorems about the lock server hold in it as they stand (`MutualExclusion`,
`SideMatches`, `ImplementsLock`), and the proofs here use them: that a line is
whole is due to the lock. `TestInv` (`TestInvariant`) is `MsgInv`, `LockInv`, the types and

* `LockAgrees`: which call a child is in tells its status at the lock, and between
  its first `print` of a line and its unlocking it holds the lock. With
  `MutualExclusion`: one child prints (`OnePrints`);
* `ChildrenPrint`, `Transmits`: a message that is on its way, or that the server is
  printing, is the one of the line that its child is in, and the descriptor that
  will be answered is that child's. So what is left of it (`rest`) cannot get into
  the line of the next holder: a child unlocks when its last message was answered;
* `BegunOnly`, `OpenAtEnd`: what is on the wire, in the FIFO, in the queue and in
  `rest` is of lines that have begun, and the line that has not ended is the
  last, so that the next character of it follows.

From it: `LinesStayWhole` (`LinesWhole`), `TestTypes`, `ConsoleClients`, and
`InputHasNoGap` (`InputContiguous`): what a `NOTIFY` puts into the input queue is a
fold over the FIFO, of which `FoldRecursion` gives the steps, and whatever is dropped
is the oldest.

`WritesAreReported` (`WriteReported`) is the action property that a client is told the
truth: when a write ends, its status is an error exactly if what the server has
put out or queued of the message is not its text. It needs a second invariant,
`Said` (`SaidInvariant`): no characters of calls to come are out (`NothingAhead`), the
id of a message in flight is the call its child is in (`SentOnce`), nothing of a message
is out before the server has received it (`NotHeardYet`), and what is out of
the message that is being printed, with what is left of it, is its text
(`RestFollows`).

### Queues

`LibProofs` shows that the circular queues of `lib.c:10-23` are first-in
first-out for every size: `push` appends to the sequence that a queue stands for
(`PushAppends`), `pop` takes off its head (`FrontIsHead`, `PopIsTail`), across the
end of the array, and `empty` and `full` say what they should (`EmptyAndFull`). It
justifies the sequences in `Console` and `Network`; the queue of the ARP cache, in
`ArpTable`, is the array itself, and the proofs about it use these theorems.

### Hash table and names

`LibProofs` shows, too, that the table of `lib.c:34-83` is a map, for every size
and every hash function: a search finds the place of a key exactly when the
table has it (`GetFinds`), a reserved place is the one of the key or one that
searches for it reach (`ReserveFinds`), and neither putting a key there
(`ActivatePuts`) nor deleting one (`DeleteRemoves`) hides another. What holds in
between is that no key is there twice (`KeysOnce`) and that every place probed
before that of a key has been used (`KeysReachable`): the reason why a deleted item
stays valid, and why `hashtable_reserve` must go on past one before it uses it.
`FileServerProofs` and `NetworkProofs` take these theorems as they stand, for three
tables with different keys, sizes and hash functions.

`FileServerProofs` uses this for `FileServer`, for any clients, names, numbers of
descriptors and collisions. `FsInv` always holds (`FsInvariant`), and from it
`FileServerTypeOK`, `DescriptorsAlwaysKept` (`[]DescriptorsKept`) and
`FileServerImplements`, that the specification implements `Directory`. Besides the
two parts above, `FsInv` says that names and open descriptors match one to one and
one descriptor is free (`NamesHold`, `NameInv`), that who is in the inbox has a call
under way and is there once (`RequestsWait`, without which an answer could go to a
client that has left the call), and that a client in `sendpath` still has open what
it will close (`SendpathHolds`). There is one lemma per handler, which gives both
the invariant and the step of the directory. That `ENOSPC` is only answered by a full
directory takes counting: a place that was ever taken stands for a channel that was
made (`MadeInv`, `NoPlaceFull`), and when one descriptor is left the others are those of
as many names, one each (`NoChannelFull`).

It assumes that `NoChan` and `NoItem` are told from channels and from items
(`FileServerAssumption`); that a new channel is always to be had is a bound of the
model (`Chan`): the kernel takes new ones from its memory, which is not modelled.

### Network

`NetworkProofs` is about the six servers of `Network` together, for any programs,
any traffic, any number of ports and buffers and any sizes of the ring, the cache,
the tables and the queues. It proves `NetworkTypeOK`, `PacketsInOrder`
(`[]RecordsInOrder`), `MacsAreAnnounced` (`[]MacsAnnounced`), `NetworkNamesOnce`
(`[]ClientsNamedOnce`), for packets of any lengths. Nothing is claimed of a buffer
that has gone round, as it then fails (finding 5).

The assumptions are in `Network.tla` and TLC evaluates them: servers and tasks are
different ones (`NetworkAssumption`); sizes are at least 1, a ring has at least two
cells, hashes are numbers, and what marks an empty place is told from what can be
in it (`SizeAssumption`); the headers of a frame have the fields of its protocol
(`FrameAssumption`); a program is a sequence of calls with assertions after some of
them (`ProgramAssumption`).

`NetworkInv` always holds (`NetworkInvHolds`). It has three parts, and `MacsAnnounced`:

* `TasksInv`, what the tasks know of themselves: `MsgInv`; what is in an inbox is a
  request of that server, and a packet of its protocol (`RequestsFit`); the ARP
  server answers a query at once and keeps nobody (`QueriesAnswered`); a task that
  has asked for an address still waits for this answer or was told that it
  is pending or one that was announced (`Asked`). Without `Asked` a datagram could go
  to the answer for another address;
* `ArpInv`, the cache: the table is a map (`KeysOnce`, `KeysReachable`), every address in
  it has a place of `mac_arr` of its own (`PlacesOwn`), among those that the queue has
  given out, and the address there was announced for it (`EntriesAnnounced`). An
  update writes to the place of its own address, a new entry gets a place nobody
  has, or that of the oldest, which goes (`OldestGoes`, `StoreKeeps`);
* `UdpInv`, the ports: a buffer is free, once, or that of one port (`BufsOwn`, with
  `BindAdds` and `ReleaseRemoves`); whoever
  waits at a port waits because its ring is empty; and what came is what was given
  out (`GivenSoFar`), followed by the packets in the ring, as long as the ring has
  not gone round (`BufsHold`). Lengths differ, so the place of a record is the sum
  of those before it: `Holds` says that there is a sequence of places, from head
  to tail, with the header of the next packet at each.

`PoppedIs`, `WrappedIs`, `MadeRoomIs`, `CopiedIs` and `StoredIs` say what the operations
of `PacketRing` do to a buffer in any state, also one that has gone round or holds
records of a port before; `PopHolds`, `RestartHolds` and `StoreHolds` what they do to the
packets in it; `CameHolds`, `GivenHolds` and `NewHolds` what that means for the port. There is one lemma per
action; those of the message protocol are from `MessageProofs`.

### What only the runs check

Liveness (`RoundRobin`, `TickWakes`, `TestEnds`, `Wakes`, `SendsEnd`, `FramesServed`),
which is out of the prover's reach. Every invariant and every other action property
of the passing runs is proved, under the assumptions named above.

## 6. What is not modelled

- *Start-up*: the models begin when the servers have found each other. Two
  races lie before that: a frame between `init_interrupts` (`main.c:64`) and the
  first `event_wait` of `ethrx_notifier` disables the receive interrupt for good
  (`interrupt.c:28`), and one before `arpserver_task` has its name makes
  `ethrx_task` exit.
- *Network*: two tasks that transmit at once (`net.c:33-36` leaves the result
  open), checksums and headers, messages with an unknown code, packets longer
  than the buffer of the receiver, the limits of the controller's FIFO, a request
  to genesis from the own host.
- *Formatted output, parsing, strings*: sequential functions without state.
- *Drivers* but for interrupts and FIFOs, *assembly*, page tables, symbols,
  backtraces, the build: register accesses and tables.
- *Other applications*: programs of one task. In the kernel model any task may
  make any call, so they are instances of it.
