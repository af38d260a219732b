----------------------- MODULE KernelDescriptorProofs -----------------------
(***************************************************************************)
(* What is on a queue or a list is there once: no task is twice on the     *)
(* queues of the kernel, no descriptor twice on the lists of those that    *)
(* poll.  What follows from it: in which order waiters are served, which   *)
(* message goes to whom, and what poll_wait reports.                       *)
(***************************************************************************)
EXTENDS KernelProofs

(* The task pointer of a descriptor is that of its table. *)
Owned == \A i \in Task, fd \in Fd : table[i].cd[fd].task \in {NoTask, i}

(* The table of a task that does not exist is closed. *)
DeadClosed ==
    \A i \in Task, fd \in Fd : state[i] = "DEAD" => ChannelOf(i, fd) = NoChannel

(* With lists pl of the channels, pq of the tasks, and descriptor tables   *)
(* tb: a node is on its channel's list or on its task's, once, and its     *)
(* descriptor is open.                                                     *)
ChanIn(tb, n) == tb[n[1]].cd[n[2]].channel

Placed(pl, pq, tb) ==
    /\ \A l \in Channel \X PollEvent : IsInjective(pl[l])
    /\ \A l \in Task \X PollEvent : IsInjective(pq[l])
    /\ \A c \in Channel, ev \in PollEvent :
          \A n \in Range(pl[<<c, ev>>]) : ChanIn(tb, n) = c
    /\ \A i \in Task, ev \in PollEvent : \A n \in Range(pq[<<i, ev>>]) :
          /\ n[1] = i /\ ChanIn(tb, n) # NoChannel
          /\ \A c \in Channel : n \notin Range(pl[<<c, ev>>])

Held(pl, pq, n) ==
    \/ \E l \in Channel \X PollEvent : n \in Range(pl[l])
    \/ \E l \in Task \X PollEvent : n \in Range(pq[l])

NodesPlaced == Placed(poll_list, poll_queue, table)

NodeInv == Owned /\ DeadClosed /\ NodesPlaced

-----------------------------------------------------------------------------
(* Lists of nodes.                                                         *)

LEMMA HeldNodes ==
    ASSUME PollTypes, NEW n
    PROVE  /\ Held(poll_list, poll_queue, n) => n \in Node
           /\ LinkedAtAll(n) <=> Held(poll_list, poll_queue, n)
<1>1. \A l \in Channel \X PollEvent : Range(poll_list[l]) \subseteq Node
  BY RangeOfSeq DEF PollTypes
<1>2. \A l \in Task \X PollEvent : Range(poll_queue[l]) \subseteq Node
  BY RangeOfSeq DEF PollTypes
<1>3. ASSUME LinkedAtAll(n) PROVE Held(poll_list, poll_queue, n)
  <2>1. PICK ev \in PollEvent : Linked(n, ev)
    BY <1>3 DEF LinkedAtAll
  <2>2. \A c \in Channel, i \in Task :
           <<c, ev>> \in Channel \X PollEvent /\ <<i, ev>> \in Task \X PollEvent
    OBVIOUS
  <2> QED
    BY <2>1, <2>2 DEF Linked, Held
<1>4. ASSUME Held(poll_list, poll_queue, n) PROVE LinkedAtAll(n)
  <2>1. \A S : \A l \in S \X PollEvent :
           l[1] \in S /\ l[2] \in PollEvent /\ l = <<l[1], l[2]>>
    OBVIOUS
  <2>2. CASE \E l \in Channel \X PollEvent : n \in Range(poll_list[l])
    BY <2>1, <2>2 DEF LinkedAtAll, Linked
  <2>3. CASE \E l \in Task \X PollEvent : n \in Range(poll_queue[l])
    BY <2>1, <2>3 DEF LinkedAtAll, Linked
  <2> QED
    BY <1>4, <2>2, <2>3 DEF Held
<1> QED
  BY <1>1, <1>2, <1>3, <1>4 DEF Held

(* Descriptors of nodes that are on no list may change. *)
LEMMA PlacedTable ==
    ASSUME NEW pl, NEW pq, NEW tb, NEW tb2, Placed(pl, pq, tb),
           \A n : Held(pl, pq, n) => ChanIn(tb2, n) = ChanIn(tb, n)
    PROVE  Placed(pl, pq, tb2)
<1>1. ASSUME NEW c \in Channel, NEW ev \in PollEvent, NEW n \in Range(pl[<<c, ev>>])
      PROVE  ChanIn(tb2, n) = c
  <2>1. Held(pl, pq, n)
    BY DEF Held
  <2> QED
    BY <2>1 DEF Placed
<1>2. ASSUME NEW i \in Task, NEW ev \in PollEvent, NEW n \in Range(pq[<<i, ev>>])
      PROVE  /\ n[1] = i /\ ChanIn(tb2, n) # NoChannel
             /\ \A c \in Channel : n \notin Range(pl[<<c, ev>>])
  <2>1. Held(pl, pq, n)
    BY DEF Held
  <2> QED
    BY <2>1 DEF Placed
<1> QED
  BY <1>1, <1>2 DEF Placed

(* Nodes may come off their lists. *)
LEMMA PlacedFewer ==
    ASSUME NEW pl, NEW pq, NEW tb, Placed(pl, pq, tb), NEW pl2, NEW pq2,
           \A l \in Channel \X PollEvent :
              IsInjective(pl2[l]) /\ Range(pl2[l]) \subseteq Range(pl[l]),
           \A l \in Task \X PollEvent :
              IsInjective(pq2[l]) /\ Range(pq2[l]) \subseteq Range(pq[l])
    PROVE  Placed(pl2, pq2, tb)
<1>1. \A c \in Channel, ev \in PollEvent :
         Range(pl2[<<c, ev>>]) \subseteq Range(pl[<<c, ev>>])
  OBVIOUS
<1>2. \A i \in Task, ev \in PollEvent :
         Range(pq2[<<i, ev>>]) \subseteq Range(pq[<<i, ev>>])
  OBVIOUS
<1> QED
  BY <1>1, <1>2, SMTT(30) DEF Placed

(* cdnode_delete takes the nodes off all their lists. *)
LEMMA UnlinkPlaced ==
    ASSUME PollTypes, NodesPlaced, NEW N, NEW E \in SUBSET PollEvent
    PROVE  LET pl == Unlink(poll_list, N, E)
               pq == Unlink(poll_queue, N, E)
           IN  /\ Placed(pl, pq, table)
               /\ \A n : Held(pl, pq, n) =>
                     /\ Held(poll_list, poll_queue, n)
                     /\ E = PollEvent => n \notin N
<1> DEFINE pl == Unlink(poll_list, N, E)
           pq == Unlink(poll_queue, N, E)
<1>1. ASSUME NEW D, NEW lists \in [D -> Seq(Node)], NEW l \in D, IsInjective(lists[l]),
             l[2] \in PollEvent
      PROVE  /\ IsInjective(Unlink(lists, N, E)[l])
             /\ Range(Unlink(lists, N, E)[l]) \subseteq Range(lists[l])
             /\ E = PollEvent => Range(Unlink(lists, N, E)[l]) \cap N = {}
  <2>1. Unlink(lists, N, E)[l] = IF l[2] \in E THEN Without(lists[l], N) ELSE lists[l]
    BY DEF Unlink
  <2>2. /\ IsInjective(Without(lists[l], N))
        /\ Range(Without(lists[l], N)) = Range(lists[l]) \ N
    BY <1>1, WithoutProperties, WithoutInjective
  <2> QED
    BY <1>1, <2>1, <2>2
<1>2. ASSUME NEW l \in Channel \X PollEvent
      PROVE  /\ IsInjective(pl[l]) /\ Range(pl[l]) \subseteq Range(poll_list[l])
             /\ E = PollEvent => Range(pl[l]) \cap N = {}
  <2>1. l[2] \in PollEvent /\ IsInjective(poll_list[l])
    BY DEF NodesPlaced, Placed
  <2> QED
    BY <1>1, <2>1 DEF PollTypes
<1>3. ASSUME NEW l \in Task \X PollEvent
      PROVE  /\ IsInjective(pq[l]) /\ Range(pq[l]) \subseteq Range(poll_queue[l])
             /\ E = PollEvent => Range(pq[l]) \cap N = {}
  <2>1. l[2] \in PollEvent /\ IsInjective(poll_queue[l])
    BY DEF NodesPlaced, Placed
  <2> QED
    BY <1>1, <2>1 DEF PollTypes
<1> HIDE DEF pl, pq
<1>4. Placed(pl, pq, table)
  BY <1>2, <1>3, PlacedFewer DEF NodesPlaced
<1>5. \A n : Held(pl, pq, n) =>
         Held(poll_list, poll_queue, n) /\ (E = PollEvent => n \notin N)
  BY <1>2, <1>3 DEF Held
<1> QED
  BY <1>4, <1>5 DEF pl, pq
-----------------------------------------------------------------------------
(* Descriptor tables.                                                      *)

LEMMA TakeFdTasks ==
    ASSUME NEW tb \in Table, NEW t \in Task, NextFd(tb) >= 0
    PROVE  \A fd \in Fd : TakeFd(tb, t).cd[fd].task =
              IF fd = NextFd(tb) THEN t ELSE tb.cd[fd].task
<1> DEFINE no == NextFd(tb)
<1>1. no \in Fd /\ tb.cd \in [Fd -> Desc]
  BY NextFdType, TableParts
<1>2. TakeFd(tb, t).cd = [tb.cd EXCEPT ![no].task = t]
  BY DEF TakeFd
<1> HIDE DEF no
<1>3. \A fd \in Fd : TakeFd(tb, t).cd[fd].task = IF fd = no THEN t ELSE tb.cd[fd].task
  BY <1>1, <1>2 DEF Desc
<1> QED
  BY <1>3 DEF no

LEMMA InstallTasks ==
    ASSUME NEW tb \in Table, NEW no \in Fd, NEW c, NEW flags
    PROVE  \A fd \in Fd : Install(tb, no, c, flags).cd[fd].task = tb.cd[fd].task
<1>1. tb = [cd |-> tb.cd, free_cd_head |-> tb.free_cd_head,
            next_free_cd |-> tb.next_free_cd] /\ tb.cd \in [Fd -> Desc]
  BY TableParts
<1>2. \A fd \in Fd : tb.cd[fd] \in Desc
  BY <1>1
<1> QED
  BY <1>1, <1>2 DEF Install, Desc

LEMMA ReleaseFdTasks ==
    ASSUME NEW tb \in Table, NEW no \in Fd
    PROVE  \A fd \in Fd : ReleaseFd(tb, no).cd[fd].task = tb.cd[fd].task
<1>1. tb = [cd |-> tb.cd, free_cd_head |-> tb.free_cd_head,
            next_free_cd |-> tb.next_free_cd] /\ tb.cd \in [Fd -> Desc]
  BY TableParts
<1>2. \A fd \in Fd : tb.cd[fd] \in Desc
  BY <1>1
<1> QED
  BY <1>1, <1>2 DEF ReleaseFd, Desc

(* A descriptor that alloc_channel_desc returned is opened. *)
LEMMA OpenedTable ==
    ASSUME NEW tb \in Table, NEW t \in Task, NextFd(tb) >= 0,
           NEW c, NEW flags
    PROVE  LET no  == NextFd(tb)
               new == Install(TakeFd(tb, t), no, c, flags)
           IN  /\ no \in Fd
               /\ \A fd \in Fd :
                     /\ new.cd[fd].channel = IF fd = no THEN c ELSE tb.cd[fd].channel
                     /\ new.cd[fd].task = IF fd = no THEN t ELSE tb.cd[fd].task
<1> DEFINE no  == NextFd(tb)
           mid == TakeFd(tb, t)
           new == Install(mid, no, c, flags)
<1>1. no \in Fd /\ mid \in Table
  BY NextFdType, TakeFdType
<1>2. \A fd \in Fd : /\ mid.cd[fd].channel = tb.cd[fd].channel
                     /\ mid.cd[fd].task = IF fd = no THEN t ELSE tb.cd[fd].task
  BY TakeFdTasks, TakeFdChannels
<1> HIDE DEF no, mid
<1>3. \A fd \in Fd : /\ new.cd[fd].channel = IF fd = no THEN c ELSE mid.cd[fd].channel
                     /\ new.cd[fd].task = mid.cd[fd].task
  BY <1>1, InstallTasks, InstallChannels
<1> QED
  BY <1>1, <1>2, <1>3 DEF no, mid

(* Only the table of task t changes, which goes on, and no task ends.      *)
LEMMA TablesKeep ==
    ASSUME Owned, DeadClosed, NEW t \in Task, state'[t] # "DEAD",
           \A i \in Task \ {t} : table'[i] = table[i],
           \A i \in Task \ {t} : state'[i] = "DEAD" => state[i] = "DEAD",
           \A fd \in Fd : table'[t].cd[fd].task \in {NoTask, t}
    PROVE  Owned' /\ DeadClosed'
<1>1. Owned'
  BY DEF Owned
<1>2. ASSUME NEW i \in Task, NEW fd \in Fd, state'[i] = "DEAD"
      PROVE  table'[i].cd[fd].channel = NoChannel
  BY <1>2 DEF DeadClosed, ChannelOf
<1> QED
  BY <1>1, <1>2 DEF DeadClosed, ChannelOf

(* The nodes N come off their lists; but for theirs, and those of nodes    *)
(* that were on no list, the descriptors keep their channels.              *)
LEMMA NodesUnlinked ==
    ASSUME PollTypes, NodesPlaced, NEW N,
           poll_list' = Unlink(poll_list, N, PollEvent),
           poll_queue' = Unlink(poll_queue, N, PollEvent),
           \A n \in Node : n \in N \/ ~LinkedAtAll(n)
                              \/ ChanIn(table', n) = ChanIn(table, n)
    PROVE  NodesPlaced'
<1> DEFINE pl == Unlink(poll_list, N, PollEvent)
           pq == Unlink(poll_queue, N, PollEvent)
<1>1. /\ Placed(pl, pq, table)
      /\ \A n : Held(pl, pq, n) => Held(poll_list, poll_queue, n) /\ n \notin N
  BY UnlinkPlaced
<1> HIDE DEF pl, pq
<1>2. \A n : Held(pl, pq, n) => ChanIn(table', n) = ChanIn(table, n)
  BY <1>1, HeldNodes
<1>3. Placed(pl, pq, table')
  BY <1>1, <1>2, PlacedTable
<1> QED
  BY <1>3 DEF NodesPlaced, pl, pq

(* No node moves. *)
LEMMA NodesStay ==
    ASSUME PollTypes, NodesPlaced, UNCHANGED <<poll_list, poll_queue>>,
           \A n \in Node : ~LinkedAtAll(n) \/ ChanIn(table', n) = ChanIn(table, n)
    PROVE  NodesPlaced'
<1>1. \A n : Held(poll_list, poll_queue, n) => ChanIn(table', n) = ChanIn(table, n)
  BY HeldNodes
<1> QED
  BY <1>1, PlacedTable DEF NodesPlaced

LEMMA NodesStill ==
    ASSUME NodeInv, UNCHANGED <<poll_list, poll_queue, table>>,
           \A i \in Task : state'[i] = "DEAD" => state[i] = "DEAD"
    PROVE  NodeInv'
BY DEF NodeInv, Owned, DeadClosed, ChannelOf, NodesPlaced, Placed, ChanIn

LEMMA AnswerNodes ==
    ASSUME NodeInv, NEW t, NEW r, Answer(t, r)
    PROVE  NodeInv'
BY NodesStill DEF Answer, runVars, chanVars, pollVars

LEMMA PanicNodes ==
    ASSUME NodeInv, NEW why, Panic(why)
    PROVE  NodeInv'
BY NodesStill DEF Panic, runVars, chanVars, pollVars

-----------------------------------------------------------------------------
(* The nodes: one lemma for each operation.                                *)

LEMMA CloseNodes ==
    ASSUME QueueInv, NodeInv, NEW t \in Task, NEW no, Close(t, no)
    PROVE  NodeInv'
<1>1. TypeOK /\ state[t] = "RUNNING" /\ PollTypes
  BY CallerFacts DEF QueueInv, Close, Caller, TypeOK
<1>2. CASE \E r : Answer(t, r)
  BY <1>2, AnswerNodes
<1>3. CASE \E why : Panic(why)
  BY <1>3, PanicNodes
<1>4. CASE /\ ValidChannel(t, no)
           /\ table' = [table EXCEPT ![t] = ReleaseFd(@, no)]
           /\ ClosePolls(t, {no}) /\ UNCHANGED runVars
  <2>1. no \in Fd /\ table[t] \in Table /\ DOMAIN table = Task
    BY <1>1, <1>4, ValidChannelType DEF TypeOK, ChannelTypes
  <2>2. table'[t] = ReleaseFd(table[t], no) /\ \A i \in Task \ {t} : table'[i] = table[i]
    BY <1>4, <2>1
  <2>3. \A fd \in Fd :
           /\ table'[t].cd[fd].task = table[t].cd[fd].task
           /\ table'[t].cd[fd].channel = IF fd = no THEN NoChannel
                                         ELSE table[t].cd[fd].channel
    BY <2>1, <2>2, ReleaseFdTasks, ReleaseFdChannels
  <2>4. Owned' /\ DeadClosed'
    <3>1. \A fd \in Fd : table'[t].cd[fd].task \in {NoTask, t}
      BY <2>3 DEF NodeInv, Owned
    <3>2. state' = state /\ state'[t] # "DEAD" /\ Owned /\ DeadClosed
      BY <1>1, <1>4 DEF runVars, NodeInv
    <3>3. /\ \A i \in Task \ {t} : table'[i] = table[i]
          /\ \A i \in Task \ {t} : state'[i] = "DEAD" => state[i] = "DEAD"
      BY <2>2, <3>2
    <3> QED
      BY <3>1, <3>2, <3>3, TablesKeep
  <2>5. \A n \in Node : n \in {t} \X {no} \/ ChanIn(table', n) = ChanIn(table, n)
    BY <2>2, <2>3 DEF Node, ChanIn
  <2>6. NodesPlaced'
    BY <1>1, <1>4, <2>5, NodesUnlinked DEF ClosePolls, NodeInv
  <2> QED
    BY <2>4, <2>6 DEF NodeInv
<1> QED
  BY <1>2, <1>3, <1>4 DEF Close

LEMMA DupSelfNodes ==
    ASSUME QueueInv, NodeInv, NEW t \in Task, NEW fd, NEW flags, DupSelf(t, fd, flags)
    PROVE  NodeInv'
<1>1. TypeOK /\ state[t] = "RUNNING" /\ PollTypes /\ UNCHANGED runVars
  BY CallerFacts DEF QueueInv, DupSelf, Caller, TypeOK
<1>2. fd \in Fd /\ table[t] \in Table /\ DOMAIN table = Task
  BY <1>1, ValidChannelType DEF TypeOK, ChannelTypes, DupSelf
<1>3. table[t].cd \in [Fd -> Desc]
  BY <1>2, TableParts
<1>4. /\ \A i \in Task \ {t} : table'[i] = table[i]
      /\ table'[t].cd = [table[t].cd EXCEPT ![fd].flags = flags]
  BY <1>2 DEF DupSelf, Table
<1>5. \A k \in Fd : /\ table'[t].cd[k].task = table[t].cd[k].task
                    /\ table'[t].cd[k].channel = table[t].cd[k].channel
  BY <1>2, <1>3, <1>4 DEF Desc
<1>6. Owned' /\ DeadClosed'
  <2>1. \A k \in Fd : table'[t].cd[k].task \in {NoTask, t}
    BY <1>5 DEF NodeInv, Owned
  <2>2. state' = state /\ state'[t] # "DEAD" /\ Owned /\ DeadClosed
    BY <1>1 DEF runVars, NodeInv
  <2>3. \A i \in Task \ {t} : state'[i] = "DEAD" => state[i] = "DEAD"
    BY <2>2
  <2> QED
    BY <1>4, <2>1, <2>2, <2>3, TablesKeep
<1>7. \A n \in Node : ChanIn(table', n) = ChanIn(table, n)
  BY <1>4, <1>5 DEF Node, ChanIn
<1>8. NodesPlaced'
  BY <1>1, <1>7, NodesStay DEF DupSelf, NodeInv, pollVars
<1> QED
  BY <1>6, <1>8 DEF NodeInv

LEMMA NewChannelNodes ==
    ASSUME QueueInv, NodeInv, NEW t \in Task, NewChannel(t)
    PROVE  NodeInv'
<1> DEFINE no == NextFd(table[t])
<1>1. TypeOK /\ state[t] = "RUNNING" /\ PollTypes
  BY CallerFacts DEF QueueInv, NewChannel, Caller, TypeOK
<1>2. CASE \E r : Answer(t, r)
  BY <1>2, AnswerNodes
<1>3. CASE \E why : Panic(why)
  BY <1>3, PanicNodes
<1>4. ASSUME no >= 0, ~LinkedAtAll(<<t, no>>), NEW c \in free_channel,
             poll_list' = [l \in DOMAIN poll_list |->
                              IF l[1] = c THEN <<>> ELSE poll_list[l]],
             table' = [table EXCEPT ![t] =
                          Install(TakeFd(@, t), no, c, {"RECV", "SEND"})],
             UNCHANGED <<state, poll_queue>>
      PROVE  NodeInv'
  <2>1. table[t] \in Table /\ DOMAIN table = Task
    BY <1>1 DEF TypeOK, ChannelTypes
  <2>2. /\ table'[t] = Install(TakeFd(table[t], t), no, c, {"RECV", "SEND"})
        /\ \A i \in Task \ {t} : table'[i] = table[i]
    BY <1>4, <2>1
  <2>3. /\ no \in Fd
        /\ \A fd \in Fd :
              /\ fd # no => table'[t].cd[fd].channel = table[t].cd[fd].channel
              /\ table'[t].cd[fd].task = IF fd = no THEN t ELSE table[t].cd[fd].task
    BY <1>4, <2>1, <2>2, OpenedTable
  <2> HIDE DEF no
  <2>4. Owned' /\ DeadClosed'
    <3>1. \A fd \in Fd : table'[t].cd[fd].task \in {NoTask, t}
      BY <2>3 DEF NodeInv, Owned
    <3>2. state'[t] # "DEAD" /\ Owned /\ DeadClosed
      BY <1>1, <1>4 DEF NodeInv
    <3>3. \A i \in Task \ {t} : state'[i] = "DEAD" => state[i] = "DEAD"
      BY <1>4
    <3> QED
      BY <2>2, <3>1, <3>2, <3>3, TablesKeep
  <2>5. Placed(poll_list', poll_queue, table)
    <3>1. \A l \in Channel \X PollEvent :
             IsInjective(poll_list'[l]) /\ Range(poll_list'[l]) \subseteq Range(poll_list[l])
      <4>1. IsInjective(<<>>) /\ Range(<<>>) = {}
        BY DEF IsInjective, Range
      <4>2. \A l \in Channel \X PollEvent : poll_list'[l] \in {<<>>, poll_list[l]}
        BY <1>1, <1>4 DEF PollTypes
      <4>3. \A l \in Channel \X PollEvent : IsInjective(poll_list[l])
        BY DEF NodeInv, NodesPlaced, Placed
      <4> QED
        BY <4>1, <4>2, <4>3
    <3>2. \A l \in Task \X PollEvent : IsInjective(poll_queue[l])
      BY DEF NodeInv, NodesPlaced, Placed
    <3> QED
      BY <3>1, <3>2, PlacedFewer DEF NodeInv, NodesPlaced
  <2>6. ASSUME NEW n, Held(poll_list', poll_queue, n)
        PROVE  ChanIn(table', n) = ChanIn(table, n)
    <3>1. Held(poll_list, poll_queue, n)
      <4>1. \A l \in Channel \X PollEvent : poll_list'[l] \in {<<>>, poll_list[l]}
        BY <1>1, <1>4 DEF PollTypes
      <4>2. Range(<<>>) = {}
        BY DEF Range
      <4> QED
        BY <2>6, <4>1, <4>2 DEF Held
    <3>2. n \in Node /\ LinkedAtAll(n)
      BY <1>1, <3>1, HeldNodes
    <3>3. n # <<t, no>>
      BY <1>4, <3>2
    <3> QED
      BY <2>2, <2>3, <3>2, <3>3 DEF Node, ChanIn
  <2>7. NodesPlaced'
    <3>1. Placed(poll_list', poll_queue, table')
      BY <2>5, <2>6, PlacedTable
    <3> QED
      BY <1>4, <3>1 DEF NodesPlaced
  <2> QED
    BY <2>4, <2>7 DEF NodeInv
<1> QED
  BY <1>2, <1>3, <1>4 DEF NewChannel

(* The number sys_dup opens is a descriptor. *)
LEMMA DupNumber ==
    ASSUME NEW t, table[t] \in Table, NEW oldfd, NEW newfd,
           DupError(t, oldfd, newfd) = 0
    PROVE  /\ newfd = -1 => NextFd(table[t]) >= 0 /\ NextFd(table[t]) \in Fd
           /\ newfd # -1 => newfd \in Fd
<1>1. /\ ~(newfd = -1 /\ NextFd(table[t]) < 0)
      /\ ~(newfd # -1 /\ newfd \notin Fd)
  BY DEF DupError, EMFILE, EBADF
<1>2. NextFd(table[t]) \in Fd \cup {-1}
  BY NextFdType
<1>3. \A fd \in Fd \cup {-1} : fd < 0 \/ (fd \in Fd /\ fd >= 0)
  BY MaxFdsAssumption DEF Fd
<1> QED
  BY <1>1, <1>2, <1>3

LEMMA DupNodes ==
    ASSUME QueueInv, NodeInv, NEW t \in Task, NEW oldfd, NEW newfd,
           Dup(t, oldfd, newfd)
    PROVE  NodeInv'
<1> DEFINE err == DupError(t, oldfd, newfd)
           no  == IF newfd = -1 THEN NextFd(table[t]) ELSE newfd
           tb  == IF newfd = -1 THEN TakeFd(table[t], t) ELSE table[t]
           old == tb.cd[no].channel
           c   == ChannelOf(t, oldfd)
           F   == IF old = NoChannel THEN {} ELSE {no}
           why == IF no = oldfd THEN "NULL pointer in the kernel"
                  ELSE IF F = {} /\ LinkedAtAll(<<t, no>>)
                  THEN "relinked poll node" ELSE CloseFailure(t, tb, F)
           tb2 == IF F = {} THEN tb ELSE ReleaseFd(tb, no)
           tb3 == Install(tb2, no, c, tb.cd[oldfd].flags)
<1>1. TypeOK /\ state[t] = "RUNNING" /\ PollTypes
  BY CallerFacts DEF QueueInv, Dup, Caller, TypeOK
<1>2. CASE \E r : Answer(t, r)
  BY <1>2, AnswerNodes
<1>3. CASE \E w : Panic(w)
  BY <1>3, PanicNodes
<1>4. CASE /\ err = 0 /\ why = "no"
           /\ table' = [table EXCEPT ![t] = tb3]
           /\ ClosePolls(t, F) /\ UNCHANGED runVars
  <2>1. table[t] \in Table /\ DOMAIN table = Task
    BY <1>1 DEF TypeOK, ChannelTypes
  <2>2. no \in Fd /\ (newfd = -1 => NextFd(table[t]) >= 0)
    BY <1>4, <2>1, DupNumber
  <2>3. tb \in Table /\ \A fd \in Fd :
           /\ tb.cd[fd].channel = ChannelOf(t, fd)
           /\ tb.cd[fd].task \in {table[t].cd[fd].task, t}
    BY <2>1, <2>2, TakeFdType, TakeFdChannels, TakeFdTasks DEF ChannelOf
  <2>4. F = {} => ~LinkedAtAll(<<t, no>>)
    <3> HIDE DEF no, tb, F
    <3> QED
      BY <1>4
  <2>5. tb2 \in Table /\ \A fd \in Fd \ {no} :
           tb2.cd[fd].channel = ChannelOf(t, fd)
    <3>1. CASE F = {}
      BY <2>3, <3>1
    <3>2. CASE F = {no}
      <4>1. tb2 = ReleaseFd(tb, no)
        BY <3>2
      <4> HIDE DEF tb, no, F, tb2
      <4> QED
        BY <2>2, <2>3, <3>2, <4>1, ReleaseFdType, ReleaseFdChannels
    <3> QED
      BY <3>1, <3>2
  <2>6. \A fd \in Fd : tb2.cd[fd].task = tb.cd[fd].task
    <3>1. CASE F = {}
      BY <3>1
    <3>2. CASE F = {no}
      <4>1. tb2 = ReleaseFd(tb, no)
        BY <3>2
      <4> HIDE DEF tb, no, F, tb2
      <4> QED
        BY <2>2, <2>3, <4>1, ReleaseFdTasks
    <3> QED
      BY <3>1, <3>2
  <2>7. \A fd \in Fd : /\ tb3.cd[fd].task \in {table[t].cd[fd].task, t}
                       /\ fd # no => tb3.cd[fd].channel = ChannelOf(t, fd)
    <3> HIDE DEF tb2, no, c, F, tb
    <3> QED
      BY <2>2, <2>3, <2>5, <2>6, InstallChannels, InstallTasks
  <2>8. table'[t] = tb3 /\ \A i \in Task \ {t} : table'[i] = table[i]
    BY <1>4, <2>1
  <2>9. F \in {{}, {no}}
    OBVIOUS
  <2> HIDE DEF tb3, tb2, no, c, tb, F
  <2>10. Owned' /\ DeadClosed'
    <3>1. \A fd \in Fd : table'[t].cd[fd].task \in {NoTask, t}
      BY <2>7, <2>8 DEF NodeInv, Owned
    <3>2. state' = state /\ state'[t] # "DEAD" /\ Owned /\ DeadClosed
      BY <1>1, <1>4 DEF NodeInv, runVars
    <3>3. \A i \in Task \ {t} : state'[i] = "DEAD" => state[i] = "DEAD"
      BY <3>2
    <3> QED
      BY <2>8, <3>1, <3>2, <3>3, TablesKeep
  <2>11. ASSUME NEW n \in Node
         PROVE  \/ n \in {t} \X F \/ ~LinkedAtAll(n)
                \/ ChanIn(table', n) = ChanIn(table, n)
    <3>1. n[1] \in Task /\ n[2] \in Fd /\ n = <<n[1], n[2]>>
      BY DEF Node
    <3>2. CASE n = <<t, no>>
      BY <2>4, <2>9, <3>2
    <3>3. CASE n # <<t, no>>
      BY <2>7, <2>8, <3>1, <3>3 DEF ChanIn, ChannelOf
    <3> QED
      BY <3>2, <3>3
  <2>12. NodesPlaced'
    BY <1>1, <1>4, <2>11, NodesUnlinked DEF ClosePolls, NodeInv
  <2> QED
    BY <2>10, <2>12 DEF NodeInv
<1> QED
  BY <1>2, <1>3, <1>4 DEF Dup

(* Only open descriptors are on lists. *)
LEMMA HeldOpen ==
    ASSUME NEW pl, NEW pq, NEW tb, Placed(pl, pq, tb), NEW n, Held(pl, pq, n)
    PROVE  ChanIn(tb, n) # NoChannel
<1>1. \A S : \A l \in S \X PollEvent :
         l[1] \in S /\ l[2] \in PollEvent /\ l = <<l[1], l[2]>>
  OBVIOUS
<1>2. CASE \E l \in Channel \X PollEvent : n \in Range(pl[l])
  <2>1. PICK c \in Channel, ev \in PollEvent : n \in Range(pl[<<c, ev>>])
    BY <1>1, <1>2
  <2> QED
    BY <2>1, ChannelAssumption DEF Placed
<1>3. CASE \E l \in Task \X PollEvent : n \in Range(pq[l])
  <2>1. PICK i \in Task, ev \in PollEvent : n \in Range(pq[<<i, ev>>])
    BY <1>1, <1>3
  <2> QED
    BY <2>1 DEF Placed
<1> QED
  BY <1>2, <1>3 DEF Held

LEMMA SpawnNodes ==
    ASSUME QueueInv, NodeInv, NEW t \in Task, NEW prio, NEW chans, NEW flags,
           Spawn(t, prio, chans, flags)
    PROVE  NodeInv'
<1> DEFINE free == queue[<<"free", 0>>]
           i == IF free = <<>> THEN next_tidx ELSE Head(free)
<1>1. TypeOK /\ Settled(state, queue) /\ PollTypes
  BY DEF QueueInv, TypeOK
<1>2. CASE \E r : Answer(t, r)
  BY <1>2, AnswerNodes
<1>3. CASE /\ SpawnError(t, prio, chans, flags) = 0
           /\ state' = [state EXCEPT ![i] = "RUNNING"]
           /\ table' = [table EXCEPT ![i] = SpawnTable(t, i, chans)]
           /\ poll_queue' = [l \in DOMAIN poll_queue |->
                                IF l[1] = i THEN <<>> ELSE poll_queue[l]]
           /\ UNCHANGED poll_list
  <2>1. ~(free = <<>> /\ next_tidx >= MaxTasks)
    BY <1>3 DEF SpawnError, EINVAL, EBADF, ENOMEM
  <2>2. i \in Task /\ state[i] = "DEAD"
    <3> HIDE DEF free
    <3> QED
      BY <1>1, <2>1, SpawnTakesFree DEF free
  <2> HIDE DEF i, free
  <2>3. DOMAIN table = Task /\ DOMAIN state = Task
    BY <1>1 DEF TypeOK, ChannelTypes, RunTypes
  <2>4. /\ table'[i] = SpawnTable(t, i, chans) /\ state'[i] = "RUNNING"
        /\ \A j \in Task \ {i} : table'[j] = table[j] /\ state'[j] = state[j]
    BY <1>3, <2>2, <2>3
  <2>5. Owned' /\ DeadClosed'
    <3>1. \A fd \in Fd : SpawnTable(t, i, chans).cd[fd].task \in {NoTask, i}
      BY DEF SpawnTable, ClearTable, ClearDesc
    <3>2. Owned /\ DeadClosed /\ state'[i] # "DEAD"
      BY <2>4 DEF NodeInv
    <3>3. /\ \A j \in Task \ {i} : table'[j] = table[j]
          /\ \A j \in Task \ {i} : state'[j] = "DEAD" => state[j] = "DEAD"
          /\ \A fd \in Fd : table'[i].cd[fd].task \in {NoTask, i}
      BY <2>4, <3>1
    <3> QED
      BY <2>2, <3>2, <3>3, TablesKeep
  <2>6. /\ Placed(poll_list, poll_queue', table)
        /\ \A n : Held(poll_list, poll_queue', n) => Held(poll_list, poll_queue, n)
    <3>1. IsInjective(<<>>) /\ Range(<<>>) = {}
      BY DEF IsInjective, Range
    <3>2. \A l \in Task \X PollEvent : poll_queue'[l] \in {<<>>, poll_queue[l]}
      BY <1>1, <1>3 DEF PollTypes
    <3>3. /\ \A l \in Task \X PollEvent : IsInjective(poll_queue[l])
          /\ \A l \in Channel \X PollEvent : IsInjective(poll_list[l])
          /\ Placed(poll_list, poll_queue, table)
      BY DEF NodeInv, NodesPlaced, Placed
    <3>4. \A l \in Task \X PollEvent :
             IsInjective(poll_queue'[l]) /\ Range(poll_queue'[l]) \subseteq Range(poll_queue[l])
      BY <3>1, <3>2, <3>3
    <3>5. Placed(poll_list, poll_queue', table)
      BY <3>3, <3>4, PlacedFewer
    <3> QED
      BY <3>4, <3>5 DEF Held
  <2>7. ASSUME NEW n, Held(poll_list, poll_queue', n)
        PROVE  ChanIn(table', n) = ChanIn(table, n)
    <3>1. n \in Node
      BY <1>1, <2>6, <2>7, HeldNodes
    <3>2. n[1] \in Task /\ n[2] \in Fd
      BY <3>1 DEF Node
    <3>3. ChanIn(table, n) # NoChannel
      BY <2>6, <2>7, HeldOpen
    <3>4. n[1] # i
      BY <2>2, <3>2, <3>3 DEF NodeInv, DeadClosed, ChannelOf, ChanIn
    <3> QED
      BY <2>4, <3>2, <3>4 DEF ChanIn
  <2>8. NodesPlaced'
    <3>1. Placed(poll_list, poll_queue', table')
      BY <2>6, <2>7, PlacedTable
    <3> QED
      BY <1>3, <3>1 DEF NodesPlaced
  <2> QED
    BY <2>5, <2>8 DEF NodeInv
<1> QED
  BY <1>2, <1>3 DEF Spawn

LEMMA ExitTaskNodes ==
    ASSUME QueueInv, NodeInv, NEW t \in Task, ExitTask(t)
    PROVE  NodeInv'
<1> DEFINE open == {fd \in Fd : ChannelOf(t, fd) # NoChannel}
<1>1. TypeOK /\ PollTypes
  BY DEF QueueInv, TypeOK
<1>2. CASE \E why : Panic(why)
  BY <1>2, PanicNodes
<1>3. CASE /\ table' = [table EXCEPT ![t] = ClearTable(0)]
           /\ ClosePolls(t, open)
           /\ state' = [state EXCEPT ![t] = "DEAD"]
  <2>1. DOMAIN table = Task /\ DOMAIN state = Task
    BY <1>1 DEF TypeOK, ChannelTypes, RunTypes
  <2>2. /\ \A j \in Task \ {t} : table'[j] = table[j] /\ state'[j] = state[j]
        /\ \A fd \in Fd : /\ table'[t].cd[fd].task = NoTask
                          /\ table'[t].cd[fd].channel = NoChannel
    BY <1>3, <2>1 DEF ClearTable, ClearDesc
  <2>3. Owned'
    BY <2>2 DEF NodeInv, Owned
  <2>4. DeadClosed'
    BY <2>2 DEF NodeInv, DeadClosed, ChannelOf
  <2>5. ASSUME NEW n \in Node
        PROVE  \/ n \in {t} \X open \/ ~LinkedAtAll(n)
               \/ ChanIn(table', n) = ChanIn(table, n)
    <3>1. n[1] \in Task /\ n[2] \in Fd /\ n = <<n[1], n[2]>>
      BY DEF Node
    <3>2. CASE n[1] # t
      BY <2>2, <3>1, <3>2 DEF ChanIn
    <3>3. CASE n[1] = t /\ ChanIn(table, n) = NoChannel
      <4>1. ~Held(poll_list, poll_queue, n)
        BY <3>3, HeldOpen DEF NodeInv, NodesPlaced
      <4> QED
        BY <1>1, <4>1, HeldNodes
    <3>4. CASE n[1] = t /\ ChanIn(table, n) # NoChannel
      BY <3>1, <3>4 DEF ChanIn, ChannelOf
    <3> QED
      BY <3>2, <3>3, <3>4
  <2> HIDE DEF open
  <2>6. NodesPlaced'
    BY <1>1, <1>3, <2>5, NodesUnlinked DEF ClosePolls, NodeInv
  <2> QED
    BY <2>3, <2>4, <2>6 DEF NodeInv
<1> QED
  BY <1>2, <1>3 DEF ExitTask

LEMMA PollRemoveNodes ==
    ASSUME QueueInv, NodeInv, NEW t, NEW fd, NEW events \in SUBSET PollEvent,
           PollRemove(t, fd, events)
    PROVE  NodeInv'
<1>1. PollTypes
  BY DEF QueueInv, TypeOK
<1>2. CASE \E r : Answer(t, r)
  BY <1>2, AnswerNodes
<1>3. CASE /\ poll_list' = Unlink(poll_list, {<<t, fd>>}, events)
           /\ poll_queue' = Unlink(poll_queue, {<<t, fd>>}, events)
           /\ UNCHANGED <<runVars, chanVars>>
  <2>1. Placed(poll_list', poll_queue', table)
    BY <1>1, <1>3, UnlinkPlaced DEF NodeInv
  <2>2. UNCHANGED <<table, state>>
    BY <1>3 DEF runVars, chanVars
  <2>3. NodesPlaced'
    BY <2>1, <2>2 DEF NodesPlaced
  <2> QED
    BY <2>2, <2>3 DEF NodeInv, Owned, DeadClosed, ChannelOf
<1> QED
  BY <1>2, <1>3 DEF PollRemove

LEMMA PollAddNodes ==
    ASSUME QueueInv, NodeInv, NEW t \in Task, NEW fd, NEW events \in SUBSET PollEvent,
           PollAdd(t, fd, events)
    PROVE  NodeInv'
<1> DEFINE new  == {ev \in events : ~Linked(<<t, fd>>, ev)}
           here == {ev \in new : Active(ChannelOf(t, fd), ev)}
           c    == ChannelOf(t, fd)
           m    == <<t, fd>>
<1>1. PollTypes /\ ChannelTypes
  BY DEF QueueInv, TypeOK
<1>2. CASE \E r : Answer(t, r)
  BY <1>2, AnswerNodes
<1>3. CASE /\ ValidChannel(t, fd)
           /\ poll_queue' = [l \in DOMAIN poll_queue |->
                 IF l[1] = t /\ l[2] \in here
                 THEN Append(poll_queue[l], <<t, fd>>) ELSE poll_queue[l]]
           /\ poll_list' = [l \in DOMAIN poll_list |->
                 IF l[1] = ChannelOf(t, fd) /\ l[2] \in new \ here
                 THEN Append(poll_list[l], <<t, fd>>) ELSE poll_list[l]]
           /\ UNCHANGED <<runVars, chanVars>>
  <2>1. m \in Node /\ c \in Channel /\ m[1] = t /\ ChanIn(table, m) = c
    BY <1>1, <1>3, ValidChannelType DEF Node, ChanIn, ChannelOf
  <2>2. /\ here \subseteq new /\ new \subseteq PollEvent
        /\ \A ev \in new, d \in Channel : m \notin Range(poll_list[<<d, ev>>])
        /\ \A ev \in new, i \in Task : m \notin Range(poll_queue[<<i, ev>>])
    BY DEF Linked
  <2>3. \A S : \A l \in S \X PollEvent :
           l[1] \in S /\ l[2] \in PollEvent /\ l = <<l[1], l[2]>>
    OBVIOUS
  <2> HIDE DEF c, m, new, here
  <2>4. ASSUME NEW l \in Channel \X PollEvent
        PROVE  /\ IsInjective(poll_list'[l])
               /\ Range(poll_list'[l]) = Range(poll_list[l]) \cup
                     (IF l[1] = c /\ l[2] \in new \ here THEN {m} ELSE {})
    <3>1. IsInjective(poll_list[l]) /\ poll_list[l] \in Seq(Node)
      BY <1>1 DEF NodeInv, NodesPlaced, Placed, PollTypes
    <3>2. CASE l[1] = c /\ l[2] \in new \ here
      <4>1. poll_list'[l] = Append(poll_list[l], m)
        BY <1>1, <1>3, <3>2 DEF PollTypes, c, m
      <4>2. m \notin Range(poll_list[l])
        BY <2>2, <2>3, <3>2
      <4> QED
        BY <2>1, <3>1, <3>2, <4>1, <4>2, AppendInjects
    <3>3. CASE ~(l[1] = c /\ l[2] \in new \ here)
      <4>1. poll_list'[l] = poll_list[l]
        BY <1>1, <1>3, <3>3 DEF PollTypes, c, m
      <4> QED
        BY <3>1, <3>3, <4>1
    <3> QED
      BY <3>2, <3>3
  <2>5. ASSUME NEW l \in Task \X PollEvent
        PROVE  /\ IsInjective(poll_queue'[l])
               /\ Range(poll_queue'[l]) = Range(poll_queue[l]) \cup
                     (IF l[1] = t /\ l[2] \in here THEN {m} ELSE {})
    <3>1. IsInjective(poll_queue[l]) /\ poll_queue[l] \in Seq(Node)
      BY <1>1 DEF NodeInv, NodesPlaced, Placed, PollTypes
    <3>2. CASE l[1] = t /\ l[2] \in here
      <4>1. poll_queue'[l] = Append(poll_queue[l], m)
        BY <1>1, <1>3, <3>2 DEF PollTypes, m
      <4>2. m \notin Range(poll_queue[l])
        BY <2>2, <2>3, <3>2
      <4> QED
        BY <2>1, <3>1, <3>2, <4>1, <4>2, AppendInjects
    <3>3. CASE ~(l[1] = t /\ l[2] \in here)
      <4>1. poll_queue'[l] = poll_queue[l]
        BY <1>1, <1>3, <3>3 DEF PollTypes, m
      <4> QED
        BY <3>1, <3>3, <4>1
    <3> QED
      BY <3>2, <3>3
  <2>6. \A d \in Channel, ev \in PollEvent : Range(poll_list'[<<d, ev>>]) =
           Range(poll_list[<<d, ev>>]) \cup (IF d = c /\ ev \in new \ here THEN {m} ELSE {})
    BY <2>4
  <2>7. \A i \in Task, ev \in PollEvent : Range(poll_queue'[<<i, ev>>]) =
           Range(poll_queue[<<i, ev>>]) \cup (IF i = t /\ ev \in here THEN {m} ELSE {})
    BY <2>5
  <2>8. Placed(poll_list, poll_queue, table)
    BY DEF NodeInv, NodesPlaced
  <2>9. \A d \in Channel, ev \in PollEvent :
           \A n \in Range(poll_list'[<<d, ev>>]) : ChanIn(table, n) = d
    BY <2>1, <2>6, <2>8 DEF Placed
  <2>10. \A i \in Task, ev \in PollEvent : \A n \in Range(poll_queue'[<<i, ev>>]) :
            n[1] = i /\ ChanIn(table, n) # NoChannel
    BY <2>1, <2>7, <2>8, ChannelAssumption DEF Placed
  <2>11. ASSUME NEW i \in Task, NEW ev \in PollEvent, NEW n \in Range(poll_queue'[<<i, ev>>]),
                NEW d \in Channel
         PROVE  n \notin Range(poll_list'[<<d, ev>>])
    <3>1. CASE n \in Range(poll_queue[<<i, ev>>])
      <4>1. n \notin Range(poll_list[<<d, ev>>])
        BY <2>8, <3>1 DEF Placed
      <4>2. n = m => ev \notin new
        BY <2>2, <3>1
      <4> QED
        BY <2>6, <4>1, <4>2
    <3>2. CASE n = m /\ ev \in here
      BY <2>2, <2>6, <3>2
    <3> QED
      BY <2>7, <3>1, <3>2
  <2>12. UNCHANGED <<table, state>>
    BY <1>3 DEF runVars, chanVars
  <2>13. Placed(poll_list', poll_queue', table)
    BY <2>4, <2>5, <2>9, <2>10, <2>11 DEF Placed
  <2>14. NodesPlaced'
    BY <2>12, <2>13 DEF NodesPlaced
  <2> QED
    BY <2>12, <2>14 DEF NodeInv, Owned, DeadClosed, ChannelOf
<1> QED
  BY <1>2, <1>3 DEF PollAdd

(* What poll_wait puts back, and what it leaves on the queue of the task.  *)
LEMMA PollQueueParts ==
    ASSUME PollTypes, NEW t \in Task, NEW ev \in PollEvent,
           IsInjective(poll_queue[<<t, ev>>])
    PROVE  /\ Inactive(t, ev) \in Seq(Node) /\ IsInjective(Inactive(t, ev))
           /\ Rotated(t, ev) \in Seq(Node) /\ IsInjective(Rotated(t, ev))
           /\ Range(poll_queue[<<t, ev>>]) = Range(Inactive(t, ev)) \cup Range(Rotated(t, ev))
           /\ Range(Inactive(t, ev)) \cap Range(Rotated(t, ev)) = {}
<1> DEFINE s == poll_queue[<<t, ev>>]
           h == Hit(t, ev)
<1>1. s \in Seq(Node) /\ h \in 0 .. Len(s) /\ IsInjective(s)
  BY HitType
<1>2. CASE h = 0
  <2>1. IsInjective(<<>>) /\ Range(<<>>) = {} /\ <<>> \in Seq(Node)
    BY EmptySeq DEF IsInjective, Range
  <2>2. Inactive(t, ev) = s /\ Rotated(t, ev) = <<>>
    BY <1>2 DEF Inactive, Rotated
  <2> QED
    BY <1>1, <2>1, <2>2
<1>3. CASE h # 0
  <2> DEFINE before == SubSeq(s, 1, h - 1)
             after  == SubSeq(s, h + 1, Len(s))
  <2>1. Inactive(t, ev) = before /\ Rotated(t, ev) = Append(after, s[h])
    BY <1>3 DEF Inactive, Rotated
  <2> HIDE DEF s, h
  <2>2. h \in DOMAIN s
    BY <1>1, <1>3, LenProperties
  <2>3. /\ before \in Seq(Node) /\ after \in Seq(Node) /\ s[h] \in Node
        /\ IsInjective(before) /\ IsInjective(after)
        /\ Range(s) = Range(before) \cup Range(after) \cup {s[h]}
        /\ Range(before) \cap Range(after) = {}
        /\ s[h] \notin Range(before) /\ s[h] \notin Range(after)
    BY <1>1, <2>2, SplitQueue
  <2> HIDE DEF before, after
  <2>4. /\ Append(after, s[h]) \in Seq(Node) /\ IsInjective(Append(after, s[h]))
        /\ Range(Append(after, s[h])) = Range(after) \cup {s[h]}
    BY <2>3, AppendInjects
  <2>5. Range(s) = Range(before) \cup Range(Append(after, s[h]))
    BY <2>3, <2>4
  <2>6. Range(before) \cap Range(Append(after, s[h])) = {}
    BY <2>3, <2>4
  <2> QED
    BY <2>1, <2>3, <2>4, <2>5, <2>6 DEF s
<1> QED
  BY <1>2, <1>3

LEMMA PollWaitNodes ==
    ASSUME QueueInv, NodeInv, NEW t \in Task, NEW null, PollWait(t, null)
    PROVE  NodeInv'
<1> DEFINE tried == IF Hit(t, "RECV") # 0 THEN {"RECV"} ELSE PollEvent
<1>1. PollTypes /\ RunTypes
  BY DEF QueueInv, TypeOK
<1>2. CASE \E r : Answer(t, r)
  BY <1>2, AnswerNodes
<1>3. CASE \E why : Panic(why)
  BY <1>3, PanicNodes
<1>4. CASE /\ poll_list' = [l \in DOMAIN poll_list |->
                 IF l[2] \in tried
                 THEN poll_list[l] \o Keep(Inactive(t, l[2]),
                         {n \in Node : ChannelOf(n[1], n[2]) = l[1]})
                 ELSE poll_list[l]]
           /\ poll_queue' = [l \in DOMAIN poll_queue |->
                 IF l[1] = t /\ l[2] \in tried THEN Rotated(t, l[2])
                 ELSE poll_queue[l]]
           /\ \/ state' = [state EXCEPT ![t] = "POLL_BLOCKED"]
              \/ UNCHANGED state
           /\ UNCHANGED chanVars
  <2> HIDE DEF tried
  <2>1. Placed(poll_list, poll_queue, table)
    BY DEF NodeInv, NodesPlaced
  <2>2. \A ev \in PollEvent :
           /\ Inactive(t, ev) \in Seq(Node) /\ IsInjective(Inactive(t, ev))
           /\ IsInjective(Rotated(t, ev))
           /\ Range(poll_queue[<<t, ev>>]) = Range(Inactive(t, ev)) \cup Range(Rotated(t, ev))
           /\ Range(Inactive(t, ev)) \cap Range(Rotated(t, ev)) = {}
    BY <1>1, <2>1, PollQueueParts DEF Placed
  <2>3. ASSUME NEW d \in Channel, NEW ev \in PollEvent
        PROVE  /\ IsInjective(poll_list'[<<d, ev>>])
               /\ \A n \in Range(poll_list'[<<d, ev>>]) :
                     \/ n \in Range(poll_list[<<d, ev>>])
                     \/ /\ ev \in tried /\ n \in Range(Inactive(t, ev))
                        /\ ChanIn(table, n) = d
    <3> DEFINE l == <<d, ev>>
               N == {n \in Node : ChannelOf(n[1], n[2]) = d}
               back == Keep(Inactive(t, ev), N)
    <3>1. poll_list[l] \in Seq(Node) /\ IsInjective(poll_list[l])
      BY <1>1, <2>1 DEF PollTypes, Placed
    <3>2. poll_list'[l] = IF ev \in tried THEN poll_list[l] \o back ELSE poll_list[l]
      BY <1>1, <1>4 DEF PollTypes
    <3>3. \A n \in N : ChanIn(table, n) = d
      BY DEF ChanIn, ChannelOf
    <3>4. Range(poll_list[l]) \cap Range(Inactive(t, ev)) = {}
      BY <2>1, <2>2 DEF Placed
    <3> HIDE DEF l, N
    <3>5. /\ back \in Seq(Node) /\ IsInjective(back)
          /\ Range(back) = Range(Inactive(t, ev)) \cap N
      <4>1. Inactive(t, ev) \in Seq(Node) /\ IsInjective(Inactive(t, ev))
        BY <2>2
      <4>2. Keep(Inactive(t, ev), N) \in Seq(Node) /\ IsInjective(Keep(Inactive(t, ev), N))
            /\ Range(Keep(Inactive(t, ev), N)) = Range(Inactive(t, ev)) \cap N
        BY <4>1, KeepProperties, KeepInjective
      <4> QED
        BY <4>2
    <3> HIDE DEF back
    <3>6. /\ IsInjective(poll_list[l] \o back)
          /\ Range(poll_list[l] \o back) = Range(poll_list[l]) \cup Range(back)
      BY <3>1, <3>4, <3>5, ConcatInjective, RangeConcat
    <3>7. /\ IsInjective(poll_list'[l])
          /\ \A n \in Range(poll_list'[l]) :
                n \in Range(poll_list[l]) \/ (ev \in tried /\ n \in Range(back))
      BY <3>1, <3>2, <3>6
    <3> QED
      BY <3>3, <3>5, <3>7 DEF l
  <2>4. ASSUME NEW i \in Task, NEW ev \in PollEvent
        PROVE  /\ IsInjective(poll_queue'[<<i, ev>>])
               /\ Range(poll_queue'[<<i, ev>>]) \subseteq Range(poll_queue[<<i, ev>>])
               /\ i = t /\ ev \in tried =>
                     Range(poll_queue'[<<i, ev>>]) \cap Range(Inactive(t, ev)) = {}
    <3>1. poll_queue'[<<i, ev>>] =
             IF i = t /\ ev \in tried THEN Rotated(t, ev) ELSE poll_queue[<<i, ev>>]
      BY <1>1, <1>4 DEF PollTypes
    <3>2. IsInjective(poll_queue[<<i, ev>>])
      BY <2>1 DEF Placed
    <3> QED
      BY <2>2, <3>1, <3>2
  <2>5. \A S : \A l \in S \X PollEvent :
           l[1] \in S /\ l[2] \in PollEvent /\ l = <<l[1], l[2]>>
    OBVIOUS
  <2>6. /\ \A l \in Channel \X PollEvent : IsInjective(poll_list'[l])
        /\ \A l \in Task \X PollEvent : IsInjective(poll_queue'[l])
    <3>1. ASSUME NEW l \in Channel \X PollEvent PROVE IsInjective(poll_list'[l])
      <4>1. l[1] \in Channel /\ l[2] \in PollEvent /\ l = <<l[1], l[2]>>
        BY <2>5
      <4>2. IsInjective(poll_list'[<<l[1], l[2]>>])
        BY <2>3, <4>1
      <4> QED
        BY <4>1, <4>2
    <3>2. ASSUME NEW l \in Task \X PollEvent PROVE IsInjective(poll_queue'[l])
      <4>1. l[1] \in Task /\ l[2] \in PollEvent /\ l = <<l[1], l[2]>>
        BY <2>5
      <4>2. IsInjective(poll_queue'[<<l[1], l[2]>>])
        BY <2>4, <4>1
      <4> QED
        BY <4>1, <4>2
    <3> QED
      BY <3>1, <3>2
  <2>7. \A d \in Channel, ev \in PollEvent :
           \A n \in Range(poll_list'[<<d, ev>>]) : ChanIn(table, n) = d
    BY <2>1, <2>3 DEF Placed
  <2>8. \A i \in Task, ev \in PollEvent : \A n \in Range(poll_queue'[<<i, ev>>]) :
           n[1] = i /\ ChanIn(table, n) # NoChannel
    BY <2>1, <2>4 DEF Placed
  <2>9. ASSUME NEW i \in Task, NEW ev \in PollEvent, NEW n \in Range(poll_queue'[<<i, ev>>]),
               NEW d \in Channel
        PROVE  n \notin Range(poll_list'[<<d, ev>>])
    <3>1. n \in Range(poll_queue[<<i, ev>>]) /\ n[1] = i
      BY <2>4, <2>8
    <3>2. n \notin Range(poll_list[<<d, ev>>])
      BY <2>1, <3>1 DEF Placed
    <3>3. CASE ev \in tried /\ n \in Range(Inactive(t, ev))
      <4>1. n \in Range(poll_queue[<<t, ev>>])
        BY <2>2, <3>3
      <4>2. i = t
        BY <2>1, <3>1, <4>1 DEF Placed
      <4> QED
        BY <2>4, <3>3, <4>2
    <3> QED
      BY <2>3, <3>2, <3>3
  <2>10. Placed(poll_list', poll_queue', table)
    BY <2>6, <2>7, <2>8, <2>9 DEF Placed
  <2>11. table' = table /\ \A i \in Task : state'[i] = "DEAD" => state[i] = "DEAD"
    BY <1>1, <1>4 DEF chanVars, RunTypes
  <2>12. NodesPlaced'
    BY <2>10, <2>11 DEF NodesPlaced
  <2> QED
    BY <2>11, <2>12 DEF NodeInv, Owned, DeadClosed, ChannelOf
<1> QED
  BY <1>2, <1>3, <1>4 DEF PollWait

(* poll_trigger_all: the nodes of a list go to the queues of their tasks,  *)
(* and the tasks that wake up in poll_wait are woken once each.            *)
Woken(st, q, woken) ==
    /\ woken \in Seq(Task) /\ IsInjective(woken)
    /\ \A i \in Range(woken) : st[i] = "POLL_BLOCKED"
    /\ \A i \in Task : state'[i] = IF i \in Range(woken) THEN "RUNNING" ELSE st[i]
    /\ queue' = ToReady(q, woken)

(* Each learns of a node of its own that was on that list. *)
Told(q, c, ev, woken) ==
    \A p \in pollresult' :
        /\ p[1] \in Range(woken) /\ p[3] = ev /\ q[<<Side(ev), c>>] # <<>>
        /\ <<p[1], p[2]>> \in Range(poll_list[<<c, ev>>])
        /\ <<p[1], p[2]>> \in Range(poll_queue'[<<p[1], ev>>])

LEMMA TriggerNodes ==
    ASSUME QueueInv, NodeInv, NEW c \in Channel, NEW ev \in PollEvent,
           NEW q, NEW st, NEW R, Trigger(c, ev, q, st, R)
    PROVE  /\ Placed(poll_list', poll_queue', table)
           /\ \A n : Held(poll_list', poll_queue', n) => Held(poll_list, poll_queue, n)
           /\ \E woken : /\ Woken(st, q, woken) /\ Told(q, c, ev, woken)
                         /\ ret' = R \cup {<<i, 0>> : i \in Range(woken)}
<1> DEFINE nodes    == IF q[<<Side(ev), c>>] = <<>> THEN <<>> ELSE poll_list[<<c, ev>>]
           owner(n) == table[n[1]].cd[n[2]].task
           first    == {nodes[k] : k \in {k \in DOMAIN nodes :
                        \A j \in 1 .. (k-1) : owner(nodes[j]) # owner(nodes[k])}}
           told     == {n \in first : /\ owner(n) # NoTask
                                      /\ InPollWait(st, owner(n))}
           hits     == Keep(nodes, told)
           woken    == [k \in DOMAIN hits |-> owner(hits[k])]
           mine(i)  == Keep(nodes, {n \in Range(nodes) : owner(n) = i})
<1>1. /\ poll_list' = IF nodes = <<>> THEN poll_list
                      ELSE [poll_list EXCEPT ![<<c, ev>>] = <<>>]
      /\ poll_queue' = [l \in DOMAIN poll_queue |->
             IF l[2] = ev THEN poll_queue[l] \o mine(l[1]) ELSE poll_queue[l]]
      /\ state' = [i \in Task |-> IF i \in Range(woken) THEN "RUNNING" ELSE st[i]]
      /\ queue' = Requeue(q, woken, [i \in Task |-> ReadyQueue(i)])
      /\ ret' = R \cup {<<i, 0>> : i \in Range(woken)}
      /\ pollresult' = {<<owner(n), n[2], ev>> : n \in Range(hits)}
  BY DEF Trigger, Leave
<1>2. PollTypes /\ ChannelTypes /\ Placed(poll_list, poll_queue, table)
  BY DEF QueueInv, TypeOK, NodeInv, NodesPlaced
<1>3. nodes \in Seq(Node) /\ IsInjective(nodes)
  <2>1. <<>> \in Seq(Node) /\ IsInjective(<<>>)
    BY EmptySeq DEF IsInjective
  <2> QED
    BY <1>2, <2>1 DEF PollTypes, Placed
<1>4. /\ nodes = <<>> \/ nodes = poll_list[<<c, ev>>]
      /\ nodes # <<>> => q[<<Side(ev), c>>] # <<>>
  OBVIOUS
<1>5. \A n \in Node : owner(n) \in {NoTask, n[1]}
  BY DEF NodeInv, Owned, Node
<1>6. \A m, n \in first : owner(m) = owner(n) => m = n
  <2> SUFFICES ASSUME NEW m \in first, NEW n \in first, owner(m) = owner(n)
               PROVE  m = n
    OBVIOUS
  <2>1. DOMAIN nodes = 1 .. Len(nodes) /\ Len(nodes) \in Nat
    BY <1>3, LenProperties
  <2> HIDE DEF nodes, owner
  <2>2. PICK j \in DOMAIN nodes : m = nodes[j]
           /\ \A h \in 1 .. (j-1) : owner(nodes[h]) # owner(nodes[j])
    OBVIOUS
  <2>3. PICK k \in DOMAIN nodes : n = nodes[k]
           /\ \A h \in 1 .. (k-1) : owner(nodes[h]) # owner(nodes[k])
    OBVIOUS
  <2>4. ~(j \in 1 .. (k-1)) /\ ~(k \in 1 .. (j-1))
    BY <2>2, <2>3
  <2>5. j = k
    BY <2>1, <2>4
  <2> QED
    BY <2>2, <2>3, <2>5
<1>7. \A n \in told : owner(n) # NoTask /\ st[owner(n)] = "POLL_BLOCKED" /\ n \in first
  BY DEF InPollWait
<1> HIDE DEF nodes, first, told, owner
<1>8. hits \in Seq(Node) /\ Range(hits) = Range(nodes) \cap told /\ IsInjective(hits)
  BY <1>3, KeepProperties, KeepInjective
<1> HIDE DEF hits
<1>9. DOMAIN hits = 1 .. Len(hits) /\ Len(hits) \in Nat
      /\ \A k \in DOMAIN hits : hits[k] \in Node /\ hits[k] \in told
  <2>1. \A k \in DOMAIN hits : hits[k] \in Range(hits)
    BY DEF Range
  <2> QED
    BY <1>8, <2>1, LenProperties, ElementOfSeq
<1>10. \A k \in DOMAIN hits : /\ owner(hits[k]) \in Task
                              /\ st[owner(hits[k])] = "POLL_BLOCKED"
  BY <1>5, <1>7, <1>9 DEF Node
<1>11. woken \in Seq(Task)
  BY <1>9, <1>10, IsASeq
<1>12. IsInjective(woken)
  <2> SUFFICES ASSUME NEW j \in DOMAIN hits, NEW k \in DOMAIN hits,
                      owner(hits[j]) = owner(hits[k])
               PROVE  j = k
    BY DEF IsInjective
  <2>1. hits[j] = hits[k]
    BY <1>6, <1>7, <1>9
  <2> QED
    BY <1>8, <2>1 DEF IsInjective
<1>13. /\ \A i \in Range(woken) : st[i] = "POLL_BLOCKED"
       /\ \A n \in Range(hits) : owner(n) \in Range(woken)
  BY <1>10 DEF Range
<1> HIDE DEF woken
<1>14. Woken(st, q, woken)
  BY <1>1, <1>11, <1>12, <1>13 DEF Woken, ToReady
<1>15. \A i : /\ mine(i) \in Seq(Node) /\ IsInjective(mine(i))
              /\ Range(mine(i)) = {n \in Range(nodes) : owner(n) = i}
  <2> SUFFICES ASSUME NEW i
               PROVE  /\ mine(i) \in Seq(Node) /\ IsInjective(mine(i))
                      /\ Range(mine(i)) = {n \in Range(nodes) : owner(n) = i}
    OBVIOUS
  <2> DEFINE N == {n \in Range(nodes) : owner(n) = i}
  <2>1. Range(nodes) \cap N = N
    OBVIOUS
  <2> HIDE DEF N
  <2>2. Keep(nodes, N) \in Seq(Node) /\ IsInjective(Keep(nodes, N))
        /\ Range(Keep(nodes, N)) = N
    BY <1>3, <2>1, KeepProperties, KeepInjective
  <2> QED
    BY <2>2 DEF N
<1> HIDE DEF mine
<1>16. Range(nodes) \subseteq Range(poll_list[<<c, ev>>]) /\ Range(nodes) \subseteq Node
  BY <1>3, <1>4, RangeOfSeq DEF Range
<1>17. ASSUME NEW l \in Channel \X PollEvent
       PROVE  /\ IsInjective(poll_list'[l]) /\ Range(poll_list'[l]) \subseteq Range(poll_list[l])
              /\ l = <<c, ev>> => Range(poll_list'[l]) \cap Range(nodes) = {}
  <2>1. IsInjective(<<>>) /\ Range(<<>>) = {} /\ IsInjective(poll_list[l])
    BY <1>2 DEF IsInjective, Range, Placed
  <2>2. /\ poll_list'[l] \in {<<>>, poll_list[l]}
        /\ l = <<c, ev>> => poll_list'[l] = <<>> \/ nodes = <<>>
    BY <1>1, <1>2 DEF PollTypes
  <2> QED
    BY <2>1, <2>2
<1>18. ASSUME NEW i \in Task, NEW e \in PollEvent
       PROVE  /\ IsInjective(poll_queue'[<<i, e>>])
              /\ \A n \in Range(poll_queue'[<<i, e>>]) :
                    \/ n \in Range(poll_queue[<<i, e>>])
                    \/ e = ev /\ n \in Range(nodes) /\ owner(n) = i
  <2>1. poll_queue'[<<i, e>>] = IF e = ev THEN poll_queue[<<i, e>>] \o mine(i)
                                ELSE poll_queue[<<i, e>>]
    BY <1>1, <1>2 DEF PollTypes
  <2>2. poll_queue[<<i, e>>] \in Seq(Node) /\ IsInjective(poll_queue[<<i, e>>])
    BY <1>2 DEF PollTypes, Placed
  <2>3. CASE e = ev
    <3>1. Range(poll_queue[<<i, e>>]) \cap Range(mine(i)) = {}
      BY <1>2, <1>15, <1>16, <2>3 DEF Placed
    <3>2. /\ IsInjective(poll_queue[<<i, e>>] \o mine(i))
          /\ Range(poll_queue[<<i, e>>] \o mine(i)) =
                Range(poll_queue[<<i, e>>]) \cup Range(mine(i))
      BY <1>15, <2>2, <3>1, ConcatInjective, RangeConcat
    <3> QED
      BY <1>15, <2>1, <2>3, <3>2
  <2>4. CASE e # ev
    BY <2>1, <2>2, <2>4
  <2> QED
    BY <2>3, <2>4
<1>19. \A S : \A l \in S \X PollEvent :
          l[1] \in S /\ l[2] \in PollEvent /\ l = <<l[1], l[2]>>
  OBVIOUS
<1>20. \A l \in Task \X PollEvent : IsInjective(poll_queue'[l])
  <2> SUFFICES ASSUME NEW l \in Task \X PollEvent PROVE IsInjective(poll_queue'[l])
    OBVIOUS
  <2>1. l[1] \in Task /\ l[2] \in PollEvent /\ l = <<l[1], l[2]>>
    BY <1>19
  <2>2. IsInjective(poll_queue'[<<l[1], l[2]>>])
    BY <1>18, <2>1
  <2> QED
    BY <2>1, <2>2
<1>21. \A d \in Channel, e \in PollEvent :
          /\ Range(poll_list'[<<d, e>>]) \subseteq Range(poll_list[<<d, e>>])
          /\ d = c /\ e = ev => Range(poll_list'[<<d, e>>]) \cap Range(nodes) = {}
  BY <1>17
<1>22. ASSUME NEW i \in Task, NEW e \in PollEvent, NEW n \in Range(poll_queue'[<<i, e>>])
       PROVE  /\ n[1] = i /\ ChanIn(table, n) # NoChannel
              /\ \A d \in Channel : n \notin Range(poll_list'[<<d, e>>])
  <2>1. CASE n \in Range(poll_queue[<<i, e>>])
    BY <1>2, <1>21, <2>1 DEF Placed
  <2>2. CASE e = ev /\ n \in Range(nodes) /\ owner(n) = i
    <3>1. n \in Node /\ n \in Range(poll_list[<<c, ev>>])
      BY <1>16, <2>2
    <3>2. ChanIn(table, n) = c
      BY <1>2, <3>1 DEF Placed
    <3>3. n[1] = i
      BY <1>5, <2>2, <3>1 DEF Task, NoTask
    <3>4. \A d \in Channel : n \notin Range(poll_list'[<<d, e>>])
      BY <1>2, <1>21, <2>2, <3>2 DEF Placed
    <3> QED
      BY <3>2, <3>3, <3>4, ChannelAssumption
  <2> QED
    BY <1>18, <2>1, <2>2
<1>23. Placed(poll_list', poll_queue', table)
  <2>1. \A d \in Channel, e \in PollEvent :
           \A n \in Range(poll_list'[<<d, e>>]) : ChanIn(table, n) = d
    BY <1>2, <1>21 DEF Placed
  <2> QED
    BY <1>17, <1>20, <1>22, <2>1 DEF Placed
<1>24. ASSUME NEW n, Held(poll_list', poll_queue', n)
       PROVE  Held(poll_list, poll_queue, n)
  <2>1. CASE \E l \in Channel \X PollEvent : n \in Range(poll_list'[l])
    BY <1>17, <2>1 DEF Held
  <2>2. CASE \E l \in Task \X PollEvent : n \in Range(poll_queue'[l])
    <3>1. PICK i \in Task, e \in PollEvent : n \in Range(poll_queue'[<<i, e>>])
      BY <1>19, <2>2
    <3>2. <<i, e>> \in Task \X PollEvent /\ <<c, ev>> \in Channel \X PollEvent
      OBVIOUS
    <3> QED
      BY <1>16, <1>18, <3>1, <3>2 DEF Held
  <2> QED
    BY <1>24, <2>1, <2>2 DEF Held
<1>25. Told(q, c, ev, woken)
  <2> SUFFICES ASSUME NEW p \in pollresult'
               PROVE  /\ p[1] \in Range(woken) /\ p[3] = ev /\ q[<<Side(ev), c>>] # <<>>
                      /\ <<p[1], p[2]>> \in Range(poll_list[<<c, ev>>])
                      /\ <<p[1], p[2]>> \in Range(poll_queue'[<<p[1], ev>>])
    BY DEF Told
  <2>0. PICK n \in Range(hits) : p = <<owner(n), n[2], ev>>
    BY <1>1
  <2>1. /\ n \in Range(nodes) /\ n \in told /\ n \in Node
        /\ n \in Range(poll_list[<<c, ev>>])
    BY <1>8, <1>16
  <2>2. owner(n) = n[1] /\ <<owner(n), n[2]>> = n /\ owner(n) \in Task
    BY <1>5, <1>7, <2>1 DEF Node
  <2>3. nodes # <<>>
    BY <1>3, <2>1, EmptyRange
  <2>4. n \in Range(poll_queue'[<<owner(n), ev>>])
    <3> DEFINE i == owner(n)
    <3>1. i \in Task
      BY <2>2
    <3>2. n \in Range(mine(i))
      BY <1>15, <2>1
    <3> HIDE DEF i
    <3>3. poll_queue'[<<i, ev>>] = poll_queue[<<i, ev>>] \o mine(i)
      BY <1>1, <1>2, <3>1 DEF PollTypes
    <3>4. poll_queue[<<i, ev>>] \in Seq(Node)
      BY <1>2, <3>1 DEF PollTypes
    <3>5. Range(poll_queue[<<i, ev>>] \o mine(i)) =
             Range(poll_queue[<<i, ev>>]) \cup Range(mine(i))
      BY <1>15, <3>4, RangeConcat
    <3> QED
      BY <3>2, <3>3, <3>5 DEF i
  <2>5. p[1] = owner(n) /\ <<p[1], p[2]>> = n /\ p[3] = ev
    BY <2>0, <2>2
  <2> QED
    BY <1>4, <1>13, <2>1, <2>2, <2>3, <2>4, <2>5
<1> QED
  BY <1>1, <1>14, <1>23, <1>24, <1>25

(* Waking tasks in poll_wait disturbs no other queue. *)
LEMMA WokenElsewhere ==
    ASSUME TypeOK, NEW st \in [Task -> TaskState], NEW q \in [QueueName -> Seq(Task)],
           Settled(st, q), NEW woken, Woken(st, q, woken),
           NEW n \in QueueName, n[1] \notin {"ready", "poll"}
    PROVE  queue'[n] = q[n]
<1> DEFINE dest == [i \in Task |-> ReadyQueue(i)]
<1>1. woken \in Seq(Task) /\ Range(woken) \subseteq Task /\ queue' = Requeue(q, woken, dest)
  BY RangeOfSeq DEF Woken, ToReady
<1>2. \A i \in Range(woken) : dest[i] # n
  BY <1>1 DEF ReadyQueue
<1>3. Range(q[n]) \cap Range(woken) = {}
  <2> SUFFICES ASSUME NEW i \in Range(q[n]), i \in Range(woken)
               PROVE  FALSE
    OBVIOUS
  <2>1. i \in Task /\ n \in HomeQueues(st, i) /\ st[i] = "POLL_BLOCKED"
    BY <1>1 DEF Settled, Woken
  <2>2. HomeQueues(st, i) = {<<"poll", 0>>}
    BY <2>1, HomeQueueNames
  <2> QED
    BY <2>1, <2>2
<1> HIDE DEF dest
<1>4. woken \in Seq(Task) /\ q \in [QueueName -> Seq(Task)]
  BY <1>1
<1>5. /\ Requeue(q, woken, dest)[n] = Without(q[n], Range(woken))
      /\ Range(q[n]) \cap Range(woken) = {} => Requeue(q, woken, dest)[n] = q[n]
  BY <1>2, <1>4, RequeueElsewhere
<1> QED
  BY <1>1, <1>3, <1>5

LEMMA PlacesListed ==
    ASSUME NEW seqs, NEW names, NEW x, NEW p
    PROVE  p \in PlacesIn(seqs, names, x) <=>
              \E n \in names : \E k \in DOMAIN seqs[n] : seqs[n][k] = x /\ p = <<n, k>>
BY DEF PlacesIn

(* What poll_trigger_all reports is so. *)
LEMMA TriggerReports ==
    ASSUME TypeOK, NodesPlaced, NEW c \in Channel, NEW ev \in PollEvent,
           NEW st \in [Task -> TaskState], NEW q \in [QueueName -> Seq(Task)],
           Settled(st, q), NEW woken, Woken(st, q, woken), Told(q, c, ev, woken),
           TypeOK', \A n : Held(poll_list, poll_queue, n) => ChanIn(table', n) = ChanIn(table, n)
    PROVE  ReportsTrue'
<1> SUFFICES ASSUME NEW p \in pollresult'
             PROVE  /\ state'[p[1]] = "RUNNING" /\ (ValidChannel(p[1], p[2]))'
                    /\ queue'[<<Side(p[3]), (ChannelOf(p[1], p[2]))'>>] # <<>>
                    /\ (PollPlaces(<<p[1], p[2]>>, p[3]))' # {}
  BY DEF ReportsTrue
<1> DEFINE n == <<p[1], p[2]>>
<1>1. /\ p[1] \in Range(woken) /\ p[3] = ev /\ q[<<Side(ev), c>>] # <<>>
      /\ n \in Range(poll_list[<<c, ev>>])
      /\ n \in Range(poll_queue'[<<p[1], ev>>])
  BY DEF Told
<1>2. p[1] \in Task /\ p[2] \in Fd
  BY DEF TypeOK
<1>3. state'[p[1]] = "RUNNING"
  BY <1>1, <1>2 DEF Woken
<1>4. ChanIn(table, n) = c
  BY <1>1 DEF NodesPlaced, Placed
<1>5. Held(poll_list, poll_queue, n)
  BY <1>1 DEF Held
<1>6. (ChannelOf(p[1], p[2]))' = c
  <2>1. ChanIn(table', n) = c
    BY <1>4, <1>5
  <2> QED
    BY <2>1 DEF ChanIn, ChannelOf
<1>7. <<Side(ev), c>> \in QueueName /\ <<Side(ev), c>>[1] \notin {"ready", "poll"}
  BY SideNames DEF Side
<1>8. queue'[<<Side(ev), c>>] = q[<<Side(ev), c>>]
  BY <1>7, WokenElsewhere
<1>9. (PollPlaces(<<p[1], p[2]>>, p[3]))' # {}
  <2> DEFINE l == <<p[1], ev>>
  <2>1. PICK k \in DOMAIN poll_queue'[l] : poll_queue'[l][k] = n
    BY <1>1 DEF Range
  <2>2. l \in Task \X {p[3]}
    BY <1>1, <1>2
  <2> HIDE DEF l
  <2>3. <<l, k>> \in PlacesIn(poll_queue', Task \X {p[3]}, <<p[1], p[2]>>)
    BY <2>1, <2>2, PlacesListed
  <2> QED
    BY <2>3 DEF PollPlaces
<1> QED
  BY <1>1, <1>2, <1>3, <1>6, <1>8, <1>9, ChannelAssumption DEF ValidChannel

-----------------------------------------------------------------------------
(* Messages.  A task that joins one side of a channel comes to the end of  *)
(* that queue; the other queues that are not ready queues stay.            *)

LEMMA JoinedQueues ==
    ASSUME QueueInv, NEW t \in Task, current = t, NEW ev \in PollEvent, NEW c \in Channel
    PROVE  LET q == JoinedQueue(t, ev, c) IN
           /\ q[<<Side(ev), c>>] = Append(queue[<<Side(ev), c>>], t)
           /\ \A n \in QueueName : n[1] # "ready" /\ n # <<Side(ev), c>> => q[n] = queue[n]
           /\ \A n \in QueueName : n[1] # "ready" => t \notin Range(queue[n])
<1> DEFINE mine == <<Side(ev), c>>
           dest == [i \in {t} |-> mine]
<1>1. TypeOK /\ queue \in [QueueName -> Seq(Task)] /\ state \in [Task -> TaskState]
  BY DEF QueueInv, TypeOK, RunTypes
<1>2. state[t] = "RUNNING" /\ HomeQueues(state, t) = {ReadyQueue(t)}
  BY <1>1, CallerFacts, HomeQueueNames
<1>3. ASSUME NEW n \in QueueName, n[1] # "ready" PROVE t \notin Range(queue[n])
  <2>1. ReadyQueue(t)[1] = "ready"
    BY DEF ReadyQueue
  <2> QED
    BY <1>2, <1>3, <2>1 DEF QueueInv, Settled
<1>4. mine \in QueueName /\ mine[1] # "ready" /\ dest[t] = mine
  BY SideNames DEF Side
<1>5. <<t>> \in Seq(Task) /\ Range(<<t>>) = {t}
  BY OneTask
<1>6. JoinedQueue(t, ev, c) = Requeue(queue, <<t>>, dest)
  BY DEF JoinedQueue
<1> HIDE DEF mine, dest
<1>7. Requeue(queue, <<t>>, dest)[mine] = Append(queue[mine], t)
  <2>1. t \notin Range(queue[mine]) /\ queue \in [QueueName -> Seq(Task)]
    BY <1>1, <1>3, <1>4
  <2> QED
    BY <1>4, <2>1, RequeueJoins
<1>8. ASSUME NEW n \in QueueName, n[1] # "ready", n # mine
      PROVE  Requeue(queue, <<t>>, dest)[n] = queue[n]
  <2> DEFINE ts == <<t>>
  <2>1. ts \in Seq(Task) /\ Range(ts) = {t}
    BY <1>5
  <2> HIDE DEF ts
  <2>2. \A i \in Range(ts) : dest[i] # n
    BY <1>4, <1>8, <2>1
  <2>3. Range(queue[n]) \cap Range(ts) = {}
    BY <1>3, <1>8, <2>1
  <2>4. Requeue(queue, ts, dest)[n] = queue[n]
    BY <1>1, <2>1, <2>2, <2>3, RequeueElsewhere, SMTT(30)
  <2> QED
    BY <2>4 DEF ts
<1> QED
  BY <1>3, <1>6, <1>7, <1>8 DEF mine

(* sys_send and sys_recv: the caller joins and waits, or it meets the      *)
(* first task of the other side.                                           *)
Joins(t, ev, c, x) ==
    LET st == Joined(t, ev)
        q  == JoinedQueue(t, ev, c)
    IN  /\ Trigger(c, ev, q, st, {})
        /\ args' = [args EXCEPT ![t] = x]
        /\ UNCHANGED <<taskVars, chanVars, poll_count>>

Meets(t, ev, c, x, s, r) ==
    LET other == IF ev = "RECV" THEN <<"receivers", c>> ELSE <<"senders", c>>
        st == Joined(t, ev)
        a  == [args EXCEPT ![t] = x]
        no == NextFd(table[r])
    IN  /\ queue[other] # <<>> /\ queue[<<Side(ev), c>>] = <<>>
        /\ IF ev = "RECV" THEN s = t /\ r = Head(queue[other])
                          ELSE r = t /\ s = Head(queue[other])
        /\ r # s /\ st[s] = "SEND_BLOCKED" /\ st[r] = "RECV_BLOCKED"
        /\ a[s].len <= a[r].len
        /\ Trigger(c, ev, ToReady(JoinedQueue(t, ev, c), <<r, s>>), GoOn(st, s, r),
                   {<<r, a[s].len>>, <<s, 0>>})
        /\ \/ a[s].chan = NoChannel /\ UNCHANGED <<table, refcount>>
           \/ /\ a[s].chan # NoChannel /\ no >= 0 /\ ~LinkedAtAll(<<r, no>>)
              /\ table' = [table EXCEPT ![r] =
                              Install(TakeFd(@, r), no, a[s].chan, a[s].flags)]
              /\ refcount' = [refcount EXCEPT ![a[s].chan] = @ + 1]
        /\ args' = [a EXCEPT ![s] = NoArgs, ![r] = NoArgs]
        /\ UNCHANGED <<taskVars, free_channel, poll_count>>

LEMMA ExchangeCases ==
    ASSUME QueueInv, NEW t \in Task, t # Idle, current = t,
           NEW ev \in PollEvent, NEW c \in Channel, NEW x \in Args, Exchange(t, ev, c, x)
    PROVE  \/ \E why : Panic(why)
           \/ Joins(t, ev, c, x)
           \/ \E s, r \in Task : Meets(t, ev, c, x, s, r)
<1> DEFINE st == Joined(t, ev)
           q  == JoinedQueue(t, ev, c)
           a  == [args EXCEPT ![t] = x]
           s  == FirstSender(q, c)
           r  == FirstReceiver(q, c)
           no == NextFd(table[r])
           S  == <<"senders", c>>
           R  == <<"receivers", c>>
           mine  == <<Side(ev), c>>
           other == IF ev = "RECV" THEN R ELSE S
           why == ReceiveFailure(s, r, st, a)
<1>1. /\ st \in [Task -> TaskState] /\ q \in [QueueName -> Seq(Task)]
      /\ Settled(st, q) /\ CameTo(t, mine, q)
  BY JoinSettles
<1>2. CASE ~Pair(q, c) /\ args' = a /\ Trigger(c, ev, q, st, {})
           /\ UNCHANGED <<taskVars, chanVars, poll_count>>
  BY <1>2 DEF Joins
<1>3. CASE Pair(q, c) /\ why # "no" /\ Panic(why)
  BY <1>3
<1>4. CASE /\ Pair(q, c) /\ why = "no"
           /\ \/ /\ a[s].chan = NoChannel
                 /\ UNCHANGED <<table, refcount>>
              \/ /\ a[s].chan # NoChannel
                 /\ table' = [table EXCEPT ![r] =
                      Install(TakeFd(@, r), no, a[s].chan, a[s].flags)]
                 /\ refcount' = [refcount EXCEPT ![a[s].chan] = @ + 1]
           /\ args' = [a EXCEPT ![s] = NoArgs, ![r] = NoArgs]
           /\ Trigger(c, ev, ToReady(q, <<r, s>>), GoOn(st, s, r),
                      {<<r, a[s].len>>, <<s, 0>>})
           /\ UNCHANGED <<taskVars, free_channel, poll_count>>
  <2>1. S \in QueueName /\ R \in QueueName /\ S # R /\ S[1] # "ready" /\ R[1] # "ready"
    BY SideNames
  <2>2. (ev = "RECV" /\ mine = S /\ other = R) \/ (ev = "SEND" /\ mine = R /\ other = S)
    BY DEF Side, PollEvent
  <2>3. queue \in [QueueName -> Seq(Task)]
    BY DEF QueueInv, TypeOK, RunTypes
  <2>4. /\ q[mine] = Append(queue[mine], t)
        /\ \A n \in QueueName : n[1] # "ready" /\ n # mine => q[n] = queue[n]
    BY JoinedQueues
  <2>5. /\ s = Head(q[S]) /\ r = Head(q[R]) /\ q[S] # <<>> /\ q[R] # <<>>
    BY <1>4 DEF FirstSender, FirstReceiver, Peek, Pair
  <2>6. s \in Task /\ r \in Task /\ st[s] = "SEND_BLOCKED" /\ st[r] = "RECV_BLOCKED"
    <3>1. PairGoesOn(st, q, s, r)
      BY <1>1, <1>4, PairLeaves
    <3> QED
      BY <3>1 DEF PairGoesOn
  <2>7. queue[S] = <<>> \/ queue[R] = <<>>
    BY DEF QueueInv, NobodyMissed
  <2> HIDE DEF S, R, mine, other, q, st, s, r
  <2>8. queue[other] = q[other] /\ queue[other] # <<>> /\ queue[mine] = <<>>
    BY <2>1, <2>2, <2>4, <2>5, <2>7
  <2>9. Head(q[mine]) = t
    BY <2>4, <2>8
  <2>10. IF ev = "RECV" THEN s = t /\ r = Head(queue[other])
                        ELSE r = t /\ s = Head(queue[other])
    BY <2>2, <2>5, <2>8, <2>9
  <2>11. /\ a[s].len <= a[r].len
         /\ a[s].chan # NoChannel => no >= 0 /\ ~LinkedAtAll(<<r, no>>)
    <3>1. ReceiveFailure(s, r, st, a) = "no"
      BY <1>4
    <3> HIDE DEF a
    <3>2. /\ ~(a[s].len > a[r].len)
          /\ a[s].chan # NoChannel => ~(no < 0) /\ ~LinkedAtAll(<<r, no>>)
      BY <3>1 DEF ReceiveFailure
    <3>3. a[s].len \in Nat /\ a[r].len \in Nat
      <4>1. a \in [Task -> Args]
        BY DEF a, QueueInv, TypeOK, RunTypes
      <4> QED
        BY <2>6, <4>1 DEF Args
    <3>4. no \in Fd \cup {-1} /\ \A k \in Fd \cup {-1} : k < 0 \/ k >= 0
      <4>1. table[r] \in Table
        BY <2>6 DEF QueueInv, TypeOK, ChannelTypes
      <4> QED
        BY <4>1, NextFdType, MaxFdsAssumption DEF Fd
    <3> QED
      BY <3>2, <3>3, <3>4
  <2>12. r # s
    BY <2>6
  <2> HIDE DEF a, no
  <2>13. /\ queue[other] # <<>> /\ queue[mine] = <<>>
         /\ \/ a[s].chan = NoChannel /\ UNCHANGED <<table, refcount>>
            \/ /\ a[s].chan # NoChannel /\ no >= 0 /\ ~LinkedAtAll(<<r, no>>)
               /\ table' = [table EXCEPT ![r] =
                               Install(TakeFd(@, r), no, a[s].chan, a[s].flags)]
               /\ refcount' = [refcount EXCEPT ![a[s].chan] = @ + 1]
    BY <1>4, <2>8, <2>11
  <2>14. Meets(t, ev, c, x, s, r)
    BY <1>4, <2>6, <2>10, <2>11, <2>12, <2>13
       DEF Meets, a, no, q, st, S, R, mine, other
  <2> QED
    BY <2>6, <2>14
<1> QED
  BY <1>2, <1>3, <1>4 DEF Exchange, Joined, JoinedQueue, FirstSender, FirstReceiver, GoOn, ToReady

LEMMA NothingReported ==
    ASSUME pollresult' = {}
    PROVE  ReportsTrue'
BY DEF ReportsTrue

(* The sender and the receiver that meet go on. *)
LEMMA PairSettles ==
    ASSUME TypeOK, NEW st \in [Task -> TaskState], NEW q \in [QueueName -> Seq(Task)],
           Settled(st, q), NEW s \in Task, NEW r \in Task,
           st[s] = "SEND_BLOCKED", st[r] = "RECV_BLOCKED"
    PROVE  /\ ToReady(q, <<r, s>>) \in [QueueName -> Seq(Task)]
           /\ GoOn(st, s, r) \in [Task -> TaskState]
           /\ Settled(GoOn(st, s, r), ToReady(q, <<r, s>>))
           /\ \A i \in Task : GoOn(st, s, r)[i] = IF i \in {r, s} THEN "RUNNING" ELSE st[i]
<1> DEFINE ts == <<r, s>>
           s2 == GoOn(st, s, r)
<1>1. ts \in Seq(Task) /\ Range(ts) = {r, s}
  BY TwoTasks
<1>2. /\ s2 \in [Task -> TaskState]
      /\ \A i \in Task : s2[i] = IF i \in {r, s} THEN "RUNNING" ELSE st[i]
  BY DEF GoOn, TaskState
<1>3. \A i \in {r, s} : i < next_tidx
  <2>1. \A i \in {r, s} : ~(i >= next_tidx)
    BY DEF Settled
  <2> QED
    BY <2>1 DEF TypeOK, TaskTypes, Task
<1> HIDE DEF s2, ts
<1>4. ToReady(q, ts) \in [QueueName -> Seq(Task)] /\ Settled(s2, ToReady(q, ts))
  <2>1. /\ \A i \in Range(ts) : i < next_tidx
        /\ \A i \in Task : s2[i] = IF i \in Range(ts) THEN "RUNNING" ELSE st[i]
    BY <1>1, <1>2, <1>3
  <2> QED
    BY <1>1, <1>2, <2>1, WakeSettles
<1> QED
  BY <1>2, <1>4 DEF ts, s2

LEMMA ExchangeNodes ==
    ASSUME QueueInv, NodeInv, TypeOK', NEW t \in Task, t # Idle, current = t,
           NEW ev \in PollEvent, NEW c \in Channel, NEW x \in Args, Exchange(t, ev, c, x)
    PROVE  NodeInv' /\ ReportsTrue'
<1>1. TypeOK /\ PollTypes /\ NodesPlaced /\ Owned /\ DeadClosed
  BY DEF QueueInv, TypeOK, NodeInv
<1>2. CASE \E why : Panic(why)
  BY <1>2, PanicNodes, NothingReported DEF Panic
<1>3. ASSUME NEW st \in [Task -> TaskState], NEW q \in [QueueName -> Seq(Task)],
             Settled(st, q), NEW R, Trigger(c, ev, q, st, R),
             \A n : Held(poll_list, poll_queue, n) => ChanIn(table', n) = ChanIn(table, n)
      PROVE  /\ NodesPlaced' /\ ReportsTrue'
             /\ \A i \in Task : state'[i] = "DEAD" => st[i] = "DEAD"
  <2>1. /\ Placed(poll_list', poll_queue', table)
        /\ \A n : Held(poll_list', poll_queue', n) => Held(poll_list, poll_queue, n)
    BY <1>3, TriggerNodes
  <2>2. PICK woken : Woken(st, q, woken) /\ Told(q, c, ev, woken)
    BY <1>3, TriggerNodes
  <2>3. \A n : Held(poll_list', poll_queue', n) => ChanIn(table', n) = ChanIn(table, n)
    BY <1>3, <2>1
  <2>4. Placed(poll_list', poll_queue', table')
    BY <2>1, <2>3, PlacedTable
  <2>5. ReportsTrue'
    BY <1>1, <1>3, <2>2, TriggerReports
  <2> QED
    BY <2>2, <2>4, <2>5 DEF NodesPlaced, Woken
<1> DEFINE st == Joined(t, ev)
           q  == JoinedQueue(t, ev, c)
<1>4. /\ st \in [Task -> TaskState] /\ q \in [QueueName -> Seq(Task)] /\ Settled(st, q)
      /\ \A i \in Task : st[i] = "DEAD" => state[i] = "DEAD"
  <2>1. /\ st \in [Task -> TaskState] /\ q \in [QueueName -> Seq(Task)] /\ Settled(st, q)
    BY JoinSettles
  <2>2. \A i \in Task : st[i] = "DEAD" => state[i] = "DEAD"
    BY <1>1 DEF Joined, TypeOK, RunTypes
  <2> QED
    BY <2>1, <2>2
<1>5. CASE Joins(t, ev, c, x)
  <2>1. Trigger(c, ev, q, st, {}) /\ table' = table
    BY <1>5 DEF Joins, chanVars
  <2> HIDE DEF q, st
  <2>2. \A n : ChanIn(table', n) = ChanIn(table, n)
    BY <2>1
  <2>3. /\ NodesPlaced' /\ ReportsTrue'
        /\ \A i \in Task : state'[i] = "DEAD" => st[i] = "DEAD"
    BY <1>3, <1>4, <2>1, <2>2
  <2>4. \A i \in Task : state'[i] = "DEAD" => state[i] = "DEAD"
    BY <1>4, <2>3
  <2>5. Owned' /\ DeadClosed'
    BY <1>1, <2>1, <2>4 DEF Owned, DeadClosed, ChannelOf
  <2> QED
    BY <2>3, <2>5 DEF NodeInv
<1>6. ASSUME NEW s \in Task, NEW r \in Task, Meets(t, ev, c, x, s, r)
      PROVE  NodeInv' /\ ReportsTrue'
  <2> DEFINE a  == [args EXCEPT ![t] = x]
             q2 == ToReady(q, <<r, s>>)
             s2 == GoOn(st, s, r)
             no == NextFd(table[r])
             R  == {<<r, a[s].len>>, <<s, 0>>}
  <2>1. /\ st[r] = "RECV_BLOCKED" /\ Trigger(c, ev, q2, s2, R)
        /\ \/ a[s].chan = NoChannel /\ UNCHANGED <<table, refcount>>
           \/ /\ a[s].chan # NoChannel /\ no >= 0 /\ ~LinkedAtAll(<<r, no>>)
              /\ table' = [table EXCEPT ![r] =
                              Install(TakeFd(@, r), no, a[s].chan, a[s].flags)]
    BY <1>6 DEF Meets
  <2>2. /\ q2 \in [QueueName -> Seq(Task)] /\ s2 \in [Task -> TaskState] /\ Settled(s2, q2)
        /\ \A i \in Task : s2[i] = "DEAD" => state[i] = "DEAD"
        /\ s2[r] # "DEAD"
    <3>1. st[s] = "SEND_BLOCKED" /\ st[r] = "RECV_BLOCKED"
      BY <1>6 DEF Meets
    <3> HIDE DEF st, q
    <3>2. /\ q2 \in [QueueName -> Seq(Task)] /\ s2 \in [Task -> TaskState]
          /\ Settled(s2, q2)
          /\ \A i \in Task : s2[i] = IF i \in {r, s} THEN "RUNNING" ELSE st[i]
      BY <1>1, <1>4, <3>1, PairSettles, ZenonT(40)
    <3> HIDE DEF s2, q2
    <3> QED
      BY <1>4, <3>2
  <2> HIDE DEF st, q, s2, q2, a, no, R
  <2>3. CASE table' = table
    <3>1. \A n : ChanIn(table', n) = ChanIn(table, n)
      BY <2>3
    <3>2. /\ NodesPlaced' /\ ReportsTrue'
          /\ \A i \in Task : state'[i] = "DEAD" => s2[i] = "DEAD"
      BY <1>3, <2>1, <2>2, <3>1
    <3>3. \A i \in Task : state'[i] = "DEAD" => state[i] = "DEAD"
      BY <2>2, <3>2
    <3>4. Owned' /\ DeadClosed'
      BY <1>1, <2>3, <3>3 DEF Owned, DeadClosed, ChannelOf
    <3> QED
      BY <3>2, <3>4 DEF NodeInv
  <2>4. CASE /\ no >= 0 /\ ~LinkedAtAll(<<r, no>>)
             /\ table' = [table EXCEPT ![r] =
                              Install(TakeFd(@, r), no, a[s].chan, a[s].flags)]
    <3>1. table[r] \in Table /\ DOMAIN table = Task
      BY <1>1 DEF TypeOK, ChannelTypes
    <3>2. /\ table'[r] = Install(TakeFd(table[r], r), no, a[s].chan, a[s].flags)
          /\ \A i \in Task \ {r} : table'[i] = table[i]
      BY <2>4, <3>1
    <3>3. /\ no \in Fd
          /\ \A fd \in Fd :
                /\ fd # no => table'[r].cd[fd].channel = table[r].cd[fd].channel
                /\ table'[r].cd[fd].task = IF fd = no THEN r ELSE table[r].cd[fd].task
      BY <2>4, <3>1, <3>2, OpenedTable DEF no
    <3>4. ASSUME NEW n, Held(poll_list, poll_queue, n)
          PROVE  ChanIn(table', n) = ChanIn(table, n)
      <4>1. n \in Node /\ LinkedAtAll(n)
        BY <1>1, <3>4, HeldNodes
      <4>2. n # <<r, no>>
        BY <2>4, <4>1
      <4> QED
        BY <3>2, <3>3, <4>1, <4>2 DEF Node, ChanIn
    <3>5. /\ NodesPlaced' /\ ReportsTrue'
          /\ \A i \in Task : state'[i] = "DEAD" => s2[i] = "DEAD"
      BY <1>3, <2>1, <2>2, <3>4
    <3>6. Owned' /\ DeadClosed'
      <4>1. \A fd \in Fd : table'[r].cd[fd].task \in {NoTask, r}
        BY <1>1, <3>3 DEF Owned
      <4>2. /\ state'[r] # "DEAD"
            /\ \A i \in Task \ {r} : state'[i] = "DEAD" => state[i] = "DEAD"
        BY <2>2, <3>5
      <4> QED
        BY <1>1, <3>2, <4>1, <4>2, TablesKeep
    <3> QED
      BY <3>5, <3>6 DEF NodeInv
  <2> QED
    BY <2>1, <2>3, <2>4
<1> QED
  BY <1>2, <1>5, <1>6, ExchangeCases

(* sys_send and sys_recv, but for their early returns: the channel is open *)
(* to the caller.                                                          *)
HasOpen(t, c) == \E fd \in Fd : ChannelOf(t, fd) = c

LEMMA MessageExchanges ==
    ASSUME TypeOK, NEW t \in Task, MessageCall(t)
    PROVE  \/ \E r : Answer(t, r)
           \/ /\ t # Idle /\ current = t /\ panic = "no"
              /\ \E ev \in PollEvent, c \in Channel, x \in Args :
                    /\ Exchange(t, ev, c, x) /\ (ev = "RECV" => x.len \in Lens)
                    /\ HasOpen(t, c)
<1>1. \A fd, ev, nb, sch : ExchangeError(t, fd, ev, nb, sch) = 0 =>
         ValidChannel(t, fd) /\ (sch # -1 => ValidChannel(t, sch))
  BY DEF ExchangeError, EBADF, EWOULDBLOCK
<1>2. \A fd : ValidChannel(t, fd) =>
         /\ ChannelOf(t, fd) \in Channel /\ table[t].cd[fd].flags \in SUBSET Flag
         /\ HasOpen(t, ChannelOf(t, fd))
  BY ValidChannelType DEF TypeOK, HasOpen
<1>3. ASSUME NEW fd \in FdArgs, NEW len \in Lens, NEW nb \in Nonblock,
             NEW sch \in SendChans, Send(t, fd, len, sch, nb)
      PROVE  \/ \E r : Answer(t, r)
             \/ \E c \in Channel, x \in Args :
                   Exchange(t, "RECV", c, x) /\ x.len \in Lens /\ HasOpen(t, c)
  <2> DEFINE err == ExchangeError(t, fd, "RECV", nb, sch)
             x == IF sch = -1 THEN [NoArgs EXCEPT !.len = len]
                  ELSE [chan |-> ChannelOf(t, sch), flags |-> table[t].cd[sch].flags,
                        len |-> len, rch |-> FALSE]
  <2>1. CASE Answer(t, err)
    BY <2>1
  <2>2. CASE err = 0 /\ Exchange(t, "RECV", ChannelOf(t, fd), x)
    <3>1. ValidChannel(t, fd) /\ (sch # -1 => ValidChannel(t, sch)) /\ len \in Nat
      BY <1>1, <2>2, InputAssumption
    <3>2. x \in Args /\ x.len = len
      BY <1>2, <3>1 DEF NoArgs, Args
    <3> HIDE DEF x
    <3> QED
      BY <1>2, <2>2, <3>1, <3>2
  <2> QED
    BY <1>3, <2>1, <2>2 DEF Send
<1>4. ASSUME NEW fd \in FdArgs, NEW len \in Lens, NEW nb \in Nonblock,
             NEW rch \in RecvChans, Recv(t, fd, len, rch, nb)
      PROVE  \/ \E r : Answer(t, r)
             \/ \E c \in Channel, x \in Args :
                   Exchange(t, "SEND", c, x) /\ HasOpen(t, c)
  <2> DEFINE err == ExchangeError(t, fd, "SEND", nb, -1)
             x == [NoArgs EXCEPT !.len = len, !.rch = rch]
  <2>1. CASE Answer(t, err)
    BY <2>1
  <2>2. CASE err = 0 /\ Exchange(t, "SEND", ChannelOf(t, fd), x)
    <3>1. ValidChannel(t, fd) /\ len \in Nat /\ rch \in BOOLEAN
      BY <1>1, <2>2, InputAssumption
    <3>2. x \in Args
      BY <3>1 DEF NoArgs, Args
    <3> HIDE DEF x
    <3> QED
      BY <1>2, <2>2, <3>1, <3>2
  <2> QED
    BY <1>4, <2>1, <2>2 DEF Recv
<1>5. t # Idle /\ current = t /\ panic = "no"
  BY DEF MessageCall, Send, Recv, Caller
<1> QED
  BY <1>3, <1>4, <1>5 DEF MessageCall, PollEvent

LEMMA MessageNodes ==
    ASSUME QueueInv, NodeInv, TypeOK', NEW t \in Task, MessageCall(t)
    PROVE  NodeInv' /\ ReportsTrue'
<1>1. TypeOK
  BY DEF QueueInv
<1>2. CASE \E r : Answer(t, r)
  BY <1>2, AnswerNodes, NothingReported DEF Answer
<1>3. CASE /\ t # Idle /\ current = t
           /\ \E ev \in PollEvent, c \in Channel, x \in Args : Exchange(t, ev, c, x)
  BY <1>3, ExchangeNodes
<1> QED
  BY <1>1, <1>2, <1>3, MessageExchanges

-----------------------------------------------------------------------------
(* poll_wait.                                                              *)

LEMMA HitActive ==
    ASSUME PollTypes, NEW t \in Task, NEW ev \in PollEvent, Hit(t, ev) # 0
    PROVE  LET s == poll_queue[<<t, ev>>]
               n == s[Hit(t, ev)]
           IN  /\ Hit(t, ev) \in DOMAIN s /\ n \in Range(s)
               /\ Active(ChannelOf(n[1], n[2]), ev)
               /\ n \in Range(Rotated(t, ev))
<1> DEFINE s == poll_queue[<<t, ev>>]
           h == Hit(t, ev)
<1>1. s \in Seq(Node)
  BY DEF PollTypes
<1>2. h \in ActiveAt(t, ev)
  <2>1. ActiveAt(t, ev) # {}
    BY DEF Hit
  <2>2. Len(s) \in Nat /\ ActiveAt(t, ev) \in SUBSET (0 .. Len(s))
    BY <1>1 DEF ActiveAt
  <2>3. \E k \in ActiveAt(t, ev) : \A j \in ActiveAt(t, ev) : k <= j
    BY <2>1, <2>2, LeastElement
  <2> QED
    BY <2>1, <2>3 DEF Hit
<1>3. h \in DOMAIN s /\ Active(ChannelOf(s[h][1], s[h][2]), ev)
  BY <1>2 DEF ActiveAt
<1>4. s[h] \in Range(s)
  BY <1>3 DEF Range
<1>5. s[h] \in Range(Rotated(t, ev))
  <2> DEFINE u == SubSeq(s, h + 1, Len(s))
  <2>1. Rotated(t, ev) = Append(u, s[h])
    BY DEF Rotated
  <2>2. u \in Seq(Node)
    BY <1>1, <1>3
  <2> HIDE DEF u, s, h
  <2> QED
    BY <2>1, <2>2 DEF Range
<1> QED
  BY <1>3, <1>4, <1>5

(* The caller of poll_wait does not block while it reports: its queues     *)
(* stay, but for the ready queue of its priority.                          *)
LEMMA PollWaitReports ==
    ASSUME QueueInv, NodeInv, TypeOK', NEW t \in Task, NEW null, PollWait(t, null)
    PROVE  ReportsTrue'
<1> DEFINE tried == IF Hit(t, "RECV") # 0 THEN {"RECV"} ELSE PollEvent
           found == {ev \in tried : Hit(t, ev) # 0}
<1>1. /\ TypeOK /\ PollTypes /\ RunTypes /\ NodesPlaced
      /\ state[t] = "RUNNING"
  BY CallerFacts DEF QueueInv, NodeInv, TypeOK, PollWait, Caller
<1>2. CASE pollresult' = {}
  BY <1>2, NothingReported
<1>3. CASE /\ poll_queue' = [l \in DOMAIN poll_queue |->
                 IF l[1] = t /\ l[2] \in tried THEN Rotated(t, l[2])
                 ELSE poll_queue[l]]
           /\ queue' = Requeue(queue, <<t>>, [i \in {t} |-> ReadyQueue(i)])
           /\ UNCHANGED state
           /\ pollresult' =
                {<<t, poll_queue[<<t, ev>>][Hit(t, ev)][2], ev>> : ev \in found}
           /\ UNCHANGED chanVars
  <2>1. ASSUME NEW ev \in found, NEW fd, fd = poll_queue[<<t, ev>>][Hit(t, ev)][2],
               NEW c, c = ChannelOf(t, fd)
        PROVE  /\ state'[t] = "RUNNING" /\ (ValidChannel(t, fd))'
               /\ queue'[<<Side(ev), (ChannelOf(t, fd))'>>] # <<>>
               /\ (PollPlaces(<<t, fd>>, ev))' # {}
    <3> DEFINE n == poll_queue[<<t, ev>>][Hit(t, ev)]
               l == <<t, ev>>
               m == <<Side(ev), c>>
    <3>1. ev \in PollEvent /\ Hit(t, ev) # 0 /\ ev \in tried
      BY DEF PollEvent
    <3>2. /\ n \in Range(poll_queue[<<t, ev>>]) /\ Active(ChannelOf(n[1], n[2]), ev)
          /\ n \in Range(Rotated(t, ev))
      BY <1>1, <3>1, HitActive
    <3>3. n[1] = t /\ n = <<t, fd>> /\ fd \in Fd /\ c # NoChannel
      <4>1. n[1] = t /\ ChanIn(table, n) # NoChannel
        BY <1>1, <3>1, <3>2 DEF NodesPlaced, Placed
      <4>2. poll_queue[<<t, ev>>] \in Seq(Node)
        BY <1>1, <3>1 DEF PollTypes
      <4>3. Range(poll_queue[<<t, ev>>]) \subseteq Node
        BY <4>2, RangeOfSeq
      <4>4. n \in Node /\ n[2] = fd
        BY <2>1, <3>2, <4>3
      <4> HIDE DEF n
      <4> QED
        BY <2>1, <4>1, <4>4 DEF ChanIn, ChannelOf, Node
    <3>4. poll_queue'[l] = Rotated(t, ev)
      <4>1. l \in DOMAIN poll_queue /\ l[1] = t /\ l[2] \in tried
        BY <1>1, <3>1 DEF PollTypes
      <4> QED
        BY <1>3, <4>1
    <3> HIDE DEF found, tried
    <3>5. c \in Channel /\ queue[m] # <<>>
      <4>1. ChannelOf(t, fd) \in Channel
        BY <1>1, <2>1, <3>3, ValidChannelType DEF TypeOK, ValidChannel
      <4>2. Active(c, ev)
        BY <2>1, <3>2, <3>3
      <4> QED
        BY <2>1, <4>1, <4>2 DEF Active
    <3>6. (ChannelOf(t, fd))' = c
      BY <1>3, <2>1 DEF chanVars, ChannelOf
    <3>7. (ValidChannel(t, fd))'
      BY <3>3, <3>6 DEF ValidChannel
    <3>8. l \in Task \X {ev} /\ \E k \in DOMAIN poll_queue'[l] : poll_queue'[l][k] = <<t, fd>>
      BY <3>2, <3>3, <3>4 DEF Range
    <3> HIDE DEF n, l
    <3>9. (PollPlaces(<<t, fd>>, ev))' # {}
      <4>1. PICK k \in DOMAIN poll_queue'[l] : poll_queue'[l][k] = <<t, fd>>
        BY <3>8
      <4>2. <<l, k>> \in PlacesIn(poll_queue', Task \X {ev}, <<t, fd>>)
        BY <3>8, <4>1, PlacesListed
      <4> QED
        BY <4>2 DEF PollPlaces
    <3>10. queue'[m] # <<>>
      <4>1. m \in QueueName /\ m[1] # "ready"
        BY <3>5, SideNames DEF Side
      <4>2. t \notin Range(queue[m])
        <5>1. HomeQueues(state, t) = {ReadyQueue(t)}
          BY <1>1, HomeQueueNames DEF RunTypes
        <5>2. ReadyQueue(t)[1] = "ready"
          BY DEF ReadyQueue
        <5> HIDE DEF m
        <5> QED
          BY <4>1, <5>1, <5>2 DEF QueueInv, Settled
      <4> DEFINE ts == <<t>>
                 dest == [i \in {t} |-> ReadyQueue(i)]
      <4>3. ts \in Seq(Task) /\ Range(ts) = {t} /\ dest[t] # m
        BY <4>1, OneTask DEF ReadyQueue
      <4>4. queue' = Requeue(queue, ts, dest) /\ queue \in [QueueName -> Seq(Task)]
        BY <1>1, <1>3 DEF RunTypes
      <4> HIDE DEF m, ts, dest
      <4>5. \A i \in Range(ts) : dest[i] # m
        BY <4>3
      <4>6. Range(queue[m]) \cap Range(ts) = {}
        BY <4>2, <4>3
      <4>7. Requeue(queue, ts, dest)[m] = queue[m]
        BY <4>1, <4>3, <4>4, <4>5, <4>6, RequeueElsewhere
      <4> QED
        BY <3>5, <4>4, <4>7
    <3>11. state'[t] = "RUNNING"
      BY <1>1, <1>3
    <3> QED
      BY <3>6, <3>7, <3>9, <3>10, <3>11
  <2>2. found \subseteq PollEvent
    BY DEF PollEvent
  <2> HIDE DEF found
  <2> SUFFICES ASSUME NEW p \in pollresult'
               PROVE  /\ state'[p[1]] = "RUNNING" /\ (ValidChannel(p[1], p[2]))'
                      /\ queue'[<<Side(p[3]), (ChannelOf(p[1], p[2]))'>>] # <<>>
                      /\ (PollPlaces(<<p[1], p[2]>>, p[3]))' # {}
    BY DEF ReportsTrue
  <2>3. PICK ev \in found : p = <<t, poll_queue[<<t, ev>>][Hit(t, ev)][2], ev>>
    BY <1>3
  <2>4. p[1] = t /\ p[2] = poll_queue[<<t, ev>>][Hit(t, ev)][2] /\ p[3] = ev
    BY <2>3
  <2>5. /\ state'[t] = "RUNNING" /\ (ValidChannel(t, p[2]))'
        /\ queue'[<<Side(ev), (ChannelOf(t, p[2]))'>>] # <<>>
        /\ (PollPlaces(<<t, p[2]>>, ev))' # {}
    BY <2>1, <2>4
  <2> QED
    BY <2>4, <2>5
<1> QED
  BY <1>2, <1>3 DEF PollWait, Answer, Panic

-----------------------------------------------------------------------------
(* The other steps, and the invariant.                                     *)

LEMMA EventUnblockAllNodes ==
    ASSUME TypeOK, NodeInv, NEW e, NEW R, EventUnblockAll(e, R)
    PROVE  NodeInv' /\ ReportsTrue'
<1>1. UNCHANGED <<poll_list, poll_queue, table>> /\ pollresult' = {}
  BY DEF EventUnblockAll, chanVars, pollVars
<1>2. \A i \in Task : state'[i] = "DEAD" => state[i] = "DEAD"
  <2>1. \E W : state' = [i \in Task |-> IF i \in W THEN "RUNNING" ELSE state[i]]
    BY DEF EventUnblockAll
  <2> QED
    BY <2>1
<1> QED
  BY <1>1, <1>2, NodesStill, NothingReported

LEMMA TaskCallNodes ==
    ASSUME QueueInv, NodeInv, NEW t \in Task, TaskCall(t)
    PROVE  NodeInv' /\ ReportsTrue'
<1>1. TypeOK /\ state \in [Task -> TaskState]
  BY DEF QueueInv, TypeOK, RunTypes
<1>2. CASE \E prio \in SpawnPrios, chans \in SpawnLists, flags \in 0 .. 2 :
              Spawn(t, prio, chans, flags)
  <2>1. PICK prio \in SpawnPrios, chans \in SpawnLists, flags \in 0 .. 2 :
           Spawn(t, prio, chans, flags)
    BY <1>2
  <2>2. prio \in Int /\ chans \in Seq(AnyFd)
    BY InputAssumption
  <2>3. NodeInv'
    BY <2>1, <2>2, SpawnNodes
  <2>4. pollresult' = {}
    BY <2>1 DEF Spawn, Answer
  <2> QED
    BY <2>3, <2>4, NothingReported
<1>3. CASE ExitTask(t)
  <2>1. pollresult' = {}
    BY <1>3 DEF ExitTask, Panic
  <2> QED
    BY <1>3, <2>1, ExitTaskNodes, NothingReported
<1>4. CASE \E r : Answer(t, r)
  BY <1>4, AnswerNodes, NothingReported DEF Answer
<1>5. CASE UNCHANGED <<runVars, chanVars, pollVars>> /\ pollresult' = {}
  BY <1>5, NodesStill, NothingReported DEF runVars, chanVars, pollVars
<1>6. ASSUME NEW e, EventWait(t, e)
      PROVE  NodeInv' /\ ReportsTrue'
  <2>1. CASE /\ state' = [state EXCEPT ![t] = "EVENT_BLOCKED"] /\ pollresult' = {}
             /\ UNCHANGED <<chanVars, pollVars>>
    <3>1. \A i \in Task : state'[i] = "DEAD" => state[i] = "DEAD"
      BY <1>1, <2>1
    <3> QED
      BY <2>1, <3>1, NodesStill, NothingReported DEF chanVars, pollVars
  <2> QED
    BY <1>4, <1>6, <2>1 DEF EventWait
<1>7. ASSUME NEW e, Suspend(t, e)
      PROVE  NodeInv' /\ ReportsTrue'
  BY <1>1, <1>7, EventUnblockAllNodes DEF Suspend
<1>8. (Gettid(t) \/ Yield(t)) => \E r : Answer(t, r)
  BY DEF Gettid, Yield
<1>9. Getptid(t) => UNCHANGED <<runVars, chanVars, pollVars>> /\ pollresult' = {}
  BY DEF Getptid
<1>10. \A id, null : Taskstat(t, id, null) =>
          \/ \E r : Answer(t, r)
          \/ UNCHANGED <<runVars, chanVars, pollVars>> /\ pollresult' = {}
  BY DEF Taskstat
<1> QED
  BY <1>2, <1>3, <1>4, <1>5, <1>6, <1>7, <1>8, <1>9, <1>10 DEF TaskCall

LEMMA ChannelCallNodes ==
    ASSUME QueueInv, NodeInv, TypeOK', NEW t \in Task, ChannelCall(t)
    PROVE  NodeInv' /\ ReportsTrue'
<1>1. NodeInv'
  <2>1. \A fd : Chanflags(t, fd) => \E r : Answer(t, r)
    BY DEF Chanflags
  <2>2. FdArgs \subseteq AnyFd /\ DupTargets \subseteq AnyFd
    BY InputAssumption
  <2> QED
    BY <2>1, <2>2, CloseNodes, DupSelfNodes, NewChannelNodes, DupNodes, AnswerNodes
       DEF ChannelCall
<1>2. pollresult' = {}
  BY ZenonT(40) DEF ChannelCall, NewChannel, Close, Chanflags, DupSelf, Dup, Answer, Panic
<1> QED
  BY <1>1, <1>2, NothingReported

LEMMA PollCallNodes ==
    ASSUME QueueInv, NodeInv, TypeOK', NEW t \in Task, PollCall(t)
    PROVE  NodeInv' /\ ReportsTrue'
<1>1. ASSUME NEW fd \in FdArgs, NEW E \in PollArgs, PollAdd(t, fd, E)
      PROVE  NodeInv' /\ ReportsTrue'
  <2>1. NodeInv'
    BY <1>1, PollAddNodes, InputAssumption
  <2>2. pollresult' = {}
    BY <1>1 DEF PollAdd, Answer
  <2> QED
    BY <2>1, <2>2, NothingReported
<1>2. ASSUME NEW fd \in FdArgs, NEW E \in PollArgs, PollRemove(t, fd, E)
      PROVE  NodeInv' /\ ReportsTrue'
  <2>1. NodeInv'
    BY <1>2, PollRemoveNodes, InputAssumption
  <2>2. pollresult' = {}
    BY <1>2 DEF PollRemove, Answer
  <2> QED
    BY <2>1, <2>2, NothingReported
<1> QED
  BY <1>1, <1>2, PollWaitNodes, PollWaitReports DEF PollCall

(* What the kernel keeps of its descriptors and the lists of those polled. *)
PollInv == KernelInv /\ NodeInv /\ ReportsTrue

LEMMA PollStep == PollInv /\ [Next]_vars => PollInv'
<1> SUFFICES ASSUME PollInv, [Next]_vars PROVE PollInv'
  OBVIOUS
<1>1. KernelInv' /\ TypeOK'
  BY KernelStep DEF PollInv, KernelInv, QueueInv
<1>2. QueueInv /\ NodeInv /\ TypeOK
  BY DEF PollInv, KernelInv, QueueInv
<1>3. CASE UNCHANGED vars
  <2>1. NodeInv'
    BY <1>2, <1>3, NodesStill DEF vars, runVars, chanVars, pollVars
  <2>2. ReportsTrue'
    BY <1>3 DEF PollInv, ReportsTrue, PollPlaces, ValidChannel, ChannelOf,
                vars, runVars, chanVars, pollVars
  <2> QED
    BY <1>1, <2>1, <2>2 DEF PollInv
<1>4. CASE Schedule
  <2>1. UNCHANGED <<state, poll_list, poll_queue, table>> /\ pollresult' = {}
    BY <1>4 DEF Schedule, Panic, runVars, chanVars, pollVars
  <2> QED
    BY <1>1, <1>2, <2>1, NodesStill, NothingReported DEF PollInv
<1>5. ASSUME NEW t \in Task, ChannelCall(t) \/ MessageCall(t) \/ PollCall(t) \/ TaskCall(t)
      PROVE  NodeInv' /\ ReportsTrue'
  BY <1>1, <1>2, <1>5, ChannelCallNodes, MessageNodes, PollCallNodes, TaskCallNodes
<1>6. ASSUME NEW e, Interrupt(e) PROVE NodeInv' /\ ReportsTrue'
  BY <1>2, <1>6, EventUnblockAllNodes DEF Interrupt
<1> QED
  BY <1>1, <1>3, <1>4, <1>5, <1>6 DEF Next, Stopped, PollInv

LEMMA InitNodes == Init => NodeInv /\ ReportsTrue
<1> SUFFICES ASSUME Init PROVE NodeInv /\ ReportsTrue
  OBVIOUS
<1>1. \A i \in Task, fd \in Fd :
         table[i].cd[fd].task = NoTask /\ ChannelOf(i, fd) = NoChannel
  BY DEF Init, ChannelOf, ClearTable, ClearDesc
<1>2. /\ \A l \in Channel \X PollEvent : poll_list[l] = <<>>
      /\ \A l \in Task \X PollEvent : poll_queue[l] = <<>>
      /\ pollresult = {}
  BY DEF Init
<1>3. Range(<<>>) = {} /\ IsInjective(<<>>)
  BY DEF Range, IsInjective
<1>4. /\ \A c \in Channel, ev \in PollEvent : Range(poll_list[<<c, ev>>]) = {}
      /\ \A i \in Task, ev \in PollEvent : Range(poll_queue[<<i, ev>>]) = {}
  BY <1>2, <1>3
<1>5. NodesPlaced
  BY <1>2, <1>3, <1>4 DEF NodesPlaced, Placed
<1>6. Owned /\ DeadClosed
  BY <1>1 DEF Owned, DeadClosed
<1> QED
  BY <1>2, <1>5, <1>6 DEF NodeInv, ReportsTrue

(* The lists hold in every reachable state what they should. *)
THEOREM PollInvariant == Spec => []PollInv
<1>1. Init => PollInv
  BY InitQueues, InitChannels, InitNodes DEF PollInv, KernelInv
<1> QED
  BY <1>1, PollStep, PTL DEF Spec

(* Two places of a node are one. *)
LEMMA OnePlace ==
    ASSUME NodesPlaced, PollTypes, NEW n \in Node, NEW ev \in PollEvent,
           NEW p \in PollPlaces(n, ev), NEW p2 \in PollPlaces(n, ev)
    PROVE  p = p2 /\ p[1][1] \in {ChannelOf(n[1], n[2]), n[1]}
<1> DEFINE At(seqs, S, q) ==
        \E l \in S \X {ev} : \E k \in DOMAIN seqs[l] : seqs[l][k] = n /\ q = <<l, k>>
<1>1. \A q \in PollPlaces(n, ev) : At(poll_list, Channel, q) \/ At(poll_queue, Task, q)
  BY PlacesListed DEF PollPlaces
<1>2. ASSUME NEW l \in Channel \X {ev}, NEW k \in DOMAIN poll_list[l], poll_list[l][k] = n
      PROVE  /\ l = <<ChannelOf(n[1], n[2]), ev>> /\ n \in Range(poll_list[l])
             /\ \A j \in DOMAIN poll_list[l] : poll_list[l][j] = n => j = k
  <2>1. l[1] \in Channel /\ l = <<l[1], ev>> /\ l \in Channel \X PollEvent
    OBVIOUS
  <2>2. n \in Range(poll_list[l]) /\ IsInjective(poll_list[l])
    BY <1>2, <2>1 DEF Range, NodesPlaced, Placed
  <2>3. ChanIn(table, n) = l[1]
    BY <2>1, <2>2 DEF NodesPlaced, Placed
  <2> QED
    BY <1>2, <2>1, <2>2, <2>3 DEF ChanIn, ChannelOf, IsInjective
<1>3. ASSUME NEW l \in Task \X {ev}, NEW k \in DOMAIN poll_queue[l], poll_queue[l][k] = n
      PROVE  /\ l = <<n[1], ev>> /\ n \in Range(poll_queue[l])
             /\ \A j \in DOMAIN poll_queue[l] : poll_queue[l][j] = n => j = k
             /\ \A c \in Channel : n \notin Range(poll_list[<<c, ev>>])
  <2>1. l[1] \in Task /\ l = <<l[1], ev>> /\ l \in Task \X PollEvent
    OBVIOUS
  <2>2. n \in Range(poll_queue[l]) /\ IsInjective(poll_queue[l])
    BY <1>3, <2>1 DEF Range, NodesPlaced, Placed
  <2>3. n[1] = l[1] /\ \A c \in Channel : n \notin Range(poll_list[<<c, ev>>])
    BY <2>1, <2>2 DEF NodesPlaced, Placed
  <2> QED
    BY <1>3, <2>1, <2>2, <2>3 DEF IsInjective
<1>4. CASE At(poll_list, Channel, p)
  <2>1. PICK l \in Channel \X {ev} :
           \E k \in DOMAIN poll_list[l] : poll_list[l][k] = n /\ p = <<l, k>>
    BY <1>4
  <2>2. PICK k \in DOMAIN poll_list[l] : poll_list[l][k] = n /\ p = <<l, k>>
    BY <2>1
  <2>3. l = <<ChannelOf(n[1], n[2]), ev>> /\ n \in Range(poll_list[l]) /\ l[1] \in Channel
    BY <1>2, <2>2
  <2>4. ~At(poll_queue, Task, p2)
    BY <1>3, <2>3
  <2>5. PICK l2 \in Channel \X {ev} :
           \E k2 \in DOMAIN poll_list[l2] : poll_list[l2][k2] = n /\ p2 = <<l2, k2>>
    BY <1>1, <2>4
  <2>6. PICK k2 \in DOMAIN poll_list[l2] : poll_list[l2][k2] = n /\ p2 = <<l2, k2>>
    BY <2>5
  <2>7. l2 = l /\ k2 = k
    BY <1>2, <2>2, <2>3, <2>6
  <2>8. p = p2
    BY <2>2, <2>6, <2>7
  <2> QED
    BY <2>2, <2>3, <2>8
<1>5. CASE At(poll_queue, Task, p)
  <2>1. PICK l \in Task \X {ev} :
           \E k \in DOMAIN poll_queue[l] : poll_queue[l][k] = n /\ p = <<l, k>>
    BY <1>5
  <2>2. PICK k \in DOMAIN poll_queue[l] : poll_queue[l][k] = n /\ p = <<l, k>>
    BY <2>1
  <2>3. l = <<n[1], ev>> /\ \A c \in Channel : n \notin Range(poll_list[<<c, ev>>])
    BY <1>3, <2>2
  <2>4. ~At(poll_list, Channel, p2)
    BY <1>2, <2>3
  <2>5. PICK l2 \in Task \X {ev} :
           \E k2 \in DOMAIN poll_queue[l2] : poll_queue[l2][k2] = n /\ p2 = <<l2, k2>>
    BY <1>1, <2>4
  <2>6. PICK k2 \in DOMAIN poll_queue[l2] : poll_queue[l2][k2] = n /\ p2 = <<l2, k2>>
    BY <2>5
  <2>7. l2 = l /\ k2 = k
    BY <1>3, <2>2, <2>3, <2>6
  <2>8. p = p2
    BY <2>2, <2>6, <2>7
  <2> QED
    BY <2>2, <2>3, <2>8
<1> QED
  BY <1>1, <1>4, <1>5

(* A descriptor is at most once on a list per event: on the poll list of   *)
(* its channel or on the poll queue of its task (cdnode_enqueue, and       *)
(* cdnode_delete before it).                                               *)
THEOREM NodesAreOnce == Spec => []NodesOnce
<1>1. PollInv => NodesOnce
  <2> SUFFICES ASSUME PollInv, NEW n \in Node, NEW ev \in PollEvent
               PROVE  /\ Cardinality(PollPlaces(n, ev)) <= 1
                      /\ \A p \in PollPlaces(n, ev) :
                            p[1][1] \in {ChannelOf(n[1], n[2]), n[1]}
    BY DEF NodesOnce
  <2>1. \A p, p2 \in PollPlaces(n, ev) :
           p = p2 /\ p[1][1] \in {ChannelOf(n[1], n[2]), n[1]}
    BY OnePlace DEF PollInv, KernelInv, QueueInv, TypeOK, NodeInv
  <2>2. PollPlaces(n, ev) = {} \/ \E p : PollPlaces(n, ev) = {p}
    BY <2>1
  <2>3. Cardinality(PollPlaces(n, ev)) \in {0, 1}
    BY <2>2, FS_EmptySet, FS_Singleton
  <2> QED
    BY <2>1, <2>3
<1> QED
  BY <1>1, PollInvariant, PTL

(* What poll_wait reports is so when it returns, whether the task waited   *)
(* for it (poll_trigger_all, handle_poll) or not: the descriptor is open   *)
(* and enrolled for that event, and a task waits at the channel.           *)
THEOREM ReportsAreTrue == Spec => []ReportsTrue
<1>1. PollInv => ReportsTrue
  BY DEF PollInv
<1> QED
  BY <1>1, PollInvariant, PTL

-----------------------------------------------------------------------------
(***************************************************************************)
(* Every task of the kernel is once on one queue.  What follows from it:   *)
(* in which order the waiters of a channel are served, which message goes  *)
(* to whom, and what the kernel counts.                                    *)
(***************************************************************************)

(* No task is twice on the queues q. *)
Once(q) ==
    /\ \A n \in QueueName : IsInjective(q[n])
    /\ \A n, m \in QueueName : n # m => Range(q[n]) \cap Range(q[m]) = {}

(* A tid names the structure it was given for; the parent of a task was    *)
(* given its tid earlier, for a structure in use.                          *)
TidsKept ==
    /\ \A i \in Task : i < next_tidx => TidIdx(tid[i]) = i
    /\ \A j \in Task : \/ ptid[j] = 0
                       \/ \E i \in Task : /\ i < next_tidx /\ TidIdx(ptid[j]) = i
                                          /\ ptid[j] <= tid[i]

-----------------------------------------------------------------------------
(* What a step does to the tasks that exist, and to those that wait.       *)

SameTasks ==
    /\ UNCHANGED <<next_tidx, tid, daemon, task_count, nondaemon_count>>
    /\ \A i \in Task : ptid'[i] \in {ptid[i], 0}

Side2 == {"senders", "receivers"}
ChannelQueue == Side2 \X Channel

(* On the channels' queues, except those in N, nothing changes. *)
QueuesStay(N) == \A m \in ChannelQueue \ N : queue'[m] = queue[m]

(* Nobody but t comes into one of the states S or leaves it. *)
StatesStay(t, S) == \A i \in Task \ {t} : \A s \in S : state[i] = s <=> state'[i] = s

Blocked == {"SEND_BLOCKED", "RECV_BLOCKED"}

(* A step that is none of the following. *)
Aside ==
    /\ SameTasks /\ QueuesStay({}) /\ StatesStay(NoTask, Blocked \cup {"DEAD"})

(* The caller waits on side ev of channel c. *)
Waits(t, ev, c) ==
    LET mine == <<Side(ev), c>> IN
    /\ SameTasks /\ QueuesStay({mine}) /\ queue'[mine] = Append(queue[mine], t)
    /\ state[t] = "RUNNING" /\ state'[t] \in Blocked /\ table' = table
    /\ StatesStay(t, Blocked \cup {"DEAD"})

(* The caller meets the first task that waits on the other side.           *)
Other(ev) == IF ev = "RECV" THEN "receivers" ELSE "senders"

Serves(t, ev, c, len, i) ==
    LET other == <<Other(ev), c>> IN
    /\ SameTasks /\ QueuesStay({other})
    /\ queue[other] # <<>> /\ i = Head(queue[other]) /\ queue'[other] = Tail(queue[other])
    /\ state[i] = IF ev = "RECV" THEN "RECV_BLOCKED" ELSE "SEND_BLOCKED"
    /\ state'[i] = "RUNNING" /\ StatesStay(i, Blocked \cup {"DEAD"})
    /\ IF ev = "RECV"
       THEN len <= args[i].len /\ <<t, 0>> \in ret' /\ <<i, len>> \in ret'
       ELSE args[i].len <= len /\ <<i, 0>> \in ret' /\ <<t, args[i].len>> \in ret'

(* The caller spawns task i. *)
Born(t, i) ==
    \E gen \in Nat, d \in BOOLEAN :
        /\ QueuesStay({}) /\ StatesStay(i, Blocked \cup {"DEAD"})
        /\ state[i] = "DEAD" /\ state'[i] = "RUNNING" /\ i < next_tidx'
        /\ \/ i = next_tidx /\ gen = 0 /\ next_tidx' = next_tidx + 1
           \/ i < next_tidx /\ gen = NextGen(i) /\ next_tidx' = next_tidx
        /\ tid' = [tid EXCEPT ![i] = MakeTid(i, gen)]
        /\ ptid' = [ptid EXCEPT ![i] = tid[t]]
        /\ daemon' = [daemon EXCEPT ![i] = d]
        /\ task_count' = task_count + 1
        /\ nondaemon_count' = nondaemon_count + NonDaemon(d)

(* The caller ends. *)
Dies(t) ==
    /\ QueuesStay({}) /\ StatesStay(t, Blocked \cup {"DEAD"})
    /\ state[t] = "RUNNING" /\ state'[t] = "DEAD"
    /\ UNCHANGED <<next_tidx, tid, ptid, daemon>>
    /\ task_count' = task_count - 1
    /\ nondaemon_count' = nondaemon_count - NonDaemon(daemon[t])

Calling(t) == t # Idle /\ t < next_tidx /\ state[t] = "RUNNING" /\ current = t

StepKind ==
    \/ Aside
    \/ \E t \in Task :
          /\ Calling(t)
          /\ \/ Dies(t) \/ \E i \in Task : Born(t, i)
             \/ \E ev \in PollEvent, c \in Channel :
                   \/ Waits(t, ev, c) /\ HasOpen(t, c)
                   \/ \E len \in Nat, i \in Task \ {t} :
                         /\ Serves(t, ev, c, len, i)
                         /\ ev = "RECV" => len \in Lens

-----------------------------------------------------------------------------
(* Moving tasks from queue to queue.                                       *)

LEMMA RequeueOnce ==
    ASSUME NEW q \in [QueueName -> Seq(Task)], Once(q),
           NEW ts \in Seq(Task), IsInjective(ts), NEW dest
    PROVE  Once(Requeue(q, ts, dest))
<1> DEFINE q2 == Requeue(q, ts, dest)
<1>1. \A n \in QueueName :
         Range(q2[n]) = (Range(q[n]) \ Range(ts)) \cup {i \in Range(ts) : dest[i] = n}
  BY RequeueProperties
<1>2. \A n \in QueueName : IsInjective(q2[n])
  BY RequeueInjective DEF Once
<1> HIDE DEF q2
<1>3. ASSUME NEW n \in QueueName, NEW m \in QueueName, n # m
      PROVE  Range(q2[n]) \cap Range(q2[m]) = {}
  <2> SUFFICES ASSUME NEW i \in Range(q2[n]), i \in Range(q2[m]) PROVE FALSE
    OBVIOUS
  <2>1. (i \in Range(ts)) => dest[i] = n /\ dest[i] = m
    BY <1>1
  <2>2. (i \notin Range(ts)) => i \in Range(q[n]) /\ i \in Range(q[m])
    BY <1>1
  <2> QED
    BY <1>3, <2>1, <2>2 DEF Once
<1> QED
  BY <1>2, <1>3 DEF Once, q2

LEMMA ChannelQueueNames ==
    ASSUME NEW n \in ChannelQueue
    PROVE  n \in QueueName /\ n[1] \in {"senders", "receivers"}
BY DEF ChannelQueue, Side2, QueueName

(* On the queue of a channel there are senders, or receivers. *)
LEMMA WaitersBlocked ==
    ASSUME TypeOK, NEW st \in [Task -> TaskState], NEW q \in [QueueName -> Seq(Task)],
           Settled(st, q), NEW n \in ChannelQueue, NEW i \in Range(q[n])
    PROVE  /\ i \in Task
           /\ st[i] = IF n[1] = "senders" THEN "SEND_BLOCKED" ELSE "RECV_BLOCKED"
<1>1. n \in QueueName /\ n[1] \in {"senders", "receivers"}
  BY ChannelQueueNames
<1>2. i \in Task
  <2>1. q[n] \in Seq(Task)
    BY <1>1
  <2> QED
    BY <2>1, RangeOfSeq
<1>3. n \in HomeQueues(st, i)
  BY <1>1 DEF Settled
<1> QED
  BY <1>1, <1>2, <1>3, QueueStates

LEMMA NoneWaits ==
    ASSUME TypeOK, NEW st \in [Task -> TaskState], NEW q \in [QueueName -> Seq(Task)],
           Settled(st, q), NEW S, \A i \in S : st[i] \notin Blocked
    PROVE  \A n \in ChannelQueue : Range(q[n]) \cap S = {}
<1> SUFFICES ASSUME NEW n \in ChannelQueue, NEW i \in Range(q[n]), i \in S
             PROVE  FALSE
  OBVIOUS
<1>1. st[i] = IF n[1] = "senders" THEN "SEND_BLOCKED" ELSE "RECV_BLOCKED"
  BY WaitersBlocked
<1> QED
  BY <1>1 DEF Blocked

(* Tasks that do not wait on a channel move where no channel is. *)
LEMMA MovedAside ==
    ASSUME NEW q \in [QueueName -> Seq(Task)], Once(q),
           NEW ts \in Seq(Task), IsInjective(ts), NEW dest,
           \A n \in ChannelQueue : Range(q[n]) \cap Range(ts) = {},
           \A i \in Range(ts) : dest[i][1] \notin Side2
    PROVE  /\ Once(Requeue(q, ts, dest))
           /\ \A n \in ChannelQueue : Requeue(q, ts, dest)[n] = q[n]
<1>1. ASSUME NEW n \in ChannelQueue
      PROVE  Requeue(q, ts, dest)[n] = q[n]
  <2>1. n \in QueueName /\ n[1] \in Side2
    BY ChannelQueueNames DEF Side2
  <2>2. \A i \in Range(ts) : dest[i] # n
    BY <2>1
  <2> QED
    BY <2>1, <2>2, RequeueElsewhere
<1> QED
  BY <1>1, RequeueOnce

(* One task that does not wait on a channel moves where no channel is.     *)
LEMMA MovesAside ==
    ASSUME TypeOK, Settled(state, queue), Once(queue), NEW t \in Task,
           state[t] \notin Blocked, NEW n, n[1] \notin Side2
    PROVE  LET q == Requeue(queue, <<t>>, [i \in {t} |-> n]) IN
           Once(q) /\ \A m \in ChannelQueue : q[m] = queue[m]
<1> DEFINE ts == <<t>>
           dest == [i \in {t} |-> n]
<1>1. ts \in Seq(Task) /\ Range(ts) = {t} /\ IsInjective(ts)
  BY OneElement
<1>2. state \in [Task -> TaskState] /\ queue \in [QueueName -> Seq(Task)]
  BY DEF TypeOK, RunTypes
<1>3. dest[t] = n
  OBVIOUS
<1> HIDE DEF ts, dest
<1>4. \A m \in ChannelQueue : Range(queue[m]) \cap Range(ts) = {}
  BY <1>1, <1>2, NoneWaits
<1>5. \A i \in Range(ts) : dest[i][1] \notin Side2
  BY <1>1, <1>3
<1>6. /\ Once(Requeue(queue, ts, dest))
      /\ \A m \in ChannelQueue : Requeue(queue, ts, dest)[m] = queue[m]
  BY <1>1, <1>2, <1>4, <1>5, MovedAside
<1> QED
  BY <1>6 DEF ts, dest

-----------------------------------------------------------------------------
(* The kinds of steps: one lemma for each operation.                       *)

LEMMA SameTaskVars ==
    ASSUME UNCHANGED taskVars
    PROVE  SameTasks
BY DEF taskVars, SameTasks

LEMMA StillKind ==
    ASSUME Once(queue), SameTasks, UNCHANGED state,
           \A n \in QueueName : queue'[n] = queue[n]
    PROVE  StepKind /\ Once(queue')
<1>1. QueuesStay({})
  BY ChannelQueueNames DEF QueuesStay
<1>2. StatesStay(NoTask, Blocked \cup {"DEAD"})
  BY DEF StatesStay
<1>3. Once(queue')
  BY DEF Once
<1> QED
  BY <1>1, <1>2, <1>3 DEF StepKind, Aside

LEMMA QuietKind ==
    ASSUME Once(queue), UNCHANGED <<taskVars, runVars>>
    PROVE  StepKind /\ Once(queue')
<1>1. UNCHANGED <<taskVars, state, queue>>
  BY DEF runVars
<1> QED
  BY <1>1, SameTaskVars, StillKind

LEMMA CallerRuns ==
    ASSUME QueueInv, NEW t \in Task, NEW call, Caller(t, call)
    PROVE  Calling(t) /\ state[t] = "RUNNING" /\ state[t] \notin Blocked
<1>1. current = t /\ t # Idle
  BY DEF Caller
<1>2. t < next_tidx /\ state[t] = "RUNNING"
  BY <1>1, CallerFacts
<1> QED
  BY <1>1, <1>2 DEF Calling, Blocked

(* The caller goes to state s, waiting on queue n that is no channel's.    *)
LEMMA AsideKind ==
    ASSUME QueueInv, Once(queue), NEW t \in Task, NEW call, Caller(t, call),
           NEW s \in {"RUNNING", "EVENT_BLOCKED", "POLL_BLOCKED"}, NEW n,
           n[1] \notin Side2, UNCHANGED taskVars,
           \A i \in Task : state'[i] = IF i = t THEN s ELSE state[i],
           queue' = Requeue(queue, <<t>>, [i \in {t} |-> n])
    PROVE  StepKind /\ Once(queue')
<1>1. TypeOK /\ Settled(state, queue)
  BY DEF QueueInv
<1>2. state[t] = "RUNNING" /\ state[t] \notin Blocked
  BY CallerRuns
<1> DEFINE q == Requeue(queue, <<t>>, [i \in {t} |-> n])
<1>3. Once(q) /\ \A m \in ChannelQueue : q[m] = queue[m]
  BY <1>1, <1>2, MovesAside
<1>4. queue' = q
  OBVIOUS
<1> HIDE DEF q
<1>5. Once(queue') /\ QueuesStay({})
  BY <1>3, <1>4 DEF QueuesStay
<1>6. StatesStay(NoTask, Blocked \cup {"DEAD"})
  BY <1>2 DEF StatesStay, Blocked
<1> QED
  BY <1>5, <1>6, SameTaskVars DEF StepKind, Aside

(* The queues of the channel that sys_channel takes are empty already. *)
LEMMA NewChannelKind ==
    ASSUME TypeOK, FreeQuiet, Once(queue), NEW t \in Task, NewChannel(t)
    PROVE  StepKind /\ Once(queue')
<1>1. CASE \E r : Answer(t, r)
  BY <1>1, QuietKind DEF Answer
<1>2. CASE \E why : Panic(why)
  BY <1>2, QuietKind DEF Panic
<1>3. CASE /\ \E c \in free_channel :
                 queue' = [queue EXCEPT ![<<"senders", c>>] = <<>>,
                                        ![<<"receivers", c>>] = <<>>]
           /\ UNCHANGED <<taskVars, state>>
  <2>1. PICK c \in free_channel :
                 queue' = [queue EXCEPT ![<<"senders", c>>] = <<>>,
                                        ![<<"receivers", c>>] = <<>>]
    BY <1>3
  <2>2. queue[<<"senders", c>>] = <<>> /\ queue[<<"receivers", c>>] = <<>>
    BY DEF FreeQuiet
  <2>3. \A n \in QueueName : queue'[n] = queue[n]
    BY <2>1, <2>2 DEF TypeOK, RunTypes
  <2> QED
    BY <1>3, <2>3, SameTaskVars, StillKind
<1> QED
  BY <1>1, <1>2, <1>3 DEF NewChannel

LEMMA ChannelCallKind ==
    ASSUME TypeOK, FreeQuiet, Once(queue), NEW t \in Task, ChannelCall(t)
    PROVE  StepKind /\ Once(queue')
<1>1. CASE NewChannel(t)
  BY <1>1, NewChannelKind
<1>2. ASSUME NEW fd, NEW new, NEW f,
             Close(t, fd) \/ Chanflags(t, fd) \/ DupSelf(t, fd, f) \/ Dup(t, fd, new)
      PROVE  StepKind /\ Once(queue')
  <2>1. UNCHANGED <<taskVars, runVars>>
    BY <1>2 DEF Close, Chanflags, DupSelf, Dup, Answer, Panic
  <2> QED
    BY <2>1, QuietKind
<1> QED
  BY <1>1, <1>2 DEF ChannelCall

LEMMA PollWaitKind ==
    ASSUME QueueInv, Once(queue), NEW t \in Task, NEW null, PollWait(t, null)
    PROVE  StepKind /\ Once(queue')
<1>1. state \in [Task -> TaskState] /\ Caller(t, "poll_wait") /\ state[t] = "RUNNING"
  BY CallerRuns DEF QueueInv, TypeOK, RunTypes, PollWait
<1>2. CASE \E r : Answer(t, r)
  BY <1>2, QuietKind DEF Answer
<1>3. CASE \E why : Panic(why)
  BY <1>3, QuietKind DEF Panic
<1>4. CASE /\ state' = [state EXCEPT ![t] = "POLL_BLOCKED"]
           /\ queue' = Requeue(queue, <<t>>, [i \in {t} |-> <<"poll", 0>>])
           /\ UNCHANGED taskVars
  <2>1. \A i \in Task : state'[i] = IF i = t THEN "POLL_BLOCKED" ELSE state[i]
    BY <1>1, <1>4
  <2> DEFINE n == <<"poll", 0>>
  <2>2. n[1] \notin Side2
    BY DEF Side2
  <2>3. queue' = Requeue(queue, <<t>>, [i \in {t} |-> n]) /\ UNCHANGED taskVars
    BY <1>4
  <2> HIDE DEF n
  <2> QED
    BY <1>1, <2>1, <2>2, <2>3, AsideKind
<1>5. CASE /\ UNCHANGED state
           /\ queue' = Requeue(queue, <<t>>, [i \in {t} |-> ReadyQueue(i)])
           /\ UNCHANGED taskVars
  <2>1. \A i \in Task : state'[i] = IF i = t THEN "RUNNING" ELSE state[i]
    BY <1>1, <1>5
  <2> DEFINE n == ReadyQueue(t)
  <2>2. n[1] \notin Side2
    BY DEF Side2, ReadyQueue
  <2>3. queue' = Requeue(queue, <<t>>, [i \in {t} |-> n]) /\ UNCHANGED taskVars
    BY <1>5
  <2> HIDE DEF n
  <2> QED
    BY <1>1, <2>1, <2>2, <2>3, AsideKind
<1> QED
  BY <1>2, <1>3, <1>4, <1>5 DEF PollWait

LEMMA PollCallKind ==
    ASSUME QueueInv, Once(queue), NEW t \in Task, PollCall(t)
    PROVE  StepKind /\ Once(queue')
<1>1. ASSUME NEW fd, NEW E, PollAdd(t, fd, E) \/ PollRemove(t, fd, E)
      PROVE  StepKind /\ Once(queue')
  <2>1. UNCHANGED <<taskVars, runVars>>
    BY <1>1 DEF PollAdd, PollRemove, Answer
  <2> QED
    BY <2>1, QuietKind
<1> QED
  BY <1>1, PollWaitKind DEF PollCall

LEMMA ScheduleKind ==
    ASSUME TypeOK, Once(queue), Schedule
    PROVE  StepKind /\ Once(queue')
<1>1. CASE \E why : Panic(why)
  BY <1>1, QuietKind DEF Panic
<1>2. CASE /\ ReadyPrios # {}
           /\ queue' = [queue EXCEPT ![<<"ready", Highest>>] =
                            Advance(queue[<<"ready", Highest>>])]
           /\ UNCHANGED <<taskVars, state>>
  <2> DEFINE n == <<"ready", Highest>>
             s == queue[n]
  <2>1. n \in QueueName /\ s # <<>> /\ queue \in [QueueName -> Seq(Task)] /\ n[1] = "ready"
    BY <1>2, HighestType DEF ReadyPrios, QueueName, TypeOK, RunTypes
  <2>2. queue' = [queue EXCEPT ![n] = Advance(s)] /\ s = queue[n]
    BY <1>2
  <2> HIDE DEF n, s
  <2>3. s \in Seq(Task) /\ IsInjective(s)
    BY <2>1, <2>2 DEF Once
  <2>4. /\ Tail(s) \in Seq(Task) /\ IsInjective(Tail(s)) /\ Head(s) \in Task
        /\ Range(Tail(s)) = Range(s) \ {Head(s)}
    BY <2>1, <2>3, TailInjective, HeadInRange
  <2>5. IsInjective(Advance(s)) /\ Range(Advance(s)) = Range(s)
    BY <2>1, <2>3, <2>4, AppendInjects, AdvanceProperties DEF Advance
  <2>6. \A m \in QueueName : /\ IsInjective(queue'[m]) /\ Range(queue'[m]) = Range(queue[m])
                             /\ m # n => queue'[m] = queue[m]
    BY <2>1, <2>2, <2>5 DEF Once
  <2>7. Once(queue')
    BY <2>6 DEF Once
  <2>8. QueuesStay({})
    BY <2>1, <2>6, ChannelQueueNames DEF QueuesStay
  <2>9. StatesStay(NoTask, Blocked \cup {"DEAD"})
    BY <1>2 DEF StatesStay
  <2> QED
    BY <1>2, <2>7, <2>8, <2>9, SameTaskVars DEF StepKind, Aside
<1> QED
  BY <1>1, <1>2 DEF Schedule

LEMMA EventUnblockAllKind ==
    ASSUME QueueInv, Once(queue), NEW e, NEW R, EventUnblockAll(e, R)
    PROVE  StepKind /\ Once(queue')
<1> DEFINE woken == Awaiting(e)
           dest == [i \in Task |-> ReadyQueue(i)]
<1>1. /\ TypeOK /\ Settled(state, queue)
      /\ state \in [Task -> TaskState] /\ queue \in [QueueName -> Seq(Task)]
  BY DEF QueueInv, TypeOK, RunTypes
<1>2. woken \in Seq(Task) /\ Range(woken) \subseteq Task
  BY <1>1, AwaitingType DEF TypeOK
<1>3. IsInjective(woken) /\ \A i \in Range(woken) : state[i] = "EVENT_BLOCKED"
  <2>1. CASE e \in Event
    <3> DEFINE n == <<"event", e>>
    <3>1. n \in QueueName /\ n[1] = "event" /\ woken = queue[n]
      BY <2>1 DEF QueueName, Awaiting
    <3> HIDE DEF n, woken
    <3>2. \A i \in Range(woken) : n \in HomeQueues(state, i)
      BY <1>1, <3>1 DEF Settled
    <3> QED
      BY <1>1, <1>2, <3>1, <3>2, QueueStates DEF Once
  <2>2. CASE e \notin Event
    <3>1. woken = <<>>
      BY <2>2 DEF Awaiting
    <3> QED
      BY <3>1 DEF Range, IsInjective
  <2> QED
    BY <2>1, <2>2
<1>4. /\ \A i \in Range(woken) : state[i] \notin Blocked
      /\ \A i \in Range(woken) : dest[i][1] \notin Side2
  BY <1>2, <1>3 DEF Blocked, Side2, ReadyQueue
<1>5. /\ queue' = Requeue(queue, woken, dest)
      /\ state' = [i \in Task |-> IF i \in Range(woken) THEN "RUNNING" ELSE state[i]]
      /\ UNCHANGED taskVars
  BY DEF EventUnblockAll
<1> HIDE DEF woken, dest
<1>6. /\ Once(Requeue(queue, woken, dest))
      /\ \A n \in ChannelQueue : Requeue(queue, woken, dest)[n] = queue[n]
  <2>1. \A n \in ChannelQueue : Range(queue[n]) \cap Range(woken) = {}
    BY <1>1, <1>4, NoneWaits
  <2> QED
    BY <1>1, <1>2, <1>3, <1>4, <2>1, MovedAside
<1>7. Once(queue') /\ QueuesStay({})
  BY <1>5, <1>6 DEF QueuesStay
<1>8. StatesStay(NoTask, Blocked \cup {"DEAD"})
  BY <1>3, <1>5 DEF StatesStay, Blocked
<1> QED
  BY <1>5, <1>7, <1>8, SameTaskVars DEF StepKind, Aside

LEMMA SpawnKind ==
    ASSUME QueueInv, Once(queue), NEW t \in Task, NEW prio \in Int,
           NEW chans, NEW flags, Spawn(t, prio, chans, flags)
    PROVE  StepKind /\ Once(queue')
<1> DEFINE err  == SpawnError(t, prio, chans, flags)
           free == queue[<<"free", 0>>]
           i    == IF free = <<>> THEN next_tidx ELSE Head(free)
           gen  == IF free = <<>> THEN 0 ELSE NextGen(i)
           d    == flags = 1
           n    == <<"ready", prio>>
<1>1. CASE Answer(t, err)
  BY <1>1, QuietKind DEF Answer
<1>2. CASE /\ err = 0
           /\ next_tidx' = IF free = <<>> THEN next_tidx + 1 ELSE next_tidx
           /\ tid' = [tid EXCEPT ![i] = MakeTid(i, gen)]
           /\ ptid' = [ptid EXCEPT ![i] = tid[t]]
           /\ daemon' = [daemon EXCEPT ![i] = d]
           /\ task_count' = task_count + 1
           /\ nondaemon_count' = nondaemon_count + NonDaemon(d)
           /\ state' = [state EXCEPT ![i] = "RUNNING"]
           /\ queue' = Requeue(queue, <<i>>, [k \in {i} |-> n])
  <2>1. TypeOK /\ Settled(state, queue) /\ state \in [Task -> TaskState]
        /\ TaskTypes
    BY DEF QueueInv, TypeOK, RunTypes
  <2>2. ~(free = <<>> /\ next_tidx >= MaxTasks)
    BY <1>2 DEF SpawnError, EINVAL, EBADF, ENOMEM
  <2>3. i \in Task /\ state[i] = "DEAD" /\ (free # <<>> => i < next_tidx)
    BY <2>1, <2>2, SpawnTakesFree
  <2>4. free = <<>> => i = next_tidx
    OBVIOUS
  <2>5. gen \in Nat /\ d \in BOOLEAN
    BY <2>1, <2>3, TidTypes
  <2>6. n[1] \notin Side2 /\ state[i] \notin Blocked
    BY <2>3 DEF Side2, Blocked
  <2>7. gen = IF free = <<>> THEN 0 ELSE NextGen(i)
    OBVIOUS
  <2> HIDE DEF i, free, gen, d, n
  <2> DEFINE q == Requeue(queue, <<i>>, [k \in {i} |-> n])
  <2>8. Once(q) /\ \A m \in ChannelQueue : q[m] = queue[m]
    BY <2>1, <2>3, <2>6, MovesAside
  <2>9. queue' = q
    BY <1>2
  <2> HIDE DEF q
  <2>10. Once(queue') /\ QueuesStay({})
    BY <2>8, <2>9 DEF QueuesStay
  <2>11. state'[i] = "RUNNING" /\ StatesStay(i, Blocked \cup {"DEAD"})
    BY <1>2, <2>1, <2>3 DEF StatesStay
  <2>12. /\ i < next_tidx'
         /\ \/ i = next_tidx /\ gen = 0 /\ next_tidx' = next_tidx + 1
            \/ i < next_tidx /\ gen = NextGen(i) /\ next_tidx' = next_tidx
    BY <1>2, <2>1, <2>3, <2>4, <2>7 DEF TaskTypes
  <2>13. Born(t, i)
    BY <1>2, <2>3, <2>5, <2>10, <2>11, <2>12 DEF Born
  <2>14. Calling(t)
    BY CallerRuns DEF Spawn
  <2> QED
    BY <2>3, <2>10, <2>13, <2>14 DEF StepKind
<1> QED
  BY <1>1, <1>2 DEF Spawn

LEMMA ExitTaskKind ==
    ASSUME QueueInv, Once(queue), NEW t \in Task, ExitTask(t)
    PROVE  StepKind /\ Once(queue')
<1>1. CASE \E why : Panic(why)
  BY <1>1, QuietKind DEF Panic
<1>2. CASE /\ nondaemon_count' = nondaemon_count - NonDaemon(daemon[t])
           /\ task_count' = task_count - 1
           /\ state' = [state EXCEPT ![t] = "DEAD"]
           /\ queue' = Requeue(queue, <<t>>, [k \in {t} |-> <<"free", 0>>])
           /\ UNCHANGED <<next_tidx, tid, ptid, priority, daemon>>
  <2>1. TypeOK /\ Settled(state, queue) /\ state \in [Task -> TaskState]
    BY DEF QueueInv, TypeOK, RunTypes
  <2>2. Calling(t) /\ state[t] = "RUNNING" /\ state[t] \notin Blocked
    BY CallerRuns DEF ExitTask
  <2> DEFINE n == <<"free", 0>>
             q == Requeue(queue, <<t>>, [k \in {t} |-> n])
  <2>3. n[1] \notin Side2 /\ queue' = q
    BY <1>2 DEF Side2
  <2> HIDE DEF n
  <2>4. Once(q) /\ \A m \in ChannelQueue : q[m] = queue[m]
    BY <2>1, <2>2, <2>3, MovesAside
  <2> HIDE DEF q
  <2>5. Once(queue') /\ QueuesStay({})
    BY <2>3, <2>4 DEF QueuesStay
  <2>6. state'[t] = "DEAD" /\ StatesStay(t, Blocked \cup {"DEAD"})
    BY <1>2, <2>1 DEF StatesStay
  <2>7. Dies(t)
    BY <1>2, <2>2, <2>5, <2>6 DEF Dies
  <2> QED
    BY <2>2, <2>5, <2>7 DEF StepKind
<1> QED
  BY <1>1, <1>2 DEF ExitTask

LEMMA TaskCallKind ==
    ASSUME QueueInv, Once(queue), NEW t \in Task, TaskCall(t)
    PROVE  StepKind /\ Once(queue')
<1>1. state \in [Task -> TaskState] /\ ptid \in [Task -> Nat]
  BY DEF QueueInv, TypeOK, RunTypes, TaskTypes
<1>2. CASE \E prio \in SpawnPrios, chans \in SpawnLists, flags \in 0 .. 2 :
              Spawn(t, prio, chans, flags)
  BY <1>2, SpawnKind, InputAssumption
<1>3. CASE ExitTask(t)
  BY <1>3, ExitTaskKind
<1>4. CASE \E r : Answer(t, r)
  BY <1>4, QuietKind DEF Answer
<1>5. CASE /\ ptid' = [ptid EXCEPT ![t] = ParentOf(t)]
           /\ UNCHANGED <<next_tidx, tid, priority, daemon, task_count,
                          nondaemon_count, runVars>>
  <2>1. ParentOf(t) \in {ptid[t], 0}
    BY DEF ParentOf
  <2>2. SameTasks
    BY <1>1, <1>5, <2>1 DEF SameTasks
  <2> QED
    BY <1>5, <2>2, StillKind DEF runVars
<1>6. ASSUME NEW e, EventWait(t, e)
      PROVE  StepKind /\ Once(queue')
  <2>1. CASE /\ state' = [state EXCEPT ![t] = "EVENT_BLOCKED"]
             /\ queue' = Requeue(queue, <<t>>, [i \in {t} |-> <<"event", e>>])
             /\ UNCHANGED taskVars
    <3>1. \A i \in Task : state'[i] = IF i = t THEN "EVENT_BLOCKED" ELSE state[i]
      BY <1>1, <2>1
    <3> DEFINE n == <<"event", e>>
    <3>2. n[1] \notin Side2
      BY DEF Side2
    <3>3. queue' = Requeue(queue, <<t>>, [i \in {t} |-> n]) /\ UNCHANGED taskVars
      BY <2>1
    <3>4. Caller(t, "event_wait")
      BY <1>6 DEF EventWait
    <3> HIDE DEF n
    <3> QED
      BY <3>1, <3>2, <3>3, <3>4, AsideKind
  <2> QED
    BY <1>4, <1>6, <2>1 DEF EventWait
<1>7. ASSUME NEW e, Suspend(t, e)
      PROVE  StepKind /\ Once(queue')
  BY <1>7, EventUnblockAllKind DEF Suspend
<1> QED
  BY <1>2, <1>3, <1>4, <1>5, <1>6, <1>7
     DEF TaskCall, Gettid, Yield, Getptid, Taskstat

(* The tasks that poll_trigger_all wakes wait on no channel. *)
LEMMA WokenAside ==
    ASSUME TypeOK, NEW st \in [Task -> TaskState], NEW q \in [QueueName -> Seq(Task)],
           Settled(st, q), Once(q), NEW woken, Woken(st, q, woken)
    PROVE  /\ Once(queue') /\ \A n \in ChannelQueue : queue'[n] = q[n]
           /\ \A i \in Task, s \in Blocked \cup {"DEAD"} : st[i] = s <=> state'[i] = s
           /\ \A i \in Task : st[i] = "RUNNING" => state'[i] = "RUNNING"
<1> DEFINE dest == [i \in Task |-> ReadyQueue(i)]
<1>1. /\ woken \in Seq(Task) /\ IsInjective(woken)
      /\ queue' = Requeue(q, woken, dest)
  BY DEF Woken, ToReady
<1>2. Range(woken) \subseteq Task
  BY <1>1, RangeOfSeq
<1>3. \A i \in Range(woken) : st[i] = "POLL_BLOCKED"
  BY DEF Woken
<1>4. /\ \A i \in Range(woken) : st[i] \notin Blocked
      /\ \A i \in Range(woken) : dest[i][1] \notin Side2
  BY <1>2, <1>3 DEF Blocked, Side2, ReadyQueue
<1> HIDE DEF dest
<1>5. /\ Once(Requeue(q, woken, dest))
      /\ \A n \in ChannelQueue : Requeue(q, woken, dest)[n] = q[n]
  <2>1. \A n \in ChannelQueue : Range(q[n]) \cap Range(woken) = {}
    BY <1>4, NoneWaits
  <2> QED
    BY <1>1, <1>4, <2>1, MovedAside
<1>6. \A i \in Task : state'[i] = IF i \in Range(woken) THEN "RUNNING" ELSE st[i]
  BY DEF Woken
<1>7. \A i \in Task, s \in Blocked \cup {"DEAD"} : st[i] = s <=> state'[i] = s
  BY <1>3, <1>6 DEF Blocked
<1> QED
  BY <1>1, <1>5, <1>6, <1>7

LEMMA JoinedOnce ==
    ASSUME QueueInv, Once(queue), NEW t \in Task, t # Idle, current = t,
           NEW ev \in PollEvent, NEW c \in Channel
    PROVE  Once(JoinedQueue(t, ev, c))
<1> DEFINE ts == <<t>>
           dest == [i \in {t} |-> <<Side(ev), c>>]
<1>1. ts \in Seq(Task) /\ IsInjective(ts)
  BY OneElement
<1>2. queue \in [QueueName -> Seq(Task)]
  BY DEF QueueInv, TypeOK, RunTypes
<1> HIDE DEF ts, dest
<1>3. Once(Requeue(queue, ts, dest))
  BY <1>1, <1>2, RequeueOnce
<1> QED
  BY <1>3 DEF JoinedQueue, ts, dest

LEMMA JoinsKind ==
    ASSUME QueueInv, NodeInv, Once(queue), NEW t \in Task, t # Idle, current = t,
           NEW ev \in PollEvent, NEW c \in Channel, NEW x, Joins(t, ev, c, x)
    PROVE  Waits(t, ev, c) /\ Once(queue')
<1> DEFINE st == Joined(t, ev)
           q  == JoinedQueue(t, ev, c)
           mine == <<Side(ev), c>>
<1>1. TypeOK /\ state \in [Task -> TaskState] /\ state[t] = "RUNNING"
  BY CallerFacts DEF QueueInv, TypeOK, RunTypes
<1>2. st \in [Task -> TaskState] /\ q \in [QueueName -> Seq(Task)] /\ Settled(st, q)
  BY JoinSettles
<1>3. Once(q)
  BY JoinedOnce
<1>4. /\ q[mine] = Append(queue[mine], t)
      /\ \A n \in QueueName : n[1] # "ready" /\ n # mine => q[n] = queue[n]
  BY JoinedQueues
<1>5. Trigger(c, ev, q, st, {}) /\ UNCHANGED taskVars /\ table' = table
  BY DEF Joins, chanVars
<1>6. st[t] \in Blocked /\ \A i \in Task \ {t} : st[i] = state[i]
  BY <1>1 DEF Joined, Blocked
<1>7. mine \in ChannelQueue
  BY DEF Side, ChannelQueue, Side2
<1> HIDE DEF st, q, mine
<1>8. PICK woken : Woken(st, q, woken)
  BY <1>5, TriggerNodes
<1>9. /\ Once(queue') /\ \A n \in ChannelQueue : queue'[n] = q[n]
      /\ \A i \in Task, s \in Blocked \cup {"DEAD"} : st[i] = s <=> state'[i] = s
  BY <1>1, <1>2, <1>3, <1>8, WokenAside
<1>10. QueuesStay({mine}) /\ queue'[mine] = Append(queue[mine], t)
  BY <1>4, <1>7, <1>9, ChannelQueueNames DEF QueuesStay
<1>11. state'[t] \in Blocked /\ StatesStay(t, Blocked \cup {"DEAD"})
  BY <1>6, <1>9 DEF StatesStay
<1> QED
  BY <1>1, <1>5, <1>9, <1>10, <1>11, SameTaskVars DEF Waits, mine

LEMMA MeetsKind ==
    ASSUME QueueInv, NodeInv, Once(queue), NEW t \in Task, t # Idle, current = t,
           NEW ev \in PollEvent, NEW c \in Channel, NEW x \in Args,
           NEW s \in Task, NEW r \in Task, Meets(t, ev, c, x, s, r)
    PROVE  /\ Serves(t, ev, c, x.len, IF ev = "RECV" THEN r ELSE s)
           /\ t # IF ev = "RECV" THEN r ELSE s
           /\ Once(queue')
<1> DEFINE i  == IF ev = "RECV" THEN r ELSE s
           st == Joined(t, ev)
           q  == JoinedQueue(t, ev, c)
           a  == [args EXCEPT ![t] = x]
           st2 == GoOn(st, s, r)
           ts == <<r, s>>
           q2 == ToReady(q, ts)
           R  == {<<r, a[s].len>>, <<s, 0>>}
           mine == <<Side(ev), c>>
           other == <<Other(ev), c>>
<1>1. /\ TypeOK /\ state \in [Task -> TaskState] /\ queue \in [QueueName -> Seq(Task)]
      /\ args \in [Task -> Args] /\ state[t] = "RUNNING"
  BY CallerFacts DEF QueueInv, TypeOK, RunTypes
<1>2. /\ queue[other] # <<>> /\ queue[mine] = <<>> /\ {r, s} = {t, i} /\ t # i
      /\ i = Head(queue[other]) /\ r # s
      /\ st[s] = "SEND_BLOCKED" /\ st[r] = "RECV_BLOCKED"
      /\ a[s].len <= a[r].len
      /\ Trigger(c, ev, q2, st2, R) /\ UNCHANGED taskVars
  BY DEF Meets, Other
<1>3. mine \in ChannelQueue /\ other \in ChannelQueue /\ mine # other
  BY DEF Side, Other, ChannelQueue, Side2, PollEvent
<1>4. st \in [Task -> TaskState] /\ q \in [QueueName -> Seq(Task)] /\ Settled(st, q)
  BY JoinSettles
<1>5. \A j \in Task \ {t} : st[j] = state[j]
  BY <1>1 DEF Joined
<1>6. Once(q)
  BY JoinedOnce
<1>7. /\ q[mine] = Append(queue[mine], t)
      /\ \A n \in QueueName : n[1] # "ready" /\ n # mine => q[n] = queue[n]
      /\ \A n \in QueueName : n[1] # "ready" => t \notin Range(queue[n])
  BY JoinedQueues
<1>8. /\ ts \in Seq(Task) /\ Range(ts) = {r, s} /\ IsInjective(ts)
  <2>1. ts \in Seq(Task) /\ Range(ts) = {r, s}
    BY TwoTasks
  <2>2. DOMAIN ts = {1, 2} /\ ts[1] = r /\ ts[2] = s
    OBVIOUS
  <2> HIDE DEF ts
  <2> QED
    BY <1>2, <2>1, <2>2 DEF IsInjective
<1>9. /\ q2 \in [QueueName -> Seq(Task)] /\ st2 \in [Task -> TaskState]
      /\ Settled(st2, q2)
      /\ \A j \in Task : st2[j] = IF j \in {r, s} THEN "RUNNING" ELSE st[j]
  <2> HIDE DEF st, q
  <2> QED
    BY <1>1, <1>2, <1>4, PairSettles
<1>10. /\ Once(q2)
       /\ \A n \in ChannelQueue : q2[n] = Without(q[n], {r, s})
  <2> DEFINE dest == [j \in Task |-> ReadyQueue(j)]
  <2>1. q2 = Requeue(q, ts, dest)
    BY DEF ToReady
  <2>2. \A j \in Range(ts) : dest[j][1] = "ready"
    BY <1>8 DEF ReadyQueue
  <2> HIDE DEF st, q, ts, q2, dest
  <2>3. Once(Requeue(q, ts, dest))
    BY <1>4, <1>6, <1>8, RequeueOnce
  <2>4. ASSUME NEW n \in ChannelQueue
        PROVE  Requeue(q, ts, dest)[n] = Without(q[n], Range(ts))
    <3>1. n \in QueueName /\ n[1] # "ready"
      BY ChannelQueueNames
    <3>2. \A j \in Range(ts) : dest[j] # n
      BY <2>2, <3>1
    <3>3. q \in [QueueName -> Seq(Task)] /\ ts \in Seq(Task)
      BY <1>4, <1>8
    <3> QED
      BY <3>1, <3>2, <3>3, RequeueElsewhere
  <2> QED
    BY <1>8, <2>1, <2>3, <2>4
<1>11. PICK woken : Woken(st2, q2, woken)
                    /\ ret' = R \cup {<<j, 0>> : j \in Range(woken)}
  <2> HIDE DEF q2, st2, R
  <2> QED
    BY <1>2, TriggerNodes
<1>12. i \in Task /\ a[t] = x /\ a[i] = args[i]
  BY <1>1, <1>2
<1>13. <<r, a[s].len>> \in ret' /\ <<s, 0>> \in ret'
  BY <1>11
<1> HIDE DEF st, q, st2, q2, a, R, mine, other, ts
<1>14. /\ Once(queue') /\ \A n \in ChannelQueue : queue'[n] = q2[n]
       /\ \A j \in Task, w \in Blocked \cup {"DEAD"} : st2[j] = w <=> state'[j] = w
       /\ \A j \in Task : st2[j] = "RUNNING" => state'[j] = "RUNNING"
  BY <1>1, <1>9, <1>10, <1>11, WokenAside
<1>15. queue'[other] = Tail(queue[other]) /\ i \in Range(queue[other])
  <2>1. other \in QueueName /\ other[1] # "ready" /\ other # mine
    BY <1>3, ChannelQueueNames
  <2>2. q[other] = queue[other] /\ t \notin Range(queue[other])
    BY <1>7, <2>1
  <2>3. queue[other] \in Seq(Task) /\ IsInjective(queue[other])
    BY <1>1, <2>1 DEF Once
  <2>4. i \in Range(queue[other])
    BY <1>2, <2>3, TailInjective
  <2>5. Range(queue[other]) \cap {r, s} = {Head(queue[other])}
    BY <1>2, <2>2, <2>4
  <2>6. Without(queue[other], {r, s}) = Tail(queue[other])
    BY <1>2, <2>3, <2>5, WithoutHead
  <2> QED
    BY <1>3, <1>10, <1>14, <2>2, <2>4, <2>6
<1>16. QueuesStay({other})
  <2> SUFFICES ASSUME NEW n \in ChannelQueue, n # other
               PROVE  queue'[n] = queue[n]
    BY DEF QueuesStay
  <2>1. n \in QueueName /\ n[1] # "ready" /\ q[n] \in Seq(Task)
    BY <1>4, ChannelQueueNames
  <2>2. queue'[n] = Without(q[n], {r, s})
    BY <1>10, <1>14
  <2>3. CASE n = mine
    <3>1. q[n] = Append(<<>>, t)
      BY <1>2, <1>7, <2>3
    <3>2. Append(<<>>, t) = <<t>> /\ Range(<<t>>) = {t}
      BY OneElement
    <3>3. Range(q[n]) \subseteq {r, s}
      BY <1>2, <3>1, <3>2
    <3>4. /\ Without(q[n], {r, s}) \in Seq(Task)
          /\ Range(Without(q[n], {r, s})) = Range(q[n]) \ {r, s}
      BY <2>1, WithoutProperties
    <3>5. Without(q[n], {r, s}) = <<>>
      BY <3>3, <3>4, EmptyRange
    <3> QED
      BY <1>2, <2>2, <2>3, <3>5
  <2>4. CASE n # mine
    <3>1. q[n] = queue[n] /\ t \notin Range(queue[n])
      BY <1>7, <2>1, <2>4
    <3>2. i \notin Range(queue[n])
      BY <1>3, <1>15, <2>1, ChannelQueueNames DEF Once
    <3>3. Range(q[n]) \cap {r, s} = {}
      BY <1>2, <3>1, <3>2
    <3> QED
      BY <2>2, <3>1, <3>3 DEF Without
  <2> QED
    BY <2>3, <2>4
<1>17. state'[i] = "RUNNING" /\ StatesStay(i, Blocked \cup {"DEAD"})
  <2>1. state'[i] = "RUNNING" /\ state'[t] = "RUNNING"
    BY <1>2, <1>9, <1>12, <1>14
  <2>2. \A j \in Task \ {t, i} : st2[j] = state[j]
    BY <1>2, <1>5, <1>9
  <2>3. \A w \in Blocked \cup {"DEAD"} : w # "RUNNING"
    BY DEF Blocked
  <2>4. ASSUME NEW j \in Task \ {i}, NEW w \in Blocked \cup {"DEAD"}
        PROVE  state[j] = w <=> state'[j] = w
    <3>1. CASE j = t
      BY <1>1, <2>1, <2>3, <3>1
    <3>2. CASE j # t
      BY <1>14, <2>2, <3>2
    <3> QED
      BY <3>1, <3>2
  <2> QED
    BY <2>1, <2>4 DEF StatesStay
<1>18. state[i] = IF ev = "RECV" THEN "RECV_BLOCKED" ELSE "SEND_BLOCKED"
  BY <1>2, <1>5, <1>12
<1>19. IF ev = "RECV"
       THEN x.len <= args[i].len /\ <<t, 0>> \in ret' /\ <<i, x.len>> \in ret'
       ELSE args[i].len <= x.len /\ <<i, 0>> \in ret' /\ <<t, args[i].len>> \in ret'
  <2>1. CASE ev = "RECV"
    <3>1. i = r /\ s = t
      BY <1>2, <2>1
    <3> QED
      BY <1>2, <1>12, <1>13, <2>1, <3>1
  <2>2. CASE ev # "RECV"
    <3>1. i = s /\ r = t
      BY <1>2, <2>2
    <3> QED
      BY <1>2, <1>12, <1>13, <2>2, <3>1
  <2> QED
    BY <2>1, <2>2
<1> HIDE DEF i
<1>20. Serves(t, ev, c, x.len, i)
  BY <1>2, <1>15, <1>16, <1>17, <1>18, <1>19, SameTaskVars DEF Serves, other
<1> QED
  BY <1>2, <1>14, <1>20 DEF i

LEMMA MessageCallKind ==
    ASSUME QueueInv, NodeInv, Once(queue), NEW t \in Task, MessageCall(t)
    PROVE  StepKind /\ Once(queue')
<1>1. TypeOK
  BY DEF QueueInv
<1>2. CASE \E r : Answer(t, r)
  BY <1>2, QuietKind DEF Answer
<1>3. ASSUME NEW ev \in PollEvent, NEW c \in Channel, NEW x \in Args,
             t # Idle, current = t, Exchange(t, ev, c, x),
             ev = "RECV" => x.len \in Lens, HasOpen(t, c)
      PROVE  StepKind /\ Once(queue')
  <2>1. Calling(t)
    BY <1>3, CallerFacts DEF Calling
  <2>2. CASE \E why : Panic(why)
    BY <2>2, QuietKind DEF Panic
  <2>3. CASE Joins(t, ev, c, x)
    <3>1. Waits(t, ev, c) /\ Once(queue')
      BY <1>3, <2>3, JoinsKind
    <3> QED
      BY <1>3, <2>1, <3>1 DEF StepKind
  <2>4. ASSUME NEW s \in Task, NEW r \in Task, Meets(t, ev, c, x, s, r)
        PROVE  StepKind /\ Once(queue')
    <3> DEFINE i == IF ev = "RECV" THEN r ELSE s
    <3>1. Serves(t, ev, c, x.len, i) /\ t # i /\ Once(queue') /\ i \in Task
      BY <1>3, <2>4, MeetsKind
    <3>2. x.len \in Nat
      BY DEF Args
    <3> HIDE DEF i
    <3> QED
      BY <1>3, <2>1, <3>1, <3>2 DEF StepKind
  <2> QED
    BY <1>3, <2>2, <2>3, <2>4, ExchangeCases
<1> QED
  BY <1>1, <1>2, <1>3, MessageExchanges

LEMMA StepIs ==
    ASSUME PollInv, Once(queue), [Next]_vars
    PROVE  StepKind /\ Once(queue')
<1>1. QueueInv /\ NodeInv /\ TypeOK /\ FreeQuiet
  BY DEF PollInv, KernelInv, QueueInv, ChannelInv
<1>2. CASE UNCHANGED vars
  BY <1>2, QuietKind DEF vars
<1>3. CASE Schedule
  BY <1>1, <1>3, ScheduleKind
<1>4. ASSUME NEW t \in Task, ChannelCall(t) \/ MessageCall(t) \/ PollCall(t) \/ TaskCall(t)
      PROVE  StepKind /\ Once(queue')
  BY <1>1, <1>4, ChannelCallKind, MessageCallKind, PollCallKind, TaskCallKind
<1>5. ASSUME NEW e, Interrupt(e) PROVE StepKind /\ Once(queue')
  BY <1>1, <1>5, EventUnblockAllKind DEF Interrupt
<1> QED
  BY <1>2, <1>3, <1>4, <1>5 DEF Next, Stopped

-----------------------------------------------------------------------------
(* Task identifiers.                                                       *)

LEMMA TidOfIndex ==
    ASSUME NEW i \in Task, NEW gen \in Nat
    PROVE  TidIdx(MakeTid(i, gen)) = i /\ MakeTid(i, gen) \in Nat \ {0}
<1>1. i \in 1 .. 4094
  BY MaxTasksAssumption DEF Task
<1> QED
  BY <1>1 DEF TidIdx, MakeTid

(* The next generation of a structure has a tid never given before. *)
LEMMA NextTidGrows ==
    ASSUME TaskTypes, NEW i \in Task, TidIdx(tid[i]) = i
    PROVE  MakeTid(i, NextGen(i)) > tid[i]
<1>1. i \in 1 .. 4094 /\ tid[i] \in Nat
  BY MaxTasksAssumption DEF Task, TaskTypes
<1> DEFINE id == tid[i]
<1>2. id % 4096 = i /\ MakeTid(i, NextGen(i)) = (id \div 4096 + 1) * 4096 + i
  BY DEF TidIdx, MakeTid, NextGen, TidGen
<1> HIDE DEF id
<1>3. id \in Nat
  BY <1>1 DEF id
<1>4. id = ((id \div 4096) * 4096) + (id % 4096) /\ id \div 4096 \in Nat
  BY <1>3
<1>5. (id \div 4096 + 1) * 4096 + i > id
  BY <1>1, <1>2, <1>3, <1>4
<1> QED
  BY <1>2, <1>5 DEF id

LEMMA BornTids ==
    ASSUME TaskTypes, TidsKept, NEW t \in Task, Calling(t), NEW i \in Task, Born(t, i)
    PROVE  /\ TidsKept'
           /\ \A j \in Task : ptid[j] # tid'[i]
<1>1. PICK gen \in Nat :
         /\ i < next_tidx' /\ state[i] = "DEAD"
         /\ \/ i = next_tidx /\ next_tidx' = next_tidx + 1
            \/ i < next_tidx /\ gen = NextGen(i) /\ next_tidx' = next_tidx
         /\ tid' = [tid EXCEPT ![i] = MakeTid(i, gen)]
         /\ ptid' = [ptid EXCEPT ![i] = tid[t]]
  BY DEF Born
<1>2. /\ next_tidx \in Nat /\ tid \in [Task -> Nat] /\ ptid \in [Task -> Nat]
      /\ t < next_tidx /\ t # i
  BY <1>1, MaxTasksAssumption DEF TaskTypes, Calling
<1>3. /\ tid'[i] = MakeTid(i, gen) /\ \A j \in Task \ {i} : tid'[j] = tid[j]
      /\ ptid'[i] = tid[t] /\ \A j \in Task \ {i} : ptid'[j] = ptid[j]
  BY <1>1, <1>2
<1>4. TidIdx(tid'[i]) = i /\ tid'[i] \in Nat \ {0}
  BY <1>3, TidOfIndex
<1>5. i < next_tidx => tid'[i] > tid[i]
  BY <1>1, <1>2, <1>3, NextTidGrows DEF TidsKept
<1>6. \A j \in Task : j < next_tidx' <=> j < next_tidx \/ j = i
  BY <1>1, <1>2 DEF Task
<1>7. \A j \in Task : j < next_tidx' => TidIdx(tid'[j]) = j
  BY <1>3, <1>4, <1>6 DEF TidsKept
<1>8. ASSUME NEW j \in Task
      PROVE  \/ ptid'[j] = 0
             \/ \E k \in Task : k < next_tidx' /\ TidIdx(ptid'[j]) = k /\ ptid'[j] <= tid'[k]
  <2>1. CASE j = i
    <3>1. TidIdx(ptid'[j]) = t /\ ptid'[j] = tid'[t] /\ tid[t] \in Nat
      BY <1>2, <1>3, <2>1 DEF TidsKept
    <3> QED
      BY <1>2, <1>3, <1>6, <2>1, <3>1
  <2>2. CASE j # i /\ ptid[j] # 0
    <3>1. PICK k \in Task : k < next_tidx /\ TidIdx(ptid[j]) = k /\ ptid[j] <= tid[k]
      BY <2>2 DEF TidsKept
    <3>2. tid[k] <= tid'[k]
      BY <1>2, <1>3, <1>4, <1>5, <3>1
    <3>3. ptid[j] <= tid'[k]
      <4>1. ptid[j] \in Nat /\ tid[k] \in Nat /\ tid'[k] \in Nat
        BY <1>2, <1>3, <1>4
      <4> QED
        BY <3>1, <3>2, <4>1
    <3> QED
      BY <1>3, <1>6, <2>2, <3>1, <3>3
  <2> QED
    BY <1>3, <2>1, <2>2
<1>9. ASSUME NEW j \in Task, ptid[j] = tid'[i]
      PROVE  FALSE
  <2>1. PICK k \in Task : k < next_tidx /\ TidIdx(ptid[j]) = k /\ ptid[j] <= tid[k]
    BY <1>4, <1>9 DEF TidsKept
  <2>2. k = i
    BY <1>4, <1>9, <2>1
  <2>3. tid'[i] <= tid[i] /\ tid'[i] > tid[i] /\ tid[i] \in Nat /\ tid'[i] \in Nat
    BY <1>2, <1>4, <1>5, <1>9, <2>1, <2>2
  <2> QED
    BY <2>3
<1>10. TidsKept'
  BY <1>7, <1>8 DEF TidsKept
<1> QED
  BY <1>9, <1>10

LEMMA TidsStay ==
    ASSUME TidsKept, UNCHANGED <<next_tidx, tid>>, \A i \in Task : ptid'[i] \in {ptid[i], 0}
    PROVE  TidsKept'
<1>1. ASSUME NEW j \in Task, ptid'[j] # 0
      PROVE  \E i \in Task : i < next_tidx /\ TidIdx(ptid'[j]) = i /\ ptid'[j] <= tid[i]
  <2>1. ptid'[j] = ptid[j]
    BY <1>1
  <2> QED
    BY <1>1, <2>1 DEF TidsKept
<1> QED
  BY <1>1 DEF TidsKept

LEMMA StepTids ==
    ASSUME TaskTypes, TidsKept, StepKind
    PROVE  TidsKept'
<1>1. CASE SameTasks
  BY <1>1, TidsStay DEF SameTasks
<1>2. ASSUME NEW t \in Task, Dies(t) PROVE TidsKept'
  BY <1>2, TidsStay DEF Dies
<1>3. ASSUME NEW t \in Task, Calling(t), NEW i \in Task, Born(t, i) PROVE TidsKept'
  BY <1>3, BornTids
<1>4. Aside => SameTasks
  BY DEF Aside
<1>5. ASSUME NEW t \in Task, NEW ev \in PollEvent, NEW c \in Channel, Waits(t, ev, c)
      PROVE  SameTasks
  BY <1>5 DEF Waits
<1>6. ASSUME NEW t \in Task, NEW ev \in PollEvent, NEW c \in Channel,
             NEW len \in Nat, NEW i \in Task, Serves(t, ev, c, len, i)
      PROVE  SameTasks
  BY <1>6 DEF Serves
<1> QED
  BY <1>1, <1>2, <1>3, <1>4, <1>5, <1>6 DEF StepKind

-----------------------------------------------------------------------------
(* What the kernel counts. *)

Foreground == {i \in Alive : ~daemon[i]}

LEMMA AliveFinite ==
    ASSUME TaskTypes
    PROVE  IsFiniteSet(Alive) /\ IsFiniteSet(Foreground)
<1>1. IsFiniteSet(1 .. MaxTasks - 1)
  BY MaxTasksAssumption, FS_Interval
<1>2. Alive \subseteq 1 .. MaxTasks - 1 /\ Foreground \subseteq 1 .. MaxTasks - 1
  BY MaxTasksAssumption DEF Alive, Foreground, Task
<1> QED
  BY <1>1, <1>2, FS_Subset

LEMMA StepAlive ==
    ASSUME TaskTypes, CountsAgree, StepKind
    PROVE  CountsAgree'
<1> DEFINE S == Blocked \cup {"DEAD"}
<1>1. /\ IsFiniteSet(Alive) /\ IsFiniteSet(Foreground)
      /\ task_count = Cardinality(Alive) /\ nondaemon_count = Cardinality(Foreground)
      /\ Cardinality(Alive) \in Nat /\ Cardinality(Foreground) \in Nat
  BY AliveFinite, FS_CardinalityType DEF CountsAgree, Foreground
<1>2. ASSUME Alive' = Alive, SameTasks PROVE CountsAgree'
  <2>1. Foreground' = Foreground
    BY <1>2 DEF Foreground, SameTasks
  <2> QED
    BY <1>1, <1>2, <2>1 DEF CountsAgree, Foreground, SameTasks
<1>3. CASE Aside
  <2>1. Alive' = Alive
    BY <1>3 DEF Alive, Aside, SameTasks, StatesStay, NoTask, Task
  <2> QED
    BY <1>2, <1>3, <2>1 DEF Aside
<1>4. ASSUME NEW t \in Task, NEW ev \in PollEvent, NEW c \in Channel, Waits(t, ev, c)
      PROVE  CountsAgree'
  <2>1. SameTasks /\ state[t] # "DEAD" /\ state'[t] # "DEAD" /\ StatesStay(t, S)
    BY <1>4 DEF Waits, Blocked
  <2>2. Alive' = Alive
    BY <2>1 DEF Alive, SameTasks, StatesStay
  <2> QED
    BY <1>2, <2>1, <2>2
<1>5. ASSUME NEW t \in Task, NEW ev \in PollEvent, NEW c \in Channel,
             NEW len \in Nat, NEW i \in Task, Serves(t, ev, c, len, i)
      PROVE  CountsAgree'
  <2>1. SameTasks /\ state[i] # "DEAD" /\ state'[i] # "DEAD" /\ StatesStay(i, S)
    BY <1>5 DEF Serves
  <2>2. Alive' = Alive
    BY <2>1 DEF Alive, SameTasks, StatesStay
  <2> QED
    BY <1>2, <2>1, <2>2
<1>6. ASSUME NEW t \in Task, NEW i \in Task, Born(t, i)
      PROVE  CountsAgree'
  <2>1. PICK gen \in Nat, d \in BOOLEAN :
           /\ StatesStay(i, S) /\ state[i] = "DEAD" /\ state'[i] = "RUNNING"
           /\ i < next_tidx'
           /\ \/ i = next_tidx /\ next_tidx' = next_tidx + 1
              \/ i < next_tidx /\ next_tidx' = next_tidx
           /\ daemon' = [daemon EXCEPT ![i] = d]
           /\ task_count' = task_count + 1
           /\ nondaemon_count' = nondaemon_count + NonDaemon(d)
    BY <1>6 DEF Born
  <2>2. \A j \in Task \ {i} : /\ state[j] = "DEAD" <=> state'[j] = "DEAD"
                              /\ daemon'[j] = daemon[j]
    BY <2>1 DEF StatesStay, TaskTypes
  <2>3. daemon'[i] = d /\ i \notin Alive
    BY <2>1 DEF TaskTypes, Alive
  <2>4. \A j \in Task : j < next_tidx' <=> j < next_tidx \/ j = i
    BY <2>1, MaxTasksAssumption DEF TaskTypes, Task
  <2>5. Alive' = Alive \cup {i}
    BY <2>1, <2>2, <2>4 DEF Alive
  <2>6. Foreground' = IF d THEN Foreground ELSE Foreground \cup {i}
    <3>1. \A j : j \in Foreground' <=> j \in Foreground \/ (j = i /\ ~d)
      BY <2>2, <2>3, <2>5 DEF Foreground, Alive
    <3> QED
      BY <3>1
  <2>7. i \notin Foreground
    BY <2>3 DEF Foreground
  <2>8. Cardinality(Alive') = task_count'
    BY <1>1, <2>1, <2>3, <2>5, FS_AddElement
  <2>9. Cardinality(Foreground') = nondaemon_count'
    <3>1. CASE d
      BY <1>1, <2>1, <2>6, <3>1 DEF NonDaemon
    <3>2. CASE ~d
      <4>1. Foreground' = Foreground \cup {i}
        BY <2>6, <3>2
      <4>2. Cardinality(Foreground') = nondaemon_count + 1
        BY <1>1, <2>7, <4>1, FS_AddElement
      <4>3. NonDaemon(d) = 1
        BY <3>2 DEF NonDaemon
      <4> QED
        BY <2>1, <4>2, <4>3
    <3> QED
      BY <3>1, <3>2
  <2> QED
    BY <2>8, <2>9 DEF CountsAgree, Foreground
<1>7. ASSUME NEW t \in Task, t < next_tidx, Dies(t)
      PROVE  CountsAgree'
  <2>1. /\ StatesStay(t, S) /\ state[t] = "RUNNING" /\ state'[t] = "DEAD"
        /\ next_tidx' = next_tidx /\ daemon' = daemon
        /\ task_count' = task_count - 1
        /\ nondaemon_count' = nondaemon_count - NonDaemon(daemon[t])
    BY <1>7 DEF Dies
  <2>2. t \in Alive /\ daemon[t] \in BOOLEAN
    BY <1>7, <2>1 DEF Alive, TaskTypes
  <2>3. Alive' = Alive \ {t}
    BY <2>1 DEF Alive, StatesStay
  <2>4. Foreground' = IF daemon[t] THEN Foreground ELSE Foreground \ {t}
    <3>1. \A j : j \in Foreground' <=> j \in Foreground /\ j # t
      BY <2>1, <2>3 DEF Foreground
    <3>2. daemon[t] => t \notin Foreground
      BY DEF Foreground
    <3> QED
      BY <3>1, <3>2
  <2>5. ~daemon[t] => t \in Foreground
    BY <2>2 DEF Foreground
  <2>6. Cardinality(Alive') = task_count'
    BY <1>1, <2>1, <2>2, <2>3, FS_RemoveElement
  <2>7. Cardinality(Foreground') = nondaemon_count'
    <3>1. CASE daemon[t]
      <4>1. Foreground' = Foreground /\ NonDaemon(daemon[t]) = 0
        BY <2>4, <3>1 DEF NonDaemon
      <4> QED
        BY <1>1, <2>1, <4>1
    <3>2. CASE ~daemon[t]
      <4>1. Foreground' = Foreground \ {t} /\ t \in Foreground
        BY <2>4, <2>5, <3>2
      <4>2. Cardinality(Foreground') = nondaemon_count - 1
        BY <1>1, <4>1, FS_RemoveElement
      <4>3. NonDaemon(daemon[t]) = 1
        BY <3>2 DEF NonDaemon
      <4> QED
        BY <2>1, <4>2, <4>3
    <3> QED
      BY <3>1, <3>2
  <2> QED
    BY <2>6, <2>7 DEF CountsAgree, Foreground
<1> QED
  BY <1>3, <1>4, <1>5, <1>6, <1>7 DEF StepKind, Calling

-----------------------------------------------------------------------------
(* The invariant, and what it says. *)

WaitInv == PollInv /\ Once(queue) /\ TidsKept /\ CountsAgree

LEMMA WaitStep ==
    ASSUME WaitInv, [Next]_vars
    PROVE  WaitInv' /\ StepKind
<1>1. PollInv /\ Once(queue) /\ TidsKept /\ CountsAgree
  BY DEF WaitInv
<1>2. TaskTypes
  BY <1>1 DEF PollInv, KernelInv, QueueInv, TypeOK
<1>3. StepKind /\ Once(queue')
  BY <1>1, StepIs
<1>4. PollInv'
  BY <1>1, PollStep
<1>5. TidsKept' /\ CountsAgree'
  BY <1>1, <1>2, <1>3, StepTids, StepAlive
<1> QED
  BY <1>3, <1>4, <1>5 DEF WaitInv, Once

LEMMA InitWaits ==
    ASSUME Init
    PROVE  Once(queue) /\ TidsKept /\ CountsAgree
<1> DEFINE idle == <<"ready", NPrio - 1>>
           init == <<"ready", NPrio - 2>>
<1>1. \A n \in QueueName :
         queue[n] = IF n = idle THEN <<1>> ELSE IF n = init THEN <<2>> ELSE <<>>
  BY DEF Init
<1>2. idle # init
  BY MaxTasksAssumption, NPrioAssumption
<1>3. Once(queue)
  <2>1. IsInjective(<<1>>) /\ IsInjective(<<2>>) /\ IsInjective(<<>>)
    BY DEF IsInjective
  <2>2. Range(<<1>>) = {1} /\ Range(<<2>>) = {2} /\ Range(<<>>) = {}
    BY DEF Range
  <2>3. \A n \in QueueName : IsInjective(queue[n])
    BY <1>1, <2>1
  <2>4. \A n \in QueueName :
           Range(queue[n]) = IF n = idle THEN {1} ELSE IF n = init THEN {2} ELSE {}
    BY <1>1, <2>2
  <2> HIDE DEF idle, init
  <2>5. ASSUME NEW n \in QueueName, NEW m \in QueueName, n # m
        PROVE  Range(queue[n]) \cap Range(queue[m]) = {}
    BY <1>2, <2>4, <2>5
  <2> QED
    BY <2>3, <2>5 DEF Once
<1>4. /\ next_tidx = 3
      /\ \A i \in Task : /\ tid[i] = IF i <= 2 THEN MakeTid(i, 0) ELSE 0
                         /\ ptid[i] = 0 /\ daemon[i] = (i = Idle)
                         /\ state[i] = IF i <= 2 THEN "RUNNING" ELSE "DEAD"
      /\ task_count = 2 /\ nondaemon_count = 1
  BY DEF Init
<1>5. TidsKept
  <2>1. ASSUME NEW i \in Task, i < next_tidx PROVE TidIdx(tid[i]) = i
    <3>1. tid[i] = MakeTid(i, 0)
      BY <1>4, <2>1 DEF Task
    <3> QED
      BY <3>1, TidOfIndex
  <2> QED
    BY <1>4, <2>1 DEF TidsKept
<1>6. CountsAgree
  <2>1. Alive = {1, 2} /\ 2 \in Task
    BY <1>4, MaxTasksAssumption DEF Alive, Task
  <2>2. {i \in Alive : ~daemon[i]} = {2}
    <3> 1 \in Task
      BY MaxTasksAssumption DEF Task
    <3>1. daemon[1] = (1 = Idle) /\ daemon[2] = (2 = Idle)
      BY <1>4, <2>1
    <3>2. (1 = Idle) = TRUE /\ (2 = Idle) = FALSE
      BY DEF Idle
    <3>3. daemon[1] = TRUE /\ daemon[2] = FALSE
      BY <3>1, <3>2
    <3> QED
      BY <2>1, <3>3
  <2>3. Cardinality({1}) = 1 /\ IsFiniteSet({1}) /\ Cardinality({2}) = 1
    BY FS_Singleton
  <2>4. Cardinality({1, 2}) = 2
    <3>1. {1, 2} = {1} \cup {2} /\ 2 \notin {1}
      OBVIOUS
    <3> QED
      BY <2>3, <3>1, FS_AddElement
  <2> QED
    BY <1>4, <2>1, <2>2, <2>3, <2>4 DEF CountsAgree
<1> QED
  BY <1>3, <1>5, <1>6

(* In every reachable state no task is twice on the queues, tids name      *)
(* their structures, and the counts are right.                             *)
THEOREM WaitInvariant == Spec => []WaitInv
<1>1. Init => WaitInv
  <2>1. Init => PollInv
    BY InitQueues, InitChannels, InitNodes DEF PollInv, KernelInv
  <2> QED
    BY <2>1, InitWaits DEF WaitInv
<1>2. WaitInv /\ [Next]_vars => WaitInv'
  BY WaitStep
<1> QED
  BY <1>1, <1>2, PTL DEF Spec

(* Every task that exists is on exactly one queue, once, and that is the   *)
(* queue its state calls for: what task_move, schedule, handle_receive,    *)
(* event_unblock_one and task_alloc rely on.                               *)
THEOREM QueuesAlwaysAgree == Spec => []QueuesAgree
<1>1. WaitInv => QueuesAgree
  <2> SUFFICES ASSUME WaitInv, NEW i \in Task
               PROVE  IF i >= next_tidx THEN Places(i) = {}
                      ELSE /\ Cardinality(Places(i)) = 1
                           /\ \A p \in Places(i) : p[1] \in HomeQueues(state, i)
    BY DEF QueuesAgree
  <2>1. /\ Once(queue) /\ Settled(state, queue) /\ queue \in [QueueName -> Seq(Task)]
        /\ next_tidx \in Nat
    BY MaxTasksAssumption
       DEF WaitInv, PollInv, KernelInv, QueueInv, TypeOK, RunTypes, TaskTypes
  <2>2. \A p : p \in Places(i) <=>
           \E n \in QueueName : \E k \in DOMAIN queue[n] : queue[n][k] = i /\ p = <<n, k>>
    BY PlacesListed DEF Places
  <2>3. ASSUME NEW n \in QueueName, NEW k \in DOMAIN queue[n], queue[n][k] = i
        PROVE  /\ i \in Range(queue[n]) /\ i < next_tidx /\ n \in HomeQueues(state, i)
               /\ \A m \in QueueName : \A l \in DOMAIN queue[m] :
                     queue[m][l] = i => m = n /\ l = k
    <3>1. i \in Range(queue[n])
      BY <2>3 DEF Range
    <3>2. i < next_tidx /\ n \in HomeQueues(state, i)
      BY <2>1, <3>1 DEF Settled
    <3>3. ASSUME NEW m \in QueueName, NEW l \in DOMAIN queue[m], queue[m][l] = i
          PROVE  m = n /\ l = k
      <4>1. i \in Range(queue[m])
        BY <3>3 DEF Range
      <4>2. m = n
        BY <2>1, <3>1, <4>1 DEF Once
      <4> QED
        BY <2>1, <2>3, <3>3, <4>2 DEF Once, IsInjective
    <3> QED
      BY <3>1, <3>2, <3>3
  <2>4. CASE i >= next_tidx
    <3>1. ~ (i < next_tidx)
      BY <2>1, <2>4 DEF Task
    <3>2. Places(i) = {}
      BY <2>2, <2>3, <3>1
    <3> QED
      BY <2>4, <3>2
  <2>5. CASE ~ (i >= next_tidx)
    <3>1. PICK n \in QueueName : n \in HomeQueues(state, i) /\ i \in Range(queue[n])
      BY <2>1, <2>5 DEF Settled, Task
    <3>2. PICK k \in DOMAIN queue[n] : queue[n][k] = i
      BY <3>1 DEF Range
    <3>3. Places(i) = {<<n, k>>}
      BY <2>2, <2>3, <3>2
    <3>4. Cardinality(Places(i)) = 1
      BY <3>3, FS_Singleton
    <3> QED
      BY <2>5, <3>1, <3>3, <3>4
  <2> QED
    BY <2>4, <2>5
<1> QED
  BY <1>1, WaitInvariant, PTL

(* task_count and nondaemon_count, which sys_spawn and exit_task keep, are *)
(* the numbers of tasks that have not exited.                              *)
THEOREM CountsAlwaysAgree == Spec => []CountsAgree
<1>1. WaitInv => CountsAgree
  BY DEF WaitInv
<1> QED
  BY <1>1, WaitInvariant, PTL

LEMMA KindOrder ==
    ASSUME StepKind, NEW c \in Channel, NEW side \in Side2
    PROVE  \/ queue'[<<side, c>>] = queue[<<side, c>>]
           \/ queue[<<side, c>>] # <<>> /\ queue'[<<side, c>>] = Tail(queue[<<side, c>>])
           \/ \E t \in Task : t = current
                              /\ queue'[<<side, c>>] = Append(queue[<<side, c>>], t)
<1> DEFINE n == <<side, c>>
<1>1. n \in ChannelQueue
  BY DEF ChannelQueue
<1> HIDE DEF n
<1>2. CASE QueuesStay({})
  BY <1>1, <1>2 DEF QueuesStay, n
<1>3. ASSUME NEW t \in Task, Calling(t), NEW ev \in PollEvent, NEW d \in Channel,
             Waits(t, ev, d)
      PROVE  queue'[n] = queue[n] \/ (t = current /\ queue'[n] = Append(queue[n], t))
  BY <1>1, <1>3 DEF Waits, QueuesStay, Calling
<1>4. ASSUME NEW t \in Task, NEW ev \in PollEvent, NEW d \in Channel,
             NEW len \in Nat, NEW i \in Task, Serves(t, ev, d, len, i)
      PROVE  queue'[n] = queue[n] \/ (queue[n] # <<>> /\ queue'[n] = Tail(queue[n]))
  BY <1>1, <1>4 DEF Serves, QueuesStay
<1>5. (Aside \/ \E t \in Task : Dies(t) \/ \E i \in Task : Born(t, i)) => QueuesStay({})
  BY DEF Aside, Dies, Born
<1> QED
  BY <1>2, <1>3, <1>4, <1>5 DEF StepKind, n

(* Whoever waits at a channel is served in the order of arrival: sys_send  *)
(* and sys_recv put the caller last, handle_receive takes the first.       *)
THEOREM ServedInOrder == Spec => FirstComeFirstServed
<1> DEFINE A == \A c \in Channel, side \in {"senders", "receivers"} :
                    LET old == queue[<<side, c>>]
                        new == queue'[<<side, c>>]
                    IN  \/ new = old
                        \/ old # <<>> /\ new = Tail(old)
                        \/ \E t \in Task : t = current /\ new = Append(old, t)
<1>1. WaitInv /\ [Next]_vars => A
  BY WaitStep, KindOrder DEF Side2
<1>2. WaitInv /\ [Next]_vars => [A]_vars
  BY <1>1
<1> QED
  BY <1>2, WaitInvariant, PTL DEF Spec, FirstComeFirstServed

(* One step of the kernel ends the wait of at most one pair.                *)
LEMMA KindPairs ==
    ASSUME StepKind, NEW i \in Task
    PROVE  /\ (state[i] = "SEND_BLOCKED" /\ state'[i] # "SEND_BLOCKED") =>
                 /\ <<i, 0>> \in ret' /\ <<current, args[i].len>> \in ret'
                 /\ {j \in Task : state[j] = "SEND_BLOCKED"
                                  /\ state'[j] # "SEND_BLOCKED"} = {i}
           /\ (state[i] = "RECV_BLOCKED" /\ state'[i] # "RECV_BLOCKED") =>
                 /\ <<current, 0>> \in ret'
                 /\ \E len \in Lens : len <= args[i].len /\ <<i, len>> \in ret'
                 /\ {j \in Task : state[j] = "RECV_BLOCKED"
                                  /\ state'[j] # "RECV_BLOCKED"} = {i}
<1> DEFINE S == Blocked \cup {"DEAD"}
           Leaves(j, s) == state[j] = s /\ state'[j] # s
<1>1. "SEND_BLOCKED" \in S /\ "RECV_BLOCKED" \in S
  BY DEF Blocked
<1>2. ASSUME NEW k \in Task, StatesStay(k, S), state[k] \notin Blocked
      PROVE  \A j \in Task, s \in Blocked : ~Leaves(j, s)
  BY <1>2 DEF StatesStay
<1>3. CASE Aside
  BY <1>1, <1>3 DEF Aside, StatesStay, NoTask, Task
<1>4. ASSUME NEW t \in Task, Dies(t) PROVE \A j \in Task, s \in Blocked : ~Leaves(j, s)
  BY <1>2, <1>4 DEF Dies, Blocked
<1>5. ASSUME NEW t \in Task, NEW k \in Task, Born(t, k)
      PROVE  \A j \in Task, s \in Blocked : ~Leaves(j, s)
  BY <1>2, <1>5 DEF Born, Blocked
<1>6. ASSUME NEW t \in Task, NEW ev \in PollEvent, NEW c \in Channel, Waits(t, ev, c)
      PROVE  \A j \in Task, s \in Blocked : ~Leaves(j, s)
  BY <1>2, <1>6 DEF Waits, Blocked
<1>7. ASSUME NEW t \in Task, NEW ev \in PollEvent, NEW c \in Channel,
             NEW len \in Nat, NEW k \in Task, Serves(t, ev, c, len, k)
      PROVE  /\ \A j \in Task \ {k}, s \in Blocked : ~Leaves(j, s)
             /\ state'[k] = "RUNNING"
             /\ ev = "RECV" => /\ state[k] = "RECV_BLOCKED" /\ len <= args[k].len
                               /\ <<t, 0>> \in ret' /\ <<k, len>> \in ret'
             /\ ev # "RECV" => /\ state[k] = "SEND_BLOCKED" /\ <<k, 0>> \in ret'
                               /\ <<t, args[k].len>> \in ret'
  BY <1>7 DEF Serves, StatesStay
<1>8. ASSUME \A j \in Task, s \in Blocked : ~Leaves(j, s)
      PROVE  ~Leaves(i, "SEND_BLOCKED") /\ ~Leaves(i, "RECV_BLOCKED")
  BY <1>8 DEF Blocked
<1>9. ASSUME NEW t \in Task, Calling(t), NEW ev \in PollEvent, NEW c \in Channel,
             NEW len \in Nat, NEW k \in Task \ {t}, Serves(t, ev, c, len, k),
             ev = "RECV" => len \in Lens
      PROVE  /\ Leaves(i, "SEND_BLOCKED") =>
                   /\ <<i, 0>> \in ret' /\ <<current, args[i].len>> \in ret'
                   /\ {j \in Task : Leaves(j, "SEND_BLOCKED")} = {i}
             /\ Leaves(i, "RECV_BLOCKED") =>
                   /\ <<current, 0>> \in ret'
                   /\ \E l \in Lens : l <= args[i].len /\ <<i, l>> \in ret'
                   /\ {j \in Task : Leaves(j, "RECV_BLOCKED")} = {i}
  <2>1. current = t
    BY <1>9 DEF Calling
  <2> k \in Task
    BY <1>9
  <2>0. /\ state'[k] = "RUNNING"
        /\ ev = "RECV" => /\ state[k] = "RECV_BLOCKED" /\ len <= args[k].len
                          /\ <<t, 0>> \in ret' /\ <<k, len>> \in ret'
        /\ ev # "RECV" => /\ state[k] = "SEND_BLOCKED" /\ <<k, 0>> \in ret'
                          /\ <<t, args[k].len>> \in ret'
    BY <1>7, <1>9
  <2>2. \A j \in Task : \A s \in Blocked : Leaves(j, s) => j = k
    <3>1. StatesStay(k, S)
      BY <1>9 DEF Serves
    <3>2. \A j \in Task \ {k}, s \in Blocked : ~Leaves(j, s)
      BY <3>1 DEF StatesStay
    <3> QED
      BY <3>2
  <2>3. ASSUME Leaves(i, "SEND_BLOCKED")
        PROVE  /\ <<i, 0>> \in ret' /\ <<current, args[i].len>> \in ret'
               /\ {j \in Task : Leaves(j, "SEND_BLOCKED")} = {i}
    <3>1. i = k
      BY <2>2, <2>3 DEF Blocked
    <3>2. ev # "RECV"
      BY <2>0, <2>3, <3>1
    <3>3. \A j \in Task : Leaves(j, "SEND_BLOCKED") <=> j = i
      BY <2>2, <2>3, <3>1 DEF Blocked
    <3> QED
      BY <1>9, <2>0, <2>1, <3>1, <3>2, <3>3
  <2>4. ASSUME Leaves(i, "RECV_BLOCKED")
        PROVE  /\ <<current, 0>> \in ret'
               /\ \E l \in Lens : l <= args[i].len /\ <<i, l>> \in ret'
               /\ {j \in Task : Leaves(j, "RECV_BLOCKED")} = {i}
    <3>1. i = k
      BY <2>2, <2>4 DEF Blocked
    <3>2. ev = "RECV"
      BY <2>0, <2>4, <3>1
    <3>3. \A j \in Task : Leaves(j, "RECV_BLOCKED") <=> j = i
      BY <2>2, <2>4, <3>1 DEF Blocked
    <3> QED
      BY <1>9, <2>0, <2>1, <3>1, <3>2, <3>3
  <2> QED
    BY <2>3, <2>4
<1> QED
  BY <1>3, <1>4, <1>5, <1>6, <1>8, <1>9 DEF StepKind

(* A message is passed once, from one sender to one receiver who call or   *)
(* wait on the same channel, and both are told so (handle_receive).        *)
THEOREM MessagesOneForOne == Spec => OneForOne
<1> DEFINE A == \A i \in Task :
          /\ (state[i] = "SEND_BLOCKED" /\ state'[i] # "SEND_BLOCKED") =>
                /\ <<i, 0>> \in ret' /\ <<current, args[i].len>> \in ret'
                /\ Cardinality({j \in Task : state[j] = "SEND_BLOCKED"
                                          /\ state'[j] # "SEND_BLOCKED"}) = 1
          /\ (state[i] = "RECV_BLOCKED" /\ state'[i] # "RECV_BLOCKED") =>
                /\ <<current, 0>> \in ret'
                /\ \E len \in Lens : len <= args[i].len /\ <<i, len>> \in ret'
                /\ Cardinality({j \in Task : state[j] = "RECV_BLOCKED"
                                          /\ state'[j] # "RECV_BLOCKED"}) = 1
<1>1. StepKind => A
  BY KindPairs, FS_Singleton
<1>2. WaitInv /\ [Next]_vars => [A]_vars
  BY <1>1, WaitStep
<1> QED
  BY <1>2, WaitInvariant, PTL DEF Spec, OneForOne

(* A task that sys_spawn makes is nobody's parent, though it may reuse the *)
(* structure of one that was: task_alloc gives it the next generation.     *)
THEOREM NewTasksHaveNoChildren == Spec => OrphansStayOrphans
<1> DEFINE A == \A i \in Task :
          (state[i] = "DEAD" /\ state'[i] # "DEAD") =>
              \A j \in Alive \cup {current} : ptid[j] # tid'[i]
<1>1. ASSUME WaitInv, [Next]_vars PROVE A
  <2>1. TaskTypes /\ TidsKept /\ StepKind
    BY <1>1, WaitStep DEF WaitInv, PollInv, KernelInv, QueueInv, TypeOK
  <2> SUFFICES ASSUME NEW i \in Task, state[i] = "DEAD", state'[i] # "DEAD"
               PROVE  \A j \in Alive \cup {current} : ptid[j] # tid'[i]
    OBVIOUS
  <2>2. ~Aside
    BY DEF Aside, StatesStay, NoTask, Task
  <2>3. \A t \in Task : ~Dies(t)
    BY DEF Dies, StatesStay
  <2>4. \A t \in Task, ev \in PollEvent, c \in Channel : ~Waits(t, ev, c)
    BY DEF Waits, StatesStay
  <2>5. ASSUME NEW t \in Task, NEW ev \in PollEvent, NEW c \in Channel,
               NEW len \in Nat, NEW k \in Task, Serves(t, ev, c, len, k)
        PROVE  FALSE
    <3>1. state[k] # "DEAD" /\ StatesStay(k, Blocked \cup {"DEAD"})
      BY <2>5 DEF Serves
    <3> QED
      BY <3>1 DEF StatesStay
  <2>6. PICK t \in Task : Calling(t) /\ \E k \in Task : Born(t, k)
    BY <2>1, <2>2, <2>3, <2>4, <2>5 DEF StepKind
  <2>7. PICK k \in Task : Born(t, k)
    BY <2>6
  <2>8. k = i
    BY <2>7 DEF Born, StatesStay
  <2>9. \A j \in Task : ptid[j] # tid'[i]
    BY <2>1, <2>6, <2>7, <2>8, BornTids
  <2> QED
    BY <2>6, <2>9 DEF Alive, Calling
<1>2. WaitInv /\ [Next]_vars => [A]_vars
  BY <1>1
<1> QED
  BY <1>2, WaitInvariant, PTL DEF Spec, OrphansStayOrphans
-----------------------------------------------------------------------------
(***************************************************************************)
(* Channel descriptors, their free lists and the references they count,    *)
(* as long as dup is not asked for a descriptor of the caller's choice:    *)
(* with that, the free lists and the refcounts go wrong (run kernel_dup).  *)
(* Then the refcount of a channel is exact, no descriptor is lost or       *)
(* handed out twice, and the kernel never panics over its own data.  In    *)
(* the end, what poll_count counts.                                        *)
(***************************************************************************)

FreshDup == DupTargets \subseteq {-1}

(* The free list of the table tb has n descriptors, and they are s: the    *)
(* closed ones among those below next_free_cd, each once.  From there on   *)
(* none has been opened yet.                                               *)
Listed(tb, n, s) ==
    /\ \A j, k \in 1 .. n : s[j] = s[k] => j = k
    /\ tb.free_cd_head = IF n = 0 THEN -1 ELSE s[1]
    /\ \A k \in 1 .. n : tb.cd[s[k]].next_free_cd = IF k = n THEN -1 ELSE s[k + 1]
    /\ \A fd \in Fd : (\E k \in 1 .. n : s[k] = fd) <=>
                         fd < tb.next_free_cd /\ tb.cd[fd].channel = NoChannel
    /\ \A fd \in Fd : fd >= tb.next_free_cd => tb.cd[fd].channel = NoChannel

FreeListed(tb) == \E n \in Nat : \E s \in [1 .. n -> Fd] : Listed(tb, n, s)

FdsListed == \A i \in Task : FreeListed(table[i])

(* An open descriptor knows its task. *)
TasksSet ==
    \A i \in Task, fd \in Fd :
        ChannelOf(i, fd) # NoChannel => table[i].cd[fd].task = i

(* Whoever waits at a channel has it open. *)
WaitersOpen ==
    \A n \in ChannelQueue : \A i \in Range(queue[n]) : HasOpen(i, n[2])

FdInv == FdsListed /\ TasksSet /\ RefcountIsOpen

-----------------------------------------------------------------------------
(* The free list of a table.                                               *)

LEMMA FdNumbers ==
    /\ \A fd \in Fd : fd \in Nat /\ fd < MaxFds
    /\ MaxFds \in Nat /\ -1 \notin Fd
BY MaxFdsAssumption DEF Fd

LEMMA ClearListed ==
    ASSUME NEW k \in 0 .. MaxFds, NEW tb, tb.free_cd_head = -1, tb.next_free_cd = k,
           \A fd \in Fd : tb.cd[fd].channel # NoChannel <=> fd < k
    PROVE  FreeListed(tb)
<1> DEFINE s == [j \in 1 .. 0 |-> 0]
<1>1. s \in [1 .. 0 -> Fd]
  OBVIOUS
<1> HIDE DEF s
<1>2. \A fd \in Fd : fd >= k <=> ~(fd < k)
  BY FdNumbers
<1>3. Listed(tb, 0, s)
  BY <1>2 DEF Listed
<1> QED
  BY <1>1, <1>3 DEF FreeListed

(* alloc_channel_desc hands out a closed descriptor, and leaves a free     *)
(* list without it once it is open.                                        *)
LEMMA TakenListed ==
    ASSUME NEW tb \in Table, FreeListed(tb), NextFd(tb) >= 0, NEW tb2,
           tb2.free_cd_head = IF tb.free_cd_head >= 0
                              THEN tb.cd[NextFd(tb)].next_free_cd ELSE tb.free_cd_head,
           tb2.next_free_cd = IF tb.free_cd_head >= 0 THEN tb.next_free_cd
                              ELSE tb.next_free_cd + 1,
           \A fd \in Fd : /\ tb2.cd[fd].next_free_cd = tb.cd[fd].next_free_cd
                          /\ fd # NextFd(tb) => tb2.cd[fd].channel = tb.cd[fd].channel
                          /\ fd = NextFd(tb) => tb2.cd[fd].channel # NoChannel
    PROVE  FreeListed(tb2) /\ tb.cd[NextFd(tb)].channel = NoChannel
<1> DEFINE no == NextFd(tb)
<1>1. PICK n \in Nat : \E s \in [1 .. n -> Fd] : Listed(tb, n, s)
  BY DEF FreeListed
<1>2. PICK s \in [1 .. n -> Fd] : Listed(tb, n, s)
  BY <1>1
<1>3. /\ no \in Fd /\ tb.free_cd_head \in Fd \cup {-1} /\ tb.next_free_cd \in 0 .. MaxFds
      /\ \A fd \in Fd : fd \in Nat
  BY NextFdType, TableParts, FdNumbers
<1>4. CASE tb.free_cd_head >= 0
  <2>1. n # 0 /\ no = s[1] /\ tb.free_cd_head = s[1] /\ 1 \in 1 .. n
    BY <1>2, <1>4 DEF Listed, NextFd
  <2>2. no < tb.next_free_cd /\ tb.cd[no].channel = NoChannel
    BY <1>2, <1>3, <2>1 DEF Listed
  <2> DEFINE m == n - 1
             r == [k \in 1 .. m |-> s[k + 1]]
  <2>3. m \in Nat /\ r \in [1 .. m -> Fd] /\ \A k \in 1 .. m : k + 1 \in 1 .. n
    BY <2>1
  <2>4. tb2.next_free_cd = tb.next_free_cd
    BY <1>4
  <2>5. tb2.free_cd_head = IF m = 0 THEN -1 ELSE r[1]
    BY <1>2, <1>4, <2>1 DEF Listed
  <2>6. \A j, k \in 1 .. m : r[j] = r[k] => j = k
    BY <1>2, <2>3 DEF Listed
  <2>7. \A k \in 1 .. m : tb2.cd[r[k]].next_free_cd = IF k = m THEN -1 ELSE r[k + 1]
    <3>1. ASSUME NEW k \in 1 .. m
          PROVE  tb2.cd[r[k]].next_free_cd = IF k = m THEN -1 ELSE r[k + 1]
      <4>1. r[k] = s[k + 1] /\ k + 1 \in 1 .. n /\ s[k + 1] \in Fd
        BY <2>3
      <4>2. tb2.cd[s[k + 1]].next_free_cd = IF k + 1 = n THEN -1 ELSE s[(k + 1) + 1]
        BY <1>2, <4>1 DEF Listed
      <4>3. k # m => r[k + 1] = s[(k + 1) + 1]
        BY <2>3
      <4> QED
        BY <2>1, <4>1, <4>2, <4>3
    <3> QED
      BY <3>1
  <2>8. ASSUME NEW fd \in Fd
        PROVE  (\E k \in 1 .. m : r[k] = fd) <=> (\E k \in 1 .. n : s[k] = fd) /\ fd # no
    <3>1. ASSUME NEW k \in 1 .. m, r[k] = fd
          PROVE  (\E j \in 1 .. n : s[j] = fd) /\ fd # no
      <4>1. s[k + 1] = fd /\ k + 1 \in 1 .. n /\ k + 1 # 1
        BY <2>3, <3>1
      <4> QED
        BY <1>2, <2>1, <4>1 DEF Listed
    <3>2. ASSUME NEW k \in 1 .. n, s[k] = fd, fd # no
          PROVE  \E j \in 1 .. m : r[j] = fd
      <4>1. k # 1 /\ k - 1 \in 1 .. m /\ (k - 1) + 1 = k
        BY <2>1, <3>2
      <4>2. r[k - 1] = s[(k - 1) + 1]
        BY <4>1
      <4> QED
        BY <3>2, <4>1, <4>2
    <3> QED
      BY <3>1, <3>2
  <2> HIDE DEF r, m, no
  <2>9. \A fd \in Fd : (\E k \in 1 .. m : r[k] = fd) <=>
                         fd < tb2.next_free_cd /\ tb2.cd[fd].channel = NoChannel
    BY <1>2, <2>4, <2>8 DEF Listed, no
  <2>10. \A fd \in Fd : fd >= tb2.next_free_cd => tb2.cd[fd].channel = NoChannel
    <3>1. \A fd \in Fd : fd >= tb2.next_free_cd => fd # no
      BY <1>3, <2>2, <2>4
    <3> QED
      BY <1>2, <2>4, <3>1 DEF Listed, no
  <2>11. Listed(tb2, m, r)
    BY <2>5, <2>6, <2>7, <2>9, <2>10 DEF Listed
  <2> QED
    BY <2>2, <2>3, <2>11 DEF FreeListed, no
<1>5. CASE ~(tb.free_cd_head >= 0)
  <2>1. n = 0 /\ no = tb.next_free_cd /\ tb.free_cd_head = -1
    <3>1. n # 0 => s[1] \in Fd
      BY <1>2
    <3> QED
      BY <1>2, <1>3, <1>5, <3>1 DEF Listed, NextFd
  <2>2. tb2.free_cd_head = -1 /\ tb2.next_free_cd = no + 1
    BY <1>5, <2>1
  <2>3. tb.cd[no].channel = NoChannel
    BY <1>2, <1>3, <2>1 DEF Listed
  <2>4. \A fd \in Fd : fd < no => tb.cd[fd].channel # NoChannel
    BY <1>2, <1>3, <2>1 DEF Listed
  <2>5. \A fd \in Fd : fd >= no => tb.cd[fd].channel = NoChannel
    BY <1>2, <1>3, <2>1 DEF Listed
  <2>6. no + 1 \in 0 .. MaxFds
    BY <1>3, FdNumbers
  <2> HIDE DEF no
  <2>7. \A fd \in Fd : tb2.cd[fd].channel # NoChannel <=> fd < no + 1
    <3>1. \A fd \in Fd : (fd < no + 1 <=> fd < no \/ fd = no) /\ (~(fd < no) => fd >= no)
      BY <1>3
    <3> QED
      BY <2>4, <2>5, <3>1 DEF no
  <2> QED
    BY <2>2, <2>3, <2>6, <2>7, ClearListed DEF no
<1> QED
  BY <1>4, <1>5

(* Nothing but flags has changed. *)
LEMMA SameListed ==
    ASSUME NEW tb, FreeListed(tb), NEW tb2,
           tb2.free_cd_head = tb.free_cd_head, tb2.next_free_cd = tb.next_free_cd,
           \A fd \in Fd : /\ tb2.cd[fd].channel = tb.cd[fd].channel
                          /\ tb2.cd[fd].next_free_cd = tb.cd[fd].next_free_cd
    PROVE  FreeListed(tb2)
<1>1. PICK n \in Nat : \E s \in [1 .. n -> Fd] : Listed(tb, n, s)
  BY DEF FreeListed
<1>2. PICK s \in [1 .. n -> Fd] : Listed(tb, n, s)
  BY <1>1
<1>3. \A k \in 1 .. n : s[k] \in Fd
  OBVIOUS
<1>4. Listed(tb2, n, s)
  BY <1>2, <1>3 DEF Listed
<1> QED
  BY <1>4 DEF FreeListed

(* free_channel_desc puts an open descriptor in front of the list. *)
LEMMA ReleasedListed ==
    ASSUME NEW tb \in Table, FreeListed(tb), NEW no \in Fd,
           tb.cd[no].channel # NoChannel, NEW tb2,
           tb2.free_cd_head = no, tb2.next_free_cd = tb.next_free_cd,
           \A fd \in Fd :
              /\ tb2.cd[fd].channel = IF fd = no THEN NoChannel ELSE tb.cd[fd].channel
              /\ tb2.cd[fd].next_free_cd =
                    IF fd = no THEN tb.free_cd_head ELSE tb.cd[fd].next_free_cd
    PROVE  FreeListed(tb2)
<1>1. PICK n \in Nat : \E s \in [1 .. n -> Fd] : Listed(tb, n, s)
  BY DEF FreeListed
<1>2. PICK s \in [1 .. n -> Fd] : Listed(tb, n, s)
  BY <1>1
<1> DEFINE m == n + 1
           r == [k \in 1 .. m |-> IF k = 1 THEN no ELSE s[k - 1]]
<1>3. /\ no \in Nat /\ tb.next_free_cd \in 0 .. MaxFds /\ \A k \in 1 .. n : s[k] \in Fd
      /\ MaxFds \in Nat
  BY TableParts, FdNumbers
<1>4. no < tb.next_free_cd /\ \A k \in 1 .. n : s[k] # no
  <2>1. ~(no >= tb.next_free_cd)
    BY <1>2 DEF Listed
  <2> QED
    BY <1>2, <1>3, <2>1 DEF Listed
<1>5. /\ m \in Nat /\ r[1] = no /\ 1 \in 1 .. m
      /\ \A k \in 2 .. m : k - 1 \in 1 .. n /\ k \in 1 .. m /\ r[k] = s[k - 1]
      /\ \A k \in 1 .. m : k = 1 \/ k \in 2 .. m
  OBVIOUS
<1>6. r \in [1 .. m -> Fd]
  BY <1>3, <1>5
<1>7. m = n + 1 /\ m # 0
  OBVIOUS
<1> HIDE DEF r, m
<1>8. \A j, k \in 1 .. m : r[j] = r[k] => j = k
  <2>1. ASSUME NEW j \in 2 .. m, NEW k \in 2 .. m, r[j] = r[k] PROVE j = k
    <3>1. j - 1 = k - 1
      BY <1>2, <1>5, <2>1 DEF Listed
    <3> QED
      BY <1>7, <3>1
  <2>2. \A k \in 2 .. m : r[k] # r[1]
    BY <1>4, <1>5
  <2> QED
    BY <1>5, <2>1, <2>2
<1>9. \A k \in 1 .. m : tb2.cd[r[k]].next_free_cd = IF k = m THEN -1 ELSE r[k + 1]
  <2>1. ASSUME NEW k \in 2 .. m
        PROVE  tb2.cd[r[k]].next_free_cd = IF k = m THEN -1 ELSE r[k + 1]
    <3>1. r[k] = s[k - 1] /\ k - 1 \in 1 .. n /\ s[k - 1] \in Fd /\ s[k - 1] # no
      BY <1>3, <1>4, <1>5
    <3>2. tb2.cd[s[k - 1]].next_free_cd = IF k - 1 = n THEN -1 ELSE s[(k - 1) + 1]
      BY <1>2, <3>1 DEF Listed
    <3>3. k # m => k + 1 \in 2 .. m
      BY <1>7
    <3>4. k # m => r[k + 1] = s[(k + 1) - 1]
      BY <1>5, <3>3
    <3>5. (k - 1) + 1 = (k + 1) - 1 /\ (k - 1 = n <=> k = m)
      BY <1>7
    <3> QED
      BY <3>1, <3>2, <3>4, <3>5
  <2>2. tb2.cd[r[1]].next_free_cd = IF m = 1 THEN -1 ELSE r[1 + 1]
    <3>1. tb2.cd[r[1]].next_free_cd = IF n = 0 THEN -1 ELSE s[1]
      BY <1>2, <1>5 DEF Listed
    <3>2. n # 0 => 2 \in 2 .. m /\ 2 - 1 = 1 /\ 1 + 1 = 2
      BY <1>7
    <3>3. n # 0 => r[1 + 1] = s[1]
      BY <1>5, <3>2
    <3> QED
      BY <1>7, <3>1, <3>3
  <2> QED
    BY <1>5, <2>1, <2>2
<1>10. ASSUME NEW fd \in Fd
       PROVE  (\E k \in 1 .. m : r[k] = fd) <=> (\E k \in 1 .. n : s[k] = fd) \/ fd = no
  <2>1. ASSUME NEW k \in 1 .. n, s[k] = fd PROVE \E j \in 1 .. m : r[j] = fd
    <3>1. k + 1 \in 2 .. m /\ (k + 1) - 1 = k
      BY <1>7
    <3>2. r[k + 1] = fd /\ k + 1 \in 1 .. m
      BY <1>5, <2>1, <3>1
    <3> QED
      BY <3>2
  <2> QED
    BY <1>5, <2>1
<1>11. \A fd \in Fd : (\E k \in 1 .. m : r[k] = fd) <=>
                         fd < tb2.next_free_cd /\ tb2.cd[fd].channel = NoChannel
  BY <1>2, <1>4, <1>10 DEF Listed
<1>12. \A fd \in Fd : fd >= tb2.next_free_cd => tb2.cd[fd].channel = NoChannel
  BY <1>2 DEF Listed
<1>13. Listed(tb2, m, r)
  BY <1>5, <1>7, <1>8, <1>9, <1>11, <1>12 DEF Listed
<1> QED
  BY <1>5, <1>6, <1>13 DEF FreeListed

(* What the operations do to a table, part by part. *)
LEMMA OpenedParts ==
    ASSUME NEW tb \in Table, NEW t \in Task, NextFd(tb) >= 0, NEW c, NEW flags
    PROVE  LET no  == NextFd(tb)
               new == Install(TakeFd(tb, t), no, c, flags)
           IN  /\ new.free_cd_head = IF tb.free_cd_head >= 0 THEN tb.cd[no].next_free_cd
                                     ELSE tb.free_cd_head
               /\ new.next_free_cd = IF tb.free_cd_head >= 0 THEN tb.next_free_cd
                                     ELSE tb.next_free_cd + 1
               /\ \A fd \in Fd : new.cd[fd].next_free_cd = tb.cd[fd].next_free_cd
<1> DEFINE no  == NextFd(tb)
           mid == TakeFd(tb, t)
           new == Install(mid, no, c, flags)
<1>1. no \in Fd /\ tb.cd \in [Fd -> Desc] /\ mid \in Table
  BY NextFdType, TableParts, TakeFdType
<1>2. /\ mid.cd = [tb.cd EXCEPT ![no].task = t]
      /\ mid.free_cd_head = IF tb.free_cd_head >= 0 THEN tb.cd[no].next_free_cd
                            ELSE tb.free_cd_head
      /\ mid.next_free_cd = IF tb.free_cd_head >= 0 THEN tb.next_free_cd
                            ELSE tb.next_free_cd + 1
  BY DEF TakeFd
<1> HIDE DEF no, mid
<1>3. \A fd \in Fd : mid.cd[fd].next_free_cd = tb.cd[fd].next_free_cd
  BY <1>1, <1>2 DEF Desc
<1>4. /\ mid = [cd |-> mid.cd, free_cd_head |-> mid.free_cd_head,
                next_free_cd |-> mid.next_free_cd]
      /\ mid.cd \in [Fd -> Desc] /\ \A fd \in Fd : mid.cd[fd] \in Desc
  BY <1>1, TableParts
<1>5. /\ new.free_cd_head = mid.free_cd_head /\ new.next_free_cd = mid.next_free_cd
      /\ \A fd \in Fd : new.cd[fd].next_free_cd = mid.cd[fd].next_free_cd
  BY <1>1, <1>4 DEF Install, Desc
<1> QED
  BY <1>2, <1>3, <1>5 DEF no, mid

LEMMA OpenedListed ==
    ASSUME NEW tb \in Table, FreeListed(tb), NEW t \in Task, NextFd(tb) >= 0,
           NEW c \in Channel, NEW flags
    PROVE  /\ FreeListed(Install(TakeFd(tb, t), NextFd(tb), c, flags))
           /\ tb.cd[NextFd(tb)].channel = NoChannel
<1> DEFINE new == Install(TakeFd(tb, t), NextFd(tb), c, flags)
<1>1. /\ new.free_cd_head = IF tb.free_cd_head >= 0 THEN tb.cd[NextFd(tb)].next_free_cd
                            ELSE tb.free_cd_head
      /\ new.next_free_cd = IF tb.free_cd_head >= 0 THEN tb.next_free_cd
                            ELSE tb.next_free_cd + 1
      /\ \A fd \in Fd : new.cd[fd].next_free_cd = tb.cd[fd].next_free_cd
  BY OpenedParts
<1>2. \A fd \in Fd : new.cd[fd].channel = IF fd = NextFd(tb) THEN c ELSE tb.cd[fd].channel
  BY OpenedTable
<1> HIDE DEF new
<1>3. FreeListed(new) /\ tb.cd[NextFd(tb)].channel = NoChannel
  BY <1>1, <1>2, ChannelAssumption, TakenListed
<1> QED
  BY <1>3 DEF new

LEMMA ReleaseFdListed ==
    ASSUME NEW tb \in Table, FreeListed(tb), NEW no \in Fd, tb.cd[no].channel # NoChannel
    PROVE  FreeListed(ReleaseFd(tb, no))
<1> DEFINE new == ReleaseFd(tb, no)
<1>1. /\ tb = [cd |-> tb.cd, free_cd_head |-> tb.free_cd_head,
               next_free_cd |-> tb.next_free_cd]
      /\ tb.cd \in [Fd -> Desc] /\ \A fd \in Fd : tb.cd[fd] \in Desc
  BY TableParts
<1>2. /\ new.free_cd_head = no /\ new.next_free_cd = tb.next_free_cd
      /\ \A fd \in Fd : new.cd[fd].next_free_cd =
            IF fd = no THEN tb.free_cd_head ELSE tb.cd[fd].next_free_cd
  BY <1>1 DEF ReleaseFd, Desc
<1>3. \A fd \in Fd : new.cd[fd].channel = IF fd = no THEN NoChannel ELSE tb.cd[fd].channel
  BY ReleaseFdChannels
<1> HIDE DEF new
<1>4. FreeListed(new)
  BY <1>2, <1>3, ReleasedListed
<1> QED
  BY <1>4 DEF new

-----------------------------------------------------------------------------
(* References.                                                             *)

(* What is open to task i stays open to it, on the same channel. *)
KeepsOpen(i) ==
    \A fd \in Fd : ChannelOf(i, fd) # NoChannel =>
        table'[i].cd[fd].channel = ChannelOf(i, fd)

BlockedKeep == \A i \in Task : state[i] \in Blocked => KeepsOpen(i)

(* The descriptors F of t are closed, the nodes A(c) are opened on c. *)
LEMMA CountedOpen ==
    ASSUME NEW t \in Task, NEW tb, NEW F \in SUBSET Fd, NEW c,
           \A fd \in F : tb.cd[fd].channel = ChannelOf(t, fd),
           NEW A, IsFiniteSet(A), A \cap OpenOn(c) = {}, NEW S,
           S = (OpenOn(c) \ ({t} \X F)) \cup A
    PROVE  Cardinality(S) = (Cardinality(OpenOn(c)) - ClosedOn(tb, F, c)) + Cardinality(A)
<1> DEFINE D == OpenOn(c) \ ({t} \X F)
           k == ClosedOn(tb, F, c)
           o == Cardinality(OpenOn(c))
<1>1. IsFiniteSet(D) /\ Cardinality(D) \in Nat /\ Cardinality(D) = o - k /\ k \in Nat
  BY LeftOpen
<1>2. Cardinality(A) \in Nat /\ S = D \cup A /\ D \cap A = {}
  BY FS_CardinalityType
<1> HIDE DEF D, k, o
<1>3. Cardinality(D \cup A) = Cardinality(D) + Cardinality(A) - Cardinality(D \cap A)
  BY <1>1, FS_Union
<1>4. o \in Nat
  BY OpenFinite DEF o
<1>5. Cardinality(D \cap A) = 0
  BY <1>2, FS_EmptySet
<1>6. Cardinality(S) = Cardinality(D \cup A)
  BY <1>2, Zenon
<1>7. Cardinality(S) = (o - k) + Cardinality(A)
  BY <1>1, <1>2, <1>3, <1>4, <1>5, <1>6
<1> QED
  BY <1>7 DEF o, k

LEMMA SameFds ==
    ASSUME FdInv, UNCHANGED <<table, refcount>>
    PROVE  FdInv' /\ BlockedKeep
<1>1. FdsListed' /\ TasksSet'
  BY DEF FdInv, FdsListed, TasksSet, ChannelOf
<1>2. \A c \in Channel : OpenOn(c)' = OpenOn(c)
  BY DEF OpenOn, ChannelOf
<1>3. RefcountIsOpen'
  BY <1>2 DEF FdInv, RefcountIsOpen
<1>4. BlockedKeep
  BY DEF BlockedKeep, KeepsOpen, ChannelOf
<1> QED
  BY <1>1, <1>3, <1>4 DEF FdInv

(* A descriptor is opened on channel c (sys_channel, sys_dup, and the      *)
(* receiver of a channel).                                                 *)
LEMMA OpenFds ==
    ASSUME ChannelTypes, FdInv, NEW u \in Task, NEW c \in Channel, NEW flags,
           NextFd(table[u]) >= 0,
           table'[u] = Install(TakeFd(table[u], u), NextFd(table[u]), c, flags),
           \A i \in Task \ {u} : table'[i] = table[i],
           \A d \in Channel : refcount'[d] = refcount[d] + (IF d = c THEN 1 ELSE 0)
    PROVE  /\ FdInv' /\ BlockedKeep
           /\ ChannelOf(u, NextFd(table[u])) = NoChannel /\ NextFd(table[u]) \in Fd
<1> DEFINE no == NextFd(table[u])
<1>1. table[u] \in Table /\ FreeListed(table[u])
  BY DEF ChannelTypes, FdInv, FdsListed
<1>2. FreeListed(table'[u]) /\ ChannelOf(u, no) = NoChannel
  BY <1>1, OpenedListed DEF ChannelOf
<1>3. /\ no \in Fd
      /\ \A fd \in Fd :
            /\ table'[u].cd[fd].channel = IF fd = no THEN c ELSE ChannelOf(u, fd)
            /\ table'[u].cd[fd].task = IF fd = no THEN u ELSE table[u].cd[fd].task
  BY <1>1, OpenedTable DEF ChannelOf
<1>4. \A i \in Task \ {u}, fd \in Fd :
         table'[i].cd[fd].channel = ChannelOf(i, fd) /\ table'[i].cd[fd].task = table[i].cd[fd].task
  BY DEF ChannelOf
<1> HIDE DEF no
<1>5. FdsListed'
  BY <1>2 DEF FdInv, FdsListed
<1>6. TasksSet'
  BY <1>3, <1>4 DEF FdInv, TasksSet, ChannelOf
<1>7. ASSUME NEW d \in Channel PROVE refcount'[d] = Cardinality(OpenOn(d))'
  <2> DEFINE S == (OpenOn(d))'
             A == IF d = c THEN {<<u, no>>} ELSE {}
  <2>1. refcount[d] = Cardinality(OpenOn(d)) /\ Cardinality(OpenOn(d)) \in Nat
    BY OpenFinite DEF FdInv, RefcountIsOpen
  <2>2. IsFiniteSet(A) /\ Cardinality(A) = IF d = c THEN 1 ELSE 0
    BY FS_EmptySet, FS_Singleton
  <2>3. A \cap OpenOn(d) = {}
    BY <1>2, ChannelAssumption DEF OpenOn
  <2>4. S = (OpenOn(d) \ ({u} \X {})) \cup A
    <3>1. ASSUME NEW n \in Node PROVE n \in S <=> n \in OpenOn(d) \/ n \in A
      <4>1. n[1] \in Task /\ n[2] \in Fd /\ n = <<n[1], n[2]>>
        BY DEF Node
      <4>2. n \in S <=> table'[n[1]].cd[n[2]].channel = d
        BY DEF OpenOn, ChannelOf
      <4>3. n \in OpenOn(d) <=> ChannelOf(n[1], n[2]) = d
        BY DEF OpenOn
      <4>4. n \in A <=> d = c /\ n[1] = u /\ n[2] = no
        BY <4>1
      <4> HIDE DEF S, A
      <4>5. ChannelOf(u, no) # d
        BY <1>2, ChannelAssumption
      <4> QED
        BY <1>3, <1>4, <4>1, <4>2, <4>3, <4>4, <4>5
    <3>2. S \subseteq Node /\ OpenOn(d) \subseteq Node /\ A \subseteq Node
      BY <1>3 DEF OpenOn, Node
    <3> HIDE DEF S, A
    <3> QED
      BY <3>1, <3>2
  <2> HIDE DEF S, A
  <2>5. Cardinality(S) = (Cardinality(OpenOn(d)) - ClosedOn(table[u], {}, d)) + Cardinality(A)
    BY <2>2, <2>3, <2>4, CountedOpen
  <2>6. ClosedOn(table[u], {}, d) = 0
    BY ClosedNone
  <2> QED
    BY <2>1, <2>2, <2>5, <2>6 DEF S
<1>8. RefcountIsOpen'
  BY <1>7 DEF RefcountIsOpen
<1>9. BlockedKeep
  <2>1. \A i \in Task : KeepsOpen(i)
    BY <1>2, <1>3, <1>4 DEF KeepsOpen
  <2> QED
    BY <2>1 DEF BlockedKeep
<1> QED
  BY <1>2, <1>3, <1>5, <1>6, <1>8, <1>9 DEF FdInv, no

(* The descriptors F of t are closed (sys_close, exit_task). *)
LEMMA CloseFds ==
    ASSUME ChannelTypes, FdInv, NEW t \in Task, state[t] = "RUNNING", NEW F \in SUBSET Fd,
           FreeListed(table'[t]),
           \A fd \in Fd : table'[t].cd[fd].channel = IF fd \in F THEN NoChannel
                                                     ELSE ChannelOf(t, fd),
           \A fd \in Fd : \/ table'[t].cd[fd].task = table[t].cd[fd].task
                          \/ table'[t].cd[fd].channel = NoChannel,
           \A i \in Task \ {t} : table'[i] = table[i],
           \A d \in Channel : refcount'[d] = refcount[d] - ClosedOn(table[t], F, d)
    PROVE  FdInv' /\ BlockedKeep
<1>1. FdsListed'
  BY DEF FdInv, FdsListed
<1>2. \A i \in Task \ {t}, fd \in Fd :
         table'[i].cd[fd].channel = ChannelOf(i, fd) /\ table'[i].cd[fd].task = table[i].cd[fd].task
  BY DEF ChannelOf
<1>3. TasksSet'
  <2>1. ASSUME NEW i \in Task, NEW fd \in Fd, table'[i].cd[fd].channel # NoChannel
        PROVE  table'[i].cd[fd].task = i
    <3>1. ChannelOf(i, fd) # NoChannel /\ table'[i].cd[fd].task = table[i].cd[fd].task
      BY <1>2, <2>1
    <3> QED
      BY <3>1 DEF FdInv, TasksSet
  <2> QED
    BY <2>1 DEF TasksSet, ChannelOf
<1>4. ASSUME NEW d \in Channel PROVE refcount'[d] = Cardinality(OpenOn(d))'
  <2> DEFINE S == (OpenOn(d))'
             A == {}
  <2>1. refcount[d] = Cardinality(OpenOn(d)) /\ Cardinality(OpenOn(d)) \in Nat
    BY OpenFinite DEF FdInv, RefcountIsOpen
  <2>2. IsFiniteSet(A) /\ Cardinality(A) = 0 /\ A \cap OpenOn(d) = {}
    BY FS_EmptySet
  <2>3. S = (OpenOn(d) \ ({t} \X F)) \cup A
    <3>1. ASSUME NEW n \in Node PROVE n \in S <=> n \in OpenOn(d) /\ n \notin {t} \X F
      <4>1. n[1] \in Task /\ n[2] \in Fd /\ n = <<n[1], n[2]>>
        BY DEF Node
      <4>2. n \in S <=> table'[n[1]].cd[n[2]].channel = d
        BY DEF OpenOn, ChannelOf
      <4>3. n \in OpenOn(d) <=> ChannelOf(n[1], n[2]) = d
        BY DEF OpenOn
      <4>4. n \in {t} \X F <=> n[1] = t /\ n[2] \in F
        BY <4>1
      <4> HIDE DEF S
      <4> QED
        BY <1>2, <4>1, <4>2, <4>3, <4>4, ChannelAssumption
    <3>2. S \subseteq Node /\ OpenOn(d) \subseteq Node
      BY DEF OpenOn
    <3> HIDE DEF S
    <3> QED
      BY <3>1, <3>2
  <2>4. \A fd \in F : table[t].cd[fd].channel = ChannelOf(t, fd)
    BY DEF ChannelOf
  <2> HIDE DEF S, A
  <2>5. Cardinality(S) = (Cardinality(OpenOn(d)) - ClosedOn(table[t], F, d)) + Cardinality(A)
    BY <2>2, <2>3, <2>4, CountedOpen
  <2>6. ClosedOn(table[t], F, d) \in Nat
    BY ClosedOnType
  <2> QED
    BY <2>1, <2>2, <2>5, <2>6 DEF S
<1>5. RefcountIsOpen'
  BY <1>4 DEF RefcountIsOpen
<1>6. BlockedKeep
  <2>1. state[t] \notin Blocked
    BY DEF Blocked
  <2> QED
    BY <1>2, <2>1 DEF BlockedKeep, KeepsOpen
<1> QED
  BY <1>1, <1>3, <1>5, <1>6 DEF FdInv

-----------------------------------------------------------------------------
(* The operations.                                                         *)

LEMMA NewChannelFds ==
    ASSUME TypeOK, ChannelInv, FdInv, NEW t \in Task, NewChannel(t)
    PROVE  FdInv' /\ BlockedKeep
<1> DEFINE no == NextFd(table[t])
<1>1. CASE UNCHANGED chanVars
  BY <1>1, SameFds DEF chanVars
<1>2. ASSUME no >= 0, NEW c \in free_channel, refcount' = [refcount EXCEPT ![c] = 1],
             table' = [table EXCEPT ![t] =
                          Install(TakeFd(@, t), no, c, {"RECV", "SEND"})]
      PROVE  FdInv' /\ BlockedKeep
  <2>1. /\ DOMAIN table = Task /\ ChannelTypes /\ refcount \in [Channel -> Int]
        /\ c \in Channel
    BY DEF TypeOK, ChannelTypes
  <2>2. /\ table'[t] = Install(TakeFd(table[t], t), NextFd(table[t]), c, {"RECV", "SEND"})
        /\ \A i \in Task \ {t} : table'[i] = table[i]
    BY <1>2, <2>1
  <2>3. refcount[c] = 0
    BY <2>1 DEF ChannelInv, RefInv, FreeUnreferred
  <2>4. \A d \in Channel : refcount'[d] = refcount[d] + (IF d = c THEN 1 ELSE 0)
    BY <1>2, <2>1, <2>3
  <2> QED
    BY <1>2, <2>1, <2>2, <2>4, OpenFds
<1> QED
  BY <1>1, <1>2 DEF NewChannel, Answer, Panic

LEMMA DupFds ==
    ASSUME TypeOK, FdInv, NEW t \in Task, NEW oldfd, Dup(t, oldfd, -1)
    PROVE  FdInv' /\ BlockedKeep
<1> DEFINE no  == NextFd(table[t])
           tb  == TakeFd(table[t], t)
           c   == ChannelOf(t, oldfd)
           F   == IF tb.cd[no].channel = NoChannel THEN {} ELSE {no}
           tb2 == IF F = {} THEN tb ELSE ReleaseFd(tb, no)
           flags == tb.cd[oldfd].flags
<1>1. CASE UNCHANGED chanVars
  BY <1>1, SameFds DEF chanVars
<1>2. CASE /\ DupError(t, oldfd, -1) = 0
           /\ table' = [table EXCEPT ![t] = Install(tb2, no, c, flags)]
           /\ refcount' = [d \in Channel |-> refcount[d]
                             - ClosedOn(tb, F, d) + (IF d = c THEN 1 ELSE 0)]
  <2>1. ValidChannel(t, oldfd) /\ ~(no < 0)
    BY <1>2 DEF DupError, EBADF, EMFILE
  <2>2. /\ ChannelTypes /\ DOMAIN table = Task /\ table[t] \in Table
        /\ refcount \in [Channel -> Int] /\ c \in Channel
    BY <2>1, ValidChannelType DEF TypeOK, ChannelTypes
  <2>3. no >= 0 /\ no \in Fd
    <3>1. no \in Fd \cup {-1}
      BY <2>2, NextFdType
    <3> HIDE DEF no
    <3> QED
      BY <2>1, <3>1, FdNumbers
  <2>4. table[t].cd[no].channel = NoChannel
    BY <2>2, <2>3, OpenedListed DEF FdInv, FdsListed
  <2>5. tb.cd[no].channel = NoChannel
    BY <2>2, <2>3, <2>4, TakeFdChannels
  <2>6. F = {} /\ tb2 = tb
    BY <2>5
  <2> HIDE DEF c, flags
  <2>7. table'[t] = Install(tb, no, c, flags) /\ \A i \in Task \ {t} : table'[i] = table[i]
    BY <1>2, <2>2, <2>6
  <2>8. \A d \in Channel : refcount'[d] = refcount[d] + (IF d = c THEN 1 ELSE 0)
    BY <1>2, <2>2, <2>6, ClosedNone
  <2> QED
    BY <2>2, <2>3, <2>7, <2>8, OpenFds
<1> QED
  BY <1>1, <1>2 DEF Dup, Answer, Panic

LEMMA DupSelfFds ==
    ASSUME TypeOK, FdInv, NEW t \in Task, NEW fd, NEW flags, DupSelf(t, fd, flags)
    PROVE  FdInv' /\ BlockedKeep
<1>1. /\ fd \in Fd /\ table[t] \in Table /\ DOMAIN table = Task
      /\ table' = [table EXCEPT ![t].cd[fd].flags = flags] /\ refcount' = refcount
  BY ValidChannelType DEF DupSelf, TypeOK, ChannelTypes
<1>2. /\ table[t] = [cd |-> table[t].cd, free_cd_head |-> table[t].free_cd_head,
                     next_free_cd |-> table[t].next_free_cd]
      /\ table[t].cd \in [Fd -> Desc] /\ \A d \in Fd : table[t].cd[d] \in Desc
  BY <1>1, TableParts
<1>3. table'[t] = [table[t] EXCEPT !.cd[fd].flags = flags]
  BY <1>1
<1>4. /\ table'[t].free_cd_head = table[t].free_cd_head
      /\ table'[t].next_free_cd = table[t].next_free_cd
      /\ \A d \in Fd : /\ table'[t].cd[d].channel = table[t].cd[d].channel
                       /\ table'[t].cd[d].task = table[t].cd[d].task
                       /\ table'[t].cd[d].next_free_cd = table[t].cd[d].next_free_cd
  BY <1>1, <1>2, <1>3 DEF Desc
<1>5. \A i \in Task \ {t} : table'[i] = table[i]
  BY <1>1
<1>6. \A i \in Task, d \in Fd : /\ table'[i].cd[d].channel = ChannelOf(i, d)
                                /\ table'[i].cd[d].task = table[i].cd[d].task
  BY <1>4, <1>5 DEF ChannelOf
<1>7. FdsListed'
  <2>1. FreeListed(table'[t])
    BY <1>4, SameListed DEF FdInv, FdsListed
  <2> QED
    BY <1>5, <2>1 DEF FdInv, FdsListed
<1>8. TasksSet' /\ BlockedKeep
  BY <1>6 DEF FdInv, TasksSet, ChannelOf, BlockedKeep, KeepsOpen
<1>9. \A d \in Channel : OpenOn(d)' = OpenOn(d)
  BY <1>6 DEF OpenOn, ChannelOf, Node
<1>10. RefcountIsOpen'
  BY <1>1, <1>9 DEF FdInv, RefcountIsOpen
<1> QED
  BY <1>7, <1>8, <1>10 DEF FdInv

LEMMA CloseFdsOf ==
    ASSUME QueueInv, FdInv, NEW t \in Task, NEW no, Close(t, no)
    PROVE  FdInv' /\ BlockedKeep
<1> DEFINE F == {no}
<1>1. TypeOK /\ state[t] = "RUNNING"
  BY CallerFacts DEF QueueInv, Close, Caller
<1>2. CASE UNCHANGED chanVars
  BY <1>2, SameFds DEF chanVars
<1>3. CASE /\ ValidChannel(t, no)
           /\ table' = [table EXCEPT ![t] = ReleaseFd(@, no)]
           /\ refcount' = [refcount EXCEPT ![ChannelOf(t, no)] = @ - 1]
  <2>1. /\ no \in Fd /\ ChannelOf(t, no) \in Channel /\ ChannelOf(t, no) # NoChannel
        /\ ChannelTypes /\ table[t] \in Table /\ DOMAIN table = Task
        /\ refcount \in [Channel -> Int]
    BY <1>1, <1>3, ValidChannelType DEF TypeOK, ChannelTypes, ValidChannel
  <2>2. table'[t] = ReleaseFd(table[t], no) /\ \A i \in Task \ {t} : table'[i] = table[i]
    BY <1>3, <2>1
  <2>3. FreeListed(table'[t])
    BY <2>1, <2>2, ReleaseFdListed DEF FdInv, FdsListed, ChannelOf
  <2>4. \A fd \in Fd : /\ table'[t].cd[fd].channel = IF fd \in F THEN NoChannel
                                                     ELSE ChannelOf(t, fd)
                       /\ table'[t].cd[fd].task = table[t].cd[fd].task
    BY <2>1, <2>2, ReleaseFdChannels, ReleaseFdTasks DEF ChannelOf
  <2>5. ASSUME NEW d \in Channel
        PROVE  refcount'[d] = refcount[d] - ClosedOn(table[t], F, d)
    <3>1. ClosedOn(table[t], F, d) = IF ChannelOf(t, no) = d THEN 1 ELSE 0
      BY <2>1, ClosedOne DEF ChannelOf
    <3>2. refcount'[d] = IF d = ChannelOf(t, no) THEN refcount[d] - 1 ELSE refcount[d]
      BY <1>3, <2>1
    <3>3. refcount[d] \in Int
      BY <2>1
    <3> QED
      BY <3>1, <3>2, <3>3
  <2>6. F \in SUBSET Fd
    BY <2>1
  <2> HIDE DEF F
  <2> QED
    BY <1>1, <2>1, <2>2, <2>3, <2>4, <2>5, <2>6, CloseFds
<1> QED
  BY <1>2, <1>3 DEF Close, Answer, Panic

LEMMA ExitTaskFds ==
    ASSUME QueueInv, FdInv, NEW t \in Task, ExitTask(t)
    PROVE  FdInv' /\ BlockedKeep
<1> DEFINE open == {fd \in Fd : ChannelOf(t, fd) # NoChannel}
<1>1. TypeOK /\ state[t] = "RUNNING"
  BY CallerFacts DEF QueueInv, ExitTask, Caller
<1>2. CASE UNCHANGED chanVars
  BY <1>2, SameFds DEF chanVars
<1>3. CASE /\ table' = [table EXCEPT ![t] = ClearTable(0)]
           /\ refcount' = [c \in Channel |-> refcount[c] - ClosedOn(table[t], open, c)]
  <2>1. DOMAIN table = Task /\ ChannelTypes
    BY <1>1 DEF TypeOK, ChannelTypes
  <2>2. table'[t] = ClearTable(0) /\ \A i \in Task \ {t} : table'[i] = table[i]
    BY <1>3, <2>1
  <2>3. /\ table'[t].free_cd_head = -1 /\ table'[t].next_free_cd = 0
        /\ \A fd \in Fd : table'[t].cd[fd].channel = NoChannel
    BY <2>2 DEF ClearTable, ClearDesc
  <2>4. 0 \in 0 .. MaxFds /\ \A fd \in Fd : ~(fd < 0)
    BY FdNumbers
  <2>5. FreeListed(table'[t])
    BY <2>3, <2>4, ClearListed
  <2>6. open \in SUBSET Fd /\ \A fd \in Fd : fd \notin open => ChannelOf(t, fd) = NoChannel
    OBVIOUS
  <2>7. \A d \in Channel : refcount'[d] = refcount[d] - ClosedOn(table[t], open, d)
    BY <1>3
  <2> HIDE DEF open
  <2> QED
    BY <1>1, <2>1, <2>2, <2>3, <2>5, <2>6, <2>7, CloseFds
<1> QED
  BY <1>2, <1>3 DEF ExitTask, Panic

LEMMA SpawnFds ==
    ASSUME QueueInv, NodeInv, FdInv, NEW t \in Task, NEW prio,
           NEW chans \in Seq(AnyFd), NEW flags, Spawn(t, prio, chans, flags)
    PROVE  FdInv' /\ BlockedKeep
<1> DEFINE free == queue[<<"free", 0>>]
           i == IF free = <<>> THEN next_tidx ELSE Head(free)
<1>1. TypeOK /\ Settled(state, queue)
  BY DEF QueueInv
<1>2. CASE UNCHANGED chanVars
  BY <1>2, SameFds DEF chanVars
<1>3. CASE /\ SpawnError(t, prio, chans, flags) = 0
           /\ table' = [table EXCEPT ![i] = SpawnTable(t, i, chans)]
           /\ refcount' = [c \in Channel |-> refcount[c] + Cardinality(Entries(t, chans, c))]
  <2>1. /\ Len(chans) \in 0 .. MaxFds /\ DOMAIN chans = 1 .. Len(chans)
        /\ \A k \in DOMAIN chans : ValidChannel(t, chans[k])
        /\ ~(free = <<>> /\ next_tidx >= MaxTasks)
    <3>1. SpawnError(t, prio, chans, flags) = 0
      BY <1>3
    <3>2. /\ ~(flags \notin {0, 1} \/ prio \notin Prio \/ Len(chans) > MaxFds)
          /\ ~(\E k \in DOMAIN chans : ~ValidChannel(t, chans[k]))
          /\ ~(queue[<<"free", 0>>] = <<>> /\ next_tidx >= MaxTasks)
      BY <3>1 DEF SpawnError, EINVAL, EBADF, ENOMEM
    <3>3. Len(chans) \in Nat /\ MaxFds \in Nat /\ DOMAIN chans = 1 .. Len(chans)
      BY LenProperties, MaxFdsAssumption
    <3> QED
      BY <3>2, <3>3
  <2>2. i \in Task /\ state[i] = "DEAD"
    <3> HIDE DEF free
    <3> QED
      BY <1>1, <2>1, SpawnTakesFree DEF free
  <2> HIDE DEF i, free
  <2>3. /\ DOMAIN table = Task /\ refcount \in [Channel -> Int]
        /\ \A fd \in Fd : ChannelOf(i, fd) = NoChannel
    BY <1>1, <2>2 DEF TypeOK, ChannelTypes, NodeInv, DeadClosed
  <2>4. /\ table'[i] = SpawnTable(t, i, chans)
        /\ \A j \in Task \ {i} : table'[j] = table[j]
    BY <1>3, <2>2, <2>3
  <2>5. \A fd \in Fd : fd < Len(chans) =>
           /\ ChannelOf(t, chans[fd + 1]) \in Channel
           /\ ChannelOf(t, chans[fd + 1]) # NoChannel
    <3>1. \A fd \in Fd : fd < Len(chans) => fd + 1 \in DOMAIN chans
      BY <2>1, FdNumbers
    <3> QED
      BY <1>1, <2>1, <3>1, ValidChannelType DEF TypeOK, ValidChannel
  <2>6. /\ table'[i].free_cd_head = -1 /\ table'[i].next_free_cd = Len(chans)
        /\ \A fd \in Fd :
              /\ table'[i].cd[fd].channel =
                    IF fd < Len(chans) THEN ChannelOf(t, chans[fd + 1]) ELSE NoChannel
              /\ fd < Len(chans) => table'[i].cd[fd].task = i
    <3> DEFINE tb == SpawnTable(t, i, chans)
               n  == Len(chans)
    <3>1. /\ tb.free_cd_head = -1 /\ tb.next_free_cd = n
          /\ tb.cd = [fd \in Fd |->
                        IF fd < n
                        THEN [ClearDesc EXCEPT !.channel = ChannelOf(t, chans[fd + 1]),
                                               !.flags = table[t].cd[chans[fd + 1]].flags,
                                               !.task = i]
                        ELSE ClearDesc]
      BY DEF SpawnTable, ClearTable
    <3> HIDE DEF tb, n
    <3>2. \A fd \in Fd : tb.cd[fd].channel = IF fd < n THEN ChannelOf(t, chans[fd + 1])
                                            ELSE NoChannel
      <4>1. \A fd \in Fd : fd < n => tb.cd[fd].channel = ChannelOf(t, chans[fd + 1])
        BY <3>1 DEF ClearDesc
      <4>2. \A fd \in Fd : ~(fd < n) => tb.cd[fd].channel = NoChannel
        <5>1. \A fd \in Fd : ~(fd < n) => tb.cd[fd] = ClearDesc
          BY <3>1
        <5>2. ClearDesc.channel = NoChannel
          BY DEF ClearDesc
        <5> QED
          BY <5>1, <5>2
      <4> QED
        BY <4>1, <4>2
    <3>3. \A fd \in Fd : fd < n => tb.cd[fd].task = i
      BY <3>1 DEF ClearDesc
    <3> QED
      BY <2>4, <3>1, <3>2, <3>3 DEF tb, n
  <2>7. FdsListed'
    <3>1. \A fd \in Fd : table'[i].cd[fd].channel # NoChannel <=> fd < Len(chans)
      BY <2>5, <2>6
    <3>2. FreeListed(table'[i])
      BY <2>1, <2>6, <3>1, ClearListed
    <3> QED
      BY <2>4, <3>2 DEF FdInv, FdsListed
  <2>8. TasksSet'
    <3>1. \A fd \in Fd : table'[i].cd[fd].channel # NoChannel => table'[i].cd[fd].task = i
      BY <2>6
    <3> QED
      BY <2>4, <3>1 DEF FdInv, TasksSet, ChannelOf
  <2>9. ASSUME NEW c \in Channel PROVE refcount'[c] = Cardinality(OpenOn(c))'
    <3> DEFINE S == (OpenOn(c))'
               g == NewFds(t, chans, c)
               k == Entries(t, chans, c)
               A == {i} \X g
    <3>1. Cardinality(k) \in Nat /\ Cardinality(g) = Cardinality(k)
      BY <2>1, SpawnListCounts
    <3>2. g \in SUBSET Fd
      BY DEF NewFds
    <3>3. A \cap OpenOn(c) = {}
      BY <2>3, <3>2, ChannelAssumption DEF OpenOn
    <3>4. S = (OpenOn(c) \ ({t} \X {})) \cup A
      <4>1. ASSUME NEW n \in Node PROVE n \in S <=> n \in OpenOn(c) \/ n \in A
        <5>1. n[1] \in Task /\ n[2] \in Fd /\ n = <<n[1], n[2]>>
          BY DEF Node
        <5>2. n \in S <=> table'[n[1]].cd[n[2]].channel = c
          BY DEF OpenOn, ChannelOf
        <5>3. n \in OpenOn(c) <=> ChannelOf(n[1], n[2]) = c
          BY DEF OpenOn
        <5>4. n \in A <=> n[1] = i /\ n[2] < Len(chans) /\ ChannelOf(t, chans[n[2] + 1]) = c
          BY <5>1 DEF NewFds
        <5> HIDE DEF S, A
        <5>5. CASE n[1] = i
          BY <2>3, <2>6, <5>1, <5>2, <5>3, <5>4, <5>5, ChannelAssumption
        <5>6. CASE n[1] # i
          BY <2>4, <5>1, <5>2, <5>3, <5>4, <5>6 DEF ChannelOf
        <5> QED
          BY <5>5, <5>6
      <4>2. S \subseteq Node /\ OpenOn(c) \subseteq Node /\ A \subseteq Node
        BY <2>2, <3>2 DEF OpenOn, Node
      <4> HIDE DEF S, A
      <4> QED
        BY <4>1, <4>2
    <3> HIDE DEF S, g, k
    <3>5. IsFiniteSet(A) /\ Cardinality(A) = Cardinality(g)
      BY <3>2, NodesOfFds
    <3> HIDE DEF A
    <3>6. Cardinality(S) = (Cardinality(OpenOn(c)) - ClosedOn(table[t], {}, c)) + Cardinality(A)
      BY <3>3, <3>4, <3>5, CountedOpen
    <3>7. ClosedOn(table[t], {}, c) = 0 /\ Cardinality(OpenOn(c)) \in Nat
      BY ClosedNone, OpenFinite
    <3>8. refcount'[c] = refcount[c] + Cardinality(k)
      BY <1>3 DEF k
    <3>9. refcount[c] = Cardinality(OpenOn(c))
      BY DEF FdInv, RefcountIsOpen
    <3> QED
      BY <3>1, <3>5, <3>6, <3>7, <3>8, <3>9 DEF S
  <2>10. RefcountIsOpen'
    BY <2>9 DEF RefcountIsOpen
  <2>11. BlockedKeep
    <3>1. state[i] \notin Blocked
      BY <2>2 DEF Blocked
    <3> QED
      BY <2>4, <3>1 DEF BlockedKeep, KeepsOpen, ChannelOf
  <2> QED
    BY <2>7, <2>8, <2>10, <2>11 DEF FdInv
<1> QED
  BY <1>2, <1>3 DEF Spawn, Answer, Entries

(* The receiver of a channel opens it; otherwise a message changes no      *)
(* descriptor.                                                             *)
LEMMA ExchangeFds ==
    ASSUME QueueInv, FdInv, NEW t \in Task, t # Idle, current = t,
           NEW ev \in PollEvent, NEW c \in Channel, NEW x \in Args, Exchange(t, ev, c, x)
    PROVE  FdInv' /\ BlockedKeep
<1>1. TypeOK
  BY DEF QueueInv
<1>2. CASE \E why : Panic(why)
  BY <1>2, SameFds DEF Panic, chanVars
<1>3. CASE Joins(t, ev, c, x)
  BY <1>3, SameFds DEF Joins, chanVars
<1>4. ASSUME NEW s \in Task, NEW r \in Task, Meets(t, ev, c, x, s, r)
      PROVE  FdInv' /\ BlockedKeep
  <2> DEFINE a  == [args EXCEPT ![t] = x]
             no == NextFd(table[r])
             d  == a[s].chan
             fl == a[s].flags
  <2>1. CASE UNCHANGED <<table, refcount>>
    BY <2>1, SameFds
  <2>2. CASE /\ d # NoChannel /\ no >= 0
             /\ table' = [table EXCEPT ![r] = Install(TakeFd(@, r), no, d, fl)]
             /\ refcount' = [refcount EXCEPT ![d] = @ + 1]
    <3>1. d \in Channel
      <4>1. a \in [Task -> Args]
        BY <1>1 DEF TypeOK, RunTypes
      <4>2. a[s] \in Args
        BY <4>1
      <4> HIDE DEF a
      <4> QED
        BY <2>2, <4>2 DEF Args
    <3> HIDE DEF d, fl
    <3>2. DOMAIN table = Task /\ ChannelTypes /\ refcount \in [Channel -> Int]
      BY <1>1 DEF TypeOK, ChannelTypes
    <3>3. /\ table'[r] = Install(TakeFd(table[r], r), NextFd(table[r]), d, fl)
          /\ \A i \in Task \ {r} : table'[i] = table[i]
      BY <2>2, <3>2
    <3>4. \A e \in Channel : refcount'[e] = refcount[e] + (IF e = d THEN 1 ELSE 0)
      BY <2>2, <3>1, <3>2
    <3> QED
      BY <2>2, <3>1, <3>2, <3>3, <3>4, OpenFds
  <2> QED
    BY <1>4, <2>1, <2>2 DEF Meets
<1> QED
  BY <1>2, <1>3, <1>4, ExchangeCases

LEMMA ChannelCallFds ==
    ASSUME FreshDup, QueueInv, ChannelInv, FdInv, NEW t \in Task, ChannelCall(t)
    PROVE  FdInv' /\ BlockedKeep
<1>1. TypeOK
  BY DEF QueueInv
<1>2. \A fd : Chanflags(t, fd) => FdInv' /\ BlockedKeep
  BY SameFds DEF Chanflags, Answer, chanVars
<1>3. ASSUME NEW fd \in FdArgs, NEW new \in DupTargets, Dup(t, fd, new)
      PROVE  FdInv' /\ BlockedKeep
  <2>1. new = -1
    BY DEF FreshDup
  <2>2. Dup(t, fd, -1)
    BY <1>3, <2>1
  <2> QED
    BY <1>1, <2>2, DupFds
<1> QED
  BY <1>1, <1>2, <1>3, NewChannelFds, CloseFdsOf, DupSelfFds DEF ChannelCall

LEMMA TaskCallFds ==
    ASSUME QueueInv, NodeInv, FdInv, NEW t \in Task, TaskCall(t)
    PROVE  FdInv' /\ BlockedKeep
<1>1. ASSUME NEW prio \in SpawnPrios, NEW chans \in SpawnLists, NEW flags \in 0 .. 2,
             Spawn(t, prio, chans, flags)
      PROVE  FdInv' /\ BlockedKeep
  BY <1>1, SpawnFds, InputAssumption
<1>2. CASE ExitTask(t)
  BY <1>2, ExitTaskFds
<1>3. CASE UNCHANGED chanVars
  BY <1>3, SameFds DEF chanVars
<1>4. /\ Gettid(t) \/ Getptid(t) \/ Yield(t) => UNCHANGED chanVars
      /\ \A id, null : Taskstat(t, id, null) => UNCHANGED chanVars
      /\ \A e : EventWait(t, e) \/ Suspend(t, e) => UNCHANGED chanVars
  BY DEF Gettid, Getptid, Yield, Taskstat, EventWait, Suspend, EventUnblockAll, Answer
<1> QED
  BY <1>1, <1>2, <1>3, <1>4 DEF TaskCall

LEMMA FdStep ==
    ASSUME FreshDup, PollInv, FdInv, [Next]_vars
    PROVE  FdInv' /\ BlockedKeep
<1>1. QueueInv /\ ChannelInv /\ NodeInv /\ TypeOK
  BY DEF PollInv, KernelInv, QueueInv
<1>2. CASE UNCHANGED chanVars
  BY <1>2, SameFds DEF chanVars
<1>3. UNCHANGED vars \/ Schedule => UNCHANGED chanVars
  BY DEF vars, Schedule, Panic
<1>4. \A t : PollCall(t) => UNCHANGED chanVars
  <2>1. \A t, fd, E : PollAdd(t, fd, E) \/ PollRemove(t, fd, E) => UNCHANGED chanVars
    BY DEF PollAdd, PollRemove, Answer
  <2>2. \A t, null : PollWait(t, null) => UNCHANGED chanVars
    BY DEF PollWait, Answer, Panic
  <2> QED
    BY <2>1, <2>2 DEF PollCall
<1>5. \A e : Interrupt(e) => UNCHANGED chanVars
  BY DEF Interrupt, EventUnblockAll
<1>6. ASSUME NEW t \in Task, MessageCall(t)
      PROVE  FdInv' /\ BlockedKeep
  <2>1. (\E r : Answer(t, r)) => UNCHANGED chanVars
    BY DEF Answer
  <2> QED
    BY <1>1, <1>2, <1>6, <2>1, MessageExchanges, ExchangeFds
<1>7. ASSUME NEW t \in Task, ChannelCall(t) \/ TaskCall(t)
      PROVE  FdInv' /\ BlockedKeep
  BY <1>1, <1>7, ChannelCallFds, TaskCallFds
<1> QED
  BY <1>2, <1>3, <1>4, <1>5, <1>6, <1>7 DEF Next, Stopped

(* While a task waits it closes nothing, so that what it waits at stays    *)
(* open to it.                                                             *)
LEMMA WaitersStay ==
    ASSUME TypeOK, Settled(state, queue), Once(queue), WaitersOpen, BlockedKeep, StepKind
    PROVE  WaitersOpen'
<1> SUFFICES ASSUME NEW n \in ChannelQueue, NEW i \in Range(queue'[n])
             PROVE  (HasOpen(i, n[2]))'
  BY DEF WaitersOpen
<1>1. /\ state \in [Task -> TaskState] /\ queue \in [QueueName -> Seq(Task)]
      /\ n \in QueueName /\ n[2] \in Channel
  BY ChannelQueueNames DEF TypeOK, RunTypes, ChannelQueue
<1>2. ASSUME i \in Range(queue[n]) PROVE (HasOpen(i, n[2]))'
  <2>1. i \in Task /\ state[i] \in Blocked
    BY <1>1, <1>2, WaitersBlocked, SMTT(30) DEF Blocked
  <2>2. PICK fd \in Fd : ChannelOf(i, fd) = n[2]
    BY <1>2 DEF WaitersOpen, HasOpen
  <2>3. table'[i].cd[fd].channel = n[2]
    BY <1>1, <2>1, <2>2, ChannelAssumption DEF BlockedKeep, KeepsOpen
  <2> QED
    BY <2>3 DEF HasOpen, ChannelOf
<1>3. CASE queue'[n] = queue[n]
  BY <1>2, <1>3
<1>4. ASSUME NEW t \in Task, NEW ev \in PollEvent, NEW c \in Channel,
             Waits(t, ev, c), HasOpen(t, c)
      PROVE  (HasOpen(i, n[2]))'
  <2> DEFINE mine == <<Side(ev), c>>
  <2>1. CASE n # mine
    <3>1. queue'[n] = queue[n]
      BY <1>4, <2>1 DEF Waits, QueuesStay
    <3> QED
      BY <1>3, <3>1
  <2>2. CASE n = mine
    <3>1. queue'[n] = Append(queue[n], t) /\ queue[n] \in Seq(Task) /\ n[2] = c
      BY <1>1, <1>4, <2>2 DEF Waits
    <3>2. i \in Range(queue[n]) \/ i = t
      <4> DEFINE ts == <<t>>
      <4>1. Append(queue[n], t) = queue[n] \o ts /\ ts \in Seq(Task) /\ Range(ts) = {t}
        BY <3>1, AppendIsConcat, OneElement, SMTT(30)
      <4> HIDE DEF ts
      <4>2. Range(queue[n] \o ts) = Range(queue[n]) \cup Range(ts)
        BY <3>1, <4>1, RangeConcat
      <4> QED
        BY <3>1, <4>1, <4>2
    <3>3. (HasOpen(t, c))'
      BY <1>4 DEF Waits, HasOpen, ChannelOf
    <3> QED
      BY <1>2, <3>1, <3>2, <3>3
  <2> QED
    BY <2>1, <2>2
<1>5. ASSUME NEW t \in Task, NEW ev \in PollEvent, NEW c \in Channel, NEW len, NEW j,
             Serves(t, ev, c, len, j)
      PROVE  (HasOpen(i, n[2]))'
  <2> DEFINE other == <<Other(ev), c>>
  <2>1. CASE n # other
    <3>1. queue'[n] = queue[n]
      BY <1>5, <2>1 DEF Serves, QueuesStay
    <3> QED
      BY <1>3, <3>1
  <2>2. CASE n = other
    <3>1. queue'[n] = Tail(queue[n]) /\ queue[n] # <<>> /\ queue[n] \in Seq(Task)
      BY <1>1, <1>5, <2>2 DEF Serves
    <3>2. i \in Range(queue[n])
      BY <3>1, <1>1, TailInjective DEF Once
    <3> QED
      BY <1>2, <3>2
  <2> QED
    BY <2>1, <2>2
<1>6. (Aside \/ \E t : Dies(t) \/ \E j : Born(t, j)) => queue'[n] = queue[n]
  BY DEF Aside, Dies, Born, QueuesStay
<1> QED
  BY <1>3, <1>4, <1>5, <1>6 DEF StepKind

(* Besides the panics that check the queues (NoQueuePanic): those that     *)
(* check descriptors and poll lists.                                       *)
FdPanics == InternalPanics \ QueuePanics

NoFdPanic == panic \notin FdPanics

DescInv == WaitInv /\ FdInv /\ WaitersOpen

LEMMA FdPanicNames ==
    /\ FdPanics = {"Invalid refcount on channel: receivers still exist",
                   "Invalid refcount on channel: senders still exist",
                   "Invalid refcount on channel: pollers still exist",
                   "Unrecognized channel descriptor on poll queue",
                   "NULL pointer in the kernel", "relinked poll node"}
    /\ "no" \notin FdPanics
BY DEF FdPanics, InternalPanics, QueuePanics, Panics

(* The parts of the invariant the following needs. *)
LEMMA InvParts ==
    ASSUME DescInv
    PROVE  /\ QueueInv /\ NodeInv /\ ChannelInv /\ FdInv /\ WaitersOpen
           /\ TypeOK /\ PollTypes /\ ChannelTypes /\ Settled(state, queue)
           /\ state \in [Task -> TaskState] /\ queue \in [QueueName -> Seq(Task)]
           /\ NodesPlaced /\ TasksSet /\ RefcountIsOpen /\ FdsListed
BY DEF DescInv, WaitInv, PollInv, KernelInv, NodeInv, FdInv, QueueInv, TypeOK, RunTypes

(* The descriptor that is handed out next is closed, and on no list. *)
LEMMA NextClosed ==
    ASSUME NEW tb \in Table, FreeListed(tb), NextFd(tb) >= 0
    PROVE  NextFd(tb) \in Fd /\ tb.cd[NextFd(tb)].channel = NoChannel
<1> DEFINE no == NextFd(tb)
<1>1. PICK n \in Nat : \E s \in [1 .. n -> Fd] : Listed(tb, n, s)
  BY DEF FreeListed
<1>2. PICK s \in [1 .. n -> Fd] : Listed(tb, n, s)
  BY <1>1
<1>3. no \in Fd /\ tb.next_free_cd \in 0 .. MaxFds
  BY NextFdType, TableParts, FdNumbers
<1>4. CASE tb.free_cd_head >= 0
  <2>1. 1 \in 1 .. n /\ no = s[1]
    BY <1>2, <1>4 DEF Listed, NextFd
  <2> QED
    BY <1>2, <1>3, <2>1 DEF Listed
<1>5. CASE ~(tb.free_cd_head >= 0)
  <2>1. no = tb.next_free_cd
    BY <1>3, <1>5, FdNumbers DEF NextFd
  <2>2. no >= tb.next_free_cd
    BY <1>3, <2>1
  <2> QED
    BY <1>2, <1>3, <2>2 DEF Listed
<1> QED
  BY <1>3, <1>4, <1>5

LEMMA NextIsFree ==
    ASSUME DescInv, NEW u \in Task, NextFd(table[u]) >= 0
    PROVE  /\ ChannelOf(u, NextFd(table[u])) = NoChannel
           /\ ~LinkedAtAll(<<u, NextFd(table[u])>>)
<1> DEFINE no == NextFd(table[u])
           n  == <<u, no>>
<1>1. table[u] \in Table /\ FreeListed(table[u]) /\ PollTypes /\ NodesPlaced
  BY InvParts DEF ChannelTypes, FdsListed
<1>3. ChannelOf(u, no) = NoChannel
  BY <1>1, NextClosed DEF ChannelOf
<1>4. ~LinkedAtAll(n)
  <2>1. n[1] = u /\ n[2] = no
    OBVIOUS
  <2> HIDE DEF n, no
  <2>2. ChanIn(table, n) = NoChannel
    BY <1>3, <2>1 DEF ChanIn, ChannelOf
  <2>3. ~Held(poll_list, poll_queue, n)
    BY <1>1, <2>2, HeldOpen DEF NodesPlaced
  <2> QED
    BY <1>1, <2>3, HeldNodes
<1> QED
  BY <1>3, <1>4

(* A listed node belongs to its task. *)
LEMMA ListedNodes ==
    ASSUME DescInv, NEW ev \in PollEvent
    PROVE  /\ \A c \in Channel : \A n \in Range(poll_list[<<c, ev>>]) :
                 n \in OpenOn(c) /\ table[n[1]].cd[n[2]].task = n[1]
           /\ \A t \in Task : \A n \in Range(poll_queue[<<t, ev>>]) :
                 table[n[1]].cd[n[2]].task = t
<1>1. PollTypes /\ NodesPlaced /\ TasksSet
  BY InvParts
<1>2. ASSUME NEW n \in Node PROVE n[1] \in Task /\ n[2] \in Fd
  BY DEF Node
<1>3. ASSUME NEW c \in Channel, NEW n \in Range(poll_list[<<c, ev>>])
      PROVE  n \in OpenOn(c) /\ table[n[1]].cd[n[2]].task = n[1]
  <2>1. poll_list[<<c, ev>>] \in Seq(Node)
    BY <1>1 DEF PollTypes
  <2>2. n \in Node
    BY <2>1, RangeOfSeq
  <2>3. ChannelOf(n[1], n[2]) = c
    BY <1>1 DEF NodesPlaced, Placed, ChanIn, ChannelOf
  <2>4. c # NoChannel
    BY ChannelAssumption
  <2> QED
    BY <1>1, <1>2, <2>2, <2>3, <2>4 DEF OpenOn, TasksSet
<1>4. ASSUME NEW t \in Task, NEW n \in Range(poll_queue[<<t, ev>>])
      PROVE  table[n[1]].cd[n[2]].task = t
  <2>1. poll_queue[<<t, ev>>] \in Seq(Node)
    BY <1>1 DEF PollTypes
  <2>2. n \in Node
    BY <2>1, RangeOfSeq
  <2>3. n[1] = t /\ ChannelOf(n[1], n[2]) # NoChannel
    BY <1>1 DEF NodesPlaced, Placed, ChanIn, ChannelOf
  <2> QED
    BY <1>1, <1>2, <2>2, <2>3 DEF TasksSet
<1> QED
  BY <1>3, <1>4

(* Whoever closes the last descriptor of a channel closes one on which     *)
(* nobody waits and that nobody else polls.                                *)
LEMMA LastClosed ==
    ASSUME DescInv, NEW t \in Task, state[t] = "RUNNING", NEW F \in SUBSET Fd
    PROVE  CloseFailure(t, table[t], F) = "no"
<1> DEFINE lists == Unlink(poll_list, {t} \X F, PollEvent)
<1>1. /\ PollTypes /\ Settled(state, queue) /\ RefcountIsOpen /\ TypeOK /\ WaitersOpen
      /\ state \in [Task -> TaskState] /\ queue \in [QueueName -> Seq(Task)]
  BY InvParts
<1>2. ASSUME NEW c \in Released(table[t], F)
      PROVE  /\ \A side \in {"senders", "receivers"} : queue[<<side, c>>] = <<>>
             /\ \A ev \in PollEvent : lists[<<c, ev>>] = <<>>
  <2>1. c \in Channel /\ refcount[c] = ClosedOn(table[t], F, c)
    BY <1>2 DEF Released
  <2>2. OpenOn(c) \subseteq {t} \X F
    <3> DEFINE D == OpenOn(c) \ ({t} \X F)
    <3>1. \A fd \in F : table[t].cd[fd].channel = ChannelOf(t, fd)
      BY DEF ChannelOf
    <3>2. /\ IsFiniteSet(D) /\ Cardinality(OpenOn(c)) \in Nat
          /\ Cardinality(D) = Cardinality(OpenOn(c)) - ClosedOn(table[t], F, c)
      BY <3>1, LeftOpen, OpenFinite
    <3>3. Cardinality(OpenOn(c)) = ClosedOn(table[t], F, c)
      BY <1>1, <2>1 DEF RefcountIsOpen
    <3> HIDE DEF D
    <3>4. Cardinality(D) = 0
      BY <3>2, <3>3
    <3>5. D = {}
      BY <3>2, <3>4, FS_EmptySet
    <3> QED
      BY <3>5 DEF D
  <2>3. ASSUME NEW side \in {"senders", "receivers"} PROVE queue[<<side, c>>] = <<>>
    <3> DEFINE m == <<side, c>>
    <3>1. m \in ChannelQueue /\ m \in QueueName /\ m[2] = c
      BY <2>1 DEF ChannelQueue, Side2, QueueName
    <3> HIDE DEF m
    <3>2. ASSUME NEW i \in Range(queue[m]) PROVE FALSE
      <4>1. i \in Task /\ state[i] \in {"SEND_BLOCKED", "RECV_BLOCKED"}
        BY <1>1, <3>1, <3>2, WaitersBlocked
      <4>2. PICK fd \in Fd : ChannelOf(i, fd) = c
        BY <1>1, <3>1, <3>2 DEF WaitersOpen, HasOpen
      <4>3. <<i, fd>> \in OpenOn(c)
        BY <4>1, <4>2 DEF OpenOn, Node
      <4>4. i = t
        BY <2>2, <4>3
      <4> QED
        BY <4>1, <4>4
    <3>3. queue[m] \in Seq(Task) /\ Range(queue[m]) = {}
      BY <1>1, <3>1, <3>2
    <3>4. queue[m] = <<>>
      BY <3>3, EmptyRange
    <3> QED
      BY <3>4 DEF m
  <2>4. ASSUME NEW ev \in PollEvent PROVE lists[<<c, ev>>] = <<>>
    <3> DEFINE l == <<c, ev>>
               N == {t} \X F
    <3>1. l \in Channel \X PollEvent /\ l[2] = ev
      BY <2>1
    <3>2. Range(poll_list[l]) \subseteq N
      BY <2>1, <2>2, ListedNodes
    <3> HIDE DEF l, N
    <3>3. poll_list[l] \in Seq(Node) /\ DOMAIN poll_list = Channel \X PollEvent
      BY <1>1, <3>1 DEF PollTypes
    <3>4. Unlink(poll_list, N, PollEvent)[l] = Without(poll_list[l], N)
      BY <3>1, <3>3 DEF Unlink
    <3>5. Without(poll_list[l], N) \in Seq(Node) /\ Range(Without(poll_list[l], N)) = {}
      BY <3>2, <3>3, WithoutProperties
    <3>6. Without(poll_list[l], N) = <<>>
      BY <3>5, EmptyRange
    <3> QED
      BY <3>4, <3>6 DEF l, N
  <2> QED
    BY <2>3, <2>4
<1> QED
  BY <1>2 DEF CloseFailure

-----------------------------------------------------------------------------
(* No kernel entry panics over descriptors or lists.                       *)

LEMMA TriggerCalm ==
    ASSUME DescInv, NoFdPanic, NEW c \in Channel, NEW ev \in PollEvent,
           NEW q, NEW st, NEW R, Trigger(c, ev, q, st, R)
    PROVE  NoFdPanic'
<1> DEFINE nodes == IF q[<<Side(ev), c>>] = <<>> THEN <<>> ELSE poll_list[<<c, ev>>]
<1>1. panic' = IF \E n \in Range(nodes) : table[n[1]].cd[n[2]].task = NoTask
               THEN "NULL pointer in the kernel" ELSE panic
  BY DEF Trigger
<1>2. ASSUME NEW n \in Range(nodes) PROVE table[n[1]].cd[n[2]].task # NoTask
  <2>1. n \in Range(poll_list[<<c, ev>>])
    <3>1. Range(<<>>) = {}
      BY DEF Range
    <3> QED
      BY <1>2, <3>1
  <2>2. n \in OpenOn(c) /\ table[n[1]].cd[n[2]].task = n[1]
    BY <2>1, ListedNodes
  <2> QED
    BY <2>2 DEF OpenOn, Node, Task, NoTask
<1> HIDE DEF nodes
<1>3. panic' = panic
  BY <1>1, <1>2
<1> QED
  BY <1>3 DEF NoFdPanic

LEMMA ExchangeCalm ==
    ASSUME DescInv, NoFdPanic, NEW t \in Task, t # Idle, current = t,
           NEW ev \in PollEvent, NEW c \in Channel, NEW x \in Args, Exchange(t, ev, c, x)
    PROVE  NoFdPanic'
<1> DEFINE st == Joined(t, ev)
           q  == JoinedQueue(t, ev, c)
           a  == [args EXCEPT ![t] = x]
           s  == FirstSender(q, c)
           r  == FirstReceiver(q, c)
           why == ReceiveFailure(s, r, st, a)
<1>1. CASE \E q2, st2, R : Trigger(c, ev, q2, st2, R)
  BY <1>1, TriggerCalm
<1>2. CASE Pair(q, c) /\ Panic(why)
  <2>1. /\ st \in [Task -> TaskState] /\ q \in [QueueName -> Seq(Task)]
        /\ Settled(st, q) /\ CameTo(t, <<Side(ev), c>>, q)
    BY JoinSettles, InvParts
  <2>2. PairGoesOn(st, q, s, r)
    BY <1>2, <2>1, PairLeaves, InvParts
  <2>3. r \in Task
    BY <2>2 DEF PairGoesOn
  <2> HIDE DEF s, r, st, a, q
  <2>4. NextFd(table[r]) \in Fd \cup {-1}
    <3>1. table[r] \in Table
      BY <2>3, InvParts DEF ChannelTypes
    <3> QED
      BY <3>1, NextFdType
  <2>5. ~(NextFd(table[r]) < 0) => ~LinkedAtAll(<<r, NextFd(table[r])>>)
    <3>1. \A k \in Fd \cup {-1} : ~(k < 0) => k >= 0
      BY FdNumbers
    <3> QED
      BY <2>3, <2>4, <3>1, NextIsFree
  <2>6. why \notin FdPanics
    BY <2>5, FdPanicNames DEF ReceiveFailure
  <2>7. panic' = why
    BY <1>2 DEF Panic
  <2> QED
    BY <2>6, <2>7 DEF NoFdPanic
<1> QED
  BY <1>1, <1>2 DEF Exchange, Joined, JoinedQueue, FirstSender, FirstReceiver

LEMMA MessageCallCalm ==
    ASSUME DescInv, NoFdPanic, NEW t \in Task, MessageCall(t)
    PROVE  NoFdPanic'
<1>1. TypeOK
  BY InvParts
<1>2. ASSUME NEW r, Answer(t, r) PROVE NoFdPanic'
  BY <1>2 DEF Answer, NoFdPanic
<1> QED
  BY <1>1, <1>2, MessageExchanges, ExchangeCalm

LEMMA ChannelCallCalm ==
    ASSUME FreshDup, DescInv, NoFdPanic, NEW t \in Task, ChannelCall(t)
    PROVE  NoFdPanic'
<1>1. QueueInv /\ TypeOK /\ ChannelTypes
  BY InvParts
<1>2. CASE panic' = panic
  BY <1>2 DEF NoFdPanic
<1>3. CASE NewChannel(t)
  <2>1. NextFd(table[t]) >= 0 => ~LinkedAtAll(<<t, NextFd(table[t])>>)
    BY NextIsFree
  <2> QED
    BY <1>2, <1>3, <2>1 DEF NewChannel, Answer
<1>4. ASSUME NEW fd, Close(t, fd) PROVE NoFdPanic'
  <2>1. state[t] = "RUNNING"
    BY <1>1, <1>4, CallerFacts DEF Close, Caller
  <2>2. ValidChannel(t, fd) => CloseFailure(t, table[t], {fd}) = "no"
    BY <2>1, LastClosed DEF ValidChannel
  <2> QED
    BY <1>2, <1>4, <2>2 DEF Close, Answer
<1>5. ASSUME NEW fd, NEW flags, Chanflags(t, fd) \/ DupSelf(t, fd, flags) PROVE NoFdPanic'
  BY <1>2, <1>5 DEF Chanflags, DupSelf, Answer
<1>6. ASSUME NEW fd \in FdArgs, NEW new \in DupTargets, Dup(t, fd, new) PROVE NoFdPanic'
  <2> DEFINE no  == NextFd(table[t])
             tb  == TakeFd(table[t], t)
             F   == IF tb.cd[no].channel = NoChannel THEN {} ELSE {no}
             why == IF no = fd THEN "NULL pointer in the kernel"
                    ELSE IF F = {} /\ LinkedAtAll(<<t, no>>)
                    THEN "relinked poll node" ELSE CloseFailure(t, tb, F)
  <2>1. new = -1
    BY DEF FreshDup
  <2>2. CASE Panic(why) /\ DupError(t, fd, -1) = 0 /\ why # "no"
    <3>1. table[t] \in Table
      BY <1>1 DEF ChannelTypes
    <3>2. no >= 0 /\ no \in Fd /\ ValidChannel(t, fd)
      <4>1. DupError(t, fd, -1) = 0
        BY <2>2
      <4>2. ValidChannel(t, fd)
        BY <4>1 DEF DupError, EBADF
      <4> QED
        BY <3>1, <4>1, <4>2, DupNumber
    <3>3. ChannelOf(t, no) = NoChannel /\ ~LinkedAtAll(<<t, no>>)
      BY <3>2, NextIsFree
    <3>4. tb.cd[no].channel = NoChannel
      BY <3>1, <3>2, <3>3, TakeFdChannels DEF ChannelOf
    <3>5. CloseFailure(t, tb, {}) = "no"
      <4>1. Released(tb, {}) = {}
        BY ClosedNone DEF Released
      <4> QED
        BY <4>1 DEF CloseFailure
    <3>6. no # fd /\ F = {}
      BY <3>2, <3>3, <3>4 DEF ValidChannel
    <3>7. why = "no"
      BY <3>3, <3>5, <3>6
    <3> QED
      BY <2>2, <3>7
  <2>3. Dup(t, fd, -1)
    BY <1>6, <2>1
  <2> QED
    BY <1>2, <2>2, <2>3 DEF Dup, Answer
<1> QED
  BY <1>3, <1>4, <1>5, <1>6 DEF ChannelCall

LEMMA PollCallCalm ==
    ASSUME DescInv, NoFdPanic, NEW t \in Task, PollCall(t)
    PROVE  NoFdPanic'
<1>1. CASE panic' = panic
  BY <1>1 DEF NoFdPanic
<1>2. \A fd, E : PollAdd(t, fd, E) \/ PollRemove(t, fd, E) => panic' = panic
  BY DEF PollAdd, PollRemove, Answer
<1>3. ASSUME NEW null, PollWait(t, null) PROVE panic' = panic
  <2>1. ASSUME NEW ev \in PollEvent, NEW n \in Range(Looked(t, ev))
        PROVE  table[n[1]].cd[n[2]].task = t
    <3> DEFINE s == poll_queue[<<t, ev>>]
               h == Hit(t, ev)
    <3>1. s \in Seq(Node) /\ h \in 0 .. Len(s)
      BY HitType, InvParts
    <3>2. n \in Range(s)
      <4>1. CASE h = 0
        BY <2>1, <4>1 DEF Looked
      <4>2. CASE h # 0
        <5>1. Looked(t, ev) = SubSeq(s, 1, h)
          BY <4>2 DEF Looked
        <5> HIDE DEF s, h
        <5>2. Len(s) \in Nat /\ DOMAIN s = 1 .. Len(s)
          BY <3>1, LenProperties
        <5>3. 1 \in 1 .. (Len(s) + 1) /\ \A k \in 1 .. h : k \in DOMAIN s
          BY <3>1, <5>2
        <5>4. Range(SubSeq(s, 1, h)) = {s[k] : k \in 1 .. h}
          BY <3>1, <5>3, PartOfSeq
        <5>5. PICK k \in 1 .. h : n = s[k]
          BY <2>1, <5>1, <5>4
        <5> QED
          BY <5>3, <5>5 DEF Range
      <4> QED
        BY <4>1, <4>2
    <3> QED
      BY <3>2, ListedNodes
  <2> DEFINE tried == IF Hit(t, "RECV") # 0 THEN {"RECV"} ELSE PollEvent
  <2>2. ~(\E ev \in tried : \E n \in Range(Looked(t, ev)) : table[n[1]].cd[n[2]].task # t)
    BY <2>1 DEF PollEvent
  <2> QED
    BY <1>3, <2>2 DEF PollWait, Answer
<1> QED
  BY <1>1, <1>2, <1>3 DEF PollCall

LEMMA TaskCallCalm ==
    ASSUME DescInv, NoFdPanic, NEW t \in Task, TaskCall(t)
    PROVE  NoFdPanic'
<1>1. CASE panic' = panic
  BY <1>1 DEF NoFdPanic
<1>2. CASE ExitTask(t)
  <2> DEFINE open == {fd \in Fd : ChannelOf(t, fd) # NoChannel}
  <2>1. state[t] = "RUNNING"
    BY <1>2, CallerFacts, InvParts DEF ExitTask, Caller
  <2>2. CloseFailure(t, table[t], open) = "no"
    BY <2>1, LastClosed
  <2> QED
    BY <1>1, <1>2, <2>1, <2>2 DEF ExitTask
<1>3. /\ Gettid(t) \/ Getptid(t) \/ Yield(t) => panic' = panic
      /\ \A id, null : Taskstat(t, id, null) => panic' = panic
      /\ \A e : EventWait(t, e) \/ Suspend(t, e) => panic' = panic
  BY DEF Gettid, Getptid, Yield, Taskstat, EventWait, Suspend, EventUnblockAll, Answer
<1>4. \A prio, chans, flags : Spawn(t, prio, chans, flags) => panic' = panic
  BY DEF Spawn, Answer
<1> QED
  BY <1>1, <1>2, <1>3, <1>4 DEF TaskCall

LEMMA StepCalm ==
    ASSUME FreshDup, DescInv, NoFdPanic, [Next]_vars
    PROVE  NoFdPanic'
<1>1. CASE panic' = panic
  BY <1>1 DEF NoFdPanic
<1>2. CASE Schedule
  <2>1. panic' \in {panic, "no task to schedule"}
    BY <1>2 DEF Schedule, Panic
  <2> QED
    BY <2>1, FdPanicNames DEF NoFdPanic
<1>3. (UNCHANGED vars \/ Stopped) => panic' = panic
  BY DEF vars, Stopped
<1>4. \A e : Interrupt(e) => panic' = panic
  BY DEF Interrupt, EventUnblockAll
<1> QED
  BY <1>1, <1>2, <1>3, <1>4, ChannelCallCalm, MessageCallCalm, PollCallCalm, TaskCallCalm
     DEF Next

-----------------------------------------------------------------------------
(* The theorems.                                                           *)

LEMMA DescStep ==
    ASSUME FreshDup, DescInv, NoFdPanic, [Next]_vars
    PROVE  DescInv' /\ NoFdPanic'
<1>1. WaitInv /\ PollInv /\ Once(queue) /\ FdInv
  BY DEF DescInv, WaitInv
<1>2. WaitInv' /\ StepKind
  BY <1>1, WaitStep
<1>3. FdInv' /\ BlockedKeep
  BY <1>1, FdStep
<1>4. WaitersOpen'
  BY <1>1, <1>2, <1>3, WaitersStay, InvParts
<1>5. NoFdPanic'
  BY StepCalm
<1> QED
  BY <1>2, <1>3, <1>4, <1>5 DEF DescInv

LEMMA InitDesc ==
    ASSUME Init
    PROVE  FdInv /\ WaitersOpen /\ NoFdPanic
<1>1. \A i \in Task : /\ table[i].free_cd_head = -1 /\ table[i].next_free_cd = 0
                      /\ \A fd \in Fd : table[i].cd[fd].channel = NoChannel
  BY DEF Init, ClearTable, ClearDesc
<1>2. FdsListed
  <2>1. 0 \in 0 .. MaxFds /\ \A fd \in Fd : ~(fd < 0)
    BY FdNumbers
  <2> QED
    BY <1>1, <2>1, ClearListed DEF FdsListed
<1>3. TasksSet
  BY <1>1 DEF TasksSet, ChannelOf
<1>4. RefcountIsOpen
  <2>1. ASSUME NEW c \in Channel PROVE refcount[c] = Cardinality(OpenOn(c))
    <3>1. OpenOn(c) = {}
      BY <1>1, ChannelAssumption DEF OpenOn, Node, ChannelOf
    <3>2. Cardinality(OpenOn(c)) = 0
      BY <3>1, FS_EmptySet, Zenon
    <3> QED
      BY <3>2 DEF Init
  <2> QED
    BY <2>1 DEF RefcountIsOpen
<1>5. WaitersOpen
  <2>1. \A n \in ChannelQueue : queue[n] = <<>>
    BY DEF Init, ChannelQueue, Side2, QueueName
  <2>2. Range(<<>>) = {}
    BY DEF Range
  <2> QED
    BY <2>1, <2>2 DEF WaitersOpen
<1>6. NoFdPanic
  BY FdPanicNames DEF Init, NoFdPanic
<1> QED
  BY <1>2, <1>3, <1>4, <1>5, <1>6 DEF FdInv

(* As long as dup picks the descriptor itself, in every reachable state    *)
(* the free lists of descriptors hold what they should, the refcounts      *)
(* count the open descriptors, and a task has open what it waits at.       *)
THEOREM DescriptorInvariant == ASSUME FreshDup PROVE Spec => [](DescInv /\ NoFdPanic)
<1>1. Init => DescInv /\ NoFdPanic
  <2>1. Init => WaitInv
    BY InitQueues, InitChannels, InitNodes, InitWaits DEF WaitInv, PollInv, KernelInv
  <2> QED
    BY <2>1, InitDesc DEF DescInv
<1>2. DescInv /\ NoFdPanic /\ [Next]_vars => (DescInv /\ NoFdPanic)'
  BY DescStep
<1> QED
  BY <1>1, <1>2, PTL DEF Spec

(* The refcount of a channel is the number of open descriptors that refer  *)
(* to it, and the free channels are those nobody refers to, whatever tasks *)
(* open, duplicate, hand over and close (alloc_channel and close_channel). *)
THEOREM RefcountsAreExact == ASSUME FreshDup PROVE Spec => []RefcountExact
<1>1. DescInv => RefcountExact
  <2> SUFFICES ASSUME DescInv PROVE RefcountExact
    OBVIOUS
  <2>1. RefcountIsOpen /\ FreeUnreferred
    BY InvParts DEF ChannelInv, RefInv
  <2> QED
    BY <2>1 DEF RefcountExact, FreeUnreferred
<1> QED
  BY <1>1, DescriptorInvariant, PTL

(* None of the panics in task.c that check the kernel's own data is ever   *)
(* reached: what a task can panic the kernel with is a message that is too *)
(* long, or a channel for a receiver that does not want it or has no room. *)
THEOREM NoPanicOverOwnData == ASSUME FreshDup PROVE Spec => []NoInternalPanic
<1>1. DescInv /\ NoFdPanic => NoInternalPanic
  <2> SUFFICES ASSUME DescInv, NoFdPanic PROVE NoInternalPanic
    OBVIOUS
  <2>1. NoQueuePanic
    BY InvParts DEF QueueInv
  <2> QED
    BY <2>1 DEF NoInternalPanic, NoFdPanic, NoQueuePanic, FdPanics
<1> QED
  BY <1>1, DescriptorInvariant, PTL

-----------------------------------------------------------------------------
(* The free list, followed from its head.                                  *)

Follow(tb, f, k) ==
    IF k = 0 THEN tb.free_cd_head
    ELSE IF f[k-1] \in Fd THEN tb.cd[f[k-1]].next_free_cd ELSE -1

Follows(tb, f) == \A k \in 0 .. MaxFds : f[k] = Follow(tb, f, k)

LEMMA FollowedTwice ==
    ASSUME NEW tb, NEW f, NEW g, Follows(tb, f), Follows(tb, g)
    PROVE  \A k \in 0 .. MaxFds : f[k] = g[k]
<1> SUFFICES ASSUME NEW j \in 0 .. MaxFds, f[j] # g[j] PROVE FALSE
  OBVIOUS
<1> DEFINE S == {k \in 0 .. MaxFds : f[k] # g[k]}
<1>1. j \in S /\ S \in SUBSET (0 .. MaxFds) /\ MaxFds \in Nat
  BY FdNumbers
<1>2. \A k \in S : k \in 0 .. MaxFds /\ f[k] # g[k]
  OBVIOUS
<1>3. \A k \in 0 .. MaxFds : f[k] # g[k] => k \in S
  OBVIOUS
<1> HIDE DEF S
<1>4. PICK k \in S : \A i \in S : k <= i
  BY <1>1, LeastElement
<1>5. f[k] = Follow(tb, f, k) /\ g[k] = Follow(tb, g, k)
  BY <1>2 DEF Follows
<1>6. CASE k = 0
  BY <1>2, <1>5, <1>6 DEF Follow
<1>7. CASE k # 0
  <2>1. k - 1 \in 0 .. MaxFds /\ ~(k <= k - 1)
    BY <1>1, <1>2, <1>7
  <2>2. f[k - 1] = g[k - 1]
    BY <1>3, <1>4, <2>1
  <2> QED
    BY <1>2, <1>5, <1>7, <2>2 DEF Follow
<1> QED
  BY <1>6, <1>7

LEMMA FreeCdIs ==
    ASSUME NEW tb, NEW g \in [0 .. MaxFds -> Fd \cup {-1}], Follows(tb, g)
    PROVE  \A k \in 0 .. MaxFds : FreeCd(tb)[k] = g[k]
<1> DEFINE f == FreeCd(tb)
<1>1. f = CHOOSE h : h = [k \in 0 .. MaxFds |->
             IF k = 0 THEN tb.free_cd_head
             ELSE IF h[k-1] \in Fd THEN tb.cd[h[k-1]].next_free_cd ELSE -1]
  BY DEF FreeCd
<1>2. g = [k \in 0 .. MaxFds |->
             IF k = 0 THEN tb.free_cd_head
             ELSE IF g[k-1] \in Fd THEN tb.cd[g[k-1]].next_free_cd ELSE -1]
  BY DEF Follow, Follows
<1> HIDE DEF f
<1>3. f = [k \in 0 .. MaxFds |->
             IF k = 0 THEN tb.free_cd_head
             ELSE IF f[k-1] \in Fd THEN tb.cd[f[k-1]].next_free_cd ELSE -1]
  BY <1>1, <1>2, Zenon
<1>4. Follows(tb, f)
  BY <1>3 DEF Follow, Follows
<1>5. \A k \in 0 .. MaxFds : f[k] = g[k]
  BY <1>4, FollowedTwice
<1> QED
  BY <1>5 DEF f

LEMMA ShortList ==
    ASSUME NEW n \in Nat, NEW s \in [1 .. n -> Fd],
           \A j, k \in 1 .. n : s[j] = s[k] => j = k
    PROVE  n <= MaxFds
<1>1. /\ IsFiniteSet(Fd) /\ Cardinality(Fd) = MaxFds
      /\ IsFiniteSet(1 .. n) /\ Cardinality(1 .. n) = n
  <2>1. MaxFds \in Nat /\ MaxFds # 0
    BY MaxFdsAssumption
  <2>2. /\ IsFiniteSet(1 .. n) /\ Cardinality(1 .. n) = IF 1 <= n THEN n - 1 + 1 ELSE 0
        /\ IsFiniteSet(0 .. (MaxFds - 1))
        /\ Cardinality(0 .. (MaxFds - 1)) =
              IF 0 <= MaxFds - 1 THEN (MaxFds - 1) - 0 + 1 ELSE 0
    BY <2>1, FS_Interval
  <2> QED
    BY <2>1, <2>2 DEF Fd
<1>2. s \in Injection(1 .. n, Fd)
  BY DEF Injection, IsInjective
<1>3. Cardinality(1 .. n) <= Cardinality(Fd)
  BY <1>1, <1>2, FS_Injection
<1> QED
  BY <1>1, <1>3

LEMMA AccountedList ==
    ASSUME NEW tb \in Table, FreeListed(tb)
    PROVE  /\ FreeCd(tb)[MaxFds] = -1
           /\ \A fd \in Fd :
                 Cardinality({k \in 0 .. MaxFds : FreeCd(tb)[k] = fd}) =
                    IF fd < tb.next_free_cd /\ tb.cd[fd].channel = NoChannel THEN 1 ELSE 0
           /\ \A fd \in Fd : fd >= tb.next_free_cd => tb.cd[fd].channel = NoChannel
<1>1. PICK n \in Nat : \E s \in [1 .. n -> Fd] : Listed(tb, n, s)
  BY DEF FreeListed
<1>2. PICK s \in [1 .. n -> Fd] : Listed(tb, n, s)
  BY <1>1
<1>3. /\ \A j, k \in 1 .. n : s[j] = s[k] => j = k
      /\ n <= MaxFds /\ MaxFds \in Nat /\ -1 \notin Fd
  BY <1>2, ShortList, FdNumbers DEF Listed
<1> DEFINE g == [k \in 0 .. MaxFds |-> IF k < n THEN s[k + 1] ELSE -1]
<1>4. g \in [0 .. MaxFds -> Fd \cup {-1}]
  OBVIOUS
<1>5. \A k \in 0 .. MaxFds : g[k] = IF k < n THEN s[k + 1] ELSE -1
  OBVIOUS
<1> HIDE DEF g
<1>6. ASSUME NEW k \in 0 .. MaxFds PROVE g[k] = Follow(tb, g, k)
  <2>1. CASE k = 0
    BY <1>2, <1>3, <1>5, <2>1 DEF Listed, Follow
  <2>2. CASE k # 0 /\ k - 1 < n
    <3>1. k - 1 \in 0 .. MaxFds /\ k \in 1 .. n /\ (k - 1) + 1 = k
      BY <1>3, <2>2
    <3>2. g[k - 1] = s[k] /\ s[k] \in Fd
      BY <1>5, <2>2, <3>1
    <3>3. tb.cd[s[k]].next_free_cd = IF k = n THEN -1 ELSE s[k + 1]
      BY <1>2, <3>1 DEF Listed
    <3>4. k < n <=> k # n
      BY <3>1
    <3> QED
      BY <1>5, <2>2, <3>2, <3>3, <3>4 DEF Follow
  <2>3. CASE k # 0 /\ ~(k - 1 < n)
    <3>1. k - 1 \in 0 .. MaxFds /\ ~(k < n)
      BY <1>3, <2>3
    <3>2. g[k - 1] = -1 /\ g[k] = -1
      BY <1>5, <2>3, <3>1
    <3> QED
      BY <1>3, <2>3, <3>2 DEF Follow
  <2> QED
    BY <2>1, <2>2, <2>3
<1>7. \A k \in 0 .. MaxFds : FreeCd(tb)[k] = g[k]
  BY <1>4, <1>6, FreeCdIs DEF Follows
<1>8. FreeCd(tb)[MaxFds] = -1
  <2>1. MaxFds \in 0 .. MaxFds /\ ~(MaxFds < n)
    BY <1>3
  <2> QED
    BY <1>5, <1>7, <2>1
<1>9. ASSUME NEW fd \in Fd
      PROVE  Cardinality({k \in 0 .. MaxFds : FreeCd(tb)[k] = fd}) =
                IF fd < tb.next_free_cd /\ tb.cd[fd].channel = NoChannel THEN 1 ELSE 0
  <2> DEFINE K == {k \in 0 .. MaxFds : FreeCd(tb)[k] = fd}
  <2>1. \A k \in 0 .. MaxFds : k \in K <=> k < n /\ s[k + 1] = fd
    BY <1>3, <1>5, <1>7
  <2>2. K \subseteq 0 .. MaxFds
    OBVIOUS
  <2> HIDE DEF K
  <2>3. (\E k \in 1 .. n : s[k] = fd) <=> fd < tb.next_free_cd /\ tb.cd[fd].channel = NoChannel
    BY <1>2 DEF Listed
  <2>4. CASE \E k \in 1 .. n : s[k] = fd
    <3>1. PICK k \in 1 .. n : s[k] = fd
      BY <2>4
    <3>2. K = {k - 1}
      <4>1. k - 1 \in 0 .. MaxFds /\ k - 1 < n /\ (k - 1) + 1 = k
        BY <1>3
      <4>2. \A j \in 0 .. MaxFds : j < n => j + 1 \in 1 .. n /\ (j + 1 = k => j = k - 1)
        OBVIOUS
      <4>3. \A j \in K : j = k - 1
        BY <1>3, <2>1, <2>2, <3>1, <4>2
      <4>4. k - 1 \in K
        BY <2>1, <3>1, <4>1
      <4> QED
        BY <4>3, <4>4
    <3>3. Cardinality(K) = 1
      BY <3>2, FS_Singleton, Zenon
    <3> QED
      BY <2>3, <2>4, <3>3 DEF K
  <2>5. CASE ~(\E k \in 1 .. n : s[k] = fd)
    <3>1. K = {}
      <4>1. \A j \in 0 .. MaxFds : j < n => j + 1 \in 1 .. n
        OBVIOUS
      <4> QED
        BY <2>1, <2>2, <2>5, <4>1
    <3>2. Cardinality(K) = 0
      BY <3>1, FS_EmptySet, Zenon
    <3> QED
      BY <2>3, <2>5, <3>2 DEF K
  <2> QED
    BY <2>4, <2>5
<1>10. \A fd \in Fd : fd >= tb.next_free_cd => tb.cd[fd].channel = NoChannel
  BY <1>2 DEF Listed
<1> QED
  BY <1>8, <1>9, <1>10

(* Every descriptor a task has closed is once on its free list, and none   *)
(* that is open: alloc_channel_desc and free_channel_desc lose none and    *)
(* hand out none twice.                                                    *)
THEOREM NoDescriptorIsLost == ASSUME FreshDup PROVE Spec => []DescriptorsAccounted
<1>1. DescInv => DescriptorsAccounted
  <2> SUFFICES ASSUME DescInv, NEW i \in Alive
               PROVE  /\ FreeCd(table[i])[MaxFds] = -1
                      /\ \A fd \in Fd :
                            Cardinality({k \in 0 .. MaxFds : FreeCd(table[i])[k] = fd}) =
                               IF fd < table[i].next_free_cd /\ ~ValidChannel(i, fd)
                               THEN 1 ELSE 0
                      /\ \A fd \in Fd : fd >= table[i].next_free_cd => ~ValidChannel(i, fd)
    BY DEF DescriptorsAccounted
  <2>1. i \in Task /\ table[i] \in Table /\ FreeListed(table[i])
    BY InvParts DEF Alive, ChannelTypes, FdsListed
  <2>2. \A fd \in Fd : ~ValidChannel(i, fd) <=> table[i].cd[fd].channel = NoChannel
    BY DEF ValidChannel, ChannelOf
  <2> QED
    BY <2>1, <2>2, AccountedList
<1> QED
  BY <1>1, DescriptorInvariant, PTL
-----------------------------------------------------------------------------
(***************************************************************************)
(* What poll_count counts.                                                 *)
(***************************************************************************)

(* With lists pl of the channels and pq of the tasks, node n waits for ev. *)
Enrolled(pl, pq, n, ev) ==
    \/ \E c \in Channel : n \in Range(pl[<<c, ev>>])
    \/ \E i \in Task : n \in Range(pq[<<i, ev>>])

(* Without dup onto a descriptor of the caller's choice, and the step       *)
(* closes nothing that a task polls and goes on polling.                   *)
Careful == FreshDup /\ PolledStayOpen

(* Nodes come off their lists, those of a task that goes on only by the    *)
(* close of a descriptor it polls.                                         *)
ListsShrink ==
    /\ \A n \in Node, ev \in PollEvent :
          Enrolled(poll_list', poll_queue', n, ev) =>
             Enrolled(poll_list, poll_queue, n, ev)
    /\ Careful /\ DescInv =>
          \A n \in Node, ev \in PollEvent :
             Enrolled(poll_list, poll_queue, n, ev) =>
                \/ Enrolled(poll_list', poll_queue', n, ev)
                \/ state'[n[1]] = "DEAD"

(* What a step does to the lists and the counts: nothing comes on a list   *)
(* that is not counted.                                                    *)
Uncounted ==
    poll_count' = poll_count /\ task_count' # task_count + 1 /\ ListsShrink

Spawned(i) ==
    /\ poll_count' = [poll_count EXCEPT ![i] = 0] /\ ListsShrink
    /\ state[i] = "DEAD" /\ \A j \in Task \ {i} : state'[j] = state[j]

CountedOn(m, E) ==
    /\ poll_count' = [poll_count EXCEPT ![m[1]] = @ + Cardinality(E)]
    /\ \A ev \in E : ~Enrolled(poll_list, poll_queue, m, ev)
    /\ \A n \in Node, ev \in PollEvent :
          Enrolled(poll_list', poll_queue', n, ev) <=>
             Enrolled(poll_list, poll_queue, n, ev) \/ (n = m /\ ev \in E)
    /\ state' = state

CountedOff(m, E) ==
    /\ poll_count' = [poll_count EXCEPT ![m[1]] = @ - Cardinality(E)]
    /\ \A ev \in E : Enrolled(poll_list, poll_queue, m, ev)
    /\ \A n \in Node, ev \in PollEvent :
          Enrolled(poll_list', poll_queue', n, ev) <=>
             Enrolled(poll_list, poll_queue, n, ev) /\ ~(n = m /\ ev \in E)
    /\ state' = state

PollKind ==
    \/ Uncounted
    \/ \E i \in Task : Spawned(i)
    \/ \E m \in Node, E \in SUBSET PollEvent : CountedOn(m, E) \/ CountedOff(m, E)

LEMMA ListsSame ==
    ASSUME UNCHANGED <<poll_list, poll_queue>>
    PROVE  ListsShrink
BY DEF ListsShrink

LEMMA AnswerCounts ==
    ASSUME TypeOK, NEW t, NEW r, Answer(t, r)
    PROVE  Uncounted
BY ListsSame DEF Answer, Uncounted, taskVars, pollVars, TypeOK, TaskTypes

LEMMA PanicCounts ==
    ASSUME TypeOK, NEW why, Panic(why)
    PROVE  Uncounted
BY ListsSame DEF Panic, Uncounted, taskVars, pollVars, TypeOK, TaskTypes

LEMMA UnlinkEnrolled ==
    ASSUME PollTypes, NEW N, NEW E \in SUBSET PollEvent, NEW n, NEW ev \in PollEvent
    PROVE  Enrolled(Unlink(poll_list, N, E), Unlink(poll_queue, N, E), n, ev) <=>
              Enrolled(poll_list, poll_queue, n, ev) /\ ~(n \in N /\ ev \in E)
<1>1. ASSUME NEW D, NEW lists \in [D -> Seq(Node)], NEW l \in D
      PROVE  Range(Unlink(lists, N, E)[l]) =
                IF l[2] \in E THEN Range(lists[l]) \ N ELSE Range(lists[l])
  <2>1. Unlink(lists, N, E)[l] = IF l[2] \in E THEN Without(lists[l], N) ELSE lists[l]
    BY DEF Unlink
  <2>2. Range(Without(lists[l], N)) = Range(lists[l]) \ N
    BY <1>1, WithoutProperties
  <2> QED
    BY <2>1, <2>2
<1> DEFINE pl == Unlink(poll_list, N, E)
           pq == Unlink(poll_queue, N, E)
<1>2. ASSUME NEW c \in Channel
      PROVE  Range(pl[<<c, ev>>]) = IF ev \in E THEN Range(poll_list[<<c, ev>>]) \ N
                                    ELSE Range(poll_list[<<c, ev>>])
  <2> DEFINE l == <<c, ev>>
  <2>1. l \in Channel \X PollEvent /\ l[2] = ev
    OBVIOUS
  <2>2. poll_list \in [Channel \X PollEvent -> Seq(Node)]
    BY DEF PollTypes
  <2> HIDE DEF l
  <2>3. Range(pl[l]) = IF l[2] \in E THEN Range(poll_list[l]) \ N ELSE Range(poll_list[l])
    BY <1>1, <2>1, <2>2
  <2> QED
    BY <2>1, <2>3 DEF l
<1>3. ASSUME NEW i \in Task
      PROVE  Range(pq[<<i, ev>>]) = IF ev \in E THEN Range(poll_queue[<<i, ev>>]) \ N
                                    ELSE Range(poll_queue[<<i, ev>>])
  <2> DEFINE l == <<i, ev>>
  <2>1. l \in Task \X PollEvent /\ l[2] = ev
    OBVIOUS
  <2>2. poll_queue \in [Task \X PollEvent -> Seq(Node)]
    BY DEF PollTypes
  <2> HIDE DEF l
  <2>3. Range(pq[l]) = IF l[2] \in E THEN Range(poll_queue[l]) \ N ELSE Range(poll_queue[l])
    BY <1>1, <2>1, <2>2
  <2> QED
    BY <2>1, <2>3 DEF l
<1> HIDE DEF pl, pq
<1>4. Enrolled(pl, pq, n, ev) <=>
         Enrolled(poll_list, poll_queue, n, ev) /\ ~(n \in N /\ ev \in E)
  BY <1>2, <1>3 DEF Enrolled
<1> QED
  BY <1>4 DEF pl, pq

LEMMA ClosePollsShrinks ==
    ASSUME PollTypes, NEW t, NEW F, ClosePolls(t, F),
           Careful /\ DescInv =>
              \/ \A fd \in F : ~LinkedAtAll(<<t, fd>>)
              \/ state'[t] = "DEAD"
    PROVE  ListsShrink
<1> DEFINE N == {t} \X F
<1>1. poll_list' = Unlink(poll_list, N, PollEvent)
      /\ poll_queue' = Unlink(poll_queue, N, PollEvent)
  BY DEF ClosePolls
<1>2. (\A fd \in F : ~LinkedAtAll(<<t, fd>>)) =>
         \A n \in N, ev \in PollEvent : ~Enrolled(poll_list, poll_queue, n, ev)
  <2>1. \A n \in N : \E fd \in F : n = <<t, fd>>
    OBVIOUS
  <2>2. \A n, ev : Linked(n, ev) <=> Enrolled(poll_list, poll_queue, n, ev)
    BY DEF Linked, Enrolled
  <2> QED
    BY <2>1, <2>2 DEF LinkedAtAll
<1>3. \A n \in N : n[1] = t
  OBVIOUS
<1> HIDE DEF N
<1>4. \A n, ev : ev \in PollEvent =>
         (Enrolled(poll_list', poll_queue', n, ev) <=>
            Enrolled(poll_list, poll_queue, n, ev) /\ n \notin N)
  BY <1>1, UnlinkEnrolled
<1> QED
  BY <1>2, <1>3, <1>4 DEF ListsShrink

(* poll_trigger_all moves nodes, and every one has a task to go to. *)
LEMMA TriggerCounts ==
    ASSUME TypeOK, NEW c \in Channel, NEW ev \in PollEvent,
           NEW q, NEW st, NEW R, Trigger(c, ev, q, st, R)
    PROVE  ListsShrink
<1> DEFINE nodes    == IF q[<<Side(ev), c>>] = <<>> THEN <<>> ELSE poll_list[<<c, ev>>]
           owner(n) == table[n[1]].cd[n[2]].task
           mine(i)  == Keep(nodes, {n \in Range(nodes) : owner(n) = i})
<1>1. /\ poll_list' = IF nodes = <<>> THEN poll_list
                      ELSE [poll_list EXCEPT ![<<c, ev>>] = <<>>]
      /\ poll_queue' = [l \in DOMAIN poll_queue |->
             IF l[2] = ev THEN poll_queue[l] \o mine(l[1]) ELSE poll_queue[l]]
  BY DEF Trigger
<1>2. PollTypes
  BY DEF TypeOK
<1>3. nodes \in Seq(Node) /\ Range(nodes) \subseteq Range(poll_list[<<c, ev>>])
  <2>1. <<>> \in Seq(Node) /\ Range(<<>>) = {}
    BY EmptySeq DEF Range
  <2>2. poll_list[<<c, ev>>] \in Seq(Node)
    BY <1>2 DEF PollTypes
  <2> QED
    BY <2>1, <2>2
<1>4. nodes # <<>> => Range(nodes) = Range(poll_list[<<c, ev>>])
  OBVIOUS
<1> HIDE DEF nodes
<1>5. ASSUME NEW i \in Task
      PROVE  mine(i) \in Seq(Node) /\ Range(mine(i)) = {n \in Range(nodes) : owner(n) = i}
  BY <1>3, KeepProperties
<1> HIDE DEF mine, owner
<1>6. ASSUME NEW d \in Channel, NEW e \in PollEvent
      PROVE  Range(poll_list'[<<d, e>>]) =
                IF d = c /\ e = ev /\ nodes # <<>> THEN {} ELSE Range(poll_list[<<d, e>>])
  <2>1. Range(<<>>) = {}
    BY DEF Range
  <2>2. poll_list'[<<d, e>>] = IF d = c /\ e = ev /\ nodes # <<>> THEN <<>>
                               ELSE poll_list[<<d, e>>]
    BY <1>1, <1>2 DEF PollTypes
  <2> QED
    BY <2>1, <2>2
<1>7. ASSUME NEW i \in Task, NEW e \in PollEvent
      PROVE  Range(poll_queue'[<<i, e>>]) = Range(poll_queue[<<i, e>>]) \cup
                (IF e = ev THEN {n \in Range(nodes) : owner(n) = i} ELSE {})
  <2>1. poll_queue'[<<i, e>>] = IF e = ev THEN poll_queue[<<i, e>>] \o mine(i)
                                ELSE poll_queue[<<i, e>>]
    BY <1>1, <1>2 DEF PollTypes
  <2>2. poll_queue[<<i, e>>] \in Seq(Node)
    BY <1>2 DEF PollTypes
  <2>3. Range(poll_queue[<<i, e>>] \o mine(i)) =
           Range(poll_queue[<<i, e>>]) \cup Range(mine(i))
    BY <1>5, <2>2, RangeConcat
  <2> QED
    BY <1>5, <2>1, <2>3
<1>8. ASSUME NEW n \in Node, NEW e \in PollEvent, Enrolled(poll_list', poll_queue', n, e)
      PROVE  Enrolled(poll_list, poll_queue, n, e)
  BY <1>3, <1>6, <1>7, <1>8 DEF Enrolled
<1>9. ASSUME DescInv, NEW n \in Node, NEW e \in PollEvent,
             Enrolled(poll_list, poll_queue, n, e)
      PROVE  Enrolled(poll_list', poll_queue', n, e)
  <2>1. CASE n \in Range(nodes) /\ e = ev
    <3>1. owner(n) = n[1] /\ n[1] \in Task
      BY <1>3, <1>9, <2>1, ListedNodes DEF owner, Node
    <3> QED
      BY <1>7, <2>1, <3>1 DEF Enrolled
  <2>2. CASE ~(n \in Range(nodes) /\ e = ev)
    BY <1>4, <1>6, <1>7, <1>9, <2>2 DEF Enrolled
  <2> QED
    BY <2>1, <2>2
<1> QED
  BY <1>8, <1>9 DEF ListsShrink

LEMMA PollWaitCounts ==
    ASSUME QueueInv, NodeInv, NEW t \in Task, NEW null, PollWait(t, null)
    PROVE  Uncounted
<1> DEFINE tried == IF Hit(t, "RECV") # 0 THEN {"RECV"} ELSE PollEvent
<1>1. TypeOK /\ PollTypes /\ Placed(poll_list, poll_queue, table)
  BY DEF QueueInv, TypeOK, NodeInv, NodesPlaced
<1>2. CASE \E r : Answer(t, r)
  BY <1>1, <1>2, AnswerCounts
<1>3. CASE \E why : Panic(why)
  BY <1>1, <1>3, PanicCounts
<1>4. CASE /\ poll_list' = [l \in DOMAIN poll_list |->
                 IF l[2] \in tried
                 THEN poll_list[l] \o Keep(Inactive(t, l[2]),
                         {n \in Node : ChannelOf(n[1], n[2]) = l[1]})
                 ELSE poll_list[l]]
           /\ poll_queue' = [l \in DOMAIN poll_queue |->
                 IF l[1] = t /\ l[2] \in tried THEN Rotated(t, l[2])
                 ELSE poll_queue[l]]
           /\ UNCHANGED <<taskVars, poll_count>>
  <2> HIDE DEF tried
  <2>1. ASSUME NEW ev \in PollEvent
        PROVE  /\ Inactive(t, ev) \in Seq(Node)
               /\ Range(poll_queue[<<t, ev>>]) = Range(Inactive(t, ev)) \cup Range(Rotated(t, ev))
    BY <1>1, PollQueueParts DEF Placed
  <2>2. ASSUME NEW d \in Channel, NEW ev \in PollEvent
        PROVE  Range(poll_list'[<<d, ev>>]) = Range(poll_list[<<d, ev>>]) \cup
                  (IF ev \in tried
                   THEN {n \in Range(Inactive(t, ev)) : ChanIn(table, n) = d} ELSE {})
    <3> DEFINE N == {n \in Node : ChannelOf(n[1], n[2]) = d}
               back == Keep(Inactive(t, ev), N)
    <3>1. poll_list[<<d, ev>>] \in Seq(Node)
      BY <1>1 DEF PollTypes
    <3>2. poll_list'[<<d, ev>>] = IF ev \in tried THEN poll_list[<<d, ev>>] \o back
                                  ELSE poll_list[<<d, ev>>]
      BY <1>1, <1>4 DEF PollTypes
    <3>3. back \in Seq(Node) /\ Range(back) = Range(Inactive(t, ev)) \cap N
      BY <2>1, KeepProperties
    <3>4. Range(Inactive(t, ev)) \cap N = {n \in Range(Inactive(t, ev)) : ChanIn(table, n) = d}
      <4>1. Range(Inactive(t, ev)) \subseteq Node
        BY <2>1, RangeOfSeq
      <4> QED
        BY <4>1 DEF ChanIn, ChannelOf
    <3> HIDE DEF back, N
    <3>5. Range(poll_list[<<d, ev>>] \o back) = Range(poll_list[<<d, ev>>]) \cup Range(back)
      BY <3>1, <3>3, RangeConcat
    <3> QED
      BY <3>2, <3>3, <3>4, <3>5
  <2>3. ASSUME NEW i \in Task, NEW ev \in PollEvent
        PROVE  Range(poll_queue'[<<i, ev>>]) = IF i = t /\ ev \in tried
                  THEN Range(Rotated(t, ev)) ELSE Range(poll_queue[<<i, ev>>])
    BY <1>1, <1>4 DEF PollTypes
  <2>4. ASSUME NEW n \in Node, NEW ev \in PollEvent,
               Enrolled(poll_list', poll_queue', n, ev)
        PROVE  Enrolled(poll_list, poll_queue, n, ev)
    BY <2>1, <2>2, <2>3, <2>4 DEF Enrolled
  <2>5. ASSUME NEW n \in Node, NEW ev \in PollEvent, Enrolled(poll_list, poll_queue, n, ev)
        PROVE  Enrolled(poll_list', poll_queue', n, ev)
    <3>1. CASE ev \in tried /\ n \in Range(Inactive(t, ev))
      <4>1. n \in Range(poll_queue[<<t, ev>>])
        BY <2>1, <3>1
      <4>2. ChanIn(table, n) # NoChannel
        BY <1>1, <4>1 DEF Placed
      <4>3. ChanIn(table, n) \in Channel
        <5>1. n[1] \in Task /\ n[2] \in Fd
          BY DEF Node
        <5>2. table[n[1]] \in Table
          BY <1>1, <5>1 DEF TypeOK, ChannelTypes
        <5>3. table[n[1]].cd[n[2]] \in Desc
          BY <5>1, <5>2, TableParts
        <5> QED
          BY <4>2, <5>3, DescParts DEF ChanIn
      <4> QED
        BY <2>2, <3>1, <4>3 DEF Enrolled
    <3>2. CASE ~(ev \in tried /\ n \in Range(Inactive(t, ev)))
      <4>1. CASE \E c \in Channel : n \in Range(poll_list[<<c, ev>>])
        BY <2>2, <4>1 DEF Enrolled
      <4>2. CASE \E i \in Task : n \in Range(poll_queue[<<i, ev>>])
        <5>1. PICK i \in Task : n \in Range(poll_queue[<<i, ev>>])
          BY <4>2
        <5>2. n \in Range(poll_queue'[<<i, ev>>])
          BY <2>1, <2>3, <3>2, <5>1
        <5> QED
          BY <5>2 DEF Enrolled
      <4> QED
        BY <2>5, <4>1, <4>2 DEF Enrolled
    <3> QED
      BY <3>1, <3>2
  <2>6. ListsShrink
    BY <2>4, <2>5 DEF ListsShrink
  <2> QED
    BY <1>1, <1>4, <2>6 DEF Uncounted, taskVars, TypeOK, TaskTypes
<1> QED
  BY <1>2, <1>3, <1>4 DEF PollWait
LEMMA StillCounts ==
    ASSUME TypeOK, poll_count' = poll_count, task_count' = task_count, ListsShrink
    PROVE  Uncounted
BY DEF Uncounted, TypeOK, TaskTypes

LEMMA ListsAlike ==
    ASSUME \A c \in Channel, ev \in PollEvent :
              Range(poll_list'[<<c, ev>>]) = Range(poll_list[<<c, ev>>]),
           \A i \in Task, ev \in PollEvent :
              Range(poll_queue'[<<i, ev>>]) = Range(poll_queue[<<i, ev>>])
    PROVE  ListsShrink
BY DEF ListsShrink, Enrolled

LEMMA CloseCounts ==
    ASSUME TypeOK, NEW t \in Task, NEW no, Close(t, no)
    PROVE  Uncounted
<1>1. PollTypes /\ ChannelTypes
  BY DEF TypeOK
<1>2. ASSUME ValidChannel(t, no), ClosePolls(t, {no}),
             table' = [table EXCEPT ![t] = ReleaseFd(@, no)]
      PROVE  ListsShrink
  <2>1. no \in Fd
    BY <1>2 DEF ValidChannel
  <2>2. table'[t].cd[no].channel = NoChannel
    <3>1. table[t] \in Table /\ table'[t] = ReleaseFd(table[t], no)
      BY <1>1, <1>2 DEF ChannelTypes
    <3> QED
      BY <2>1, <3>1, ReleaseFdChannels
  <2>3. PolledStayOpen /\ state'[t] # "DEAD" => ~LinkedAtAll(<<t, no>>)
    BY <2>1, <2>2 DEF PolledStayOpen
  <2> QED
    BY <1>1, <1>2, <2>3, ClosePollsShrinks DEF Careful
<1>3. CASE \E r : Answer(t, r)
  BY <1>3, AnswerCounts
<1>4. CASE \E why : Panic(why)
  BY <1>4, PanicCounts
<1>5. CASE /\ ValidChannel(t, no) /\ ClosePolls(t, {no})
           /\ table' = [table EXCEPT ![t] = ReleaseFd(@, no)]
           /\ UNCHANGED <<taskVars, poll_count>>
  BY <1>2, <1>5, StillCounts DEF taskVars
<1> QED
  BY <1>3, <1>4, <1>5 DEF Close

LEMMA NewChannelCounts ==
    ASSUME TypeOK, FreeQuiet, NEW t, NewChannel(t)
    PROVE  Uncounted
<1>1. ASSUME NEW c \in free_channel, poll_queue' = poll_queue,
             poll_list' = [l \in DOMAIN poll_list |->
                              IF l[1] = c THEN <<>> ELSE poll_list[l]]
      PROVE  ListsShrink
  <2>1. \A d \in Channel, ev \in PollEvent : poll_list'[<<d, ev>>] = poll_list[<<d, ev>>]
    BY <1>1 DEF TypeOK, PollTypes, FreeQuiet
  <2> QED
    BY <1>1, <2>1, ListsAlike
<1> QED
  BY <1>1, AnswerCounts, PanicCounts, StillCounts DEF NewChannel, taskVars

LEMMA DupCounts ==
    ASSUME TypeOK, NEW t \in Task, NEW fd, NEW new \in DupTargets, Dup(t, fd, new)
    PROVE  Uncounted
<1> DEFINE no == IF new = -1 THEN NextFd(table[t]) ELSE new
           tb == IF new = -1 THEN TakeFd(table[t], t) ELSE table[t]
           F  == IF tb.cd[no].channel = NoChannel THEN {} ELSE {no}
<1>1. PollTypes /\ ChannelTypes
  BY DEF TypeOK
<1>2. CASE \E r : Answer(t, r)
  BY <1>2, AnswerCounts
<1>3. CASE \E why : Panic(why)
  BY <1>3, PanicCounts
<1>4. CASE /\ DupError(t, fd, new) = 0 /\ ClosePolls(t, F)
           /\ UNCHANGED <<taskVars, poll_count>>
  <2>1. ASSUME Careful, DescInv PROVE F = {}
    <3>1. new = -1 /\ no = NextFd(table[t]) /\ tb = TakeFd(table[t], t)
      BY <2>1 DEF Careful, FreshDup
    <3>2. table[t] \in Table
      BY <1>1 DEF ChannelTypes
    <3>3. ValidChannel(t, fd)
      BY <1>4 DEF DupError, EBADF
    <3>4. DupError(t, fd, -1) = 0
      BY <1>4, <3>1
    <3>5. NextFd(table[t]) >= 0 /\ NextFd(table[t]) \in Fd
      BY <3>2, <3>3, <3>4, DupNumber
    <3>6. ChannelOf(t, NextFd(table[t])) = NoChannel
      BY <2>1, <3>5, NextIsFree
    <3>7. TakeFd(table[t], t).cd[NextFd(table[t])].channel = NoChannel
      BY <3>2, <3>5, <3>6, TakeFdChannels DEF ChannelOf
    <3> QED
      BY <3>1, <3>7
  <2> HIDE DEF F
  <2>2. Careful /\ DescInv => \A k \in F : ~LinkedAtAll(<<t, k>>)
    BY <2>1
  <2>3. ListsShrink
    BY <1>1, <1>4, <2>2, ClosePollsShrinks
  <2> QED
    BY <1>4, <2>3, StillCounts DEF taskVars
<1> QED
  BY <1>2, <1>3, <1>4 DEF Dup

LEMMA ExitTaskCounts ==
    ASSUME TypeOK, NEW t \in Task, ExitTask(t)
    PROVE  Uncounted
<1> DEFINE open == {fd \in Fd : ChannelOf(t, fd) # NoChannel}
<1>1. CASE \E why : Panic(why)
  BY <1>1, PanicCounts
<1>2. CASE /\ ClosePolls(t, open) /\ state' = [state EXCEPT ![t] = "DEAD"]
           /\ task_count' = task_count - 1 /\ poll_count' = poll_count
  <2> HIDE DEF open
  <2>1. state'[t] = "DEAD"
    BY <1>2 DEF TypeOK, RunTypes
  <2>2. ListsShrink
    BY <1>2, <2>1, ClosePollsShrinks DEF TypeOK
  <2> QED
    BY <1>2, <2>2 DEF Uncounted, TypeOK, TaskTypes
<1> QED
  BY <1>1, <1>2 DEF ExitTask

LEMMA SpawnCounts ==
    ASSUME QueueInv, NodeInv, NEW t \in Task, NEW prio,
           NEW chans \in Seq(AnyFd), NEW flags, Spawn(t, prio, chans, flags)
    PROVE  Uncounted \/ \E i \in Task : Spawned(i)
<1> DEFINE free == queue[<<"free", 0>>]
           i == IF free = <<>> THEN next_tidx ELSE Head(free)
<1>1. TypeOK /\ Settled(state, queue) /\ PollTypes
  BY DEF QueueInv, TypeOK
<1>2. CASE \E r : Answer(t, r)
  BY <1>1, <1>2, AnswerCounts
<1>3. CASE /\ SpawnError(t, prio, chans, flags) = 0
           /\ state' = [state EXCEPT ![i] = "RUNNING"]
           /\ poll_queue' = [l \in DOMAIN poll_queue |->
                                IF l[1] = i THEN <<>> ELSE poll_queue[l]]
           /\ poll_count' = [poll_count EXCEPT ![i] = 0]
           /\ poll_list' = poll_list
  <2>1. ~(queue[<<"free", 0>>] = <<>> /\ next_tidx >= MaxTasks)
    BY <1>3 DEF SpawnError, ENOMEM, EBADF, EINVAL
  <2>2. i \in Task /\ state[i] = "DEAD"
    <3> HIDE DEF free
    <3> QED
      BY <1>1, <2>1, SpawnTakesFree DEF free
  <2> HIDE DEF i, free
  <2>3. ASSUME NEW ev \in PollEvent PROVE Range(poll_queue[<<i, ev>>]) = {}
    <3>1. ASSUME NEW n \in Range(poll_queue[<<i, ev>>]) PROVE FALSE
      <4>1. n \in Node
        <5>1. poll_queue[<<i, ev>>] \in Seq(Node)
          BY <1>1, <2>2 DEF PollTypes
        <5> QED
          BY <5>1, RangeOfSeq
      <4>2. n[1] = i /\ ChanIn(table, n) # NoChannel
        BY <2>2 DEF NodeInv, NodesPlaced, Placed
      <4>3. n[2] \in Fd
        BY <4>1 DEF Node
      <4> QED
        BY <2>2, <4>2, <4>3 DEF NodeInv, DeadClosed, ChanIn, ChannelOf
    <3> QED
      BY <3>1
  <2>4. ASSUME NEW j \in Task, NEW ev \in PollEvent
        PROVE  Range(poll_queue'[<<j, ev>>]) = Range(poll_queue[<<j, ev>>])
    <3>1. poll_queue'[<<j, ev>>] = IF j = i THEN <<>> ELSE poll_queue[<<j, ev>>]
      BY <1>1, <1>3 DEF PollTypes
    <3>2. Range(<<>>) = {}
      BY DEF Range
    <3> QED
      BY <2>3, <3>1, <3>2
  <2>5. ListsShrink
    BY <1>3, <2>4, ListsAlike
  <2>6. \A j \in Task \ {i} : state'[j] = state[j]
    BY <1>1, <1>3 DEF TypeOK, RunTypes
  <2> QED
    BY <1>3, <2>2, <2>5, <2>6 DEF Spawned
<1> QED
  BY <1>2, <1>3 DEF Spawn
LEMMA PollRemoveCounts ==
    ASSUME TypeOK, NEW t \in Task, NEW fd, NEW events \in SUBSET PollEvent,
           PollRemove(t, fd, events)
    PROVE  PollKind
<1> DEFINE m   == <<t, fd>>
           old == {ev \in events : Linked(m, ev)}
<1>1. CASE \E r : Answer(t, r)
  BY <1>1, AnswerCounts DEF PollKind
<1>2. CASE /\ ValidChannel(t, fd)
           /\ poll_list' = Unlink(poll_list, {m}, events)
           /\ poll_queue' = Unlink(poll_queue, {m}, events)
           /\ poll_count' = [poll_count EXCEPT ![t] = @ - Cardinality(old)]
           /\ state' = state
  <2>1. m \in Node /\ m[1] = t /\ old \in SUBSET PollEvent /\ PollTypes
    BY <1>2 DEF ValidChannel, Node, TypeOK
  <2>2. \A n, ev : Linked(n, ev) <=> Enrolled(poll_list, poll_queue, n, ev)
    BY DEF Linked, Enrolled
  <2>3. \A ev : ev \in old <=> ev \in events /\ Enrolled(poll_list, poll_queue, m, ev)
    BY <2>2
  <2> HIDE DEF m, old
  <2>4. \A n, ev : ev \in PollEvent =>
           (Enrolled(poll_list', poll_queue', n, ev) <=>
              Enrolled(poll_list, poll_queue, n, ev) /\ ~(n \in {m} /\ ev \in events))
    BY <1>2, <2>1, UnlinkEnrolled
  <2>5. CountedOff(m, old)
    BY <1>2, <2>1, <2>3, <2>4 DEF CountedOff
  <2> QED
    BY <2>1, <2>5 DEF PollKind
<1> QED
  BY <1>1, <1>2 DEF PollRemove, runVars

LEMMA PollAddCounts ==
    ASSUME TypeOK, NEW t \in Task, NEW fd, NEW events \in SUBSET PollEvent,
           PollAdd(t, fd, events)
    PROVE  PollKind
<1> DEFINE m    == <<t, fd>>
           c    == ChannelOf(t, fd)
           new  == {ev \in events : ~Linked(m, ev)}
           here == {ev \in new : Active(c, ev)}
<1>1. CASE \E r : Answer(t, r)
  BY <1>1, AnswerCounts DEF PollKind
<1>2. CASE /\ ValidChannel(t, fd)
           /\ poll_queue' = [l \in DOMAIN poll_queue |->
                 IF l[1] = t /\ l[2] \in here THEN Append(poll_queue[l], m)
                 ELSE poll_queue[l]]
           /\ poll_list' = [l \in DOMAIN poll_list |->
                 IF l[1] = c /\ l[2] \in new \ here THEN Append(poll_list[l], m)
                 ELSE poll_list[l]]
           /\ poll_count' = [poll_count EXCEPT ![t] = @ + Cardinality(new)]
           /\ state' = state
  <2>1. /\ m \in Node /\ m[1] = t /\ new \in SUBSET PollEvent /\ here \subseteq new
        /\ PollTypes /\ c \in Channel
    BY <1>2, ValidChannelType DEF ValidChannel, Node, TypeOK
  <2>2. \A ev \in new : ~Enrolled(poll_list, poll_queue, m, ev)
    BY DEF Linked, Enrolled
  <2> HIDE DEF m, c, new, here
  <2>3. ASSUME NEW s \in Seq(Node) PROVE Range(Append(s, m)) = Range(s) \cup {m}
    <3> DEFINE ms == <<m>>
    <3>1. Append(s, m) = s \o ms /\ ms \in Seq(Node) /\ Range(ms) = {m}
      BY <2>1, AppendIsConcat, OneElement
    <3> HIDE DEF ms
    <3> QED
      BY <3>1, RangeConcat
  <2>4. ASSUME NEW d \in Channel, NEW ev \in PollEvent
        PROVE  Range(poll_list'[<<d, ev>>]) = Range(poll_list[<<d, ev>>]) \cup
                  (IF d = c /\ ev \in new \ here THEN {m} ELSE {})
    <3>1. poll_list[<<d, ev>>] \in Seq(Node)
      BY <2>1 DEF PollTypes
    <3>2. poll_list'[<<d, ev>>] = IF d = c /\ ev \in new \ here
                                  THEN Append(poll_list[<<d, ev>>], m) ELSE poll_list[<<d, ev>>]
      BY <1>2, <2>1 DEF PollTypes
    <3> QED
      BY <2>3, <3>1, <3>2
  <2>5. ASSUME NEW i \in Task, NEW ev \in PollEvent
        PROVE  Range(poll_queue'[<<i, ev>>]) = Range(poll_queue[<<i, ev>>]) \cup
                  (IF i = t /\ ev \in here THEN {m} ELSE {})
    <3>1. poll_queue[<<i, ev>>] \in Seq(Node)
      BY <2>1 DEF PollTypes
    <3>2. poll_queue'[<<i, ev>>] = IF i = t /\ ev \in here
                                   THEN Append(poll_queue[<<i, ev>>], m) ELSE poll_queue[<<i, ev>>]
      BY <1>2, <2>1 DEF PollTypes
    <3> QED
      BY <2>3, <3>1, <3>2
  <2>6. ASSUME NEW n \in Node, NEW ev \in PollEvent
        PROVE  Enrolled(poll_list', poll_queue', n, ev) <=>
                  Enrolled(poll_list, poll_queue, n, ev) \/ (n = m /\ ev \in new)
    <3>1. Enrolled(poll_list, poll_queue, n, ev) =>
             Enrolled(poll_list', poll_queue', n, ev)
      BY <2>4, <2>5 DEF Enrolled
    <3>2. n = m /\ ev \in new \ here => n \in Range(poll_list'[<<c, ev>>])
      BY <2>1, <2>4
    <3>3. n = m /\ ev \in here => n \in Range(poll_queue'[<<t, ev>>])
      BY <2>5
    <3>4. n = m /\ ev \in new => Enrolled(poll_list', poll_queue', n, ev)
      BY <2>1, <3>2, <3>3 DEF Enrolled
    <3>5. ASSUME Enrolled(poll_list', poll_queue', n, ev)
          PROVE  Enrolled(poll_list, poll_queue, n, ev) \/ (n = m /\ ev \in new)
      <4>1. CASE \E d \in Channel : n \in Range(poll_list'[<<d, ev>>])
        BY <2>4, <4>1 DEF Enrolled
      <4>2. CASE \E i \in Task : n \in Range(poll_queue'[<<i, ev>>])
        BY <2>1, <2>5, <4>2 DEF Enrolled
      <4> QED
        BY <3>5, <4>1, <4>2 DEF Enrolled
    <3> QED
      BY <3>1, <3>4, <3>5
  <2>7. CountedOn(m, new)
    BY <1>2, <2>1, <2>2, <2>6 DEF CountedOn
  <2> QED
    BY <2>1, <2>7 DEF PollKind
<1> QED
  BY <1>1, <1>2 DEF PollAdd, runVars

LEMMA MessageCounts ==
    ASSUME QueueInv, NEW t \in Task, MessageCall(t)
    PROVE  Uncounted
<1>1. TypeOK
  BY DEF QueueInv
<1>2. CASE \E r : Answer(t, r)
  BY <1>1, <1>2, AnswerCounts
<1>3. ASSUME t # Idle, current = t, NEW ev \in PollEvent, NEW c \in Channel,
             NEW x \in Args, Exchange(t, ev, c, x)
      PROVE  Uncounted
  <2>1. CASE \E why : Panic(why)
    BY <1>1, <2>1, PanicCounts
  <2>2. CASE Joins(t, ev, c, x)
    <3>1. ListsShrink
      BY <1>1, <2>2, TriggerCounts DEF Joins
    <3> QED
      BY <1>1, <2>2, <3>1, StillCounts DEF Joins, taskVars
  <2>3. ASSUME NEW s \in Task, NEW r \in Task, Meets(t, ev, c, x, s, r)
        PROVE  Uncounted
    <3>1. ListsShrink
      BY <1>1, <2>3, TriggerCounts DEF Meets
    <3> QED
      BY <1>1, <2>3, <3>1, StillCounts DEF Meets, taskVars
  <2> QED
    BY <1>3, <2>1, <2>2, <2>3, ExchangeCases
<1> QED
  BY <1>1, <1>2, <1>3, MessageExchanges

LEMMA TaskCallCounts ==
    ASSUME QueueInv, NodeInv, NEW t \in Task, TaskCall(t)
    PROVE  PollKind
<1>1. TypeOK
  BY DEF QueueInv
<1>2. CASE UNCHANGED <<pollVars, task_count>>
  BY <1>1, <1>2, ListsSame, StillCounts DEF pollVars, PollKind
<1>3. /\ Gettid(t) \/ Getptid(t) \/ Yield(t) => UNCHANGED <<pollVars, task_count>>
      /\ \A id, null : Taskstat(t, id, null) => UNCHANGED <<pollVars, task_count>>
      /\ \A e : EventWait(t, e) \/ Suspend(t, e) => UNCHANGED <<pollVars, task_count>>
  BY DEF Gettid, Getptid, Yield, Taskstat, EventWait, Suspend, EventUnblockAll, Answer,
         taskVars
<1>4. ASSUME NEW prio \in SpawnPrios, NEW chans \in SpawnLists, NEW flags \in 0 .. 2,
             Spawn(t, prio, chans, flags)
      PROVE  PollKind
  BY <1>4, SpawnCounts, InputAssumption DEF PollKind
<1>5. CASE ExitTask(t)
  BY <1>1, <1>5, ExitTaskCounts DEF PollKind
<1> QED
  BY <1>2, <1>3, <1>4, <1>5 DEF TaskCall

LEMMA PollKindIs ==
    ASSUME PollInv, [Next]_vars
    PROVE  PollKind
<1>1. QueueInv /\ NodeInv /\ TypeOK /\ FreeQuiet
  BY DEF PollInv, KernelInv, QueueInv, ChannelInv
<1>2. CASE UNCHANGED <<pollVars, task_count>>
  BY <1>1, <1>2, ListsSame, StillCounts DEF pollVars, PollKind
<1>3. /\ UNCHANGED vars \/ Schedule \/ Stopped => UNCHANGED <<pollVars, task_count>>
      /\ \A e : Interrupt(e) => UNCHANGED <<pollVars, task_count>>
  BY DEF vars, Schedule, Panic, Stopped, Interrupt, EventUnblockAll, taskVars
<1>4. \A t, fd : Chanflags(t, fd) => UNCHANGED <<pollVars, task_count>>
  BY DEF Chanflags, Answer, taskVars
<1>5. \A t, fd, flags : DupSelf(t, fd, flags) => UNCHANGED <<pollVars, task_count>>
  BY DEF DupSelf, taskVars
<1>6. ASSUME NEW t \in Task, ChannelCall(t) PROVE PollKind
  BY <1>1, <1>2, <1>4, <1>5, <1>6, CloseCounts, NewChannelCounts, DupCounts
     DEF ChannelCall, PollKind
<1>7. ASSUME NEW t \in Task, PollCall(t) PROVE PollKind
  <2>1. \A E \in PollArgs : E \in SUBSET PollEvent
    BY InputAssumption
  <2>2. \A null : PollWait(t, null) => PollKind
    BY <1>1, PollWaitCounts DEF PollKind
  <2>3. ASSUME NEW fd \in FdArgs, NEW E \in PollArgs,
               PollAdd(t, fd, E) \/ PollRemove(t, fd, E)
        PROVE  PollKind
    BY <1>1, <2>1, <2>3, PollAddCounts, PollRemoveCounts
  <2> QED
    BY <1>7, <2>2, <2>3 DEF PollCall
<1>8. ASSUME NEW t \in Task, MessageCall(t) \/ TaskCall(t) PROVE PollKind
  BY <1>1, <1>8, MessageCounts, TaskCallCounts DEF PollKind
<1> QED
  BY <1>2, <1>3, <1>6, <1>7, <1>8 DEF Next

(* What task i polls, by descriptor and event. *)
PolledBy(pl, pq, i) ==
    {p \in Fd \X PollEvent : Enrolled(pl, pq, <<i, p[1]>>, p[2])}
Polled(i) == PolledBy(poll_list, poll_queue, i)

PollsCovered ==
    \A i \in Task : state[i] # "DEAD" => Cardinality(Polled(i)) <= poll_count[i]

PollsCounted ==
    \A i \in Task : state[i] # "DEAD" => Cardinality(Polled(i)) = poll_count[i]

LEMMA PolledFinite ==
    \A S \in SUBSET (Fd \X PollEvent) : IsFiniteSet(S) /\ Cardinality(S) \in Nat
<1>1. IsFiniteSet(Fd) /\ IsFiniteSet(PollEvent)
  BY FdFinite, EventsFinite
<1>2. IsFiniteSet(Fd \X PollEvent)
  BY <1>1, FS_Product
<1> QED
  BY <1>2, FS_Subset, FS_CardinalityType

LEMMA FewerPolled ==
    ASSUME NEW S, NEW T, S \subseteq T, T \in SUBSET (Fd \X PollEvent)
    PROVE  Cardinality(S) <= Cardinality(T) /\ Cardinality(S) \in Nat
<1>1. IsFiniteSet(T) /\ S \in SUBSET (Fd \X PollEvent)
  BY PolledFinite
<1> QED
  BY <1>1, PolledFinite, FS_Subset

(* Events E of one more descriptor, none of them polled before. *)
LEMMA MorePolled ==
    ASSUME NEW S \in SUBSET (Fd \X PollEvent), NEW fd \in Fd,
           NEW E \in SUBSET PollEvent, \A ev \in E : <<fd, ev>> \notin S
    PROVE  Cardinality(S \cup ({fd} \X E)) = Cardinality(S) + Cardinality(E)
<1> DEFINE T == {fd} \X E
<1>1. IsFiniteSet(S) /\ Cardinality(S) \in Nat
  BY PolledFinite
<1>2. /\ IsFiniteSet(E) /\ IsFiniteSet({fd}) /\ Cardinality({fd}) = 1
      /\ Cardinality(E) \in Nat
  BY EventsFinite, FS_Singleton
<1>3. IsFiniteSet(T) /\ Cardinality(T) = Cardinality({fd}) * Cardinality(E)
  BY <1>2, FS_Product
<1>4. S \cap T = {}
  OBVIOUS
<1> HIDE DEF T
<1>5. Cardinality(T) = Cardinality(E)
  BY <1>2, <1>3
<1>6. Cardinality(S \cup T) = Cardinality(S) + Cardinality(T) - Cardinality(S \cap T)
  BY <1>1, <1>3, FS_Union
<1>7. Cardinality(S \cap T) = 0
  BY <1>4, FS_EmptySet, Zenon
<1>8. Cardinality(S \cup T) = Cardinality(S) + Cardinality(E)
  BY <1>1, <1>2, <1>5, <1>6, <1>7
<1> QED
  BY <1>8 DEF T

(* Only a step that spawns brings a task to life. *)
LEMMA DeadStay ==
    ASSUME TaskTypes, StepKind, task_count' # task_count + 1,
           NEW i \in Task, state[i] = "DEAD"
    PROVE  state'[i] = "DEAD"
<1>1. CASE Aside
  BY <1>1 DEF Aside, StatesStay, NoTask, Task
<1>2. ASSUME NEW t \in Task, Dies(t) PROVE state'[i] = "DEAD"
  BY <1>2 DEF Dies, StatesStay
<1>3. \A t, j : ~Born(t, j)
  BY DEF Born
<1>4. ASSUME NEW t \in Task, NEW ev \in PollEvent, NEW c \in Channel, Waits(t, ev, c)
      PROVE  state'[i] = "DEAD"
  BY <1>4 DEF Waits, StatesStay
<1>5. ASSUME NEW t \in Task, NEW ev \in PollEvent, NEW c \in Channel, NEW len \in Nat,
             NEW k \in Task, Serves(t, ev, c, len, k)
      PROVE  state'[i] = "DEAD"
  <2>1. state[k] # "DEAD" /\ StatesStay(k, Blocked \cup {"DEAD"})
    BY <1>5 DEF Serves
  <2> QED
    BY <2>1 DEF StatesStay
<1> QED
  BY <1>1, <1>2, <1>3, <1>4, <1>5 DEF StepKind

(* A task polls no more than before unless that is counted, and exactly    *)
(* what is counted unless something is closed.                             *)
LEMMA PolledStep ==
    ASSUME PollInv, StepKind, PollKind, NEW i \in Task, state'[i] # "DEAD"
    PROVE  \/ poll_count'[i] = 0 /\ Cardinality((Polled(i))') = 0
           \/ /\ state[i] # "DEAD"
              /\ \E d \in Int :
                    /\ poll_count'[i] = poll_count[i] + d
                    /\ Cardinality((Polled(i))') <= Cardinality(Polled(i)) + d
                    /\ Careful /\ DescInv =>
                          Cardinality((Polled(i))') = Cardinality(Polled(i)) + d
<1> DEFINE P == Polled(i)
           Q == (Polled(i))'
<1>1. TypeOK /\ NodeInv /\ TaskTypes /\ poll_count \in [Task -> Int]
  BY DEF PollInv, KernelInv, QueueInv, TypeOK, PollTypes
<1>2. /\ \A p \in Fd \X PollEvent :
           /\ p[1] \in Fd /\ p[2] \in PollEvent /\ p = <<p[1], p[2]>>
           /\ <<i, p[1]>> \in Node /\ <<i, p[1]>>[1] = i /\ <<i, p[1]>>[2] = p[1]
      /\ \A p \in Fd \X PollEvent :
           p \in P <=> Enrolled(poll_list, poll_queue, <<i, p[1]>>, p[2])
      /\ \A p \in Fd \X PollEvent :
           p \in Q <=> Enrolled(poll_list', poll_queue', <<i, p[1]>>, p[2])
  BY DEF Node, Polled, PolledBy
<1>3. P \in SUBSET (Fd \X PollEvent) /\ Q \in SUBSET (Fd \X PollEvent)
  BY DEF Polled, PolledBy
<1> HIDE DEF P, Q
<1>4. Cardinality(P) \in Nat /\ Cardinality(Q) \in Nat
  BY <1>3, PolledFinite
<1>5. ASSUME ListsShrink
      PROVE  Q \subseteq P /\ (Careful /\ DescInv => Q = P)
  <2>1. \A p \in Fd \X PollEvent : p \in Q => p \in P
    BY <1>2, <1>5 DEF ListsShrink
  <2>2. Careful /\ DescInv => \A p \in Fd \X PollEvent : p \in P => p \in Q
    BY <1>2, <1>5 DEF ListsShrink
  <2> QED
    BY <1>3, <2>1, <2>2
<1>6. ASSUME ListsShrink, poll_count'[i] = poll_count[i], state[i] # "DEAD"
      PROVE  \E d \in Int : /\ poll_count'[i] = poll_count[i] + d
                            /\ Cardinality(Q) <= Cardinality(P) + d
                            /\ Careful /\ DescInv =>
                                  Cardinality(Q) = Cardinality(P) + d
  <2>1. Cardinality(Q) <= Cardinality(P)
    BY <1>3, <1>5, <1>6, FewerPolled
  <2>2. Careful /\ DescInv => Cardinality(Q) = Cardinality(P)
    BY <1>5, <1>6, Zenon
  <2> WITNESS 0 \in Int
  <2> QED
    BY <1>1, <1>4, <1>6, <2>1, <2>2
<1>7. CASE Uncounted
  <2>1. state[i] # "DEAD"
    BY <1>1, <1>7, DeadStay DEF Uncounted
  <2> QED
    BY <1>6, <1>7, <2>1 DEF Uncounted, P, Q
<1>8. ASSUME NEW j \in Task, Spawned(j)
      PROVE  \/ poll_count'[i] = 0 /\ Cardinality(Q) = 0
             \/ /\ state[i] # "DEAD"
                /\ \E d \in Int : /\ poll_count'[i] = poll_count[i] + d
                                  /\ Cardinality(Q) <= Cardinality(P) + d
                                  /\ Careful /\ DescInv =>
                                        Cardinality(Q) = Cardinality(P) + d
  <2>1. CASE i # j
    <3>1. poll_count'[i] = poll_count[i] /\ state[i] # "DEAD"
      BY <1>1, <1>8, <2>1 DEF Spawned
    <3> QED
      BY <1>6, <1>8, <3>1 DEF Spawned
  <2>2. CASE i = j
    <3>1. poll_count'[i] = 0 /\ state[i] = "DEAD"
      BY <1>1, <1>8, <2>2 DEF Spawned
    <3>2. P = {}
      <4>1. ASSUME NEW p \in Fd \X PollEvent, p \in P PROVE FALSE
        <5> DEFINE n == <<i, p[1]>>
        <5>1. n[1] = i /\ n[2] = p[1] /\ p[1] \in Fd /\ p[2] \in PollEvent
          BY <1>2
        <5>2. Enrolled(poll_list, poll_queue, n, p[2])
          BY <1>2, <4>1
        <5> HIDE DEF n
        <5>3. ChanIn(table, n) # NoChannel
          <6>1. Placed(poll_list, poll_queue, table)
            BY <1>1 DEF NodeInv, NodesPlaced
          <6>2. CASE \E c \in Channel : n \in Range(poll_list[<<c, p[2]>>])
            BY <5>1, <6>1, <6>2, ChannelAssumption DEF Placed
          <6>3. CASE \E k \in Task : n \in Range(poll_queue[<<k, p[2]>>])
            BY <5>1, <6>1, <6>3 DEF Placed
          <6> QED
            BY <5>2, <6>2, <6>3 DEF Enrolled
        <5> QED
          BY <1>1, <3>1, <5>1, <5>3 DEF NodeInv, DeadClosed, ChanIn, ChannelOf
      <4> QED
        BY <1>3, <4>1
    <3>3. Q = {}
      BY <1>5, <1>8, <3>2 DEF Spawned
    <3>4. Cardinality(Q) = 0
      BY <3>3, FS_EmptySet, Zenon
    <3> QED
      BY <3>1, <3>4
  <2> QED
    BY <2>1, <2>2
<1>9. ASSUME NEW m \in Node, NEW E \in SUBSET PollEvent, CountedOn(m, E) \/ CountedOff(m, E)
      PROVE  /\ state[i] # "DEAD"
             /\ \E d \in Int : /\ poll_count'[i] = poll_count[i] + d
                               /\ Cardinality(Q) = Cardinality(P) + d
  <2>1. state[i] # "DEAD"
    BY <1>9 DEF CountedOn, CountedOff
  <2>2. m[1] \in Task /\ m[2] \in Fd /\ m = <<m[1], m[2]>> /\ Cardinality(E) \in Nat
    BY EventsFinite DEF Node
  <2>3. CASE i # m[1]
    <3>1. poll_count'[i] = poll_count[i]
      BY <1>1, <1>9, <2>3 DEF CountedOn, CountedOff
    <3>2. \A p \in Fd \X PollEvent : p \in Q <=> p \in P
      <4>1. \A p \in Fd \X PollEvent : <<i, p[1]>> # m
        BY <1>2, <2>3
      <4> QED
        BY <1>2, <1>9, <4>1 DEF CountedOn, CountedOff
    <3>3. Q = P
      BY <1>3, <3>2
    <3>4. Cardinality(Q) = Cardinality(P)
      BY <3>3, Zenon
    <3>5. /\ 0 \in Int /\ poll_count'[i] = poll_count[i] + 0
          /\ Cardinality(Q) = Cardinality(P) + 0
      BY <1>1, <1>4, <3>1, <3>4
    <3> QED
      BY <2>1, <3>5
  <2>4. CASE i = m[1]
    <3>1. \A p \in Fd \X PollEvent : <<i, p[1]>> = m <=> p[1] = m[2]
      BY <1>2, <2>2, <2>4
    <3>2. CASE CountedOn(m, E)
      <4>1. poll_count'[i] = poll_count[i] + Cardinality(E)
        BY <1>1, <2>4, <3>2 DEF CountedOn
      <4>2. \A p \in Fd \X PollEvent : p \in Q <=> p \in P \/ (p[1] = m[2] /\ p[2] \in E)
        BY <1>2, <3>1, <3>2 DEF CountedOn
      <4>3. Q = P \cup ({m[2]} \X E)
        BY <1>3, <2>2, <4>2
      <4>4. \A ev \in E : <<m[2], ev>> \notin P
        <5>1. ASSUME NEW ev \in E, <<m[2], ev>> \in P PROVE FALSE
          <6> DEFINE p == <<m[2], ev>>
          <6>1. p \in Fd \X PollEvent /\ p[1] = m[2] /\ p[2] = ev
            BY <2>2
          <6> HIDE DEF p
          <6>2. Enrolled(poll_list, poll_queue, m, ev)
            BY <1>2, <3>1, <5>1, <6>1 DEF p
          <6> QED
            BY <3>2, <6>2 DEF CountedOn
        <5> QED
          BY <5>1
      <4>5. Cardinality(Q) = Cardinality(P) + Cardinality(E)
        BY <1>3, <2>2, <4>3, <4>4, MorePolled
      <4> QED
        BY <2>1, <2>2, <4>1, <4>5
    <3>3. CASE CountedOff(m, E)
      <4>1. poll_count'[i] = poll_count[i] - Cardinality(E)
        BY <1>1, <2>4, <3>3 DEF CountedOff
      <4>2. \A p \in Fd \X PollEvent : p \in Q <=> p \in P /\ ~(p[1] = m[2] /\ p[2] \in E)
        BY <1>2, <3>1, <3>3 DEF CountedOff
      <4>3. \A ev \in E : <<m[2], ev>> \in P
        <5>1. ASSUME NEW ev \in E PROVE <<m[2], ev>> \in P
          <6> DEFINE p == <<m[2], ev>>
          <6>1. p \in Fd \X PollEvent /\ p[1] = m[2] /\ p[2] = ev
            BY <2>2
          <6> HIDE DEF p
          <6>2. p \in P
            BY <1>2, <3>1, <3>3, <6>1 DEF CountedOff
          <6> QED
            BY <6>2 DEF p
        <5> QED
          BY <5>1
      <4>4. P = Q \cup ({m[2]} \X E)
        BY <1>3, <2>2, <4>2, <4>3
      <4>5. \A ev \in E : <<m[2], ev>> \notin Q
        BY <2>2, <4>2
      <4>6. Cardinality(P) = Cardinality(Q) + Cardinality(E)
        BY <1>3, <2>2, <4>4, <4>5, MorePolled
      <4> DEFINE d == -Cardinality(E)
      <4>7. d \in Int /\ poll_count[i] - Cardinality(E) = poll_count[i] + d
            /\ Cardinality(Q) = Cardinality(P) + d
        BY <1>1, <1>4, <2>2, <4>6
      <4> HIDE DEF d
      <4> QED
        BY <2>1, <4>1, <4>7
    <3> QED
      BY <1>9, <3>2, <3>3
  <2> QED
    BY <2>1, <2>3, <2>4
<1>10. ASSUME NEW m \in Node, NEW E \in SUBSET PollEvent, CountedOn(m, E) \/ CountedOff(m, E)
       PROVE  /\ state[i] # "DEAD"
              /\ \E d \in Int : /\ poll_count'[i] = poll_count[i] + d
                                /\ Cardinality(Q) <= Cardinality(P) + d
                                /\ Careful /\ DescInv =>
                                      Cardinality(Q) = Cardinality(P) + d
  <2>1. state[i] # "DEAD"
    BY <1>9, <1>10
  <2>2. PICK d \in Int : /\ poll_count'[i] = poll_count[i] + d
                         /\ Cardinality(Q) = Cardinality(P) + d
    BY <1>9, <1>10
  <2>3. Cardinality(Q) <= Cardinality(P) + d
    BY <1>4, <2>2
  <2> QED
    BY <2>1, <2>2, <2>3
<1> QED
  BY <1>7, <1>8, <1>10 DEF PollKind, P, Q

LEMMA InitPolled ==
    ASSUME Init, NEW i \in Task
    PROVE  Cardinality(Polled(i)) = 0 /\ poll_count[i] = 0
<1>1. Range(<<>>) = {}
  BY DEF Range
<1>2. \A n, ev : ev \in PollEvent => ~Enrolled(poll_list, poll_queue, n, ev)
  <2>1. \A c \in Channel, ev \in PollEvent : poll_list[<<c, ev>>] = <<>>
    BY DEF Init
  <2>2. \A j \in Task, ev \in PollEvent : poll_queue[<<j, ev>>] = <<>>
    BY DEF Init
  <2> QED
    BY <1>1, <2>1, <2>2 DEF Enrolled
<1>3. Polled(i) = {}
  BY <1>2 DEF Polled, PolledBy
<1> QED
  BY <1>3, FS_EmptySet, Zenon DEF Init

(* poll_count counts at least what a task polls: as long as a descriptor   *)
(* of its is on a list, poll_wait does not refuse to wait.                 *)
THEOREM PollsAreCovered == Spec => []PollsCovered
<1>1. Init => PollsCovered
  BY InitPolled DEF PollsCovered
<1>2. PollInv /\ StepKind /\ PollKind /\ PollsCovered => PollsCovered'
  <2> SUFFICES ASSUME PollInv, StepKind, PollKind, PollsCovered,
                      NEW i \in Task, state'[i] # "DEAD"
               PROVE  Cardinality((Polled(i))') <= poll_count'[i]
    BY DEF PollsCovered
  <2> DEFINE k == Cardinality(Polled(i))
             j == Cardinality((Polled(i))')
  <2>1. k \in Nat /\ j \in Nat /\ poll_count[i] \in Int
    BY PolledFinite DEF Polled, PolledBy, PollInv, KernelInv, QueueInv, TypeOK, PollTypes
  <2>2. \/ poll_count'[i] = 0 /\ j = 0
        \/ /\ state[i] # "DEAD"
           /\ \E d \in Int : poll_count'[i] = poll_count[i] + d /\ j <= k + d
    BY PolledStep
  <2>3. state[i] # "DEAD" => k <= poll_count[i]
    BY DEF PollsCovered
  <2> HIDE DEF j, k
  <2>4. j <= poll_count'[i]
    BY <2>1, <2>2, <2>3
  <2> QED
    BY <2>4 DEF j
<1>3. WaitInv /\ [Next]_vars /\ PollsCovered => PollsCovered'
  BY <1>2, StepIs, PollKindIs DEF WaitInv
<1> QED
  BY <1>1, <1>3, WaitInvariant, PTL DEF Spec

LEMMA PlacesEnrolled ==
    ASSUME NEW n, NEW ev \in PollEvent
    PROVE  PollPlaces(n, ev) # {} <=> Enrolled(poll_list, poll_queue, n, ev)
<1>1. ASSUME NEW S, NEW f
      PROVE  PlacesIn(f, S \X {ev}, n) # {} <=> \E x \in S : n \in Range(f[<<x, ev>>])
  <2> DEFINE D == S \X {ev}
  <2>1. PlacesIn(f, D, n) # {} <=> \E l \in D : \E k \in DOMAIN f[l] : f[l][k] = n
    <3> HIDE DEF D
    <3>1. ASSUME NEW p \in PlacesIn(f, D, n)
          PROVE  \E l \in D : \E k \in DOMAIN f[l] : f[l][k] = n
      BY PlacesListed
    <3>2. ASSUME NEW l \in D, NEW k \in DOMAIN f[l], f[l][k] = n
          PROVE  PlacesIn(f, D, n) # {}
      <4> DEFINE p == <<l, k>>
      <4>1. p = <<l, k>>
        OBVIOUS
      <4> HIDE DEF p
      <4>2. p \in PlacesIn(f, D, n)
        BY <3>2, <4>1, PlacesListed
      <4> QED
        BY <4>2
    <3> QED
      BY <3>1, <3>2
  <2>2. \A l \in S \X {ev} : l[1] \in S /\ l = <<l[1], ev>>
    OBVIOUS
  <2>3. \A x \in S : <<x, ev>> \in S \X {ev}
    OBVIOUS
  <2>4. \A l : n \in Range(f[l]) <=> \E k \in DOMAIN f[l] : f[l][k] = n
    BY DEF Range
  <2> QED
    BY <2>1, <2>2, <2>3, <2>4
<1>2. PlacesIn(poll_list, Channel \X {ev}, n) # {} <=>
         \E c \in Channel : n \in Range(poll_list[<<c, ev>>])
  BY <1>1
<1>3. PlacesIn(poll_queue, Task \X {ev}, n) # {} <=>
         \E i \in Task : n \in Range(poll_queue[<<i, ev>>])
  BY <1>1
<1>4. PollPlaces(n, ev) # {} <=> \/ PlacesIn(poll_list, Channel \X {ev}, n) # {}
                                \/ PlacesIn(poll_queue, Task \X {ev}, n) # {}
  BY DEF PollPlaces
<1> QED
  BY <1>2, <1>3, <1>4 DEF Enrolled

LEMMA StillPolled ==
    ASSUME UNCHANGED vars, PollsCounted
    PROVE  PollsCounted'
BY DEF PollsCounted, Polled, PolledBy, Enrolled, vars, taskVars, runVars, pollVars

(* As long as no task closes a descriptor it polls, as no program of this  *)
(* system does, poll_count is exactly the number of events that            *)
(* descriptors of the task are on lists for: sys_poll_add counts an event  *)
(* once however often it is asked for, sys_poll_remove takes off what it   *)
(* unlinks, poll_wait and poll_trigger_all only move nodes, and a spawn, a *)
(* dup, a channel made or handed over or a reply channel closed leaves     *)
(* them alone.  (A polled descriptor closed: run kernel_poll_close.)       *)
THEOREM PollCountsAreExact ==
    ASSUME FreshDup
    PROVE  CarefulSpec => []PollCountExact
<1>1. PolledStayOpen => Careful
  BY DEF Careful
<1>2. Init => PollsCounted
  BY InitPolled DEF PollsCounted
<1>3. PollInv /\ DescInv /\ StepKind /\ PollKind /\ Careful /\ PollsCounted => PollsCounted'
  <2> SUFFICES ASSUME PollInv, DescInv, StepKind, PollKind, Careful, PollsCounted,
                      NEW i \in Task, state'[i] # "DEAD"
               PROVE  Cardinality((Polled(i))') = poll_count'[i]
    BY DEF PollsCounted
  <2> DEFINE k == Cardinality(Polled(i))
             j == Cardinality((Polled(i))')
  <2>1. k \in Nat /\ j \in Nat /\ poll_count[i] \in Int
    BY PolledFinite DEF Polled, PolledBy, PollInv, KernelInv, QueueInv, TypeOK, PollTypes
  <2>2. \/ poll_count'[i] = 0 /\ j = 0
        \/ /\ state[i] # "DEAD"
           /\ \E d \in Int : poll_count'[i] = poll_count[i] + d /\ j = k + d
    BY PolledStep
  <2>3. state[i] # "DEAD" => k = poll_count[i]
    BY DEF PollsCounted
  <2> HIDE DEF j, k
  <2>4. j = poll_count'[i]
    BY <2>1, <2>2, <2>3
  <2> QED
    BY <2>4 DEF j
<1>4. WaitInv /\ DescInv /\ [Next /\ PolledStayOpen]_vars /\ PollsCounted => PollsCounted'
  <2>1. CASE Next /\ PolledStayOpen
    BY <1>1, <1>3, <2>1, StepIs, PollKindIs DEF WaitInv
  <2>2. CASE UNCHANGED vars
    BY <2>2, StillPolled
  <2> QED
    BY <2>1, <2>2
<1>5. PollsCounted => PollCountExact
  <2> SUFFICES ASSUME PollsCounted, NEW i \in Alive
               PROVE  poll_count[i] = Cardinality(
                         {p \in Fd \X PollEvent : PollPlaces(<<i, p[1]>>, p[2]) # {}})
    BY DEF PollCountExact
  <2> DEFINE S == {p \in Fd \X PollEvent : PollPlaces(<<i, p[1]>>, p[2]) # {}}
  <2>1. S = Polled(i)
    <3>1. \A p \in Fd \X PollEvent : PollPlaces(<<i, p[1]>>, p[2]) # {} <=>
             Enrolled(poll_list, poll_queue, <<i, p[1]>>, p[2])
      BY PlacesEnrolled
    <3> QED
      BY <3>1 DEF Polled, PolledBy
  <2> HIDE DEF S
  <2>2. poll_count[i] = Cardinality(Polled(i))
    BY DEF PollsCounted, Alive
  <2> QED
    BY <2>1, <2>2, Zenon DEF S
<1>6. CarefulSpec => Spec
  <2>1. [Next /\ PolledStayOpen]_vars => [Next]_vars
    OBVIOUS
  <2> QED
    BY <2>1, PTL DEF CarefulSpec, Spec
<1> QED
  BY <1>2, <1>4, <1>5, <1>6, WaitInvariant, DescriptorInvariant, PTL DEF CarefulSpec
=============================================================================
