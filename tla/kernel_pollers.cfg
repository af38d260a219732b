\* Three user tasks on one channel: waiting, polling, closing and exiting.
SPECIFICATION Spec
CONSTANTS
  MaxTasks = 5
  MaxFds = 1
  NPrio = 2
  NEvents = 0
  Channel = {c1}
  NoChannel = NoChannel
  MaxGen = 0
  MaxPolls = 2
  Calls = {"channel", "close", "spawn", "send", "recv", "exit", "poll_add", "poll_remove", "poll_wait"}
  FdArgs <- Fds
  Nonblock = {FALSE}
  Lens <- OneLength
  SendChans <- NewFd
  RecvChans = {FALSE}
  NullArgs = {FALSE}
  PollArgs <- PollRecv
  SpawnPrios <- UserPrio
  SpawnLists <- GiveFirst
  DupTargets = {}
  FlagArgs = {}
INVARIANTS
  QueuesAgree
  NoLostPoll
  NodesOnce
  ReportsTrue
PROPERTIES
  FirstComeFirstServed
  OneForOne
