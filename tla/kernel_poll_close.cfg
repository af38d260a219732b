\* A task closes a descriptor it polls.
SPECIFICATION Spec
CONSTANTS
  MaxTasks = 4
  MaxFds = 1
  NPrio = 2
  NEvents = 0
  Channel = {c1}
  NoChannel = NoChannel
  MaxGen = 0
  MaxPolls = 4
  Calls = {"channel", "close", "poll_add"}
  FdArgs <- Fds
  Nonblock = {}
  Lens <- OneLength
  SendChans = {}
  RecvChans = {}
  NullArgs = {}
  PollArgs <- PollRecv
  SpawnPrios <- UserPrio
  SpawnLists <- GiveFirst
  DupTargets = {}
  FlagArgs = {}
INVARIANTS
  PollCountExact
