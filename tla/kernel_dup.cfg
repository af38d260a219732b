\* One task calls dup on descriptors that are open.
SPECIFICATION Spec
CONSTANTS
  MaxTasks = 4
  MaxFds = 2
  NPrio = 2
  NEvents = 0
  Channel = {c1, c2}
  NoChannel = NoChannel
  MaxGen = 0
  MaxPolls = 4
  Calls = {"channel", "close", "dup"}
  FdArgs <- Fds
  Nonblock = {}
  Lens <- OneLength
  SendChans = {}
  RecvChans = {}
  NullArgs = {}
  PollArgs = {}
  SpawnPrios <- UserPrio
  SpawnLists <- GiveFirst
  DupTargets <- AllFds
  FlagArgs = {}
INVARIANTS
  RefcountIsOpen
