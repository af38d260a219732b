\* Tasks come and go, at two priorities above idle, wait for two events and change flags.
SPECIFICATION FairSpec
CONSTANTS
  MaxTasks = 4
  MaxFds = 1
  NPrio = 3
  NEvents = 2
  Channel = {c1}
  NoChannel = NoChannel
  MaxGen = 2
  MaxPolls = 4
  Calls = {"channel", "dup", "chanflags", "spawn", "exit", "gettid", "getptid", "yield", "taskstat", "event_wait", "suspend"}
  FdArgs <- Fds
  Nonblock = {}
  Lens <- OneLength
  SendChans = {}
  RecvChans = {}
  NullArgs = {TRUE, FALSE}
  PollArgs = {}
  SpawnPrios <- AllPrios
  SpawnLists <- GiveNone
  DupTargets = {}
  FlagArgs <- RecvOnly
INVARIANTS
  CountsAgree
  PriorityRespected
PROPERTIES
  OrphansStayOrphans
  RoundRobin
  TickWakes
