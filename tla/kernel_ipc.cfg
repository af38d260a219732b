\* Two user tasks, two channels, two descriptors each: descriptors come and go.
SPECIFICATION Spec
CONSTANTS
  MaxTasks = 4
  MaxFds = 2
  NPrio = 2
  NEvents = 0
  Channel = {c1, c2}
  NoChannel = NoChannel
  MaxGen = 0
  MaxPolls = 4
  Calls = {"channel", "close", "dup", "spawn", "send", "recv", "exit"}
  FdArgs <- AllFds
  Nonblock = {TRUE, FALSE}
  Lens <- TwoLengths
  SendChans <- SomeFds
  RecvChans = {TRUE, FALSE}
  NullArgs = {}
  PollArgs = {}
  SpawnPrios <- UserPrio
  SpawnLists <- GiveFirst
  DupTargets <- NewFd
  FlagArgs = {}
SYMMETRY ChannelSymmetry
INVARIANTS
  TypeOK
  RefcountExact
  ChannelsInUseLive
  NoInternalPanic
  DescriptorsAccounted
  NobodyMissed
