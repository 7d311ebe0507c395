SPECIFICATION MCSpec
CONSTANTS
  Topologies = {t1}
  NoTopology = NoTopology
  Hardware = {h1}
  IdleMonitor = monitor
  Control = control
  NoClient = NoClient
  NoSession = NoSession
  Modes = {real}
  Adapter = eth0
  NoAdapter = NoAdapter
  Failure = failure
  NoError = NoError
  QueueLimit = 3
  StartupMayFail = TRUE
  MayShutDown = TRUE
  Methods <- AllMethods
  MaxCommands = 4
  MaxProbes = 1
  MaxEvents = 2
  Scenarios <- CycleOnly
PROPERTIES
  EventsKeepNewerState
CHECK_DEADLOCK FALSE
