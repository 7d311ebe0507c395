SPECIFICATION MCFairSpec
CONSTANTS
  Topologies = {t1}
  NoTopology = NoTopology
  Hardware = {h1, h2}
  IdleMonitor = monitor
  Control = control
  NoClient = NoClient
  NoSession = NoSession
  Modes = {real}
  Adapter = eth0
  NoAdapter = NoAdapter
  Failure = failure
  NoError = NoError
  QueueLimit = 3
  StartupMayFail = TRUE
  MayShutDown = TRUE
  Methods <- AllMethods
  MaxCommands = 2
  MaxProbes = 0
  MaxEvents = 2
  Scenarios <- Liveness
PROPERTIES
  CommandsFinish
CHECK_DEADLOCK FALSE
