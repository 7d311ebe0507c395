SPECIFICATION MCSpec
CONSTANTS
  Topologies = {t1, t2}
  NoTopology = NoTopology
  Hardware = {h1, h2}
  IdleMonitor = monitor
  Control = control
  NoClient = NoClient
  NoSession = NoSession
  Modes = {real}
  Adapter = eth0
  NoAdapter = NoAdapter
  Failure = failure
  NoError = NoError
  QueueLimit = 3
  StartupMayFail = TRUE
  MayShutDown = TRUE
  Methods <- AllMethods
  MaxCommands = 4
  MaxProbes = 1
  MaxEvents = 2
  Scenarios <- Safety
SYMMETRY Symmetry
INVARIANTS
  ConnectedIsOpen
  OneProgrammer
  FaultShown
PROPERTIES
  SingleMaster
  RequestsAreCurrent
  SessionsHold
CHECK_DEADLOCK FALSE
