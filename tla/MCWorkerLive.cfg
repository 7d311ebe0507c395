SPECIFICATION MCFairSpec
CONSTANTS
  Topologies = {t1}
  NoTopology = NoTopology
  Clients = {c1, c2}
  NoClient = NoClient
  Requested <- ClientOps
  Sessions = {1}
  NoSession = NoSession
  QueueLimit = 3
  StartupMayFail = FALSE
  MayTimeOut = FALSE
  MaxEvents = 2
  Scenarios <- Liveness
PROPERTIES
  ControlServed
  ShutdownCompletes
