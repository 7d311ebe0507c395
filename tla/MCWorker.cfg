SPECIFICATION MCSpec
CONSTANTS
  Topologies = {t1}
  NoTopology = NoTopology
  Clients = {c1, c2}
  NoClient = NoClient
  Requested <- ClientOps
  Sessions = {1}
  NoSession = NoSession
  QueueLimit = 2
  StartupMayFail = TRUE
  MayTimeOut = TRUE
  MaxEvents = 2
  Scenarios <- Safety
SYMMETRY Symmetry
INVARIANTS
  RequestsServed
  SafeStateRemembered
