SPECIFICATION MCSpec
CONSTANTS
  Methods = {"status", "scan", "stop_cycle", "disconnect", "register_watch"}
  Hardware = {"scan", "stop_cycle", "disconnect", "register_watch"}
  Mutating = {"stop_cycle", "disconnect"}
  Connecting = {"scan", "disconnect"}
  NoSnapshot = NoSnapshot
  StoreLimit = 2
  StoreKept = 2
  MaxOps = 4
  MaxActive = 2
  MaxPage = 1
  MaxGeneration = 2
  MaxSession = 1
  MaxRevision = 1
  MaxEvents = 1
  Slaves = {1, 2}
  WorkbenchSessions = 2
  MaxRequests = 2
INVARIANTS InstallsSafely WorkbenchIsSound
PROPERTIES ClockNeverBack ReturnsInContext NoFalseVerdict
CHECK_DEADLOCK FALSE
