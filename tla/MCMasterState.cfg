SPECIFICATION Spec
CONSTANTS
  Topologies = {t1, t2}
  NoTopology = NoTopology
  Modes = {real, demo}
  Adapters = {eth0}
  NoAdapter = NoAdapter
  Errors = {failure}
  NoError = NoError
  NoSession = NoSession
  MaxRevision = 6
INVARIANTS
  PhaseConsistent
PROPERTIES
  SessionPinsTopology
  FaultedIsFinal
  ImplementsClock
CHECK_DEADLOCK FALSE
