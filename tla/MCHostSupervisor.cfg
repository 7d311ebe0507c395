SPECIFICATION Spec
CONSTANTS
  Callers = {c1}
  Sup = supervisor
  Exit = exit
  Nobody = nobody
  ChannelLimit = 1
  MaxGen = 2
  MaxRequests = 1
INVARIANTS
  SingleCore
  ExitLeavesNoCore
  FaultsAreHeard
CHECK_DEADLOCK FALSE
