SPECIFICATION FairSpec
CONSTANTS
  Callers = {c1}
  Sup = supervisor
  Exit = exit
  Nobody = nobody
  ChannelLimit = 1
  MaxGen = 1
  MaxRequests = 1
PROPERTIES
  RequestsEnd
  CoreReplaced
  ExitEnds
CHECK_DEADLOCK FALSE
