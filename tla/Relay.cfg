\* One phone with two requests, three connections, two faults.
CONSTANTS
  p1 = p1
  Phones = {p1}
  Conns = {1, 2, 3}
  NoConn = NoConn
  Sends <- MCSends
  MaxFaults = 2
SPECIFICATION FairSpec
INVARIANTS TypeOK OpenHostIsFound NoOrphanPhone ArriveInOrder
PROPERTIES LooksLikeAPipe RequestsSettle ChannelsEnd HostReturns
CHECK_DEADLOCK FALSE
