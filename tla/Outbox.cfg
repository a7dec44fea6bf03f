SPECIFICATION OutboxSpec
CONSTANTS
  Mails = {m1, m2}
  A = A
  B = B
  a = a
  b = b
  Hosts <- MCHosts
  Addrs <- MCAddrs
  HostOf <- MCHostOf
  Self = Self
  Unparsable = Unparsable
  None = None
  RcptLists <- MCOne
  FaultKinds = {"crash"}
  MaxFaults = 1
  ClientKinds = {"append", "store", "expunge", "move"}
  ClientFlags = {"Deleted"}
  MaxClient = 1
  MaxCopies = 1
SYMMETRY Symmetry
INVARIANTS
  OutboxTypeOK
  QueueRefsExist
  RunningFlag
CHECK_DEADLOCK FALSE
