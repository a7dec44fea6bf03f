SPECIFICATION OutboxSpec
CONSTANTS
  Mails = {m1, m2}
  A = A
  B = B
  a = a
  b = b
  Hosts <- MCHosts
  Addrs <- MCAddrs
  HostOf <- MCHostOf
  Self = Self
  Unparsable = Unparsable
  None = None
  RcptLists <- MCOne
  FaultKinds = {}
  MaxFaults = 0
  ClientKinds = {"move"}
  ClientFlags = {"Seen"}
  MaxClient = 1
  MaxCopies = 1
SYMMETRY Symmetry
INVARIANT OnlyAddressees
CHECK_DEADLOCK FALSE
