SPECIFICATION FairSpec
CONSTANTS
  Mails = {m1, m2}
  A = A
  B = B
  a = a
  b = b
  me = me
  bad = bad
  Hosts <- MCHosts
  Addrs <- MCAddrs
  HostOf <- MCHostOf
  Self = Self
  Unparsable = Unparsable
  None = None
  RcptLists <- MCHalf
  FaultKinds = {"crash", "close"}
  MaxFaults = 1
  MaxCopies = 9
PROPERTIES
  QueueDrains
  EventuallyDelivered
  OutboxEmpties
