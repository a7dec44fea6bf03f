SPECIFICATION Spec
CONSTANTS
  Mails = {m1}
  A = A
  B = B
  a = a
  b = b
  me = me
  bad = bad
  Hosts <- MCHosts
  Addrs <- MCAddrs
  HostOf <- MCHostOf
  Self = Self
  Unparsable = Unparsable
  None = None
  RcptLists <- MCSole
  FaultKinds = {"close"}
  MaxFaults = 1
  MaxCopies = 9
INVARIANTS
  AcceptedIsKept
