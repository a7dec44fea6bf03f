SPECIFICATION Spec
CONSTANTS
  Mails = {m1, m2}
  A = A
  B = B
  a = a
  b = b
  me = me
  bad = bad
  Hosts <- MCHosts
  Addrs <- MCAddrs
  HostOf <- MCHostOf
  Self = Self
  Unparsable = Unparsable
  None = None
  RcptLists <- MCPairOrOne
  FaultKinds = {}
  MaxFaults = 0
  MaxCopies = 9
SYMMETRY MailSymmetry
INVARIANTS
  OnlyAddressees
