SPECIFICATION Spec
CONSTANTS
  Mails = {m1, m2}
  A = A
  B = B
  a = a
  b = b
  me = me
  bad = bad
  Hosts <- MCHosts
  Addrs <- MCAddrs
  HostOf <- MCHostOf
  Self = Self
  Unparsable = Unparsable
  None = None
  RcptLists <- MCSole
  FaultKinds = {"crash", "error", "skip", "close"}
  MaxFaults = 1
  MaxCopies = 9
SYMMETRY MailSymmetry
INVARIANTS
  TypeOK
  OnlyAddressees
  DuplicatesNeedFaults
  LossesNeedFaults
  MarkedIsUnqueued
  SoleInv
PROPERTIES
  RowsLeaveOnlyWhenSent
CHECK_DEADLOCK FALSE
