SPECIFICATION Spec
CONSTANTS
  A = A
  B = B
  me = me
  a = a
  bad = bad
  client = client
  fromA = fromA
  Self = Self
  Unparsable = Unparsable
  Unset = Unset
  None = None
  Conns = {client, fromA}
  ModeOf <- MCModeOf
  Nodes <- MCNodes
  RemoteOf <- MCRemoteOf
  Addrs <- MCAddrs
  HostOf <- MCHostOf
  Passwords = {right, wrong}
  Password = right
  MaxRecipients = 2
  Nesting = {fromA}
  StorageMayFail = TRUE
  MaxMails = 2
INVARIANTS
  TypeOK
  OwnEnvelope
  Authentic
  RecipientsKept
