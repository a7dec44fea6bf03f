SPECIFICATION Spec
CONSTANTS
  KeyLen = 2
  Procs = {p1, p2}
  Keys <- MCKeys
  Passwords <- MCPasswords
  TrimSpace <- MCTrimSpace
  None = None
  MaxStarts = 3
SYMMETRY Symmetry
INVARIANTS
  TypeOK
  OneIdentity
  PasswordInForce
  MailboxesThere
  OwnAddressLogsIn
CHECK_DEADLOCK FALSE
