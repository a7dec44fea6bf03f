SPECIFICATION Spec
CONSTANTS
  Sessions = {s1}
  Messages = {m1, m2}
  Names = {"INBOX", "Outbox"}
  Commands <- MCCopy
  FlagLists <- MCSeen
  None = None
  MaxRows = 3
  MaxCommands = 4
SYMMETRY Symmetry
INVARIANT FlagsAreClients
CHECK_DEADLOCK FALSE
