SPECIFICATION Spec
CONSTANTS
  Sessions = {s1, s2}
  Messages = {m1, m2}
  Names <- MCNames
  Commands <- MCCommands
  FlagLists <- MCFlagLists
  None = None
  MaxRows = 3
  MaxCommands = 3
SYMMETRY Symmetry
INVARIANTS
  TypeOK
  KeysHold
  UidsStable
  FlagsAskedFor
PROPERTIES
  MessagesKept
  UidNextHolds
