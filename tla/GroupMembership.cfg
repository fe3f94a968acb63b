SPECIFICATION Spec
CONSTANTS
  Conns = {c1, c2}
  MaxClients = 3
  MaxFds = 4
  Words <- ShortWords
  Hellos <- AnnBob
  Lines <- MembershipLines
  MaxUserId = 2
  MaxGroupId = 3
  FirstUserId = 1
  FirstGroupId = 2
  NULL = NULL
  NoSock = NoSock
  Nothing = Nothing
  NoWord = NoWord
  Garbled = "garbled"
  Exit = "EXIT"
SYMMETRY ConnSymmetry
CHECK_DEADLOCK FALSE
INVARIANT KeysAndReferences
INVARIANT AdminIsCreator
INVARIANT NamesakesUnreachable
PROPERTY MembershipDiscipline
INVARIANT SlotIdsAreUsers
PROPERTY SendingDiscipline
INVARIANT DeliveryDiscipline
