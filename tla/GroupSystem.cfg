SPECIFICATION SystemSpec
CONSTANTS
  Conns = {c1, c2}
  MaxClients = 3
  MaxFds = 4
  Words <- ShortWords
  Hellos <- AnnBob
  Lines <- TypedLines
  MaxUserId = 3
  MaxGroupId = 1
  FirstUserId = 2
  FirstGroupId = 1
  NULL = NULL
  NoSock = NoSock
  Nothing = Nothing
  NoWord = NoWord
  Garbled = "garbled"
  Exit = "EXIT"
SYMMETRY ConnSymmetry
CHECK_DEADLOCK FALSE
INVARIANT SystemTypeOK
INVARIANT SendersAreFlagged
