SPECIFICATION FairSystem
CONSTANTS
  Conns = {c1, c2, c3}
  MaxClients = 2
  MaxFds = 2
  Words <- ShortWords
  Hellos <- JustAnn
  Lines <- LiveLines
  MaxUserId = 3
  MaxGroupId = 1
  FirstUserId = 1
  FirstGroupId = 1
  NULL = NULL
  NoSock = NoSock
  Nothing = Nothing
  NoWord = NoWord
  Garbled = "garbled"
  Exit = "EXIT"
CHECK_DEADLOCK FALSE
PROPERTY LinesAreRead
PROPERTY HangUpsAreNoticed
PROPERTY ConnectionsAreAccepted
INVARIANT SocketOwnership
