SPECIFICATION FairServer
CONSTANTS
  Conns = {c1, c2}
  MaxClients = 3
  MaxFds = 4
  Words <- ShortWords
  Hellos <- JustAnn
  Lines <- IdleLines
  MaxUserId = 2
  MaxGroupId = 1
  FirstUserId = 1
  FirstGroupId = 1
  NULL = NULL
  NoSock = NoSock
  Nothing = Nothing
  NoWord = NoWord
  Garbled = "garbled"
  Exit = "EXIT"
CHECK_DEADLOCK FALSE
PROPERTY LinesAreRead
