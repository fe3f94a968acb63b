SPECIFICATION FairRoom
CONSTANTS
  Conns = {c1, c2}
  Fds = {4, 5}
  Words <- ShortWords
  Typed <- Typists
  Chats <- AllChats
  Cut <- CutOff
  Garbled = "garbled"
  NoName = ""
  NoSock = NoSock
  NoConn = NoConn
  Nothing = Nothing
CHECK_DEADLOCK FALSE
INVARIANT RoomTypeOK
INVARIANT OneThreadPerClient
INVARIANT NobodyIsMissed
INVARIANT NamesStay
PROPERTY GoneAreClosed
PROPERTY RosterSpec
