SPECIFICATION Spec
CONSTANTS
  Conns = {c1, c2}
  Fds = {4, 5, 6}
  Words <- ShortWords
  Typed <- AnnBob
  Chats <- JustTalk
  Cut <- CutOff
  Garbled = "garbled"
  NoName = ""
  NoSock = NoSock
  NoConn = NoConn
  Nothing = Nothing
SYMMETRY ConnSymmetry
CHECK_DEADLOCK FALSE
INVARIANT OneThreadPerClient
