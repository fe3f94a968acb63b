SPECIFICATION SystemSpec
CONSTANTS
  c1 = c1
  c2 = c2
  c3 = c3
  Conns = {c1, c2, c3}
  Words <- ShortWords
  MaxUserId = 3
  MaxGroupId = 1
  OldUsers <- AnnBob
  FirstUserId = 3
  Lines <- AllLines
  OtherLines <- SearchLines
  NoWord = NoWord
  Garbled = "garbled"
  Nothing = Nothing
  Programs <- OneProgram
  Requests <- Logins
CHECK_DEADLOCK FALSE
INVARIANT LoginsAreChecked
