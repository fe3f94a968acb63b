SPECIFICATION FairFiles
CONSTANTS
  c1 = c1
  c2 = c2
  Clients = {c1, c2}
  Names = {"d", "f", "g"}
  Typed = {"ann", "bob", "pw"}
  MaxDepth = 2
  Blocks = {"v", "w"}
  Menu <- TransferAndMove
  MaxChoices = 4
  Leftovers <- Stale
  Huge = 5
  NoFile = NoFile
CHECK_DEADLOCK FALSE
INVARIANT FileTypeOK
INVARIANT InStep
INVARIANT LoginAgreement
INVARIANT FilesAreWhole
INVARIANT NeverBothWait
PROPERTY StoreSpec
PROPERTY AccountsStay
PROPERTY Answered
