SPECIFICATION Spec
CONSTANTS
  c1 = c1
  c2 = c2
  Clients = {c1, c2}
  Names = {"d", "f", "g"}
  Typed = {"ann", "bob", "pw"}
  MaxDepth = 1
  Blocks = {"v"}
  Menu <- SameName
  MaxChoices = 3
  Leftovers <- Stale
  Huge = 5
  NoFile = NoFile
CHECK_DEADLOCK FALSE
INVARIANT UniqueAccounts
