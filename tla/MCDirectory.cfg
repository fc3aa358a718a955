SPECIFICATION MCSpec
CONSTANTS
  f1 = f1
  f2 = f2
  n2 = n2
  n3 = n3
  Nodes = {n1, n2, n3}
  Home = n1
  Files = {f1, f2}
  Late = {n2}
  Size <- MCSize
  Reserve = 1
  LimitChoices = {0, 4, 6}
  Word = 1000
  MaxWrong = 1
  MaxRemovals = 1
  MaxKills = 1
  MaxRestarts = 1
INVARIANTS
  DirectoryInv
  OwnerKeeps
  CalmIsRight
PROPERTIES
  AddedArrives
CHECK_DEADLOCK FALSE
