SPECIFICATION Spec
CONSTANTS
  Hashes = {h1, h2}
  Foreign = {f1}
  NoId = NoId
  NoHash = NoHash
  MaxActors = 3
  MaxLoaded = 2
  MaxKills = 1
  MaxRestarts = 1
  MaxExports = 2
  MaxListed = 3
INVARIANT AccountsInv
PROPERTIES
  OnlyKillsLose
  JoinerNeedsBlocks
\* After the last restart the process may end for good.
CHECK_DEADLOCK FALSE
