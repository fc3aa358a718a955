SPECIFICATION MCSpec
CONSTANTS
  Actors = {a1, a2}
  Producers = {a1}
  Bodies <- MCBodies
  Contents = {c1, c2}
  PrevBlocks <- MCPrevBlocks
  Gases <- MCGases
  MaxHop = 1
  MaxElements = 3
  MaxPieces = 9
  Prevs = {p0, p1, p2}
  FirstPrev = p0
  MaxSigs = 3
  CoinProductionRate = 100
  MaxStored = 4
  MaxRows = 2
  Holders = {x1, x2, x3}
  Amounts = {1, 60, 123}
  Digits = 2
  MaxSaves = 3
INVARIANTS
  RecordsExact
  ReadsExact
CHECK_DEADLOCK FALSE
