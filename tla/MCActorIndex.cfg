SPECIFICATION MCSpec
CONSTANTS
  n1 = n1
  n2 = n2
  a1 = a1
  a2 = a2
  w = w
  Nodes = {n1, n2}
  Actors = {a1, a2, w}
  Owner <- MCOwner
  Main <- MCMain
  MaxKills = 2
  MaxDrops = 1
INVARIANTS
  ActorIndexInv
PROPERTIES
  ActorsSpread
