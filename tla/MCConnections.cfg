\* With maxConnections reached, every side may wait for a service that is not there.
CHECK_DEADLOCK FALSE
SPECIFICATION Spec
CONSTANTS
  a = a
  b = b
  c = c
  d = d
  networkA = networkA
  networkC = networkC
  Nodes = {a, b, c, d}
  NoNode = NoNode
  NoId = NoId
  StartId <- MCStartId
  Version <- MCVersion
  MaxConnections = 2
  Dials <- MCDials
  Connections = {1, 2}
  MaxBreaks = 1
INVARIANTS
  ConnectionsInv
PROPERTIES
  LeftOnlyIfHopeless
  HandshakeSettles
