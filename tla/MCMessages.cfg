SPECIFICATION MessagesSpec
CONSTANTS
  Peers = {p1, p2, p3}
  MaxMessages = 4
  Repeated = {m}
  MaxCopies = 4
  MaxKills = 2
INVARIANTS
  MessagesInv
PROPERTY
  MessagesImplementMailbox
