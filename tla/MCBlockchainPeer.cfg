SPECIFICATION PeerSpec
CONSTANTS
  Me = me
  Peer = peer
  Accounts = {me, peer}
  t1 = t1
  t2 = t2
  Txs = {t1}
  Verified = {t1}
  Sender <- MCSender
  Receiver <- MCReceiver
  Amount <- MCAmount
  Kind <- MCKind
  SectionSize = 20
  GenesisEvery = 3
  MaxDummyIndex = 2
  MaxReceived = 0
  PeerTypes = {"data", "dummy", "genesis"}
  MaxPeerIndex = 3
  Padded = {peer}
  PaddedIndexes = {2}
  MemIndexSizeLimit = 3
INVARIANTS
  PeerInv
  SearchFinds
PROPERTY LossAborts
