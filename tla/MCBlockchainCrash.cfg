SPECIFICATION CrashSpec
CONSTANTS
  Me = me
  Peer = peer
  Accounts = {me, peer}
  t1 = t1
  t2 = t2
  Txs = {t1, t2}
  Verified = {t1, t2}
  Sender <- MCSender
  Receiver <- MCReceiver
  Amount <- MCAmount
  Kind <- MCKind
  SectionSize = 20
  GenesisEvery = 3
  MaxDummyIndex = 2
  MaxReceived = 1
  MaxKills = 2
INVARIANTS
  ChainLinked
  TakenOnlyIfTorn
  EcWithinBlocks
PROPERTIES
  PendingTxIsPacked
  RealBlocksKept
