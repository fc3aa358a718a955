SPECIFICATION Spec
CONSTANTS
  Me = me
  Peer = peer
  Accounts = {me, peer}
  t1 = t1
  t2 = t2
  t3 = t3
  Txs = {t1, t2, t3}
  Verified = {t1, t2}
  Sender <- MCSender
  Receiver <- MCReceiver
  Amount <- MCAmount
  Kind <- MCKind
  SectionSize = 20
  GenesisEvery = 3
  MaxDummyIndex = 4
  MaxReceived = 2
INVARIANTS
  BalancesAccounted
  GenesisOnTime
PROPERTIES
  MakeBlockAborts
  TxEventuallyStored
  RefinesLedger
