---------------------------- MODULE MCBlockchain ----------------------------
(* Transactions of different kinds and amounts between the node and a peer. *)
EXTENDS BlockchainLedger

CONSTANTS t1, t2, t3

MCSender == [tx \in Txs |-> IF tx = t2 THEN Peer ELSE Me]
MCReceiver == [tx \in Txs |-> IF tx = t2 THEN Me ELSE Peer]
MCAmount == [tx \in Txs |-> CASE tx = t1 -> 1 [] tx = t2 -> 2 [] tx = t3 -> 4]
MCKind ==
  [tx \in Txs |-> CASE tx = t1 -> "user" [] tx = t2 -> "reward" [] tx = t3 -> "initContract"]
=============================================================================
