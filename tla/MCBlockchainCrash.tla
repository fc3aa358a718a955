------------------------- MODULE MCBlockchainCrash -------------------------
(* Two transfers, and kills at every point of makeBlock. *)
EXTENDS BlockchainCrash

CONSTANTS t1, t2

MCSender == [tx \in Txs |-> IF tx = t2 THEN Peer ELSE Me]
MCReceiver == [tx \in Txs |-> IF tx = t2 THEN Me ELSE Peer]
MCAmount == [tx \in Txs |-> IF tx = t2 THEN 2 ELSE 1]
MCKind == [tx \in Txs |-> IF tx = t2 THEN "fromFirst" ELSE "user"]
=============================================================================
