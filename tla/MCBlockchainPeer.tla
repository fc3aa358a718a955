-------------------------- MODULE MCBlockchainPeer --------------------------
(* Transfers in both directions; a peer that sends blocks of the types of the .cfg. *)
EXTENDS Search

CONSTANTS t1, t2

MCSender == [tx \in Txs |-> IF tx = t2 THEN Peer ELSE Me]
MCReceiver == [tx \in Txs |-> IF tx = t2 THEN Me ELSE Peer]
MCAmount == [tx \in Txs |-> IF tx = t2 THEN 2 ELSE 1]
MCKind == [tx \in Txs |-> IF tx = t2 THEN "fromFirst" ELSE "user"]
=============================================================================
