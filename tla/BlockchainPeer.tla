--------------------------- MODULE BlockchainPeer ---------------------------
(***************************************************************************)
(* Blockchain, and blocks that arrive from another node: the messages      *)
(* BlockchainNewBlock and BlockchainGenesisBlock (network_manager.cpp).    *)
(* Nothing orders them: a block may repeat, overtake its predecessors, or  *)
(* stand on another predecessor than the local one.                        *)
(***************************************************************************)
EXTENDS Blockchain

CONSTANTS
  PeerTypes,       \* what the peer sends: a subset of ReadableTypes
  MaxPeerIndex     \* bound: the peer's blocks have indexes 1 .. MaxPeerIndex

ASSUME PeerAssumption ==
  /\ PeerTypes \subseteq ReadableTypes
  /\ MaxPeerIndex \in Nat

\* Blocks the peer may have: on the local predecessor or on another one; a
\* data block carries one transaction.
PeerBlocks(type) ==
  {NewBlock(id, type, txs, prev, Peer) :
     id \in 1 .. MaxPeerIndex,
     txs \in IF type = "data" THEN {<<tx>> : tx \in Txs} ELSE {<<>>},
     prev \in {NoHash} \cup {PrevHash(store, i - 1) : i \in 1 .. MaxPeerIndex}}

Received(n) ==
  /\ running
  /\ Become(n)
  /\ IF n.up THEN UNCHANGED <<pendingTxs, receivedTxList>> ELSE ListsLost

\* addBlockToBlockchain.
ReceiveBlock(b) == Received(AddBlock(Node, b))

\* addGenBlockToBlockchain stores the block beside addBlock: neither the
\* counter nor the cacheEC table takes notice.  An unreadable file at its index
\* ends in qFatal; a readable one gets the signature.
ReceiveGenesis(b) ==
  LET s == Touch(store, {Index(b)})
  IN Received(CASE Index(b) \notin Ids(s) -> [Node EXCEPT !.store = Insert(s, Index(b), b)]
                [] Index(b) \in Ids(s) /\ s.files[Index(b)].type = "torn" -> Abort(Node)
                [] OTHER -> [Node EXCEPT !.store = SignCheckAdd(s, b)])

PeerNext ==
  \/ Next
  \/ \E type \in PeerTypes : \E b \in PeerBlocks(type) :
       IF type = "genesis" THEN ReceiveGenesis(b) ELSE ReceiveBlock(b)

PeerSpec == Init /\ [][PeerNext]_vars

-----------------------------------------------------------------------------
(* Properties, with TypeOK and StoredWithinRange of Blockchain *)

\* No block a peer sends, in whatever order, makes the node give up the block
\* it starts from.  (removeById drops everything from an index on.)
BlockZeroKept == 0 \in Ids(store) /\ store.files[0] = Genesis0

Content(b) == <<b.type, b.txs, b.prev>>
Substantial(b) == b.type = "genesis" \/ (b.type = "data" /\ b.txs # <<>>)

\* Whenever a received block makes the node drop or replace a genesis block or
\* a data block with transactions, that handler also ends the process: no node
\* goes on after a rollback, with counters and balances of the dropped blocks.
LossAborts ==
  [][\A i \in Ids(store) : Substantial(store.files[i]) =>
       \/ i \in Ids(store') /\ Content(store'.files[i]) = Content(store.files[i])
       \/ ~running']_vars

\* cacheEC moves coins and makes none: blocks stored, merged, replaced or
\* dropped leave its total at zero.
CoinsConserved == SumFunctionOnSet(ec, Accounts) = 0

\* Over any order of received blocks, merges, replacements and restarts: block
\* 0 stays, the counters of the index cover the files, the total of the balance
\* table is zero.
PeerInv == TypeOK /\ StoredWithinRange /\ BlockZeroKept /\ CoinsConserved
=============================================================================
