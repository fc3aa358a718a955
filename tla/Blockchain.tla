----------------------------- MODULE Blockchain -----------------------------
(***************************************************************************)
(* One node's chain: class Blockchain over its BlockIndex, and the         *)
(* TransactionManager that feeds it from two timers of the same thread.    *)
(* The node is established: it has a profile and holds block 0, the        *)
(* genesis block createNewNetwork writes.                                  *)
(*                                                                         *)
(* A handler runs to its end before the next one starts, and may abort the *)
(* process on the way (qFatal): the disk keeps what was written so far.    *)
(* Operators on a node value n = [store, ec, blocksFromLastGenesis, up]    *)
(* say what a call does to all of them; the actions apply them.            *)
(*                                                                         *)
(* Abstractions.  A hash is the pair of what calcHash feeds to it, so two  *)
(* hashes are equal exactly when their inputs are; an amount is a number;  *)
(* the cacheEC table is the State column per account, 0 where a row is     *)
(* missing; all transactions use one token; amounts and balances have at   *)
(* most six significant digits, which is what survives a conversion of a   *)
(* BigNumberFloat to text.                                                 *)
(***************************************************************************)
EXTENDS BlockStore, SequencesExt

CONSTANTS
  Me,                 \* this node's actor
  Peer,               \* another node's actor
  Accounts,           \* actors that appear in transactions
  Txs,                \* transactions
  Verified,           \* the transactions handed to the slot addVerifiedTx
  Sender, Receiver,   \* [Txs -> Accounts]
  Amount,             \* [Txs -> Nat]
  Kind,               \* [Txs -> TxKinds]
  GenesisEvery,       \* CONSTRUCT_GENESIS_EVERY_BLOCKS
  MaxDummyIndex,      \* bound: no dummy block above this index
  MaxReceived         \* bound: length of receivedTxList, at most 2

\* The cases proveTx tells apart: a reward, a transfer from the first actor
\* (or a fee, without a sender), a contract initialisation, any other transfer.
TxKinds == {"reward", "fromFirst", "initContract", "user"}

ASSUME ChainAssumption ==
  /\ IsFiniteSet(Accounts)
  /\ Verified \subseteq Txs
  /\ Sender \in [Txs -> Accounts]
  /\ Receiver \in [Txs -> Accounts]
  /\ Amount \in [Txs -> Nat]
  /\ Kind \in [Txs -> TxKinds]
  /\ GenesisEvery \in Nat \ {0}
  /\ MaxDummyIndex \in Nat
  /\ MaxReceived \in 0 .. 2

VARIABLES
  store,                  \* block files and index counters (BlockStore)
  ec,                     \* the table of blockchain/cacheEC.db, on the disk
  blocksFromLastGenesis,  \* Blockchain::blocksFromLastGenesis, in memory
  pendingTxs,             \* TransactionManager::pendingTxs, in memory
  receivedTxList,         \* TransactionManager::receivedTxList, in memory
  running                 \* is the process up?

vars == <<store, ec, blocksFromLastGenesis, pendingTxs, receivedTxList, running>>

-----------------------------------------------------------------------------
(* Blocks *)

\* calcHash covers the index and, for a block of type "data", its
\* transactions; every other type contributes none.
Hash(id, type, txs) == [id |-> id, txs |-> IF type = "data" THEN txs ELSE <<>>]

NoHash == [id |-> -2, txs |-> <<>>]      \* the empty string
ZeroHash == [id |-> -1, txs |-> <<>>]    \* Utils::calcHash("0 index")

NoRows == [a \in Accounts |-> 0]

\* A signed block, as sign() leaves it.
NewBlock(id, type, txs, prev, signer) ==
  [type |-> type, txs |-> txs, prev |-> prev, hash |-> Hash(id, type, txs),
   signers |-> {signer}, rows |-> NoRows, prevGen |-> NoHash]

Index(b) == b.hash.id

Torn == [NewBlock(0, "torn", <<>>, NoHash, Me) EXCEPT !.signers = {}]

\* The constructor Block(data, prev) on the block with identifier prevId of s,
\* the empty block when there is none.
NextIndex(s, prevId) == IF prevId \in Visible(s) THEN prevId + 1 ELSE 0
PrevHash(s, prevId) ==
  IF prevId \in Visible(s) THEN s.files[prevId].hash ELSE ZeroHash

\* Mutant: transactions can be read back.
CanAlwaysExtract(b) == TRUE

\* getById rebuilds each transaction as tx.serialize().c_str(), cut at the
\* first zero byte, and the date always has one: extractTransactions on such
\* a block ends in qFatal.  Blocks of other types carry no transactions.
CanExtract(b) == b.type = "data" => b.txs = <<>>

\* getById joins the rows of the Signatures table without a separator, so two
\* or more of them are read back as none.
ReadSigners(b) == IF Cardinality(b.signers) <= 1 THEN b.signers ELSE {}

-----------------------------------------------------------------------------
(* cacheEC *)

\* saveTxInfoInEC: each transaction debits its sender, then credits its
\* receiver.  Halves counts those updates, so that a kill can stop between two.
Halves(txs) == 2 * Len(txs)

SaveHalves(e, txs, k) ==
  [a \in Accounts |->
     e[a]
       + SumFunction([i \in {i \in 1 .. Len(txs) : Receiver[txs[i]] = a /\ 2 * i <= k} |->
                        Amount[txs[i]]])
       - SumFunction([i \in {i \in 1 .. Len(txs) : Sender[txs[i]] = a /\ 2 * i - 1 <= k} |->
                        Amount[txs[i]]])]

SaveTxInfoInEC(e, txs) == SaveHalves(e, txs, Halves(txs))

-----------------------------------------------------------------------------
(* Calls of Blockchain on a node value *)

Node == [store |-> store, ec |-> ec,
         blocksFromLastGenesis |-> blocksFromLastGenesis, up |-> running]

Abort(n) == [n EXCEPT !.up = FALSE]

\* The blocks createGenesisBlock reads: from lastSavedId down to the last
\* genesis block.
GenesisWalk(s) == {i \in Visible(s) : i > LastGenesisId(s)}

\* addRow joins the rows without a separator, and BlockIndex::add reads two or
\* more of them back as one row of nobody: only a single row is stored.
StoredRows(e) == IF Cardinality({a \in Accounts : e[a] # 0}) = 1 THEN e ELSE NoRows

NewGenesis(n) ==
  LET last == n.store.lastSavedId
      id == NextIndex(n.store, last)
  IN [NewBlock(id, "genesis", <<>>, PrevHash(n.store, last), Me) EXCEPT
        !.rows = StoredRows(n.ec),
        !.prevGen = IF LastGenesisId(n.store) = NoId THEN NoHash
                    ELSE n.store.files[LastGenesisId(n.store)].hash]

\* createGenesisBlock and the blockIndex.addBlock that follows it.  With
\* records = 0 the new block gets index 0, which is taken.  The table is
\* emptied before the block is stored, and stays empty when its index is
\* taken.
ConstructGenesis(n) ==
  LET id == NextIndex(n.store, n.store.lastSavedId)
  IN CASE n.store.records = 0 -> n
       [] /\ n.store.records # 0
          /\ \E i \in GenesisWalk(n.store) : ~CanExtract(n.store.files[i])
            -> Abort(n)
       [] OTHER ->
            IF id \in Ids(n.store) THEN [n EXCEPT !.ec = NoRows]
            ELSE [n EXCEPT !.store = Insert(@, id, NewGenesis(n)),
                           !.ec = NoRows,
                           !.blocksFromLastGenesis = 0]

\* Mutant: the counter is tested before it is incremented.
CountBlockLate(n) ==
  IF ~n.up THEN n
  ELSE [(IF n.blocksFromLastGenesis = GenesisEvery THEN ConstructGenesis(n) ELSE n)
          EXCEPT !.blocksFromLastGenesis = @ + 1]

\* The end of addBlock, on success: shouldStartGenesisCreation tests for
\* equality, so a count that once passed GenesisEvery never matches again.
CountBlock(n) ==
  LET m == [n EXCEPT !.blocksFromLastGenesis = @ + 1]
  IN IF ~n.up THEN n
     ELSE IF m.blocksFromLastGenesis = GenesisEvery THEN ConstructGenesis(m)
     ELSE m

\* Mutants: saveTxInfoInEC runs for every type of block; runs twice.
StoreBlockAnyType(n, b) ==
  CountBlock([n EXCEPT
    !.store = Insert(@, Index(b), b),
    !.ec = SaveTxInfoInEC(@, b.txs),
    !.up = b.txs # <<>>])
StoreBlockTwice(n, b) ==
  CountBlock([n EXCEPT
    !.store = Insert(@, Index(b), b),
    !.ec = SaveTxInfoInEC(SaveTxInfoInEC(@, b.txs), b.txs),
    !.up = b.type = "data" => b.txs # <<>>])

\* addBlock, the identifier being free.  saveTxInfoInEC deserializes one empty
\* string for a data block without payload, which is a qFatal.
StoreBlock(n, b) ==
  CountBlock([n EXCEPT
    !.store = Insert(@, Index(b), b),
    !.ec = IF b.type = "data" THEN SaveTxInfoInEC(@, b.txs) ELSE @,
    !.up = b.type = "data" => b.txs # <<>>])

\* signCheckAdd: signatures the stored block lacks are added to its file.
SignCheckAdd(s, b) ==
  IF Index(b) \in Ids(s) /\ ReadSigners(s.files[Index(b)]) # {}
  THEN [s EXCEPT !.files[Index(b)].signers = @ \cup b.signers]
  ELSE s

CanMergeBlocks(received, existed) ==
  /\ received.signers # {} /\ ReadSigners(existed) # {}
  /\ received.type = existed.type
  /\ received.type \in ReadableTypes

\* Mutant: the predecessor is removed too.
ReplaceFromPredecessor(n, b) ==
  StoreBlock([n EXCEPT !.store = RemoveById(@, Index(b) - 1)],
             NewBlock(Index(b), "data", b.txs \o b.txs,
                      PrevHash(n.store, Index(b) - 1), Me))

\* mergeBlocks and the replacement of the local block by the merged one,
\* which drops the blocks above it.  The merged block is a data block with the
\* received transactions twice: those the local block lacks are added again.
ReplaceByMerged(n, b) ==
  StoreBlock([n EXCEPT !.store = RemoveById(@, Index(b))],
             NewBlock(Index(b), "data", b.txs \o b.txs,
                      PrevHash(n.store, Index(b) - 1), Me))

\* mergeBlockWithLocal.  Reading the transactions of a stored data block
\* aborts, be it in operator== (same prevHash) or in mergeBlocks; only a data
\* block stored without any can be merged.  Putting the blocks back above a
\* merged one starts with the replaced block itself, whose merge aborts.
MergeBlockWithLocal(n, b) ==
  LET id == Index(b)
      existed == n.store.files[id]
      samePrev == b.prev = existed.prev
      hasPrev == id - 1 \in Visible(n.store)
      merged == ReplaceByMerged(n, b)
  IN CASE ~CanMergeBlocks(b, existed) -> n
       [] CanMergeBlocks(b, existed) /\ samePrev /\ b.type = "dummy" -> n
       [] CanMergeBlocks(b, existed) /\ samePrev /\ ~CanExtract(existed) -> Abort(n)
       [] OTHER ->
            IF ~hasPrev THEN n
            ELSE IF ~CanExtract(existed) THEN Abort(n)
            ELSE IF ~merged.up \/ id # LastBlockId(n.store) THEN Abort(merged)
            ELSE CountBlock(merged)

\* addBlock for an index above 0 (index 0 also claims the first identity).
AddBlock(n, b) ==
  LET read == Touch(n.store, {Index(b) - 1, Index(b)})
      m == [n EXCEPT !.store = SignCheckAdd(read, b)]
  IN IF Index(b) \in Ids(n.store) THEN MergeBlockWithLocal(m, b)
     ELSE StoreBlock(m, b)

\* A handler's outcome: a process that aborted has lost its memory.
Become(n) ==
  /\ store' = n.store
  /\ ec' = n.ec
  /\ running' = n.up
  /\ blocksFromLastGenesis' = IF n.up THEN n.blocksFromLastGenesis ELSE 0

-----------------------------------------------------------------------------
(* The process *)

Genesis0 == NewBlock(0, "genesis", <<>>, ZeroHash, Me)

Init ==
  /\ store = Insert(EmptyStore, 0, Genesis0)
  /\ ec = NoRows
  /\ blocksFromLastGenesis = 0
  /\ pendingTxs = <<>>
  /\ receivedTxList = <<>>
  /\ running = TRUE

\* The two lists live in memory only.
ListsLost == pendingTxs' = <<>> /\ receivedTxList' = <<>>

\* qFatal, with the disk as it is.
AbortProcess ==
  /\ Become(Abort(Node))
  /\ ListsLost

\* The process ends between two handlers.
Stop ==
  /\ running
  /\ AbortProcess

Start ==
  /\ ~running
  /\ running' = TRUE
  /\ store' = Reload(store)
  /\ UNCHANGED <<ec, blocksFromLastGenesis, pendingTxs, receivedTxList>>

-----------------------------------------------------------------------------
(* makeBlock, on blockCreationTimer *)

\* Mutant: the dummy block names the hash of the last real block.
DummyBlockOnReal(s) ==
  NewBlock(NextIndex(s, LastBlockId(s)), "dummy", <<>>, PrevHash(s, LastRealId(s)), Me)

\* The block makeBlock builds on store s.
DummyBlock(s) ==
  NewBlock(NextIndex(s, LastBlockId(s)), "dummy", <<>>, PrevHash(s, LastBlockId(s)), Me)
DataBlock(s) ==
  NewBlock(NextIndex(s, LastRealId(s)), "data", pendingTxs, PrevHash(s, LastRealId(s)), Me)

\* Mutant: the pending list is not cleared.
MadeBlockKeeping(n) ==
  /\ running
  /\ Become(n)
  /\ pendingTxs' = IF n.up THEN pendingTxs ELSE <<>>
  /\ receivedTxList' = IF n.up THEN receivedTxList ELSE <<>>

\* The pending list is cleared whatever addBlock answers.
MadeBlock(n) ==
  /\ running
  /\ Become(n)
  /\ pendingTxs' = <<>>
  /\ receivedTxList' = IF n.up THEN receivedTxList ELSE <<>>

MakeDummyBlock ==
  LET b == DummyBlock(store)
  IN /\ pendingTxs = <<>>
     /\ Index(b) <= MaxDummyIndex
     /\ MadeBlock(AddBlock(Node, b))

PackPendingTxs ==
  LET bare == [Node EXCEPT !.store = RemoveDummyBlocks(@)]
  IN /\ pendingTxs # <<>>
     /\ MadeBlock(AddBlock(bare, DataBlock(bare.store)))

MakeBlock == MakeDummyBlock \/ PackPendingTxs

-----------------------------------------------------------------------------
(* Transactions coming in *)

InBlock(s, tx) ==
  \E i \in Ids(s) : s.files[i].type = "data" /\ tx \in Range(s.files[i].txs)

\* The public slot addVerifiedTx, the only way into an empty pendingTxs; no
\* code of this repository is connected to it, so Verified = {} is the program
\* without a caller of its own.  Bound: a transaction is handed in while the
\* node does not have it.
AddVerifiedTx(tx) ==
  /\ running
  /\ tx \notin Range(pendingTxs)
  /\ ~InBlock(store, tx)
  /\ pendingTxs' = Append(pendingTxs, tx)
  /\ UNCHANGED <<store, ec, blocksFromLastGenesis, receivedTxList, running>>

\* addTransaction, from a BlockchainTransaction message.  Bound: not while the
\* transaction is in that list, in a block, or pending twice.
AddTransaction(tx) ==
  /\ running
  /\ Len(receivedTxList) < MaxReceived
  /\ tx \notin Range(receivedTxList)
  /\ Cardinality({i \in DOMAIN pendingTxs : pendingTxs[i] = tx}) < 2
  /\ ~InBlock(store, tx)
  /\ receivedTxList' = Append(receivedTxList, tx)
  /\ UNCHANGED <<store, ec, blocksFromLastGenesis, pendingTxs, running>>

\* The blocks getUserBalance reads: down to the last genesis block or the
\* first hole.
BalanceWalk(s) ==
  {i \in GenesisWalk(s) : \A j \in i .. s.lastSavedId : j \in Visible(s)}

BalanceReadable(s) == \A i \in BalanceWalk(s) : CanExtract(s.files[i])

\* createTransaction, called by the user of this node: the balance is read
\* first; a transaction it does not cover, or without the first actor on
\* either side, is not queued, which is no step.
CreateTransaction(tx) ==
  \/ BalanceReadable(store) /\ AddTransaction(tx)
  \/ running /\ ~BalanceReadable(store) /\ AbortProcess

-----------------------------------------------------------------------------
(* proveTransactions, on proveTimer *)

\* What proveTx may do with a transaction.  The signature, the actors and the
\* balance are the environment's choice; the reads of stored data blocks are
\* not.  A contract initialisation is neither approved nor dropped.
ProveOutcomes(tx) ==
  CASE Kind[tx] = "reward" ->
         IF /\ store.records # 0
            /\ \E i \in Visible(store) : ~CanExtract(store.files[i])
         THEN {"abort"} ELSE {"approve"}
    [] Kind[tx] = "initContract" -> {"reject", "keep"}
    [] Kind[tx] = "fromFirst" -> {"reject", "approve"}
    [] Kind[tx] = "user" ->
         {"reject"} \cup (IF BalanceReadable(store) THEN {"approve"} ELSE {"abort"})

\* addProvedTransaction: push_back under find(...) != end.
AddProved(pending, tx) ==
  IF tx \in Range(pending) THEN Append(pending, tx) ELSE pending

\* The pair of lists after proveTx(tx).
Proved(lists, tx, outcome) ==
  CASE outcome = "keep" -> lists
    [] outcome = "reject" ->
         [lists EXCEPT !.received = RemoveFirst(@, tx)]
    [] outcome = "approve" ->
         [pending |-> AddProved(lists.pending, tx),
          received |-> RemoveFirst(lists.received, tx)]

\* The loop runs over receivedTxList while proveTx removes from it.  Once the
\* first of two transactions is removed, the second turn reads a slot past the
\* end: it may still find the second transaction there, find nothing of use,
\* or crash.
ProveTransactions ==
  LET lists == [pending |-> pendingTxs, received |-> receivedTxList]
      Set(l) == /\ pendingTxs' = l.pending
                /\ receivedTxList' = l.received
                /\ UNCHANGED <<store, ec, blocksFromLastGenesis, running>>
  IN /\ running
     /\ receivedTxList # <<>>
     /\ \E o \in ProveOutcomes(receivedTxList[1]) :
          LET one == Proved(lists, receivedTxList[1], o)
          IN \/ o = "abort" /\ AbortProcess
             \/ o # "abort" /\ Len(receivedTxList) = 1 /\ Set(one)
             \/ /\ o # "abort" /\ Len(receivedTxList) = 2
                /\ \E p \in ProveOutcomes(receivedTxList[2]) :
                     \/ p = "abort" /\ AbortProcess
                     \/ p # "abort" /\ Set(Proved(one, receivedTxList[2], p))
             \/ /\ o \in {"approve", "reject"} /\ Len(receivedTxList) = 2
                /\ Set(one) \/ AbortProcess

Next ==
  \/ MakeBlock
  \/ ProveTransactions
  \/ \E tx \in Verified : AddVerifiedTx(tx)
  \/ \E tx \in Txs : AddTransaction(tx) \/ CreateTransaction(tx)
  \/ Stop
  \/ Start

\* MakeBlockDue is ENABLED <<MakeBlock>>_vars, so that the first conjunct below
\* is WF_vars(MakeBlock); written this way TLC need not search for a successor
\* to know it.
MakeBlockDue ==
  /\ running
  /\ pendingTxs # <<>> \/ NextIndex(store, LastBlockId(store)) <= MaxDummyIndex

\* The two timers keep firing while the process runs; nothing makes users,
\* peers or the operator act.
Fairness ==
  /\ []<>~MakeBlockDue \/ []<><<MakeBlock>>_vars
  /\ WF_vars(ProveTransactions)

Spec == Init /\ [][Next]_vars /\ Fairness

-----------------------------------------------------------------------------
(* Properties *)

Hashes == [id : Int, txs : Seq(Txs)]

StoredBlocks ==
  [type : FileTypes, txs : Seq(Txs), prev : Hashes, hash : Hashes,
   signers : SUBSET {Me, Peer}, rows : [Accounts -> Int], prevGen : Hashes]

TypeOK ==
  /\ Ids(store) \subseteq Nat
  /\ \A i \in Ids(store) : store.files[i] \in StoredBlocks
  /\ store.sections \subseteq Nat
  /\ store.records \in Int
  /\ store.firstSavedId \in Nat
  /\ store.lastSavedId \in Int
  /\ ec \in [Accounts -> Int]
  /\ blocksFromLastGenesis \in Nat
  /\ pendingTxs \in Seq(Txs)
  /\ receivedTxList \in Seq(Txs) /\ Len(receivedTxList) <= MaxReceived
  /\ running \in BOOLEAN

\* The files on the disk are a chain, whether the process is up or not: no
\* hole, each readable block names the hash of the one below it, each genesis
\* block that of the genesis block before it.  (Dummy blocks come and go on top, data and
\* genesis blocks are built on what is left: block.cpp, makeBlock,
\* createGenesisBlock.)
GenesisBelow(i) == Top({g \in Ids(store) : g < i /\ store.files[g].type = "genesis"})
ChainLinked ==
  /\ Ids(store) = 0 .. Max(Ids(store))
  /\ \A i \in Ids(store) \ {0} :
       /\ store.files[i].type # "torn" => store.files[i].prev = store.files[i - 1].hash
       /\ store.files[i].type = "genesis" =>
            store.files[i].prevGen = store.files[GenesisBelow(i)].hash

\* No transaction's effect on a balance is lost or counted twice by storing
\* blocks, packing and restarting: what the table holds is what the data blocks
\* above the last genesis block did, and table and genesis rows together are
\* what all data blocks did.  (createGenesisBlock empties the table whether or
\* not its rows can be stored; a node that makes all its blocks itself never
\* gets there with rows, because the walk over its data blocks ends it before.)
DataIds == {i \in Ids(store) : store.files[i].type = "data"}
GenesisIds == {i \in Ids(store) : store.files[i].type = "genesis"}
Net(a, ids) ==
  SumFunction([i \in ids |-> SaveTxInfoInEC(NoRows, store.files[i].txs)[a]])
BalancesAccounted ==
  \A a \in Accounts :
    /\ ec[a] = Net(a, {i \in DataIds : i > Top(GenesisIds)})
    /\ ec[a] + SumFunction([i \in GenesisIds |-> store.files[i].rows[a]])
         = Net(a, DataIds)

\* While the process is up, every block file is inside the range the scans of
\* the index visit: each addBlock, removeById and restart keeps the counters
\* around the files.
StoredWithinRange == running => WithinRange(store)

\* As long as records counts the blocks, the counter of addBlock never reaches
\* CONSTRUCT_GENESIS_EVERY_BLOCKS without a genesis block being made, and so
\* bounds the blocks above the last one.
GenesisOnTime ==
  running /\ store.records = Cardinality(Ids(store)) =>
    /\ blocksFromLastGenesis < GenesisEvery
    /\ Max(Ids(store)) - Top(GenesisIds) <= blocksFromLastGenesis

\* Block production kills the process only where it has to read a stored data
\* block back: a chain of dummy and genesis blocks never does.
MakeBlockAborts ==
  [][MakeBlock /\ ~running' =>
       \E i \in Ids(store') : ~CanExtract(store'.files[i])]_vars

\* A transaction in pendingTxs reaches a block unless the process ends first.
TxEventuallyStored ==
  \A tx \in Txs :
    (running /\ tx \in Range(pendingTxs)) ~> (InBlock(store, tx) \/ ~running)
=============================================================================
