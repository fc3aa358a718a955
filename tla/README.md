# ExtraChain core in TLA+

A verification development for the ExtraChain node (`src/`): TLA+ modules of the
node's chain, its network, its actors and accounts and its file storage, TLC runs
that model-check them, and TLAPS proofs of what the runs check, but for liveness:
about the block index, the chain and its balances, the connections, the messages,
the actor index, the accounts, the directories, the downloads and edits, signatures,
tables, amounts and rewards. Paths below are relative to the repository root; `bi`,
`bc`, `tm`, `en`, `nm`, `dfs` and `fr` stand for `blockindex.cpp`, `blockchain.cpp`,
`tx_manager.cpp`, `extrachain_node.cpp`, `network_manager.cpp`, `dfs_controller.cpp`
and `fragment_storage.cpp`.

1. The system
2. What is modelled, module by module
3. What the runs show
4. Bounds, and why they are enough
5. Fairness
6. What is proved
7. What is only model-checked, what is not modelled
8. Where the code and its comments part
9. Plan

## 1. The system

A node is one process with one event loop. Timers, sockets and user calls run
handlers of a few managers on that loop; a handler runs to its end before the
next one starts (`ThreadPool::addThread` is commented out in the node's
constructor, and the two worker threads of the DFS controller are waited for by
the handler that starts them, so nothing runs in parallel; but what those threads
signal is queued behind the events that are already there). Two things break a handler off:
`qFatal`, which the code uses freely for what it does not expect, and the
process being killed. What survives is on the disk: files written one by one
and SQLite tables updated one statement at a time, with no transaction around
them.

| Component | State | Operations | Interacts with |
|---|---|---|---|
| Block index (`bi`) | a file per block in section directories; in memory `records`, `firstSavedId`, `lastSavedId` | constructor, `add`, `getById` and the searches, `removeById`, `removeDummyBlocks`, `removeAll` | called by Blockchain |
| Blocks, transactions (`block.cpp`, `genesis_block.cpp`, `transaction.cpp`) | fields, data as text, hash, signatures | successor constructor, setters, `sign`, `verify`, `addData`, `addRow`, `extractTransactions` | values |
| Blockchain (`bc`) | `cacheEC.db` (balances since the last genesis block), `blocksFromLastGenesis` in memory | `addBlock`, `signCheckAdd`, merging, `createGenesisBlock`, `saveTxInfoInEC`, searches, balances, supplies, `proveTx`, reception of blocks | block index, transaction manager, actor index (first id), data mining |
| Memory index (`memindex.cpp`) | a list of blocks, always empty | the searches of the block index | Blockchain |
| Transaction manager (`tm`) | `pendingTxs`, `receivedTxList`, two timers | `makeBlock`, `proveTransactions`, `addTransaction`, `addVerifiedTx` | calls Blockchain, called back by `proveTx` |
| Node (`en`) | the managers | `createNewNetwork`, `login`, `logout`, `exportUser`, `importUser`, `createTransaction` | everything |
| Accounts (`account_controller.cpp`, `private_profile.cpp`, `autologinhash.cpp`) | a file per profile, the list of profiles, `.auth_hash`; loaded profiles and the current one | `createProfile`, `createWallet`, `load`, `changeCurrentProfile` | node, actor index, transaction manager |
| Actor index (`actorindex.cpp`) | a file and a row per actor, the first id | `addActor`, `getActor`, lists and requests of other nodes, `setFirstId` | network, DFS controller, Blockchain |
| Network manager (`nm`) | connections, `m_reconnections`, `msgHashList`, message cache on disk | dial, accept, remove, send, cache and replay, filter, dispatch | sockets below, every manager above |
| Sockets (`isocket_service.cpp`, `websocket_service.cpp`) | keys, activation, the peer's identifier | key, first message, `checkFirstMessage`, close | network manager, actor index |
| DFS controller (`dfs`, `dfs_utils.cpp`) | per actor a folder and `.dir`; `m_sizeTaken`, `m_bytesLimit` | add, announce, list, request, remove, send and insert segments, export | network, actor index |
| Fragment storage, historical chain (`fr`, `historical_chain.cpp`) | per file the tables Fragments and HistoricalChain | insert, replace and remove fragments; record changes | DFS controller |
| Data mining (`data_mining_manager.cpp`) | none | `calculateCoins`, rewards | Blockchain, DFS |
| Database access (`db_connector.cpp`) | a SQLite file | select, insert, replace, delete | all that is on the disk |

What is hard about it:

* *Crash points.* Every handler writes several files and tables; each prefix of
  them is a state the next start builds its counters from.
* *Aborts.* `qFatal` in the middle of a handler is a crash the program chooses.
  One of them is systematic: a stored transaction is rebuilt by `getById` as
  `tx.serialize().c_str()`, which is cut at its first zero byte (`bi:762`), so
  reading the transactions of a stored data block ends the process. Everything
  that reads blocks back (genesis blocks, merging, balances, searches) is shaped
  by it.
* *Order.* Peers' blocks come in any order, repeat, and stand on other
  predecessors; dials cross; requests, lists and announcements of actors and
  files overtake what they refer to.
* *Stale values.* A counter in memory, a count restored differently from how it
  is kept, a loop over a list that its body shortens, a row that describes a file
  somebody else has edited.
* *Encodings.* Lists are glued without separators, texts end at a zero byte,
  numbers lose leading zeros or digits beyond the sixth.

The properties that make a component correct:

* block index: a stored block is one the scans reach; `records` counts blocks;
  removals remove what they say and nothing else; a search passes over nothing;
* chain: no hole, each block names its predecessor's hash, each genesis block
  the previous genesis block's; real blocks are only added; no effect on a
  balance is lost or counted twice; a genesis block comes in time;
* transaction manager: an accepted transaction gets into a block or goes with
  the process;
* with peers: nothing received makes the node lose block 0, or carry on after
  losing blocks;
* records: what is read is what was written; a signature covers what it should;
* connections: one service per peer, active on both sides or closed; only
  compatible nodes; no address given up without a reason;
* messages: given once, sent once and in order, or kept; a repeat is dropped only
  if the first was handled;
* actors and files: what one node lists gets to the others; what the owner added
  stays; what is listed can be served;
* accounts: whoever could log in can log in again; only what the user did loses
  wallets; one network per node;
* downloads and edits: what is reported as downloaded is right and stays so; an
  edit changes what it says and nothing else.

PROJECT.json lists every component with its status, and under "hazards" the
places where these go wrong most easily, with the properties aimed at them.

## 2. What is modelled, module by module

| Part | Modules | Run |
|---|---|---|
| block index | BlockStore, BlockIndex | `block_index` |
| chain and transaction manager | Blockchain, BlockchainCrash, BlockchainPeer, Ledger, BlockchainLedger | `blockchain`, `blockchain_crash`, `blockchain_peer` |
| searches, balances, memory index | Search, MemIndex | `blockchain_peer` |
| transactions, blocks, tables, amounts, hash of a list, rewards | Records, Blocks, Tables, Amounts, Merkle, Mining, Powers, Readings | `records` |
| connections | Connections | `connections` |
| messages | Messages, Mailbox | `messages` |
| actors | ActorIndex | `actor_index` |
| accounts, start of a node | Accounts | `accounts` |
| directories of files | Directory | `dfs_directory` |
| downloads | Fragments, FragmentStore | `fragments` |
| edits and exports | FileEdits, FragmentStore, Folder, Storage | `file_edits` |

The network is one in the code and several here: Connections ends where a
connection is active on both sides, Messages is one node above connections that
come and go, and Directory, ActorIndex and Fragments are nodes whose messages
arrive in order while a connection lasts. Each of them takes from the one below
what that one's properties say.

**BlockStore** - the block index as a value. A store is a record: the files
(identifier to block) and section directories on the disk, and the three
counters in memory. `Insert`, `RemoveById`, `RemoveDummyBlocks`, `RemoveAll`,
`Touch` (the side effect of `buildFilePath`: it makes the directory of any
identifier it is asked for) and `Reload` (the constructor) are the operations
of `bi`; they are operators rather than actions because one handler of
Blockchain runs several of them. `Visible`, `LastBlockId`, `LastRealId`,
`LastGenesisId` are what the scans answer. Details kept because properties
depend on them: `loadFileFromSection` answers 0, not "empty", for an empty
section; `records` after a restart is the square of the number of section
directories (`el.dir().entryInfoList` lists the parent again for each section);
`removeById` below `firstSavedId` first removes everything.

**BlockIndex** - the state machine over one store: any sequence of public calls,
`Stop` and `Start`, and kills inside `add` (directory made; file without a
block row; file complete but counters not updated) and inside `removeById`
(files removed up to some point). A kill inside `removeDummyBlocks`, which is a
sequence of `removeById` of the top block, is a `RemoveBlockById` followed by
`Stop`.

**Blockchain** - one established node: its block files, the `cacheEC` table,
`blocksFromLastGenesis`, `pendingTxs`, `receivedTxList`, and whether the process
is up. Each handler is one action, built from operators on a node value
`[store, ec, blocksFromLastGenesis, up]` that mirror the calls it makes:

| Code | Definition |
|---|---|
| `makeBlock`, no pending transactions / some | `MakeDummyBlock` / `PackPendingTxs` |
| `Blockchain::addBlock` | `AddBlock` = `SignCheckAdd`, then `StoreBlock` or `MergeBlockWithLocal`, then `CountBlock` |
| `createGenesisBlock` and the `blockIndex.addBlock` after it | `ConstructGenesis` |
| `saveTxInfoInEC` | `SaveTxInfoInEC`, `SaveHalves` (its first k updates) |
| `mergeBlockWithLocal`, `mergeBlocks` | `MergeBlockWithLocal`, `ReplaceByMerged` |
| `proveTransactions`, `proveTx` | `ProveTransactions`, `ProveOutcomes`, `Proved` |
| `addTransaction`, `addVerifiedTx`, `createTransaction` | `AddTransaction`, `AddVerifiedTx`, `CreateTransaction` |
| a managed end, `qFatal`, a start | `Stop`, `AbortProcess`, `Start` |

Abstractions: a hash is the pair of what `calcHash` feeds to it, so that hashes
are equal exactly when their inputs are; amounts are numbers; one token; what
`proveTx` finds of signatures and actors is the environment's choice, while the
reads of stored blocks it makes are not (`CanExtract`, `BalanceReadable`). The
undefined behaviour in `proveTransactions` - the loop's end pointer is taken
before its body removes elements - is a choice over what the second turn can
find. `addVerifiedTx` is a public slot nothing in the repository calls; it is
the only way into an empty `pendingTxs`, as `addProvedTransaction` (`tm:65`)
appends only what is already there, so it is an action for the transactions in the constant `Verified`, and
`Verified = {}` is the program on its own.

**Ledger** and **BlockchainLedger** - the abstract promise and the refinement.
`Ledger` knows an append-only log of committed sets and checkpoints, and a set
of waiting transactions that is committed as a whole or lost with the process.
The mapping forgets dummy blocks and reads data and genesis blocks in the order
of their identifiers (`Log`); `RefinesLedger` is `L!Spec`, its liveness
included.

**BlockchainCrash** - Blockchain plus kills in the middle of `makeBlock`: while
a dummy block, a genesis block or a data block is written (`PartsOf` says what
a prefix of `add` leaves: a torn file, some transactions or genesis rows, no
signature), after some dummy blocks are gone, and between two updates of the
balance table.

**BlockchainPeer** - Blockchain plus the messages `BlockchainNewBlock` and
`BlockchainGenesisBlock`: blocks with any index from 1 to a bound, on any local
predecessor or an unknown one. The handlers are in the dispatcher of the network
manager; this repository has no live sender for them (the sends in `bc` are
commented out, "TODONEW"), so the peer is any program that speaks the protocol,
bound only by what the handlers accept.

**Search** and **MemIndex** - what a node answers when it is asked for a block
or a transaction, on the store of BlockchainPeer. The searches change nothing, so
they are operators: `BlockByHash`, `BlockByApprover`, `BlockByPosition`,
`GetBlock`, `LastTx`, `TxsInRow`, `GetTransaction`, `UserBalance`, `Supply`,
`CirculativeBalance`, `VerifyTx`, `CheckIntegrity`; their answer may be that
reading a stored block ends the process. MemIndex is the same interface over a
list of blocks. The program never leaves file mode and never fills that list,
but three methods of Blockchain have the two modes exchanged (`getBlockByApprover`,
`checkIntegrity`, `getBlockByIndex`), so both are needed to say what they answer.
As no data block with transactions can be read back, a search for a transaction
ends the process where it would have found it; a balance that is stated is 0.
Left out: searches by data (a stored block has none), and the memory index by
position, which recurses without end (`contains` and `operator[]` call each other).

**Records** - what nodes hand to each other: a transaction with its setters,
hash, signature and copies (`SetField`, `Sign`, `CopyOf`, `Verify`) and lists of
encoded elements. A hash is the value hashed. The code hashes one text without
separators (`transaction.cpp:153-157`): sender, receiver, approver and producer have
a fixed length in it, and amount, date, data, token, prevBlock and gas run together
between them, so these are sequences of characters, hashed in a row (`InARow`).

**Blocks** - a block in the hands of a node: its data as a text built by
`addData`, `addRow` or `convertTxs`, its signatures, and what is left of it after
`BlockIndex::add` and `getById`. Genesis rows: one is read back, two or more are
one row of nobody (`gb:45`).

**Tables** - a table of a database file behind DBConnector: which rows are kept
under which keys, what a value becomes on its way in and out by the type of its
column, what `deleteRow` finds, and where the class ends the process (opening
twice, using a closed database, a text that is no number in a number column).
`given` remembers what the callers were told is in the table; `Stays` says which of
those must still be there.

**Amounts** - balances of `cacheEC.db` through texts of six digits: a number with a
`Surplus` of digits is written as the nearest multiple of its `Unit`, a power of
ten. **Merkle** - the hash of a list, as the last of the rounds that halve it
(`Rounds`); the recursion of `rootMerkleHash` ends with the first round that leaves
one element. **Mining** - `calculateCoins` by the number of its doublings and the
reward that follows from it; as nothing ever increases the circulating supply,
every reward is 0. **Powers** has the powers of two and ten these need; **Readings**
joins the three with Tables to what `ReadsExact` says of them.

**Connections** - nodes that dial, accept, shake hands and drop each other. A
connection has two sides with a service each; a side sends a key as soon as it
is open, answers the other's key with its first message, and judges the first
message it gets.

| Code | Definition |
|---|---|
| `connectToNode`, `process`, `reconnection` | `ConnectToNode`, `Reconnection` |
| `onNewWsConnection`, `onConnected` | `Accept`, `OnConnected` |
| `onTextMessage`, `checkFirstMessage` | `OnTextMessage`, `CheckFirstMessage` = `Judged`, `TakeOver` |
| `closeSocket`, `onSocketError`, `socketError`, `removeWsConnection` | `CloseSocket`, `Break`, `Hopeless`, `OnDisconnected` |

`checkFirstMessage` goes on after it has closed the socket, takes over a first id
before it looks at the version, and a socket beyond `maxConnections` gets no
service and is not closed: all of this is in the model.

**Messages** and **Mailbox** - `send_message` above connections that come, become
active, invalid and go; the cache on the disk, its replay when a connection is
active, kills between its removal and the sending and between its truncation and
the writing; and `checkMsgCount`, the filter that takes the copy number n of a
message for a repeat when there are n connections. `Mailbox` is the promise:
messages go out in the order given, each once, at the latest when somebody is
there; only a crash loses some. `sendMessage` computes a receiver and a kind of
sending but looks at neither; `sendSync` sends nothing.

**ActorIndex** - an actor is a file, a row and a folder, written in this order
(`Parts` is what a kill leaves of it). Nodes announce a new actor, ask every
peer for its list when a connection is made and every 30 seconds
(`GetAllActors`), ask for each listed actor they do not have (`Wanted`), and
answer what they can read (`HandleGetActor`). Answers go to every connection, not
only to who asked. A kill in `add` may leave an empty file, which counts as the actor
being there but cannot be read, and nothing asks for the actor again. A message
already on the way is not sent again, which the module justifies; that `handleGetActor` doubles requests it
cannot answer is in it.

**Accounts** - the key store and the start of a node: `CreateProfile`,
`CreateWallet`, `Login` (by hand or with `.auth_hash` at a restart),
`CreateNewNetwork`, `Logout`, `ExportUser`, `ImportUser`, each with a kill between
or inside its writes; and all that claims the first id: a new network, block 0
on the disk or from a peer, the node's own first block, a handshake (`Clash`: a
second, different claim ends the process). `MakeBlock` runs on its timer before
anybody has logged in. `importUser` writes the file and lists the id again
whether it is loaded or not.

**Directory** - one actor's files on all nodes: `AddFiles` (addLocalFile,
addListFiles), the announcement and what a node makes of it (`AddFile`), lists
of directories (`SendDirData`, `AddDirData`), requests (`AnswerFileRequest`,
`FetchFragments`), removals, the accounting of space (`TakenWith`, and two
tests that disagree: in `WriteAvailable` a limit of 0 is none, `dfs:962`; in
`DataWanted`, the unsigned difference of `dfs:210`, it leaves no room until something
is taken; the space on the disk is always enough) and where each of them ends the process: a storage that is
full, an actor not known, a row with an empty hash, a file without a row, a
column that does not exist. `addDirData` asks for files by their hash where a
name is expected, and an owner without such a row answers with an empty one:
rows and files of that name are the phantoms of `PhantomsEmpty`. A list of files is
taken with what has room (`Fitting`): the code adds the files one by one and leaves
out, with an error only, those that have none. `createFileName` hashes a path with
the time and a salt, which gives a new name (`NewNames`) and never one that is the
hash of a content (`NamesAssumption`). A segment message carries the whole file here; how it is put together is in Fragments.

**Fragments** - the download of one file by one node. A file is a sequence of
sections (`DFSB::sectionSize` bytes each), the table Fragments a function from
the offset of a segment to where it is stored.

| Code | Definition |
|---|---|
| `DfsController::addFile` of a received DfsAddFile | `AddFile` |
| `fetchFragments`: what a peer sends, and with which offsets | `Segments`, `Segment` |
| `FragmentWriter::run` | `AddSegment`, `Insert`, `Verdict` |
| `writeFragment`, `write`, `insertFragment`, `moveRows` | `PosToWrite`, `Write`, `InsertRow`, `MoveRows` |
| the queued signals connected in `threadAddFragment` | `signals`, `HandleSignal` |
| `requestFile`, `sendFile` | `RequestFile`, `Answer` |

`sendMessage` looks at neither the receiver nor the kind of sending, so every
answer goes to all connections: `Serve` answers the node, `ServeOther` is the
same for another node's request. A peer may hold a beginning of the file only
(it is downloading too) and answers as if that were all. Connections drop with
the messages on them, the node restarts, and is killed inside `write` or between
the write and the row (`KillInInsert`). `MoveRows` is the recursion of the code
in closed form: every row is moved by the old position of the row before it. The
short last section counts as one; disk space and the historical chain are left
out; the row of the directory exists whenever the file does, as `addFile` makes
both.

**FragmentStore** - the operators of class FragmentStorage on a file's bytes and
its table Fragments: `Write`, `PosToWrite`, `MoveRows`, `InsertRow`,
`RemoveBytes`, `ApplyChanges`, `GetFragment`; used by Fragments and FileEdits.

**FileEdits** - one stored file: edits by class FragmentStorage, which goes by
the table, and by the message handlers `insertFragment` and `deleteFragment` of
the DFS controller, which do not; the chain of changes in the same database; what
`sendFragment` hands out. Facts of the code in it: the row `initLocalFile` makes
never gets in (its NOT NULL hash is missing); the rows of a downloaded file
carry shifted positions, so that `applyChanges` addresses other bytes; the
handler of DfsEditSegment changes the file but neither rows, hash nor chain; a
removal by message and `editFragment` with "remove" end the process; `initLocal`
records a buffer of zeros first and leaves out a last section that is not full.
`editFragment`, `removeFragment`, `getFragment` and `sendFragment` have no caller in
the repository; they are the class's interface, and modelled as such.
The file is `content` here and its rows `fragments`, so that **Storage** can put it
beside Folder.

**Folder** - `exportFile` of an actor's files into one directory, again and
again: the copy under the stored name, the rename to the row's path or the first
free number, what throws, a kill in between, and the constructor that sums the
sizes by `stoi`.

**\*_proofs** - see section 6. **MC\*** modules give the constants their values and
compose small modules into one run: MCRecords lets one transaction, one block,
one table or the balances move in a behaviour, MCFileEdits one file or one folder.

## 3. What the runs show

All runs pass. Every property has a mutation of a modelled definition
(PROJECT.json, "mutants") that a plausible mistake in that code would amount to
and that TLC finds to violate it.

* `block_index`. `IndexInv`, the inductive invariant of the proofs.
  `RangeLostOnlyAtStart`: no call and no kill puts a block outside the range the
  scans visit; only a start on an empty highest section does.
  `CountLostOnlyAtStart`: `records` is right until the next start.
  `DummiesDropped`: dropping dummy blocks drops nothing else, and all of them
  unless a hole or a torn file stops it.
* `blockchain`. `BalancesAccounted`: table and genesis rows account for every
  stored transaction once. `GenesisOnTime`: while `records` is right, the counter
  stays below the limit and bounds the blocks above the last genesis block.
  `MakeBlockAborts`: block production ends the process only over a data block it
  has to read back. `TxEventuallyStored`: what is pending gets stored.
  `RefinesLedger`: the whole is an append-only ledger.
* `blockchain_crash`. `ChainLinked`: the files are a chain with no hole and right
  hashes, whatever a kill leaves. `TakenOnlyIfTorn`: only an unreadable file ever
  takes the index of the next block. `PendingTxIsPacked`: so only then can a
  transaction be cleared without being packed. `RealBlocksKept`. `EcWithinBlocks`:
  a kill leaves the balance table behind the blocks, never ahead of them.
* `blockchain_peer`. `PeerInv`: under every sequence of received blocks no block
  is stored outside the scanned range, block 0 stays, and coins are conserved.
  `LossAborts`: when a received block costs the node a genesis block or a data
  block with transactions, the same handler ends the process. `SearchFinds`: in
  every one of these states no search passes over a stored block, what it states
  of balances is no more than there is, and the memory index would answer the
  same, with the exceptions the property lists.
* `records`. `RecordsExact`: a copy of a transaction verifies exactly if the
  last to sign it and to approve it signed these parties and this producer, and
  amount, date, data, token, prevBlock and gas with the same characters in a row:
  changing one of these texts alone is always noticed, moving characters from one to
  the next never (`SignatureExact`); a block is valid exactly if who signed first also approved
  last, over the same transactions (`BlockExact`); exactly which data comes back
  from a block (`DataRead`). `ReadsExact`: a table holds, per key, what its users
  were told, and what was read of a row deletes that row only (`TablesExact`); the
  roundings of a balance add up to no more than half a unit each, a stored balance
  is not rounded again, and an amount below half the unit of a balance does not
  change it (`BalancesDrift`); the Merkle hash depends on the list only for the
  lengths that are powers of two (`RootRead`); a reward is nothing or at least one
  coin, and who stores more may get less (`CoinsExact`).
* `connections`. `ConnectionsInv`: one service per peer, however dials cross;
  active sides are of one version and one network; a message never comes to a
  side that is not active and has no first message ahead of it.
  `LeftOnlyIfHopeless`: an address is given up only if no connection to it can
  ever be activated. `HandshakeSettles`: both sides become active or both close.
* `messages`. `MessagesImplementMailbox`: send_message keeps the promise of
  Mailbox through connections, replays and kills. `MessagesInv`: nothing waits
  while there is somebody to send to; no message is dropped that was not handled
  since it was last dropped.
* `actor_index`. `ActorIndexInv`: what is listed is readable and what has a
  folder is listed, after every kill; and an actor is whole on a node or not there
  at all, but for one actor of one node for each kill. `ActorsSpread`: an actor one
  side of a connection lists can be read on the other in the end, but where a kill
  has left an empty file.
* `accounts`. `AccountsInv`: memory and disk agree, whoever is logged in is found
  by the next login, the first id is that of block 0. `OnlyKillsLose`: only a kill
  makes a login find another profile or none, only an import loses wallets.
  `JoinerNeedsBlocks`: a node that joined a network gets its blocks or ends, as
  its own timer makes a block 0.
* `dfs_directory`. `DirectoryInv`: types, phantoms stay empty, own files within
  the limit, if there is one. `OwnerKeeps`: nothing the others do and no kill loses a file at its
  owner. `CalmIsRight`, `AddedArrives`: without kills, removals and wrong hashes
  every node gets exactly the files that were added, or has no room, or has no limit
  and has taken nothing yet: then it gets the row and an empty file.
* `fragments`. `ReportedIsRight`: a file reported as downloaded is right, and
  stays, under repeats, partial peers, losses, restarts and kills.
  `RequestStillDue`: the queued removal hits the file it was meant for.
  `FullFileKept`: a full file is never written to. `InOrder`, `DownloadEnds`: with
  one peer and no disturbance the file grows from its beginning, the table
  describes it, and the download is reported. (With several peers it need not end
  well: segments come once per peer, and a repeat is written a second time.)
* `file_edits`. `ReplaceExact`: while the table describes the file, a replacement
  of any part changes those bytes and no others, and appending keeps the table in
  order. `StorageInv`: changes are numbered without gap after any kill, sections
  asked for one by one are the file, and while the table is in order its fragments
  are the file; and
  no exported copy is lost or overwritten.

Four facts the models brought out that limit what the properties can say: as
`getById` truncates transactions, a genesis block that has data blocks below it up
to the previous one is never finished, so the genesis blocks this node makes carry
no rows (`BalancesAccounted` then rests on the table); and `records` being wrong
after a restart, removals can bring it to 0, where `createGenesisBlock` gives up
and the counter passes its limit for good (hence the premise of `GenesisOnTime`).
A node whose limit is set to 0, which `bytesAvailable` takes for none, does not ask for
the data of an announced file while it has taken nothing (`DataWanted`), so the file
stays empty there unless another node's request brings it (`AddedArrives`). And a
transaction with amount 51 and date 660000000000 verifies with the signature over
amount 5 and date 1660000000000 (`SignatureExact`).

## 4. Bounds, and why they are enough

* Block index: identifiers 0 .. 3 with two per section, all block types, no
  bound on the number of calls, kills or restarts. Two sections are needed, and
  enough, to have a highest section that is emptied, reopened and refilled; two
  files per section to have holes and a partial removal inside one. The proofs
  remove the bound.
* Blockchain: three transactions of three kinds, genesis every 3 blocks, dummy
  blocks up to index 4 (`MaxDummyIndex`; 2 in the crash runs, whose kills and
  restarts supply the variety): a full genesis period and the beginning of the
  next, with data blocks on top of either. `MaxReceived = 2`:
  the second entry is the one the loop of `proveTransactions` can skip. The
  section size is 20, in the code 1000 (`exc_utils.h:186`): more than these chains
  have blocks, so they have one section with either.
* Crash: two kills (`MaxKills`): one leaves a broken state, the second hits the
  recovery from it. Two transfers, so that a kill can stop between the two
  updates of one and between two transactions.
* Peer: indexes 1 .. 3, three types, every local predecessor and an unknown one;
  enough for repeats, gaps, a merge below the top and a genesis block in between.
  One transfer: what is merged or lost is the block that holds it.
* Fragments: two peers; three segments of two sections, the fewest that have a
  first, a middle and a last one (the row recursion needs two rows to move); one
  broadcast for another node, one dropped connection, one restart or kill and one
  request for a new copy (`MaxExtra`, `MaxLosses`, `MaxRestarts`, `MaxRequests`),
  in any combination. The stored positions grow with each new copy, so the last
  bound is needed; the proofs have none of the sizes bounded.
* A transaction is handed in while the node does not have it (guards of
  `AddVerifiedTx` and `AddTransaction`); otherwise lists grow without bound.
* Connections: four nodes of which one is in a network, one in none, one in
  another network and one of another version; two crossing dials and two others;
  two connections at a time (numbers are used again when both sides are done),
  one failure. Crossing dials, a duplicate, a takeover of the first id and a full
  `maxConnections` all happen.
* Messages: three peers, so that the filter's limit takes four values; four
  messages sent, four copies received, two kills.
* Actors: two nodes with a main actor each and a wallet; two kills, or one dropped
  connection, or the wallet. A third node would only repeat the exchange.
* Accounts: three actors, two login hashes, two profiles in memory, one kill, one
  restart, two exports that differ, three list entries.
* Directory: two nodes and two files of different size, one node hearing of the
  actor at any time, one wrong hash, one removal, one kill, one restart; or three
  nodes and one file without wrong hashes - with three nodes one wrong hash can be
  answered twice and asked for again without end. No limit, one with room for one
  file and one with room for both; a `Word` of 1000 instead of 2^64, larger than any
  sum of sizes, so that only the difference in `DataWanted` wraps.
* File edits: four bytes, edits of up to two bytes, three edits with kills;
  sections of one byte, two to a segment message. Bytes need not differ, as
  `ReplaceExact` brings marks of its own into every reachable file. Exports:
  three calls, four files, numbers up to 3 instead of 99, `MaxInt` 2.
* Records: two actors, four bodies with two values of `prevBlock` and of `gas`,
  chosen so that each neighbouring pair of texts or a group of them collides: amount
  with date, data with token and `prevBlock`, `prevBlock` with `gas`; lists up to three elements, Merkle lists up to nine;
  three signatures. Tables: the usual row of each schema and rows that differ
  from it in one column, two rows given. Amounts: two digits instead of six,
  three transactions of 1, 60 or 123. Rewards: shares up to 4. The proofs of
  section 6 have none of these bounds.

## 5. Fairness

`Fairness` of Blockchain assumes that the two timers keep firing while the
process is up: weak fairness of `MakeBlock` (written with its enabling
condition `MakeBlockDue` spelled out, which TLC evaluates faster) and of
`ProveTransactions`. The constructor of the transaction manager starts both
and nothing stops them. Nothing is assumed of users, peers, the
operator or a restart; properties that need the process up say so.

`Fairness` of Fragments: messages on a connection that stays are delivered in
order (WebSocket), a peer answers what reaches it, and the event loop runs the
signals queued in it. `DownloadEnds` says nothing once a connection has dropped
or the node has restarted: the code does not resume a download.

Connections: what is written to an open socket arrives in order, a dialed
connection that can be made is made, and a side hears that the other has closed.
Nobody has to dial, and a socket may break at any time. ActorIndex: the 30-second
timer goes off and messages on a connection arrive. Directory: messages on a
connection arrive. Accounts: `makeBlock`'s timer goes off, as above.

The other specifications state no fairness, and no liveness is claimed of them.

## 6. What is proved

With TLAPS. About the block index, for every section size and every bound on
identifiers:

* `IndexInvariant`: `Spec => []IndexInv`.
* `TypeCorrect`: the types, from it.
* `RangeLoss`: `Spec => RangeLostOnlyAtStart`.
* `CountLoss`: `Spec => CountLostOnlyAtStart`.
* `DropsOnlyDummies`: `Spec => DummiesDropped`.
* `OneSection`: if all identifiers fit one section, `Spec => []StoredWithinRange`.

The argument. What one would like to be invariant - every block file lies
between `firstSavedId` and `lastSavedId` while the process is up - is not: a
restart with an empty highest section breaks its upper half. Two facts survive
even that and are inductive (`IndexInv`): every file lies in an existing section
directory, and no file lies below `firstSavedId` while the process is up. The
first gives the second at a start: the smallest directory either holds files,
then its smallest file is the smallest of all, or it is empty and the answer is
0. `RangeLoss` then looks at each action under `IndexInv`: `add` and `removeById`
keep the upper end by their comparison and assignment, and at a start the upper
end can only fail when the highest directory is empty. With a single section
that directory holds every file there is. `CountLoss` is a count: `add` adds one
to a finite set, the loop of `removeById` subtracts exactly the files it
removes, `removeAll` empties both. `DropsOnlyDummies` follows the loop of
`removeDummyBlocks`, which takes the top block again and again: what is gone are
dummy blocks above the last real one, and the loop stops early only at an index in
the range that has no readable file.

The lemmas about the operators (what `Insert`, `RemoveRange`, `RemoveById`,
`RemoveDummyBlocks`, `Touch` and `Reload` do to types, range, sections, count
and the error of the count) are in BlockStore_proofs and are stated for any store, so later proofs
about Blockchain can cite them. Assumptions on constants: `SectionSize` a
positive and `MaxIndex` a natural number.

About the chain, for every section size, every interval between genesis blocks, any
finite set of accounts, any transactions and any number of restarts and kills
(Blockchain_proofs; `Spec` is the node alone, `CrashSpec` with kills inside
`makeBlock`, `PeerSpec` with blocks a peer sends):

* `ChainIsLinked`: `CrashSpec => []ChainLinked`.
* `RealBlocksStay`: `CrashSpec => RealBlocksKept`.
* `OnlyReadingBackAborts`: `Spec => MakeBlockAborts`.
* `TakenIsTorn`, `PendingIsPacked`: `CrashSpec /\ StartsOnFiles` implies
  `[]TakenOnlyIfTorn` and `PendingTxIsPacked`.
* `ImplementsLedger`: `Spec /\ StartsOnFiles => L!Init /\ [][L!Next]_(L!vars)`, the
  refinement of Ledger without its fairness.
* `GenesisInTime`: `Spec /\ StartsMiscounted => []GenesisOnTime`, and
  `GenesisInFirstSection`: `Spec /\ [](store.sections \subseteq {0}) =>
  []GenesisOnTime`.
* `BalancesRight`: `Spec => []BalancesAccounted`; `EcRight`: `CrashSpec =>
  []EcWithinBlocks`.
* `BlockZeroStays`, `LossIsFatal`, `CoinsStay`: `PeerSpec` implies `[]BlockZeroKept`,
  `LossAborts` and `[]CoinsConserved`.
* `PeerBlocksCovered`, `PeerRight`: `PeerSpec /\ StartsOnFiles` implies
  `[]StoredWithinRange` and `[]PeerInv`.
* `SearchesFind`: `PeerSpec /\ StartsOnFiles => []SearchFinds`.

`StartsOnFiles` says that no restart finds the highest section directory empty, the
one way a range is lost (`RangeLoss`). It is a hypothesis because the code does not
ensure it: a kill between the directory and the first file in it, or dummy blocks
removed down to a section's first, make the next start take 0 for the last
identifier. After that the range is block 0 alone, every index `makeBlock` takes next
is taken, and pending transactions are dropped; the chain and what is in it stay as
they are, which is why the theorems without the hypothesis do not need it. The runs
have all identifiers in one section, where it always holds.

The argument. `ChainInv` says that the files are a chain (`ChainOf(store, k)`:
identifiers 0 to k, each block on the digest of the one before, only the last
perhaps torn) and that while the process is up the counters either cover it
(`Covered`) or are stuck at block 0 (`Stuck`), where no new block can be stored
(`Harmless`). `WholeInv`, that they cover it, is what `StartsOnFiles` adds. The bulk
of the proof is what `makeBlock`'s calls do to a node between them (`addBlock`,
`createGenesisBlock`, `saveTxInfoInEC`), as lemmas about nodes, and one lemma per
action with its kills. The refinement maps a step that stores a block to the commit of
its transactions, in the order of their indexes (a transaction's place in the log is
its block's), and every other step to a stutter.

Genesis blocks. `GenesisOnTime` supposes that `records` counts the blocks, and a
restart sets `records` to the square of the number of sections (1 for one section).
`TimeInv` says of the counter what the property does, and that the range covers the
chain, whenever `records` is right. It is inductive within one run of the process
because no handler changes the difference between `records` and the number of files
(`Excess`: what `add` and `removeById` add to the one they add to the other), so a run
that starts with a wrong count never has a right one. A run could start with a right
count by chance: four blocks in two sections of two. `StartsMiscounted` excludes it,
and has to: with sections of two TLC finds `GenesisOnTime` violated, since the counter
of blocks starts at 0 whatever lies above the last genesis block. Within one section
a restart is right about block 0 only, and the hypothesis holds by itself
(`GenesisInFirstSection`).

Balances. `TableInv` is inductive for the node alone: the rows of every genesis block
are empty, no genesis block is above a data block, and the table is what the data
blocks moved. It is so plain because `createGenesisBlock` walks down over the data
blocks and ends the process at the first it cannot read back, and they never can be;
`BalancesAccounted` follows. With kills, `PrefixInv` explains the table by a number
of updates per data block, 0 for a block a kill left without its updates; a step
either keeps the data blocks and keeps or empties the table, or adds a data block and
some first updates of it (`Behind`).

With a peer the files are no chain: replaced blocks and blocks from a peer leave gaps
and forks. `PeerBase` keeps what is left: block 0 is the block the node starts with,
the range begins there, all files are blocks under their own index, and the table adds
up to zero (`Conserving`; a block moves two halves, and a genesis block or a removal
moves nothing or empties the table), which leaves no genesis block a row
(`NothingStored`). `Holds`, on each step, is that no genesis block and no
data block with transactions goes or changes unless the process ends.

Searches. `SearchFinds` follows from `PeerBase` and a range that covers the files, store
by store. A search goes down from the last identifier, so it ends at the greatest that
matches or cannot be read (`Top`), and there is one; the greatest block with an entry of
an account is visited before the rows suffice (`RowsFound`). What a balance adds up are
blocks that can be read, which have no transactions, and the rows of a genesis block,
which are none. For the memory index the k-th block of the list is the one whose
identifier has k identifiers up to it (`Rank`, `Nth`): the greatest place that matches is
that of the greatest identifier that matches (`LastPlace`), one block more is one place
more (`NthMore`), and since no two blocks have one index `addBlock` refuses none before
the limit (`AllAdded`). Assumption on constants: `MemIndexAssumption`.

Sums over finite sets are functions defined by recursion on subsets in the community
modules. What is needed of them (one element taken out, two functions added, a set
cut into groups) is in BlockStore_proofs, by induction on the subsets of a finite set
(`FS_Induction` takes an operator, so the induction is done by hand: a subset of
least size that is a counterexample). Assumption on constants: `ChainAssumption`
(accounts are a finite set, the functions on transactions are functions).

About connections, for any nodes, versions, networks, addresses, any number of
connections and any dials, failures and breaks:

* `ConnectionsRight`: `Spec => []ConnectionsInv`.
* `LeftRight`: `Spec => LeftOnlyIfHopeless`.

The invariant (`IInv`) says for each side of a connection what it knows of the other
(`SideOK`: an activated side has the identifier of the node at the other end and
agrees with it on version and network) and, while both sides are there, that what is
on the way to a side is what the other has sent and it has not read (`Matches`): first
the key, then one first message, and no binary message before both. A node has one
service per peer because the later of two sees the earlier one in the list
(`OneServicePerPeer`). That an id of the network, once a node has one, never changes
(`NetworkKept`) makes the comparison of first ids still true afterwards.

About the download, for every number of peers, every size and every bound:

* `ReportInvariant`: `Spec => []ReportInv`.
* `ReportsAreRight`: `Spec => []ReportedIsRight`.
* `RequestsAreDue`: `Spec => []RequestStillDue`.
* `FullFileStays`: `Spec => FullFileKept`.
* `DownloadInOrder`: if the file is not one section longer than a segment,
  `Spec => []InOrder`.

`ReportedIsRight` and `RequestStillDue` support each other and need a third fact,
that at most one request is queued (`OneRequest`): a signal is only queued by the
write that makes the file full, so while a request or a report is queued the
file is full, and a full file is not written to. Handling the request removes
the file, which is harmless because it is wrong (so not reported) and no second
request is behind it. Nothing about where segments are written is needed.

`InOrder` does need it. Its invariant (`OrderInv`) follows an undisturbed download
through its phases: the file is announced, asked for, or `k` of its segments have come
and the rest is on its way in order (`Arriving`). While segments are missing, the row
with the greatest offset ends where the file ends, and there is a row at the offset
where the first segment ends (`RowsEnd`); so the next segment finds a row before it
and none behind and is appended. Only when the first two segments share an offset is
there no row before the second, which is the size the theorem leaves out.
Assumptions on constants: sizes are positive numbers, and `NoFile` is no file.

About the directory of an actor, for any nodes, any finite set of files, any sizes and
limits, and any number of wrong hashes, removals, kills and restarts:

* `AddedStays`: `Spec => []OwnerKeeps`.
* `DirectoryKeeps`: `Spec => []DirectoryInv`.
* `CalmIsKept`: `Spec => []CalmIsRight`.

The first two come from one invariant (`KeepInv`). What a handler does to a node is one
of four things (`Outcome`): nothing; files go, of which none is one of Home's with its
data; a row and an empty file come, for a name that was not there; an empty file of
Home's becomes full. None of them touches a file that was added, whoever sends what.
That the second and fourth keep apart from each other needs what the messages may
say (`Messages`) and what the tables may hold (`TableRows`): a list of a directory is
asked for by hashes, which are never names of Home's; a row whose name is a hash has
size 0, and nothing is ever written to a file with such a row. A limit needs more than
the numbers it bounds: `m_sizeTaken` is at least the sum of what was added as long as
the process runs (`Room`), because a restart recounts the files that have their data,
and what was added has it (`OwnerKeeps`); so the test before each file of a list
counts all earlier ones. In a calm run, `CalmInv`: as long as no file was added the
only messages are requests for the directory, which nobody answers, and afterwards
only announcements and segments of files that were added, with their right rows; and
every file in a folder has its row, so that no segment arrives without one.
Assumptions on constants: `DirectoryAssumption` (a finite set of files, positive
sizes, limits below `Word`)
and `NamesAssumption`.

About messages (`MessagesSpec`), for every number of peers, messages, copies and kills:

* `MessagesRight`: `MessagesSpec => []MessagesInv`.
* `Refinement`: `MessagesSpec => MessagesImplementMailbox`.

Two invariants carry it. That nothing is in the cache while somebody is there to
send to (`CacheInv`) is inductive with the types of the connections: a kill leaves
no connection, a connection becomes active only in `Activate`, and both callers of
`checkConnectionsStatus` empty the cache when they leave somebody. It makes
`SendMessage` with somebody online the step of Mailbox that sends at once, since
nothing given earlier waits. That nothing is dropped unhandled needs what the
filter remembers: a remembered message was handled since it was last dropped
(`RememberedIfHandled`); dropping forgets it, and a restart forgets all. Nothing is
assumed of how many connections there are when a copy is counted.

About the actor index, for every finite set of actors, any nodes and any number of
messages, kills and lost connections:

* `ActorIndexRight`: `Spec => []ActorIndexInv`.

The invariant is the order of the parts with the domains of the functions (`IInv`), and
that at most as many actors are in parts as there were kills (`BrokenOK`): a row
needs a whole file, a folder needs a row. Only adding an actor writes to the disk,
it starts where there is no file, hence neither row nor folder, and every prefix of
what it writes (`Parts`) keeps the order. Without a kill all three parts are written,
and a second copy of an actor that is there writes nothing, so a step in which nothing
is killed breaks no actor (`NoneBroken`) and a kill at most one (`OneBroken`). The rest is that messages stay on
connections and are messages, for which the sequence chosen for a set that is sent
(`SetToSeq`) must exist: the set is finite because `Actors` is.

About the accounts, for any logins, any number of actors, exports, imports, kills and
restarts:

* `AccountsFit`: `Spec => []AccountsInv`.
* `OnlyKillsTake`: `Spec => OnlyKillsLose`.

That whoever is logged in is found again is not inductive alone: an import could
bring a file with another hash, and a new actor could get a number that is taken. So
`ProfilesInv` adds that each actor has one hash for ever, in its file, in every copy in
memory and in every export (`OneHash`), that numbers above `created` occur nowhere
(`Numbered`), and that what is loaded is listed while the process is up (`InList`; the
list is only appended to, except by a kill, which ends the process). `load` then stops
at the profile's own place in the list at the latest. The same facts give
`OnlyKillsTake`: without a kill a saved file stays saved with its hash, so the files
that a login passes over are passed over again and the first that it does not pass
over stays the first (`StillFound`); and `createWallet` saves a superset of the file,
because the first copy in memory, which it takes, has what the file has unless the
file was imported (`MemoryIsDisk`). The first id and block 0 meet the profiles only
in the numbers of actors (`ClaimsInv`): a claim that does not end the process is equal
to every earlier one (`NoClash`). Assumption on constants: `AccountsAssumption`.

About edits and exports (Fragments_proofs), for any file, any pieces, sizes of
sections, messages and histories, any paths and any number of edits, exports and kills:

* `EditsSafe`: `EditsSpec => []EditsInv`; with the exports, `StorageSafe`:
  `EditsSpec /\ FolderSpec => []StorageInv`.
* `ReplaceSafe`: `EditsSpec => []ReplaceExact`.

Every behaviour of MCFileEdits, where one of the two moves, is one of
`EditsSpec /\ FolderSpec`. The invariant of the edits (`EditsIInv`) says that the file
consists of bytes, the table of rows and that the chain is numbered (`Numbered`): rows
are only appended, each with the number after the last, and a kill leaves a beginning of
what an edit appends. That sections asked for one by one are the file, and what
`ReplaceExact` says, hold of any file and any table and do not depend on how they came
about. A table in order is described by the places `0 = e[0] < e[1] < ... < e[n]` where
its rows end (`TableEnds`). A replacement overlaps a run of these rows; `applyChanges`
removes and writes again, for each, the part of the data that lies in it, and what is
there after the first m rows is the file with a beginning of the data over it (`Over`).
The loops are functions on numbers, and each is followed by an induction over the number
of turns (`Steps`). Of the exports, every copy keeps four things (`KeptIn`), the number
of a file's copies among them: a copy goes to a name that is free, so nothing is
overwritten; it lies under a stored name only if there was a reason; and all smaller
numbers of its name are taken. Assumptions on constants: `EditsAssumption` and
`FolderAssumption`.

About transactions and blocks in hand (Network_proofs), for any actors, contents,
digits, elements and signatures:

* `RecordsSafe`: `RecordsSpec => []RecordsExact`.

A behaviour moves the transaction or the block, so it is enough that each keeps its
part (`TxSpec`, `BlockSpec`). `TxInv`: the signature is none, or of the fields at the
last call of `sign`, and the texts are sequences of characters. Equal signatures thus
mean equal texts in a row; that a change of one text alone is noticed is then the
cancellation of what is before and behind it (`Peel`, `AloneNoticed`). `BlockInv`: the data of a block is the text of what was put in
(`Text`, the packed list and behind it the single elements), the first signature is
over what the first caller signed, and the last one that approves is by the last. What
comes back of such a text is a lemma about any two lists (`TextRead`, `RowsRead`).
Assumption on constants: `RecordsAssumption` (the texts are sequences of numbers, and
nobody signs as `NoOne`).

About tables, balances, lists and rewards (ActorIndex_proofs), for every table of the
program, any holders, amounts and number of digits, and lists of any length:

* `TablesRight`: `TablesSpec => []TablesExact`.
* `DriftBounded`: `AmountsSpec => []BalancesDrift`.
* `RootOfList`: the hash of a list does not depend on what lies after the end of a
  vector exactly if the length is a power of two.
* `ReadsRight`: `TablesSpec /\ AmountsSpec => []ReadsExact`, which every behaviour of
  MCRecords satisfies.

Tables. That the rows are those of the puts that are to stay is not inductive: a put of
a key that is there must find the row it is ignored for. So `RowsRight` adds that every
key of a complete put is there, and once. `deleteRow` then takes away the rows that
match and the puts of the same keys; a put and its rivals, those of its key that decide
whether it stays, go or are kept together.

Balances. `AmountsInv`: a balance is a multiple of its own unit, so it is written again
as it is, and twice its distance from the exact one is at most the units it was rounded
to so far. What is written has the unit of what it is written for, or is the next power
of ten, because rounding to the nearest multiple of a power of ten does not pass any
power of ten that is a multiple too. The units are powers given by a recursive function
(`Power`), whose laws (`PowerFacts`) are proved first.

Lists. Two runs of the rounds on one list with different things after the end (`AreTwins`)
differ at most in the last element of each round, and they differ there from the first
round on whose list has an odd length; the last round is one element. A length is halved
without a rest until one is left exactly if it is a power of two; a list of one element
is paired with what lies behind it, so one is not among them. Rewards: `CalculateCoins`
chooses the least number of doublings that reaches the denominator (`IsReward`), which
exists since `2^k > k` (`TwoFacts`). Assumptions on constants: `AmountsAssumption`,
`MerkleAssumption`
(`MaxPieces` a natural number) and `MiningAssumption` (a positive rate; `MaxStored` at
least 4, below which nobody who stores more gets less).

## 7. What is only model-checked, what is not modelled

Model-checked only, and why:

* All liveness (`TxEventuallyStored`, `DownloadEnds`, `HandshakeSettles`, `AddedArrives`,
  `ActorsSpread`, `JoinerNeedsBlocks`) and the fairness of `RefinesLedger`: the provers
  handle neither fairness nor ENABLED.

Every other property of the runs is stated by a theorem. Some theorems have a
hypothesis the runs meet by their constants (`StartsOnFiles`, `StartsMiscounted`,
`NoneInFront`); section 6 says why each is needed.

Not modelled, and why:

* Components without state of their own or without a user in the program: the
  balance cache (nothing constructs it), contracts and permissions (data holders
  and stubs), logs and the thread pool (switched off in the node's constructor),
  network discovery (I/O only), the C bindings, the tests, the WebAssembly headers.
* Cryptography is libsodium; a signature or a ciphertext is who made it over what.
* Of the block index and the chain: `recordsLimit` (never set), memory mode (never
  switched on; its searches are in MemIndex and Search all the same), the list of
  unapproved hashes (no caller), blocks of the types "dataMerge" and
  "genesisMerge" and block requests from peers, `mergeGenesisBlockWithLocal`,
  transactions with special tokens, and `getSmContractMembers` (`bc:686`), which looks
  for actors only if the data of the block just stored is the text "InitContract".
* Of the DFS: `verifyFiles`, whose list of verified files is only shown and never
  reset; file headers and storage proofs; of the historical chain `remove`,
  `update`, `revert` and `rename`.
* Calls nothing makes: helpers that print amounts, `checkBlockExistence`,
  `blockCountResponse`, `showBlockchain`.
* Failures the code does not look at: a full disk, missing permissions, a failing
  SQLite.

## 8. Where the code and its comments part

What the models show of the code that a comment beside it says otherwise. The
runs check what does hold, and their properties have exactly these exceptions:

* `blockindex.h:54` has `getLastBlock` return the last block. `removeById` leaves
  the section directory of what it removes; when that was the highest one, the
  next start finds no file in it, takes 0 for the last identifier (`bi:807`), and
  the blocks of the lower sections are out of sight. `RangeLostOnlyAtStart` says
  that this is the only way.
* `exc_utils.h:191` says how often a genesis block is constructed. The count is in
  memory and starts at 0 with the process; a node restarted early enough each time
  never constructs one, and one whose `records` went wrong may pass the limit, which
  is compared by equality (`bc:276`), and then never does (`GenesisOnTime`).
* `tx_manager.h:38-39` has received transactions approved and packed. The test
  before `pendingTxs.push_back` (`tm:65`) is the wrong way round: an approved
  transaction goes into the list only if it is there already, and leaves
  `receivedTxList` in any case (`AddProved`, `Proved`).
* `tx_manager.h:49` calls `pendingTxs` the transactions that will be packed. `makeBlock`
  clears the list whatever `addBlock` answers (`tm:125`); if the index is taken, by
  an unreadable file (`PendingTxIsPacked`) or a peer's block that cannot be merged,
  they are in no block.
* `bc:516-517` removes a block "and all blocks after them" and then saves the
  updated blocks. The list of these begins with the replaced block itself, whose
  index is taken by now; adding it is a second merge, which reads transactions that
  cannot be read back, and the process ends with the blocks above gone
  (`LossAborts`).
* `dfs:855` ends the process on a full file with a wrong hash as something that cannot be.
  `fetchFragments` takes a segment's offset after its loop has moved on (`dfs:769`),
  except over the last section: when that is a segment of its own, the last two
  segments have one offset. In a file of 402 sections, one more than a segment has,
  the second is then written in front of the first, and the download is repeated with
  the same result; in a longer one it is appended, and only its row is missing.
  `DownloadInOrder` therefore excludes this one size (`NoneInFront`), and TLC finds
  `InOrder` violated for it, with any length of a segment.

## 9. Plan

Done are the components section 2 lists. What is left, in order of weight:

1. Directory and Fragments in one module, so that a request, its segments and the
   rows they come with interleave; three nodes without the bound on wrong hashes.
2. Blocks of index 0 and merged genesis blocks from peers in BlockchainPeer.
3. The Records and Tables of a block file in BlockStore's `Insert` and `Reload`, so that
   what a kill leaves of a block is derived and not stated by `PartsOf`.
