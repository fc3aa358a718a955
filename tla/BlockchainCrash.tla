-------------------------- MODULE BlockchainCrash --------------------------
(***************************************************************************)
(* Blockchain, and the process being killed in the middle of makeBlock.    *)
(* No write is atomic with another: a handler removes files one by one,    *)
(* creates a block file, inserts into its tables row by row, updates the   *)
(* cacheEC table twice per transaction.  A kill leaves a prefix of that on *)
(* the disk, and the next Start builds its counters from it.               *)
(***************************************************************************)
EXTENDS Blockchain

CONSTANT MaxKills      \* bound: how often the process is killed

ASSUME MaxKillsAssumption == MaxKills \in Nat

VARIABLE kills

crashVars == <<vars, kills>>

\* What a kill in the middle of BlockIndex::add leaves of b: a file without a
\* block row, a block with the first k transactions, or with some of the
\* genesis rows, and no signature yet, or all of it.
PartsOf(b) ==
  {Torn, b}
    \cup {[b EXCEPT !.txs = SubSeq(@, 1, k), !.signers = {}] : k \in 0 .. Len(b.txs)}
    \cup {[b EXCEPT !.rows = [a \in Accounts |-> IF a \in done THEN @[a] ELSE 0],
                    !.signers = {}] : done \in SUBSET Accounts}

OnDisk(s, id, part) ==
  [s EXCEPT !.files = [i \in Ids(s) \cup {id} |-> IF i = id THEN part ELSE s.files[i]],
            !.sections = @ \cup {Section(id)}]

\* A kill: the disk is disk and e, the memory is gone.
Killed(disk, e) ==
  /\ running
  /\ Become([Node EXCEPT !.store = disk, !.ec = e, !.up = FALSE])
  /\ ListsLost

\* While the dummy block is written.
CrashInDummyBlock ==
  LET b == DummyBlock(store)
  IN /\ pendingTxs = <<>>
     /\ Index(b) <= MaxDummyIndex /\ Index(b) \notin Ids(store)
     /\ \E part \in PartsOf(b) : Killed(OnDisk(store, Index(b), part), ec)

\* While the genesis block that follows it is written: the cacheEC table is
\* already empty.
CrashInGenesisBlock ==
  LET b == DummyBlock(store)
      stored == [Node EXCEPT !.store = Insert(@, Index(b), b)]
      gB == NewGenesis(stored)
  IN /\ pendingTxs = <<>>
     /\ Index(b) <= MaxDummyIndex /\ Index(b) \notin Ids(store)
     /\ blocksFromLastGenesis + 1 = GenesisEvery
     /\ ConstructGenesis(stored).store # stored.store
     /\ \/ Killed(stored.store, NoRows)
        \/ \E part \in PartsOf(gB) :
             Killed(OnDisk(stored.store, Index(gB), part), NoRows)

\* While makeBlock packs the pending transactions: after k of the dummy blocks
\* are gone, while the block is written, or while its transactions go into the
\* cacheEC table.
CrashInDataBlock ==
  LET bare == RemoveDummyBlocks(store)
      b == DataBlock(bare)
  IN /\ pendingTxs # <<>>
     /\ \/ \E k \in DummyStop(store) + 1 .. store.lastSavedId :
             Killed(RemoveById(store, k), ec)
        \/ /\ Index(b) \notin Ids(bare)
           /\ \/ \E part \in PartsOf(b) : Killed(OnDisk(bare, Index(b), part), ec)
              \/ \E h \in 1 .. Halves(pendingTxs) :
                   Killed(OnDisk(bare, Index(b), b), SaveHalves(ec, pendingTxs, h))

CrashInMakeBlock == CrashInDummyBlock \/ CrashInGenesisBlock \/ CrashInDataBlock

CrashInit == Init /\ kills = 0

CrashNext ==
  \/ Next /\ UNCHANGED kills
  \/ CrashInMakeBlock /\ kills < MaxKills /\ kills' = kills + 1

CrashSpec == CrashInit /\ [][CrashNext]_crashVars

-----------------------------------------------------------------------------
(* Properties, with the type invariant and ChainLinked of Blockchain *)

TornIds == {i \in Ids(store) : store.files[i].type = "torn"}

\* Whatever the kills left behind, the index makeBlock takes for the next
\* block is free, unless a file could not be read.  (If it is taken, the merge
\* is refused and the pending transactions are cleared all the same.)
TakenOnlyIfTorn ==
  running /\ TornIds = {} =>
    /\ Index(DummyBlock(store)) \notin Ids(store)
    /\ Index(DataBlock(RemoveDummyBlocks(store))) \notin Ids(RemoveDummyBlocks(store))

\* A transaction leaves pendingTxs into a block, or with the process, or
\* because an unreadable file holds the index its block needs.
PendingTxIsPacked ==
  [][\A tx \in Range(pendingTxs) :
       \/ tx \in Range(pendingTxs') \/ InBlock(store', tx)
       \/ ~running' \/ TornIds # {}]_vars

\* What is in a data or genesis block stays there, kill or no kill.
RealBlocksKept ==
  [][\A i \in Ids(store) : store.files[i].type \in {"data", "genesis"} =>
       i \in Ids(store') /\ store'.files[i] = store.files[i]]_vars

\* A kill may leave the table behind the blocks, never ahead of them: it holds
\* what some prefix of the updates of each stored data block did.
EcWithinBlocks ==
  \E k \in [DataIds -> 0 .. SumFunction([i \in DataIds |-> Halves(store.files[i].txs)])] :
    \A a \in Accounts :
      ec[a] = SumFunction([i \in DataIds |-> SaveHalves(NoRows, store.files[i].txs, k[i])[a]])
=============================================================================
