------------------------------- MODULE Search -------------------------------
(***************************************************************************)
(* What a node answers when it is asked for a block or a transaction: the  *)
(* searches of BlockIndex over the files, and the methods of Blockchain    *)
(* that choose among them.  They read the store of BlockchainPeer and      *)
(* change nothing, so they are operators on it; an answer is the           *)
(* identifier of a block, a transaction with that of its block, or         *)
(* "abort" where reading a stored block ends the process.                  *)
(*                                                                         *)
(* The program is always in file mode, and nothing fills the memory index; *)
(* in the other mode it would answer the same calls (module MemIndex).     *)
(* Searches for a block by its data are left out: a stored block has none. *)
(* The text of an identity or of a block hash may begin with zeros, which  *)
(* it loses as a BigNumber: Padded and PaddedIndexes are those that do.    *)
(* A transaction is signed, and so approved, by its sender.                *)
(***************************************************************************)
EXTENDS BlockchainPeer, MemIndex

CONSTANTS
  Padded,          \* the accounts with such an identity
  PaddedIndexes    \* the indexes of blocks with such a hash

ASSUME PaddedAssumption == Padded \subseteq Accounts /\ PaddedIndexes \subseteq Nat

-----------------------------------------------------------------------------
(* Blocks *)

\* Mutant: as many identifiers as records counts.
ScannedByRecords(s) == s.firstSavedId .. (s.records - 1)

\* The identifiers a search visits, from the last one down.
Scanned(s) == s.firstSavedId .. s.lastSavedId

\* The signature that names the approver of a stored block, if it has one.
Approvers(b) == ReadSigners(b)

\* getBlockByPosition.
BlockByPosition(s, position) ==
  LET id == s.firstSavedId + position
  IN IF id \in Visible(s) /\ id <= s.lastSavedId THEN id ELSE NoId

\* getBlockByParam: the newest block that matches.  A hash is passed as a
\* number and compared as text; an approver is compared as a number.
BlockByHash(s, hash) ==
  IF hash.id \in PaddedIndexes THEN NoId
  ELSE Top({i \in Scanned(s) \cap Visible(s) : s.files[i].hash = hash})
BlockByApprover(s, actor) ==
  Top({i \in Scanned(s) \cap Visible(s) : actor \in Approvers(s.files[i])})

\* getBlockByIndex, in file mode.
BlockByIndex(s, id) == IF id \in Visible(s) THEN id ELSE NoId

\* The blocks of the store as a memory index that was given each of them.
InMemory(s) == Listed(s.files, Visible(s))

\* What the memory index holds in file mode.
Memory == <<>>

\* The getters of Blockchain, and getBlock.  By approver the memory index is
\* asked in file mode.
GetBlock(s, param, value) ==
  CASE param = "id" -> BlockByIndex(s, value)
    [] param = "hash" -> BlockByHash(s, value)
    [] param = "approver" ->
         LET b == MemByApprover(Memory, value) IN IF b = NoBlock THEN NoId ELSE Index(b)

\* checkIntegrity looks at the memory index in file mode, and at the first
\* records positions of the files otherwise.
ByPosition(s) ==
  [k \in 1 .. s.records |->
     LET id == BlockByPosition(s, k - 1)
     IN IF id = NoId THEN NewBlock(NoId, "data", <<>>, NoHash, Me) ELSE s.files[id]]
CheckIntegrity(s, fileMode) == FirstUnlinked(IF fileMode THEN Memory ELSE ByPosition(s))

-----------------------------------------------------------------------------
(* Transactions *)

NoTx == [tx |-> "none", at |-> NoId]
Ends == [tx |-> "abort", at |-> NoId]

\* The text of an identity that went through a BigNumber.
IsText(actor, value) == actor = value /\ value \notin Padded

\* What getLastTxByParam compares; getTxByUser searches by approver.
Matches(tx, param, value) ==
  CASE param = "hash" -> tx = value
    [] param = "sender" -> IsText(Sender[tx], value)
    [] param = "receiver" -> IsText(Receiver[tx], value)
    [] param \in {"either", "token"} ->
         IsText(Sender[tx], value) \/ IsText(Receiver[tx], value)
    [] param \in {"approver", "user"} -> IsText(Sender[tx], value)

\* extractTransactions of a block that can be read: those of a data block.
TxsOf(s, i) ==
  IF i \in Visible(s) /\ s.files[i].type = "data" THEN s.files[i].txs ELSE <<>>
Readable(s, i) == i \in Visible(s) => CanExtract(s.files[i])

\* getLastTxByParam: newest block first, in a block the first that matches.
LastTx(s, param, value) ==
  LET Hits(i) == {k \in DOMAIN TxsOf(s, i) : Matches(TxsOf(s, i)[k], param, value)}
      stop == Top({i \in Scanned(s) : ~Readable(s, i) \/ Hits(i) # {}})
  IN IF s.records = 0 \/ stop = NoId THEN NoTx
     ELSE IF ~Readable(s, stop) THEN Ends
     ELSE [tx |-> TxsOf(s, stop)[Min(Hits(stop))], at |-> stop]

\* getTransaction, and the methods it chooses among.
TxParams == {"hash", "sender", "receiver", "either", "token", "approver", "user"}
GetTransaction(s, fileMode, param, value) ==
  IF fileMode THEN LastTx(s, param, value) ELSE MemLastTx(InMemory(s), param, value)

\* getTxsByParamInRow by sender or receiver: whole blocks, downwards from
\* "from", until more than count transactions are found.
TxsInRow(s, value, from, count) ==
  LET top == IF from = NoId THEN s.lastSavedId ELSE from
      Hits(i) == {[tx |-> TxsOf(s, i)[k], at |-> i] : k \in
                    {k \in DOMAIN TxsOf(s, i) :
                       value \in {Sender[TxsOf(s, i)[k]], Receiver[TxsOf(s, i)[k]]}}}
      Above(i) == UNION {Hits(j) : j \in (i + 1) .. top}
      visited == {i \in s.firstSavedId .. top : Cardinality(Above(i)) <= count}
  IN IF s.records = 0 THEN {}
     ELSE IF \E i \in visited : ~Readable(s, i) THEN {Ends}
     ELSE UNION {Hits(i) : i \in visited}

\* VerifyTx: a transaction is passed on unless the last block contains it.
VerifyTx(s, tx) ==
  IF ~Readable(s, LastBlockId(s)) THEN "abort"
  ELSE IF tx \in Range(TxsOf(s, LastBlockId(s))) THEN "contained" ELSE "verified"

-----------------------------------------------------------------------------
(* Coins.  What a walk down the blocks gives is a set: empty where reading a  *)
(* stored block ends the process.                                             *)

\* The rows of the last genesis block, as extractDataRows gives them.
LastRows(s) ==
  IF LastGenesisId(s) = NoId THEN NoRows ELSE StoredRows(s.files[LastGenesisId(s)].rows)

Credits(s, user, ids) ==
  SumFunction([i \in ids |->
    SumFunction([k \in {k \in DOMAIN TxsOf(s, i) : Receiver[TxsOf(s, i)[k]] = user} |->
                   Amount[TxsOf(s, i)[k]]])])

\* getUserBalance: what the user received, and the row of the genesis block at
\* the end of the walk unless a hole ends it before.
UserBalance(s, user) ==
  LET whole == BalanceWalk(s) = (LastGenesisId(s) + 1) .. s.lastSavedId
  IN IF ~BalanceReadable(s) THEN {}
     ELSE {Credits(s, user, BalanceWalk(s)) + IF whole THEN LastRows(s)[user] ELSE 0}

Abs(n) == IF n < 0 THEN -n ELSE n

\* getSupply and getFullSupply: the rows without their signs, and what the
\* balance table has above zero.
Supply(s) == SumFunction([a \in Accounts |-> Abs(LastRows(s)[a])])
FullSupply(s, e) == Supply(s) + SumFunctionOnSet(e, {a \in Accounts : e[a] > 0})

\* calculateCirculativeBalance goes down, past every identifier without a
\* block, until it meets a genesis block.  Its calls are commented out.
CirculativeEnds(s) ==
  \E i \in Ids(s) : /\ i <= s.lastSavedId
                    /\ \/ s.files[i].type = "genesis"
                       \/ s.files[i].type # "torn" /\ ~CanExtract(s.files[i])
CirculativeBalance(s) ==
  LET walk == {i \in Ids(s) : LastGenesisId(s) < i /\ i <= s.lastSavedId}
      rewards(i) == {k \in DOMAIN TxsOf(s, i) : Kind[TxsOf(s, i)[k]] = "reward"}
  IN IF \E i \in walk : ~Readable(s, i) THEN {}
     ELSE {SumFunction([i \in walk |->
             SumFunction([k \in rewards(i) |-> Amount[TxsOf(s, i)[k]]])])}

-----------------------------------------------------------------------------
(* Properties *)

\* No search passes over a block the node has stored, whatever order blocks
\* came in and whatever was removed or restarted in between: a readable block
\* is found by its hash (unless that begins with a zero) and by its
\* identifier and position; and as long as records counts the blocks, a transaction in a
\* block is found by its hash, its sender, its receiver or in a row of its
\* sender's, and is recognised by VerifyTx in the last block, or the search
\* ends the process.
BlocksFound ==
  \A i \in Ids(store) : store.files[i].type # "torn" =>
    /\ GetBlock(store, "id", i) = i
    /\ BlockByPosition(store, i - store.firstSavedId) = i
    /\ \/ i \in PaddedIndexes
       \/ LET j == GetBlock(store, "hash", store.files[i].hash)
          IN j # NoId /\ store.files[j].hash = store.files[i].hash
TxFound(tx) ==
  /\ GetTransaction(store, TRUE, "hash", tx) # NoTx
  /\ Sender[tx] \notin Padded => GetTransaction(store, TRUE, "sender", Sender[tx]) # NoTx
  /\ Receiver[tx] \notin Padded => GetTransaction(store, TRUE, "either", Receiver[tx]) # NoTx
  /\ TxsInRow(store, Sender[tx], NoId, 0) # {}

\* The walks down the chain come to an end; and what a node states as a balance
\* is within the supply it states, and nothing: transfers leave at least two
\* rows, which no genesis block keeps, and a data block above it ends the
\* process.
CoinsStated ==
  /\ CirculativeEnds(store)
  /\ CirculativeBalance(store) \subseteq {0}
  /\ \A a \in Accounts : UserBalance(store, a) \subseteq {0} \cap (0 .. FullSupply(store, ec))

\* Out of file mode the same blocks would give the same answers, except that a
\* block can have several readable signatures, that no transaction is found,
\* and that removing a block leaves those above it; checkIntegrity would be
\* right about the files, as long as records counts them and there is no hole.
Same(b, id) == IF id = NoId THEN b = NoBlock ELSE b = store.files[id]
ModesAgree ==
  LET mem == InMemory(store)
      last == LastBlockId(store)
  IN /\ FoldLeft(MemAdd, <<>>, mem) = SubSeq(mem, 1, Min({Len(mem), MemIndexSizeLimit}))
     /\ Same(MemLastBlock(mem), last)
     /\ \A i \in Visible(store) \ PaddedIndexes :
          Same(MemByHash(mem, store.files[i].hash), GetBlock(store, "hash", store.files[i].hash))
     /\ \A a \in {Me, Peer} :
          (\A i \in Visible(store) : Cardinality(store.files[i].signers) = 1) =>
            Same(MemByApprover(mem, a), BlockByApprover(store, a))
     /\ \A param \in TxParams : GetTransaction(store, FALSE, param, Me) = NoTx
     /\ last = store.lastSavedId /\ last > store.firstSavedId =>
          MemRemove(mem, last) = InMemory(RemoveById(store, last))
     /\ Counted(store) /\ Visible(store) = store.firstSavedId .. store.lastSavedId =>
          CheckIntegrity(store, FALSE) = FirstUnlinked(mem)

SearchFinds ==
  running =>
    /\ BlocksFound
    /\ Counted(store) => \A tx \in Txs : InBlock(store, tx) => TxFound(tx)
    /\ \A tx \in Range(TxsOf(store, LastBlockId(store))) : VerifyTx(store, tx) # "verified"
    /\ CoinsStated
    /\ ModesAgree
=============================================================================
