------------------------------- MODULE Blocks -------------------------------
(***************************************************************************)
(* A Block or GenesisBlock in the hands of a node (block.cpp,              *)
(* genesis_block.cpp): its data as the text of a list, its hash, its       *)
(* signatures, and what is left of it after it was stored as the rows of a *)
(* database file and read again (BlockIndex::add and getById).             *)
(*                                                                         *)
(* Only predecessors differ in index here: FirstPrev is that of block 0.   *)
(* A node signs with its own key, so a signature is its actor and the hash *)
(* it was made of.                                                         *)
(***************************************************************************)
EXTENDS Records

CONSTANTS
  Contents,           \* what is put into the data of a block: transactions, rows
  Prevs, FirstPrev,   \* values of prevHash
  MaxElements,        \* bound: elements put into the data of a block
  MaxSigs             \* bound: signatures on a block

Types == {"data", "dummy", "genesis", "dataMerge"}
COUNT_APPROVER_BLOCK == 1
COUNT_CHECKER_BLOCK == 2

VARIABLES
  block,     \* the block in hand
  packed,    \* history: the list its data was built from
  added,     \* history: the elements added since, in order
  firstSig,  \* history: who made the first signature it still has, and of what
  lastSig    \* history: who called sign last, and what was in the block then
blockVars == <<block, packed, added, firstSig, lastSig>>
recordVars == <<txVars, blockVars>>

-----------------------------------------------------------------------------
(* Data *)

\* convertTxs, the data of the block makeBlock builds.
Packed(list) == Serialize(list)

\* addData and addRow, one element at a time.
AddData(text, element) == Joined(text, Serialize(<<element>>))

\* extractTransactions: the decoder of a transaction stops where the first one
\* ends; empty elements are skipped.
ExtractTransactions(text) ==
  LET all == Deserialize(text)
      list[n \in 0 .. Len(all)] ==
        IF n = 0 THEN <<>>
        ELSE IF all[n] = <<>> THEN list[n - 1] ELSE Append(list[n - 1], Head(all[n]))
  IN list[Len(all)]

\* extractDataRows: an element that is not exactly one row gives a row of
\* nobody.
NoRow == "no row"
ExtractDataRows(text) ==
  LET all == Deserialize(text)
  IN [i \in DOMAIN all |-> IF Len(all[i]) = 1 THEN all[i][1] ELSE NoRow]

-----------------------------------------------------------------------------
(* Hash and signatures *)

\* Block(data, prev).
NewBlock(type, data, prev) ==
  [type |-> type, data |-> data, prev |-> prev, hash |-> "", sigs |-> <<>>]

\* getDataForHash: the index, and the transactions of a data block.
HashOf(b) ==
  <<b.prev = FirstPrev, IF b.type = "data" THEN ExtractTransactions(b.data) ELSE <<>> >>

\* sign calculates the hash first; signCheckAdd has the main actor sign the
\* hash the block has, as a checker.
SignedBlock(b, actor) ==
  LET hashed == [b EXCEPT !.hash = HashOf(b)]
  IN [hashed EXCEPT !.sigs = Append(@, [actor |-> actor, of |-> hashed.hash, isApprove |-> TRUE])]
Countersigned(b, actor) ==
  [b EXCEPT !.sigs = Append(@, [actor |-> actor, of |-> b.hash, isApprove |-> FALSE])]

\* verify and getDigSig: the first signature.
VerifyBlock(b, actor) ==
  b.sigs # <<>> /\ Head(b.sigs).actor = actor /\ Head(b.sigs).of = b.hash

\* getApprover: the last signature that approves.
GetApprover(b) ==
  LET i == SelectLastInSeq(b.sigs, LAMBDA s : s.isApprove)
  IN IF i = 0 THEN NoOne ELSE b.sigs[i].actor

\* validateBlock, with every actor at hand.
ValidateBlock(b) == GetApprover(b) # NoOne /\ VerifyBlock(b, GetApprover(b))

-----------------------------------------------------------------------------
(* Storage *)

\* The table of signatures keeps the first of an actor.  getById and initFields:
\* the signatures are joined without a separator, and an element that is not
\* exactly one signature is skipped.
ReadSigs(sigs) ==
  IF sigs # <<>> /\ \A i \in DOMAIN sigs : sigs[i].actor = Head(sigs).actor
  THEN <<Head(sigs)>> ELSE <<>>

\* The data column is empty; rows of a genesis block have a table of their own.
\* (A data block with transactions cannot be read again.)
ReadData(b) ==
  LET readRows == ExtractDataRows(b.data)
      text[n \in 0 .. Len(readRows)] ==
        IF n = 0 THEN <<>> ELSE AddData(text[n - 1], readRows[n])
  IN IF b.type = "genesis" THEN text[Len(readRows)] ELSE <<>>

ReadBack(b) == [b EXCEPT !.sigs = ReadSigs(@), !.data = ReadData(b)]

-----------------------------------------------------------------------------
(* Behaviour: the calls a node makes on a block *)

BlockInit ==
  /\ \E prev \in Prevs, list \in {<<>>} \cup [1 .. 2 -> Contents] :
       \/ block = NewBlock("data", Packed(list), prev) /\ packed = list
       \/ block = NewBlock("genesis", <<>>, prev) /\ packed = <<>>
  /\ added = <<>>
  /\ firstSig = [actor |-> NoOne]
  /\ lastSig = [actor |-> NoOne]

\* What a reader finds in the data of a block built from one list and added to.
Readable == IF packed # <<>> \/ added = <<>> THEN packed ELSE <<Head(added)>>

Put(element) ==
  /\ Len(added) < MaxElements
  /\ added' = Append(added, element)
  /\ block' = [block EXCEPT !.data = AddData(@, element)]
  /\ UNCHANGED <<packed, firstSig, lastSig>>

\* setType and setPrevHash, of a dummy block and of the blocks after a merge;
\* the index stays.
SetInBlock ==
  /\ \/ \E type \in {"dummy", "dataMerge"} : block' = [block EXCEPT !.type = type]
     \/ \E prev \in Prevs \ {FirstPrev} :
          block.prev # FirstPrev /\ block' = [block EXCEPT !.prev = prev]
  /\ UNCHANGED <<packed, added, firstSig, lastSig>>

SignBlock(actor) ==
  /\ Len(block.sigs) < MaxSigs
  /\ block' = SignedBlock(block, actor)
  /\ lastSig' = [actor |-> actor, txs |-> IF block.type = "data" THEN Readable ELSE <<>>]
  /\ firstSig' = IF block.sigs = <<>> THEN lastSig' ELSE firstSig
  /\ UNCHANGED <<packed, added>>

SignCheckAdd(actor) ==
  /\ block.prev # FirstPrev
  /\ Len(block.sigs) >= COUNT_APPROVER_BLOCK
  /\ IF block.type = "genesis" THEN Len(block.sigs) < COUNT_CHECKER_BLOCK
     ELSE Len(block.sigs) <= COUNT_CHECKER_BLOCK + COUNT_APPROVER_BLOCK
  /\ \A i \in DOMAIN block.sigs : block.sigs[i].actor # actor
  /\ block' = Countersigned(block, actor)
  /\ UNCHANGED <<packed, added, firstSig, lastSig>>

StoreAndRead ==
  /\ block.type = "data" => ExtractTransactions(block.data) = <<>>
  /\ block' = ReadBack(block)
  /\ packed' = IF block.type = "genesis" THEN packed ELSE <<>>
  /\ added' = IF block.type # "genesis" THEN <<>> ELSE ExtractDataRows(block.data)
  /\ LET kept == ReadSigs(block.sigs) # <<>>
     IN /\ firstSig' = IF kept THEN firstSig ELSE [actor |-> NoOne]
        /\ lastSig' = IF kept THEN lastSig ELSE [actor |-> NoOne]

BlockNext ==
  \/ \E e \in Contents : Put(e)
  \/ SetInBlock
  \/ \E a \in Actors : SignBlock(a) \/ SignCheckAdd(a)
  \/ StoreAndRead

-----------------------------------------------------------------------------
(* A node has a transaction and a block in hand; neither touches the other.  *)
(* Bound: only one of them moves in a behaviour.                             *)

RecordsInit == TxInit /\ BlockInit
RecordsNext ==
  \/ block = NewBlock("data", <<>>, FirstPrev) /\ TxNext /\ UNCHANGED blockVars
  \/ tx = Made(tx.body) /\ BlockNext /\ UNCHANGED txVars
RecordsSpec == RecordsInit /\ [][RecordsNext]_recordVars

-----------------------------------------------------------------------------
(* Properties *)

\* A block is valid for every node exactly if the actor who signed it first is
\* also the last to have approved it, and found the same transactions in it
\* both times: nothing that happens between two calls of sign is noticed (data
\* or rows added, another type or predecessor, checkers), a second approver or
\* a new hash makes the block invalid for good, and a block read from its file
\* is valid only if one actor made all its signatures.
BlockExact ==
  ValidateBlock(block) <=>
    /\ firstSig.actor # NoOne
    /\ firstSig.actor = lastSig.actor
    /\ firstSig.txs = lastSig.txs

\* What a reader gets back from block data.  makeBlock's list comes back as it
\* was; of transactions added one by one only the first comes back, and none
\* that is added to a list; of rows one is kept and several become a row of
\* nobody: nothing is doubled, reordered or made up.
DataRead ==
  /\ ExtractTransactions(block.data) = Readable
  /\ packed = <<>> =>
       ExtractDataRows(block.data) = IF Len(added) = 1 THEN added ELSE <<NoRow>>

\* Of block and transaction: every signature covers just what it should, and
\* what was put into a block is read as said.
RecordsExact == SignatureExact /\ BlockExact /\ DataRead
=============================================================================
