------------------------------ MODULE MemIndex ------------------------------
(***************************************************************************)
(* The memory index (memindex.cpp), the other half of every method of      *)
(* Blockchain that begins with "fileMode ?": a list of blocks, and the     *)
(* calls on it as operators.  A block is a record as in module Blockchain. *)
(* The program is never out of file mode and never puts a block into it;   *)
(* module Search compares its answers with those of the files.  The search *)
(* by index is left out: contains and operator[] call each other without   *)
(* end.                                                                    *)
(***************************************************************************)
EXTENDS Integers, Sequences, SequencesExt

CONSTANT MemIndexSizeLimit    \* MEM_INDEX_SIZE_LIMIT

ASSUME MemIndexAssumption == MemIndexSizeLimit \in Nat

\* Block(), as the answer that there is none.
NoBlock == [type |-> "none"]

\* operator== of two blocks: index, predecessor and transactions.
TxsIn(b) == IF b.type = "data" THEN b.txs ELSE <<>>
SameBlock(b, c) ==
  b.hash.id = c.hash.id /\ b.prev = c.prev /\ TxsIn(b) = TxsIn(c)

\* The values of f at the numbers in S, in their order.
Listed(f, S) ==
  [k \in 1 .. Cardinality(S) |->
     f[CHOOSE i \in S : Cardinality({j \in S : j <= i}) = k]]

\* addBlock: another block with the same index is not refused.
MemAdd(blocks, b) ==
  IF \E i \in DOMAIN blocks : SameBlock(blocks[i], b) THEN blocks
  ELSE IF MemIndexSizeLimit <= Len(blocks) THEN blocks
  ELSE Append(blocks, b)

\* removeById, of an index that is there (otherwise it erases the end):
\* remove_if moves the others to the front, and one element is erased.
MemRemove(blocks, id) ==
  LET others == Listed(blocks, {i \in DOMAIN blocks : blocks[i].hash.id # id})
  IN others \o SubSeq(blocks, Len(others) + 2, Len(blocks))

MemLastBlock(blocks) == IF blocks = <<>> THEN NoBlock ELSE Last(blocks)

\* getBlockByParam: from the last one to the first.
MemByParam(blocks, matching) ==
  IF matching = {} THEN NoBlock ELSE blocks[Max(matching)]
MemByHash(blocks, hash) ==
  MemByParam(blocks, {i \in DOMAIN blocks : blocks[i].hash = hash})
MemByApprover(blocks, actor) ==
  MemByParam(blocks, {i \in DOMAIN blocks : actor \in blocks[i].signers})

\* getLastTxByParam, whatever is searched for.
MemLastTx(blocks, param, value) == [tx |-> "none", at |-> -1]

\* checkIntegrity, on the blocks it looks at: the first that names another
\* predecessor than the one before it.
FirstUnlinked(blocks) ==
  LET wrong == {i \in 2 .. Len(blocks) : blocks[i].prev # blocks[i - 1].hash}
  IN IF wrong = {} THEN NoBlock
     ELSE blocks[CHOOSE i \in wrong : \A j \in wrong : i <= j]
=============================================================================
