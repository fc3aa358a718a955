-------------------------- MODULE BlockchainLedger --------------------------
(***************************************************************************)
(* Blockchain implements Ledger: forget dummy blocks, read data and        *)
(* genesis blocks in the order of their identifiers.                       *)
(***************************************************************************)
EXTENDS Blockchain

\* No set of transactions, but comparable with one.
Checkpoint == {"genesis"}

Entry(b) == IF b.type = "genesis" THEN Checkpoint ELSE Range(b.txs)

RealIds == {i \in Ids(store) : store.files[i].type \in {"data", "genesis"}}

\* The identifier that has k real blocks up to and including it.
RealId(k) == CHOOSE i \in RealIds : Cardinality({j \in RealIds : j <= i}) = k

Log == [k \in 1 .. Cardinality(RealIds) |-> Entry(store.files[RealId(k)])]

L == INSTANCE Ledger
       WITH log <- Log, waiting <- Range(pendingTxs), up <- running

\* Data and genesis blocks are never replaced, reordered or dropped; the
\* pending transactions enter the chain together, once, or not at all; and
\* they do enter it if the process stays up.  (makeBlock, removeDummyBlocks,
\* addBlock, createGenesisBlock and the restart, together.)
RefinesLedger == L!Spec
=============================================================================
