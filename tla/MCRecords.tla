----------------------------- MODULE MCRecords -----------------------------
(* Texts that give the same characters in a row: amount 5 with date 16 and     *)
(* amount 51 with date 6; data "" with token 0 and block 11, and data "0" with *)
(* token 1 and block 1; block 1 with gas 11, and block 11 with gas 1.          *)
EXTENDS Blocks, Readings

Body(p, m, d, v, k) == [parties |-> p, amount |-> m, date |-> d, data |-> v, token |-> k]
MCBodies ==
  {Body("x to y", <<5>>, <<1, 6>>, <<>>, <<0>>), Body("x to y", <<5, 1>>, <<6>>, <<>>, <<0>>),
   Body("x to y", <<5>>, <<1, 6>>, <<0>>, <<1>>), Body("x to z", <<5>>, <<1, 6>>, <<>>, <<0>>)}
MCPrevBlocks == {<<1>>, <<1, 1>>}
MCGases == {<<1>>, <<1, 1>>}

\* Bound: a transaction, a block, a table or the balances move in a behaviour.
MCInit == RecordsInit /\ TablesInit /\ AmountsInit
StillTx == tx = Made(tx.body)
StillBlock == block = NewBlock("data", <<>>, FirstPrev)
StillTable == table = NoTable /\ ~ isOpen /\ ~ dbEnd
MCNext ==
  \/ StillTable /\ saves = 0 /\ RecordsNext /\ UNCHANGED <<dbVars, amountVars>>
  \/ StillTx /\ StillBlock /\ saves = 0 /\ TablesNext /\ UNCHANGED <<recordVars, amountVars>>
  \/ StillTx /\ StillBlock /\ StillTable /\ AmountsNext /\ UNCHANGED <<recordVars, dbVars>>
MCSpec == MCInit /\ [][MCNext]_<<recordVars, dbVars, amountVars>>
=============================================================================
