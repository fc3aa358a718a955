------------------------------ MODULE Readings ------------------------------
(***************************************************************************)
(* What is read back of what a node keeps: rows of tables, balances, the   *)
(* hash of a list, and what is computed from the numbers that are read.    *)
(***************************************************************************)
EXTENDS Merkle, Mining, Tables, Amounts

\* A table holds what its users were told and a row is deleted by what was read
\* of it; balances are as exact as their texts; the hash of a list depends on
\* nothing else where it does; and the reward is what it should be.
ReadsExact == TablesExact /\ BalancesDrift /\ RootRead /\ CoinsExact
=============================================================================
