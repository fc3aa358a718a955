------------------------------- MODULE Ledger -------------------------------
(***************************************************************************)
(* What the chain of one node promises to whoever hands it transactions,   *)
(* with no block files, dummy blocks, counters or hashes in sight: a log   *)
(* that only grows, one entry per committed set of transactions and one    *)
(* per checkpoint, and a set of waiting transactions that is committed as  *)
(* a whole or lost with the process.                                       *)
(***************************************************************************)
EXTENDS Sequences

CONSTANTS
  Txs,          \* transactions
  Checkpoint    \* an entry that is no set of transactions

VARIABLES
  log,          \* committed entries, they survive the process
  waiting,      \* accepted, not committed, in memory
  up            \* is the process up?

vars == <<log, waiting, up>>

Init ==
  /\ log = <<Checkpoint>>
  /\ waiting = {}
  /\ up = TRUE

Accept(tx) ==
  /\ up
  /\ waiting' = waiting \cup {tx}
  /\ UNCHANGED <<log, up>>

\* Everything that waits becomes one entry.  Committing may be the last thing
\* the process does.
Commit ==
  /\ up
  /\ waiting # {}
  /\ log' = Append(log, waiting)
  /\ waiting' = {}
  /\ up' \in BOOLEAN

AddCheckpoint ==
  /\ up
  /\ waiting = {}
  /\ log' = Append(log, Checkpoint)
  /\ UNCHANGED <<waiting, up>>

Fail ==
  /\ up
  /\ up' = FALSE
  /\ waiting' = {}
  /\ UNCHANGED log

Recover ==
  /\ ~up
  /\ up' = TRUE
  /\ UNCHANGED <<log, waiting>>

Next ==
  \/ \E tx \in Txs : Accept(tx)
  \/ Commit
  \/ AddCheckpoint
  \/ Fail
  \/ Recover

Spec == Init /\ [][Next]_vars /\ WF_vars(Commit)
=============================================================================
