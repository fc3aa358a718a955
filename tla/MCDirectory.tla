---------------------------- MODULE MCDirectory ----------------------------
(* Two nodes of which one may hear of the actor at any time, and two files of *)
(* different sizes; or three nodes that know the actor, and one file whose    *)
(* hash is always right.                                                      *)
EXTENDS Directory

CONSTANTS f1, f2, n2, n3

MCSize == (f1 :> 1) @@ (f2 :> 2)
MCOneSize == f1 :> 1

Three == n3 \in known

MCInit ==
  /\ Init
  /\ n2 \in Up
  /\ limit[n3] = Max(LimitChoices)
  /\ n3 \in Up => known = Nodes /\ limit[Home] = Max(LimitChoices)
MCNext == Next /\ (Three => added' # Files /\ wrongs' = 0 /\ removals' + kills' <= 1)
MCSpec == MCInit /\ [][MCNext]_vars /\ Fairness
=============================================================================
