---------------------------- MODULE MCActorIndex ----------------------------
(* Two nodes with a main actor each; the first one is new and may add a      *)
(* wallet.                                                                   *)
EXTENDS ActorIndex

CONSTANTS n1, n2, a1, a2, w

MCOwner == (a1 :> n1) @@ (a2 :> n2) @@ (w :> n1)
MCMain == (n1 :> a1) @@ (n2 :> a2)

\* Either processes are killed, the second time before there is a connection;
\* or a connection is lost; or there is a wallet.
MCNext ==
  /\ Next
  /\ kills' + 2 * drops' + 2 * Cardinality({w} \cap own'[n1]) <= 2
  /\ kills' = 2 => kills = 2 \/ link = {}
MCInit == Init /\ logged = {n2}
MCSpec == MCInit /\ [][MCNext]_vars /\ Fairness
=============================================================================
