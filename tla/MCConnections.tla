--------------------------- MODULE MCConnections ---------------------------
(* a and b dial each other, b knows c and d.  a is in a network,         *)
(* c in another one, b in none; d runs another version.                     *)
EXTENDS Connections

CONSTANTS a, b, c, d, networkA, networkC

MCStartId == [n \in Nodes |-> CASE n = a -> networkA [] n = b -> NoId [] OTHER -> networkC]
MCVersion == [n \in Nodes |-> IF n = d THEN 2 ELSE 1]
MCDials == {<<a, b>>, <<b, a>>, <<b, c>>, <<b, d>>}
=============================================================================
