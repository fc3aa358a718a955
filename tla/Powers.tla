------------------------------- MODULE Powers -------------------------------
(* Powers of naturals, by the loop that multiplies.                        *)
EXTENDS Integers

Power(base, e) ==
  LET p[k \in 0 .. e] == IF k = 0 THEN 1 ELSE base * p[k - 1] IN p[e]
=============================================================================
