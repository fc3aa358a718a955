------------------------------ MODULE Amounts ------------------------------
(***************************************************************************)
(* What becomes of an amount that is written as text (BigNumberFloat,      *)
(* bignumber_float.cpp): an output stream gives it Digits significant      *)
(* digits, and transactions in messages and blocks as well as the balances *)
(* of cacheEC.db go through such texts.  Amounts are counted in any unit   *)
(* small enough to make them whole.                                        *)
(***************************************************************************)
EXTENDS Powers

CONSTANTS
  Holders,      \* actors
  Amounts,      \* the amounts of transactions
  Digits,       \* the precision of an output stream, 6
  MaxSaves      \* bound: transactions

ASSUME AmountsAssumption ==
  /\ Amounts \subseteq Nat \ {0} /\ Digits \in Nat \ {0} /\ MaxSaves \in Nat

VARIABLES
  balance,    \* balance[h]: the column State of the row of h, 0 if there is none
  exact,      \* history: the same in exact arithmetic
  slack,      \* history: slack[h]: what the roundings may come to, doubled
  saves
amountVars == <<balance, exact, slack, saves>>

AbsOf(n) == IF n < 0 THEN - n ELSE n

\* How many digits n has beyond those that are written, and the unit in which
\* it is written for that.
Surplus(n) ==
  CHOOSE e \in 0 .. AbsOf(n) :
    /\ AbsOf(n) < Power(10, e + Digits)
    /\ e = 0 \/ Power(10, e + Digits - 1) <= AbsOf(n)
Unit(n) == Power(10, Surplus(n))

\* Mutant: what is beyond the digits is cut off.
CutOff(n) == {Unit(n) * (n \div Unit(n))}

\* toStdString and the constructor: the nearest multiple of the unit, either
\* of two that are equally near.
Written(n) ==
  LET below == Unit(n) * (n \div Unit(n))
      either == {below, below + Unit(n)}
  IN {m \in either : \A other \in either : AbsOf(m - n) <= AbsOf(other - n)}
\* What rounding n may come to, doubled.
RoundedOff(n) == IF Unit(n) = 1 THEN 0 ELSE Unit(n)

AmountsInit ==
  /\ balance = [h \in Holders |-> 0]
  /\ exact = [h \in Holders |-> 0]
  /\ slack = [h \in Holders |-> 0]
  /\ saves = 0

\* saveTxInfoInEC, for a transaction that came in a message or a block.
SaveTx(sender, receiver, amount) ==
  /\ saves < MaxSaves
  /\ saves' = saves + 1
  /\ \E paid \in Written(amount) :
     \E less \in Written(balance[sender] - paid) :
     \E more \in Written(paid + IF receiver = sender THEN less ELSE balance[receiver]) :
       /\ balance' = [balance EXCEPT ![sender] = less, ![receiver] = more]
       /\ exact' = [h \in Holders |->
            exact[h] - (IF h = sender THEN amount ELSE 0) + (IF h = receiver THEN amount ELSE 0)]
       /\ slack' = [h \in Holders |-> slack[h]
            + (IF h = sender THEN RoundedOff(amount) + RoundedOff(less) ELSE 0)
            + (IF h = receiver THEN RoundedOff(amount) + RoundedOff(more) ELSE 0)]

AmountsNext ==
  \E sender, receiver \in Holders : \E amount \in Amounts : SaveTx(sender, receiver, amount)

AmountsSpec == AmountsInit /\ [][AmountsNext]_amountVars

-----------------------------------------------------------------------------
(* Property *)

\* Balances are exact as long as neither an amount nor a balance has more than
\* Digits digits.  Beyond that each saved balance is off by up to half a unit
\* of what is written, and of the amount; the errors add up, coins appear and
\* disappear, and a receiver gets nothing for an amount of less than half the
\* unit of his balance before and after, while the sender pays.
BalancesDrift ==
  /\ \A h \in Holders : 2 * AbsOf(balance[h] - exact[h]) <= slack[h]
  /\ \A h \in Holders : Written(balance[h]) = {balance[h]}
  /\ \A a \in Amounts, h \in Holders :
       Unit(balance[h]) > 2 * a /\ Unit(balance[h] + a) > 2 * a
         => Written(balance[h] + a) = {balance[h]}
=============================================================================
