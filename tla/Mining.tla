------------------------------- MODULE Mining -------------------------------
(***************************************************************************)
(* The reward for storing files (data_mining_manager.cpp).  Numbers are    *)
(* fractions of naturals; their rounding to 50 binary digits is left out.  *)
(***************************************************************************)
EXTENDS Powers

CONSTANTS
  CoinProductionRate,
  MaxStored           \* bound: bytes, coins and blocks in a calculation

ASSUME MiningAssumption ==
  /\ CoinProductionRate \in Nat \ {0}
  /\ MaxStored \in Nat /\ MaxStored >= 4

\* calculateCoins: the coefficient, a fraction, doubles until the result is at
\* least one; without end if it is not positive.
CalculateCoins(stored, total, supply, blocks, coef) ==
  LET num == stored * supply * coef[1]
      den == total * blocks * coef[2]
      Enough(k) == num * Power(2, k) >= den
      doublings == CHOOSE k \in 0 .. den : Enough(k) /\ (k = 0 \/ ~ Enough(k - 1))
  IN IF 0 \in {stored, total, supply, blocks} THEN <<0, 1>>
     ELSE <<num * Power(2, doublings), den>>

\* getCirculativeSuply: nothing increases it.
CirculativeSupply == 0

\* makeRewardTx, in answer to the state message of requester.
MakeRewardTx(firstId, requester, state, total, records) ==
  [sender |-> firstId, receiver |-> requester, typeTx |-> "RewardTransaction",
   amount |-> CalculateCoins(state.stored, total, CirculativeSupply, records, state.coef),
   data |-> state]

\* coinRewardRequest, called with the index of every block that is stored: the
\* rate divides it.
RewardRequested(index) == \E k \in 0 .. index : index = k * CoinProductionRate

\* A reward is nothing or at least one coin, and it is less than two if the
\* share alone does not come to one: between a share and its double the reward
\* goes up to two and starts again at one, so that whoever stores more may get
\* less.  As the program runs, every reward is nothing, block 0 asks for one,
\* and so does one block in CoinProductionRate.
CoinsExact ==
  LET N == 1 .. MaxStored
      coef == <<1, 2>>
  IN /\ \A stored, total, supply, blocks \in N :
          LET c == CalculateCoins(stored, total, supply, blocks, coef)
              num == stored * supply
              den == 2 * total * blocks
          IN /\ c[1] >= c[2]
             /\ \E k \in 0 .. den :
                  /\ c[1] * den = c[2] * num * Power(2, k)
                  /\ k > 0 => c[1] < 2 * c[2]
     /\ \E a, b, total, blocks \in N :
          LET x == CalculateCoins(a, total, MaxStored, blocks, coef)
              y == CalculateCoins(b, total, MaxStored, blocks, coef)
          IN a < b /\ x[1] * y[2] > y[1] * x[2]
     /\ \A stored, total, records \in 0 .. MaxStored :
          MakeRewardTx("first", "node", [stored |-> stored, coef |-> coef], total, records).amount = <<0, 1>>
     /\ \A index \in 0 .. 2 * CoinProductionRate :
          RewardRequested(index) <=> index \in {0, CoinProductionRate, 2 * CoinProductionRate}
=============================================================================
