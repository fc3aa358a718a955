------------------------------- MODULE Merkle -------------------------------
(* The hash of a list of pieces (rootMerkleHash of exc_utils.cpp).           *)
EXTENDS Powers, Sequences

CONSTANT MaxPieces    \* bound: length of a list to be hashed

ASSUME MerkleAssumption == MaxPieces \in Nat

\* splitListIntoPair and merkleFormula: pairs from the left; the last element
\* of an odd list, of a list of one too, is paired with the string after the
\* end of the vector, whatever lies there.
Paired(list, past) ==
  [k \in 1 .. (Len(list) + 1) \div 2 |->
     <<list[2 * k - 1], IF 2 * k <= Len(list) THEN list[2 * k] ELSE past>>]

\* The list after so many rounds; the first round of one element is the last.
Rounds(list, past) ==
  LET level[k \in 0 .. Len(list)] == IF k = 0 THEN list ELSE Paired(level[k - 1], past)
  IN level
RootMerkleHash(list, past) ==
  LET level == Rounds(list, past)
      last == CHOOSE k \in 1 .. Len(list) :
                Len(level[k]) = 1 /\ \A j \in 1 .. k - 1 : Len(level[j]) # 1
  IN level[last][1]

\* The hash of a list depends on nothing but the list exactly if the list has
\* two, four, eight ... elements.  calcHashForFile passes a list of one.
RootRead ==
  \A n \in 1 .. MaxPieces :
    LET list == [i \in 1 .. n |-> i]
    IN RootMerkleHash(list, "one") = RootMerkleHash(list, "other")
         <=> \E k \in 1 .. n : n = Power(2, k)
=============================================================================
