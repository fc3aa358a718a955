------------------------------ MODULE Records ------------------------------
(***************************************************************************)
(* What nodes exchange: a Transaction in the hands of a node               *)
(* (transaction.cpp), lists of encoded elements (namespace Serialization   *)
(* of exc_utils.cpp).                                                      *)
(*                                                                         *)
(* body holds the fields that only plain setters touch: the parties        *)
(* (sender and receiver), amount, date, data and token.  The hash is taken *)
(* of one text without separators.  Sender and receiver in front of it and *)
(* approver and producer behind it have twenty characters each; the texts  *)
(* of amount, date, data, token, prevBlock and gas between them run        *)
(* together, so these are sequences of (the codes of) characters.  A hash  *)
(* is the value hashed, a signature the pair of signer and value signed.   *)
(***************************************************************************)
EXTENDS Integers, Sequences, SequencesExt

CONSTANTS
  Actors,
  Producers,          \* actors that produce a fee transaction
  Bodies,             \* values of the plain fields, see above
  PrevBlocks, Gases,  \* texts of prevBlock and of gas
  MaxHop              \* bound: hop

NoOne == "0"          \* ActorId(), twenty zeros

\* No key belongs to NoOne, so nobody signs as it.
ASSUME RecordsAssumption ==
  /\ NoOne \notin Actors
  /\ \A b \in Bodies : {b.amount, b.date, b.data, b.token} \subseteq Seq(Nat)
  /\ PrevBlocks \cup Gases \subseteq Seq(Nat)

NoSig == << >>

VARIABLES
  tx,        \* the transaction in hand
  signedTx   \* history: who signed last, and the fields tx had then
txVars == <<tx, signedTx>>

-----------------------------------------------------------------------------
(* Transactions *)

\* The texts between the parties and the approver, and what is hashed of them.
TextsOf(t) == <<t.body.amount, t.body.date, t.body.data, t.body.token, t.prevBlock, t.gas>>
InARow(t) ==
  t.body.amount \o t.body.date \o t.body.data \o t.body.token \o t.prevBlock \o t.gas

\* Mutant: hop is hashed as well.
HashedWithHop(t) ==
  [parties |-> t.body.parties, text |-> Append(InARow(t), t.hop),
   approver |-> t.approver, producer |-> t.producer]

\* getDataForHash: neither hop nor typeTx, and no separators.
Hashed(t) ==
  [parties |-> t.body.parties, text |-> InARow(t),
   approver |-> t.approver, producer |-> t.producer]

CalcHash(t) == [t EXCEPT !.hash = Hashed(t)]

\* The constructors.
Made(body) ==
  CalcHash([body |-> body, prevBlock |-> <<0>>, gas |-> <<0>>, hop |-> 0,
            approver |-> NoOne, producer |-> NoOne, typeTx |-> "Transaction",
            hash |-> "", digSig |-> NoSig])

\* getDataForDigSig: what is hashed, and the hash.
DigSigData(t) == <<Hashed(t), t.hash>>

\* sign names the approver before it hashes.
Signed(t, actor) ==
  LET named == CalcHash([t EXCEPT !.approver = actor])
  IN [named EXCEPT !.digSig = <<actor, DigSigData(named)>>]

Verify(t, actor) == t.digSig = <<actor, DigSigData(t)>>

\* The copy constructor, and Transaction(serialized): every field is taken
\* over and the hash is calculated again.
CopyOf(t) == CalcHash(t)

\* operator== leaves out hash, approver, producer, digSig and typeTx.
SameTx(t, u) ==
  t.body = u.body /\ t.prevBlock = u.prevBlock /\ t.gas = u.gas /\ t.hop = u.hop

-----------------------------------------------------------------------------
(* Lists of elements *)

\* An element is a sequence of parts: one, unless encodings ran together.
\* serialize puts "|" between elements; split gives one empty element for an
\* empty text.
Serialize(list) == [i \in DOMAIN list |-> <<list[i]>>]
Deserialize(text) == IF text = <<>> THEN << <<>> >> ELSE text

\* text += more: the last element of the one and the first of the other become
\* one; base64 decodes it to both contents in a row.
Joined(text, more) ==
  IF text = <<>> \/ more = <<>> THEN text \o more
  ELSE Front(text) \o <<Last(text) \o Head(more)>> \o Tail(more)

-----------------------------------------------------------------------------
(* Behaviour: the calls a node makes on a transaction *)

TxInit ==
  /\ \E b \in Bodies : tx = Made(b)
  /\ signedTx = [actor |-> NoOne]

\* The plain setters, one or several; setPrevBlock, setGas and setHop calculate
\* the hash.
SetField ==
  /\ \/ \E b \in Bodies : tx' = [tx EXCEPT !.body = b]
     \/ \E p \in PrevBlocks : tx' = CalcHash([tx EXCEPT !.prevBlock = p])
     \/ \E g \in Gases : tx' = CalcHash([tx EXCEPT !.gas = g])
     \/ \E h \in 0 .. MaxHop : tx' = CalcHash([tx EXCEPT !.hop = h])
     \/ tx.hop > 0 /\ tx' = CalcHash([tx EXCEPT !.hop = @ - 1])
     \/ \E a \in Actors : tx' = [tx EXCEPT !.approver = a]
     \/ \E a \in Producers : tx' = [tx EXCEPT !.producer = a]
     \/ tx' = [tx EXCEPT !.typeTx = "RewardTransaction"]
  /\ UNCHANGED signedTx

Sign(actor) ==
  /\ tx' = Signed(tx, actor)
  /\ signedTx' = [actor |-> actor, body |-> tx.body, producer |-> tx.producer,
                   prevBlock |-> tx.prevBlock, gas |-> tx.gas]

\* By value into a list, or as a message to another node.
HandOver ==
  /\ tx' = CopyOf(tx)
  /\ UNCHANGED signedTx

TxNext ==
  \/ SetField
  \/ \E a \in Actors : Sign(a)
  \/ HandOver

-----------------------------------------------------------------------------
(* Properties *)

\* Exactly one of the texts that run together was changed since signing.
OneTextChanged ==
  \E i \in DOMAIN TextsOf(tx) :
    /\ TextsOf(tx)[i] # TextsOf(signedTx)[i]
    /\ \A j \in DOMAIN TextsOf(tx) \ {i} : TextsOf(tx)[j] = TextsOf(signedTx)[j]

\* Whatever setters were called since, and however often the transaction was
\* handed over: a copy verifies with an actor's key exactly if that actor was
\* the last to sign it and is its approver, the parties and the producer are as
\* they were then, and amount, date, data, token, prevBlock and gas give the
\* same text in a row.  So a change of one of the six alone is always noticed,
\* but characters may move from one to another unnoticed (amount 51 with date 6
\* verifies for amount 5 with date 16); hop and typeTx may always differ.
\* Handing over never breaks a signature, and repairs that of a transaction
\* whose fields were changed and changed back.
SignatureExact ==
  \A a \in Actors :
    /\ Verify(CopyOf(tx), a) <=>
         /\ signedTx.actor = a /\ tx.approver = a
         /\ tx.body.parties = signedTx.body.parties /\ tx.producer = signedTx.producer
         /\ InARow(tx) = InARow(signedTx)
    /\ Verify(CopyOf(tx), a) => ~ OneTextChanged
    /\ Verify(tx, a) => Verify(CopyOf(tx), a)
=============================================================================
