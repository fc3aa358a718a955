------------------------------ MODULE Mailbox ------------------------------
(***************************************************************************)
(* What a node promises to those who call send_message: messages go out in *)
(* the order they were given in, each of them once, at the latest when     *)
(* there is somebody to send to.  Only a crash may lose some.              *)
(***************************************************************************)
EXTENDS Naturals, Sequences

VARIABLES
  given,    \* messages given so far: they are 1 .. given
  waiting,  \* those not sent yet
  sent      \* those sent

vars == <<given, waiting, sent>>

Init == given = 0 /\ waiting = <<>> /\ sent = <<>>

GiveOnline ==
  /\ waiting = <<>>
  /\ given' = given + 1
  /\ sent' = Append(sent, given')
  /\ UNCHANGED waiting

GiveOffline ==
  /\ given' = given + 1
  /\ waiting' = Append(waiting, given')
  /\ UNCHANGED sent

SendWaiting ==
  /\ sent' = sent \o waiting
  /\ waiting' = <<>>
  /\ UNCHANGED given

\* Some of the waiting messages were being sent; of the others the later ones
\* are lost, and perhaps one that was being given.
Crash ==
  /\ given' \in {given, given + 1}
  /\ \E n \in 0 .. Len(waiting) :
       \/ sent' = sent \o SubSeq(waiting, 1, n) /\ waiting' = <<>>
       \/ sent' = sent /\ waiting' = SubSeq(waiting, 1, n)

Next == GiveOnline \/ GiveOffline \/ SendWaiting \/ Crash

Spec == Init /\ [][Next]_vars
=============================================================================
