-------------------------- MODULE ActorIndex_proofs --------------------------
(***************************************************************************)
(* A node can answer for every actor it lists, and has a folder for none   *)
(* it does not list, for any nodes and actors and any number of messages,  *)
(* logins, kills and lost connections.                                     *)
(*                                                                         *)
(* And what is read back of what a node keeps is right: of tables,         *)
(* whatever is put in, replaced, deleted and dropped; of balances, within  *)
(* the roundings of their texts; the hash of a list of any length; and the *)
(* reward for storage.                                                     *)
(***************************************************************************)
EXTENDS ActorIndex, Readings, FiniteSetTheorems, WellFoundedInduction, TLAPS

\* Messages are on the way on connections only.
OnLinks(on) ==
  /\ on \in [Nodes -> [Nodes -> Seq(Messages)]]
  /\ \A p, q \in Nodes : on[p][q] # <<>> => {p, q} \in link

OwnOK ==
  /\ own \in [Nodes -> SUBSET Actors]
  /\ \A n \in Nodes : \A a \in own[n] : Owner[a] = n

DiskOK ==
  /\ OwnOK
  /\ file \in [Nodes -> [Actors -> {"none", "empty", "full"}]]
  /\ row \in [Nodes -> SUBSET Actors]
  /\ folder \in [Nodes -> SUBSET Actors]
  /\ PartsInOrder

LinksOK ==
  /\ logged \subseteq Nodes
  /\ \A l \in link : l \subseteq logged /\ Cardinality(l) = 2

CacheOK == cache \in [Nodes -> Seq(Messages)]

\* The inductive invariant: what the disk, the connections and the messages
\* keep among themselves.
IInv == DiskOK /\ LinksOK /\ OnLinks(net) /\ CacheOK

\* No more actors are in parts than there were kills; the nodes need not be
\* finitely many.
BrokenOK == kills \in Nat /\ IsFiniteSet(Broken) /\ Cardinality(Broken) <= kills

-----------------------------------------------------------------------------
(* Messages *)

\* What is sent together is a sequence of messages.
LEMMA SetToSeqType ==
  ASSUME NEW msgs \in SUBSET Messages, IsFiniteSet(msgs)
  PROVE  SetToSeq(msgs) \in Seq(Messages)
<1> DEFINE Listings == {f \in [1..Cardinality(msgs) -> msgs] : IsInjective(f)}
<1>1. Cardinality(msgs) \in Nat /\ ExistsBijection(1..Cardinality(msgs), msgs)
  BY FS_CardinalityType
<1>2. \E f \in [1..Cardinality(msgs) -> msgs] : IsInjective(f)
  BY <1>1 DEF ExistsBijection, Bijection, Injection, IsInjective
<1>3. SetToSeq(msgs) \in [1..Cardinality(msgs) -> msgs]
  BY <1>2 DEF SetToSeq
<1>4. SetToSeq(msgs) \in [1..Cardinality(msgs) -> Messages]
  BY <1>3
<1> QED
  BY <1>1, <1>4

LEMMA AddType ==
  ASSUME NEW queue \in Seq(Messages), NEW msgs \in SUBSET Messages, IsFiniteSet(msgs)
  PROVE  Add(queue, msgs) \in Seq(Messages)
<1>1. IsFiniteSet(msgs \ ToSet(queue)) /\ msgs \ ToSet(queue) \in SUBSET Messages
  BY FS_Difference
<1> QED
  BY <1>1, SetToSeqType DEF Add

\* The requests for the actors of a list are finitely many messages.
LEMMA RequestsType ==
  ASSUME NEW actors \in SUBSET Actors
  PROVE  /\ {Request(a) : a \in actors} \in SUBSET Messages
         /\ IsFiniteSet({Request(a) : a \in actors})
<1> DEFINE requests == {Request(a) : a \in actors}
<1>1. IsFiniteSet(actors)
  BY ActorIndexAssumption, FS_Subset
<1>2. [a \in actors |-> Request(a)] \in Surjection(actors, requests)
  BY DEF Surjection
<1>3. IsFiniteSet(requests)
  BY <1>1, <1>2, FS_Surjection
<1> QED
  BY <1>3 DEF Messages

LEMMA OneMessage ==
  ASSUME NEW msg \in Messages
  PROVE  {msg} \in SUBSET Messages /\ IsFiniteSet({msg})
  BY FS_Singleton

LEMMA MessageTypes ==
  /\ \A n \in Nodes : AllRequest(n) \in Messages
  /\ \A actors \in SUBSET Actors : AllResponse(actors) \in Messages
  /\ \A a \in Actors : Request(a) \in Messages /\ NewActor(a) \in Messages
  BY DEF Messages

\* Sending to every connection, or into the cache.
LEMMA SendAllKeeps ==
  ASSUME NEW on, OnLinks(on), CacheOK, NEW n \in Nodes,
         NEW msgs \in SUBSET Messages, IsFiniteSet(msgs), SendAll(on, n, msgs)
  PROVE  OnLinks(net') /\ CacheOK'
<1>1. CASE n \notin logged \/ Peers(n) = {}
  <2>1. Add(cache[n], msgs) \in Seq(Messages)
    BY AddType DEF CacheOK
  <2> QED
    BY <1>1, <2>1 DEF SendAll, CacheOK
<1>2. CASE ~(n \notin logged \/ Peers(n) = {})
  <2> DEFINE sent == [q \in Nodes |-> IF q \in Peers(n) THEN Add(on[n][q], msgs) ELSE on[n][q]]
  <2>1. net' = [on EXCEPT ![n] = sent] /\ cache' = cache
    BY <1>2 DEF SendAll
  <2>2. \A q \in Nodes : on[n][q] \in Seq(Messages) /\ Add(on[n][q], msgs) \in Seq(Messages)
    BY AddType DEF OnLinks
  <2>3. sent \in [Nodes -> Seq(Messages)]
    BY <2>2
  <2>4. \A q \in Nodes : sent[q] # <<>> => {n, q} \in link
    BY DEF OnLinks, Peers
  <2> QED
    BY <2>1, <2>3, <2>4 DEF OnLinks, CacheOK
<1> QED
  BY <1>1, <1>2

-----------------------------------------------------------------------------
(* The disk *)

\* addActor on a node that has no file writes all three parts.
LEMMA WholeActor ==
  ASSUME DiskOK, NEW n \in Nodes, NEW a \in Actors,
         OwnOK',
         file' = [file EXCEPT ![n][a] = "full"],
         row' = [row EXCEPT ![n] = @ \cup {a}],
         folder' = [folder EXCEPT ![n] = @ \cup {a}]
  PROVE  DiskOK'
  BY DEF DiskOK, OwnOK, PartsInOrder, Readable

LEMMA AddActorKeeps ==
  ASSUME NEW on, OnLinks(on), CacheOK, DiskOK, OwnOK', NEW n \in Nodes, NEW a \in Actors,
         AddActor(on, n, a)
  PROVE  OnLinks(net') /\ CacheOK' /\ DiskOK'
<1>1. CASE IsNew(n, a)
  <2>1. OnLinks(net') /\ CacheOK'
    BY <1>1, SendAllKeeps, OneMessage, MessageTypes DEF AddActor
  <2>2. DiskOK'
    BY <1>1, WholeActor DEF AddActor
  <2> QED
    BY <2>1, <2>2
<1>2. CASE ~IsNew(n, a)
  BY <1>2 DEF AddActor, CacheOK, DiskOK, OwnOK, PartsInOrder, Readable
<1> QED
  BY <1>1, <1>2

\* A prefix of what addActor writes: an actor without a file has neither row
\* nor folder yet, and the row comes after the file, the folder after the row.
LEMMA PartActor ==
  ASSUME DiskOK, NEW n \in Nodes, NEW a \in Actors, IsNew(n, a), OwnOK',
         NEW parts \in Parts,
         file' = [file EXCEPT ![n][a] = IF "full" \in parts THEN "full"
                                             ELSE IF "empty" \in parts THEN "empty" ELSE @],
         row' = [row EXCEPT ![n] = IF "row" \in parts THEN @ \cup {a} ELSE @],
         folder' = [folder EXCEPT ![n] = IF "folder" \in parts THEN @ \cup {a} ELSE @]
  PROVE  DiskOK'
<1>1. a \notin row[n]
  BY DEF DiskOK, OwnOK, PartsInOrder, Readable, IsNew
<1>2. /\ "row" \in parts => "full" \in parts
      /\ "folder" \in parts => "row" \in parts
  BY DEF Parts
<1>3. /\ file' \in [Nodes -> [Actors -> {"none", "empty", "full"}]]
      /\ row' \in [Nodes -> SUBSET Actors]
      /\ folder' \in [Nodes -> SUBSET Actors]
  BY <1>2 DEF DiskOK
<1>4. \A m \in Nodes : folder'[m] \subseteq row'[m]
  BY <1>2 DEF DiskOK, PartsInOrder
<1>5. \A m \in Nodes : \A b \in row'[m] : file'[m][b] = "full"
  BY <1>1, <1>2 DEF DiskOK, OwnOK, PartsInOrder, Readable
<1> QED
  BY <1>3, <1>4, <1>5 DEF DiskOK, OwnOK, PartsInOrder, Readable

\* Losing a node's memory and connections.
LEMMA KilledKeeps ==
  ASSUME IInv, NEW n \in Nodes, Killed(n)
  PROVE  LinksOK' /\ OnLinks(net)' /\ CacheOK'
<1>1. LinksOK'
  BY DEF IInv, LinksOK, Killed
<1>2. CacheOK'
  BY DEF IInv, CacheOK, Killed
<1>3. <<>> \in Seq(Messages)
  OBVIOUS
<1>4. OnLinks(net)'
  BY <1>3 DEF IInv, OnLinks, Killed
<1> QED
  BY <1>1, <1>2, <1>4

LEMMA KilledInAddActorKeeps ==
  ASSUME IInv, NEW n \in Nodes, NEW a \in Actors, OwnOK', KilledInAddActor(n, a)
  PROVE  IInv'
<1>1. PICK parts \in Parts :
         /\ file' = [file EXCEPT ![n][a] = IF "full" \in parts THEN "full"
                                             ELSE IF "empty" \in parts THEN "empty" ELSE @]
         /\ row' = [row EXCEPT ![n] = IF "row" \in parts THEN @ \cup {a} ELSE @]
         /\ folder' = [folder EXCEPT ![n] = IF "folder" \in parts THEN @ \cup {a} ELSE @]
  BY Zenon DEF KilledInAddActor
<1>2. IsNew(n, a) /\ DiskOK
  BY DEF IInv, KilledInAddActor
<1>3. DiskOK'
  BY <1>1, <1>2, PartActor, Zenon
<1> QED
  BY <1>3, KilledKeeps DEF IInv, KilledInAddActor

-----------------------------------------------------------------------------
(* The actions *)

LEMMA InitInv == Init => IInv
<1> SUFFICES ASSUME Init
             PROVE  IInv
  OBVIOUS
<1>1. DiskOK
  BY ActorIndexAssumption DEF Init, DiskOK, OwnOK, PartsInOrder, Readable
<1>2. LinksOK /\ OnLinks(net)
  BY DEF Init, LinksOK, OnLinks
<1>3. CacheOK
  BY ActorIndexAssumption, MessageTypes DEF Init, CacheOK
<1> QED
  BY <1>1, <1>2, <1>3 DEF IInv

LEMMA CreateKeeps ==
  ASSUME IInv, NEW n \in Nodes, NEW a \in Actors, Create(n, a)
  PROVE  IInv'
<1>1. OwnOK'
  BY DEF Create, Fresh, IInv, DiskOK, OwnOK
<1>3. \/ /\ logged' = logged \cup {n}
         /\ file' = [file EXCEPT ![n][a] = "full"]
         /\ row' = [row EXCEPT ![n] = @ \cup {a}]
         /\ folder' = [folder EXCEPT ![n] = @ \cup {a}]
         /\ cache' = [cache EXCEPT ![n] = Append(@, NewActor(a))]
         /\ UNCHANGED <<link, net, counts>>
      \/ AddActor(net, n, a) /\ UNCHANGED <<logged, link, counts>>
      \/ KilledInAddActor(n, a)
  BY DEF Create
<1>4. CASE /\ logged' = logged \cup {n}
           /\ file' = [file EXCEPT ![n][a] = "full"]
           /\ row' = [row EXCEPT ![n] = @ \cup {a}]
           /\ folder' = [folder EXCEPT ![n] = @ \cup {a}]
           /\ cache' = [cache EXCEPT ![n] = Append(@, NewActor(a))]
           /\ UNCHANGED <<link, net, counts>>
  <2>1. DiskOK'
    BY <1>1, <1>4, WholeActor DEF IInv
  <2>2. LinksOK' /\ OnLinks(net)'
    BY <1>4 DEF IInv, LinksOK, OnLinks
  <2>3. CacheOK'
    BY <1>4, MessageTypes DEF IInv, CacheOK
  <2> QED
    BY <2>1, <2>2, <2>3 DEF IInv
<1>5. CASE AddActor(net, n, a) /\ UNCHANGED <<logged, link, counts>>
  <2>1. OnLinks(net') /\ CacheOK' /\ DiskOK'
    BY <1>1, <1>5, AddActorKeeps DEF IInv
  <2> QED
    BY <1>5, <2>1 DEF IInv, LinksOK, OnLinks
<1>6. CASE KilledInAddActor(n, a)
  BY <1>1, <1>6, KilledInAddActorKeeps
<1> QED
  BY <1>3, <1>4, <1>5, <1>6

LEMMA LoadKeeps ==
  ASSUME IInv, NEW n \in Nodes, Load(n)
  PROVE  IInv'
<1> DEFINE missing == {a \in own[n] : ~Readable(n, a) /\ IsNew(n, a)}
<1>1. missing \in SUBSET Actors
  BY DEF IInv, DiskOK, OwnOK
<1>2. /\ file' = [file EXCEPT ![n] = [a \in Actors |-> IF a \in missing THEN "full" ELSE @[a]]]
      /\ row' = [row EXCEPT ![n] = @ \cup missing]
      /\ folder' = [folder EXCEPT ![n] = @ \cup missing]
      /\ logged' = logged \cup {n}
      /\ UNCHANGED <<own, link, net, cache>>
  BY DEF Load
<1> HIDE DEF missing
<1>3. DiskOK'
  BY <1>1, <1>2 DEF IInv, DiskOK, OwnOK, PartsInOrder, Readable
<1>4. LinksOK' /\ OnLinks(net)' /\ CacheOK'
  BY <1>2 DEF IInv, LinksOK, OnLinks, CacheOK
<1> QED
  BY <1>3, <1>4 DEF IInv

LEMMA ConnectKeeps ==
  ASSUME IInv, NEW n \in Nodes, NEW q \in Nodes, Connect(n, q)
  PROVE  IInv'
<1>1. DiskOK'
  BY DEF Connect, disk, IInv, DiskOK, OwnOK, PartsInOrder, Readable
<1>2. LinksOK'
  <2>1. Cardinality({n, q}) = 2
    <3>1. n # q /\ IsFiniteSet({n}) /\ Cardinality({n}) = 1
      BY FS_Singleton DEF Connect
    <3>2. Cardinality({n} \cup {q}) = 2
      BY <3>1, FS_AddElement
    <3> QED
      BY <3>2
  <2> QED
    BY <2>1 DEF Connect, IInv, LinksOK
<1>3. CacheOK'
  <2>1. <<>> \in Seq(Messages)
    OBVIOUS
  <2> QED
    BY <2>1 DEF Connect, IInv, CacheOK
<1>4. ASSUME NEW p \in Nodes, NEW r \in Nodes
      PROVE  /\ cache[p] \in Seq(Messages)
             /\ Append(cache[p], AllRequest(p)) \in Seq(Messages)
             /\ Add(net[p][r], {AllRequest(p)}) \in Seq(Messages)
  <2>1. AllRequest(p) \in Messages /\ cache[p] \in Seq(Messages) /\ net[p][r] \in Seq(Messages)
    BY MessageTypes DEF IInv, CacheOK, OnLinks
  <2> QED
    BY <2>1, OneMessage, AddType
<1>5. OnLinks(net)'
  <2>1. net' \in [Nodes -> [Nodes -> Seq(Messages)]]
    BY <1>4 DEF Connect, IInv, OnLinks
  <2>2. ASSUME NEW p \in Nodes, NEW r \in Nodes, net'[p][r] # <<>>
        PROVE  {p, r} \in link'
    <3>1. link' = link \cup {{n, q}}
      BY DEF Connect
    <3>2. CASE {p, r} = {n, q} \/ r \in Peers(p)
      BY <3>1, <3>2 DEF Peers
    <3>3. CASE {p, r} # {n, q} /\ r \notin Peers(p)
      BY <2>2, <3>1, <3>3 DEF Connect, IInv, OnLinks
    <3> QED
      BY <3>2, <3>3
  <2> QED
    BY <2>1, <2>2 DEF OnLinks
<1> QED
  BY <1>1, <1>2, <1>3, <1>5 DEF IInv

LEMMA DisconnectKeeps ==
  ASSUME IInv, NEW l \in link, Disconnect(l)
  PROVE  IInv'
<1>1. DiskOK'
  BY DEF Disconnect, disk, IInv, DiskOK, OwnOK, PartsInOrder, Readable
<1>2. LinksOK' /\ CacheOK'
  BY DEF Disconnect, IInv, LinksOK, CacheOK
<1>3. OnLinks(net)'
  BY DEF Disconnect, IInv, OnLinks
<1> QED
  BY <1>1, <1>2, <1>3 DEF IInv

LEMMA KillKeeps ==
  ASSUME IInv, NEW n \in Nodes, Kill(n)
  PROVE  IInv'
<1>1. DiskOK'
  BY DEF Kill, disk, IInv, DiskOK, OwnOK, PartsInOrder, Readable
<1> QED
  BY <1>1, KilledKeeps DEF Kill, IInv

LEMMA GetAllActorsKeeps ==
  ASSUME IInv, NEW n \in Nodes, GetAllActors(n)
  PROVE  IInv'
<1>1. DiskOK' /\ LinksOK' /\ link' = link
  BY DEF GetAllActors, disk, IInv, DiskOK, OwnOK, PartsInOrder, Readable, LinksOK
<1>2. OnLinks(net') /\ CacheOK'
  BY SendAllKeeps, OneMessage, MessageTypes DEF GetAllActors, IInv
<1> QED
  BY <1>1, <1>2 DEF IInv, OnLinks

LEMMA DeliverKeeps ==
  ASSUME IInv, NEW p \in Nodes, NEW n \in Nodes, Deliver(p, n)
  PROVE  IInv'
<1> DEFINE msg == Head(net[p][n])
           on == [net EXCEPT ![p][n] = Tail(@)]
<1>1. net[p][n] \in Seq(Messages) /\ net[p][n] # <<>>
  BY DEF Deliver, IInv, OnLinks
<1>2. msg \in Messages
  BY <1>1
<1>3. OnLinks(on)
  BY <1>1 DEF IInv, OnLinks
<1>4. Handle(on, n, msg) /\ UNCHANGED <<own, logged, link>>
  BY DEF Deliver
<1> HIDE DEF on, msg
<1>5. LinksOK'
  BY <1>4 DEF IInv, LinksOK
<1>6. CacheOK /\ DiskOK
  BY DEF IInv
<1>7. OnLinks(net') /\ CacheOK' /\ DiskOK'
  <2>1. CASE msg.type = "AllRequest" /\ HandleGetAllActor(on, n, msg.ignored)
    <3>1. DiskOK'
      BY <1>4, <1>6, <2>1 DEF HandleGetAllActor, DiskOK, OwnOK, PartsInOrder, Readable
    <3>2. AllResponse(row[n] \ {msg.ignored}) \in Messages
      BY <1>6, MessageTypes DEF DiskOK
    <3>3. OnLinks(net') /\ CacheOK'
      BY <1>3, <1>6, <2>1, <3>2, OneMessage, SendAllKeeps DEF HandleGetAllActor, CacheOK
    <3> QED
      BY <3>1, <3>3
  <2>2. CASE msg.type = "AllResponse" /\ HandleNewAllActors(on, n, msg.actors)
    <3>1. DiskOK'
      BY <1>4, <1>6, <2>2 DEF HandleNewAllActors, DiskOK, OwnOK, PartsInOrder, Readable
    <3>2. Wanted(n, msg.actors) \in SUBSET Actors
      BY <1>2, <2>2 DEF Messages, AllRequest, AllResponse, Request, NewActor, Wanted
    <3>3. OnLinks(net') /\ CacheOK'
      BY <1>3, <1>6, <2>2, <3>2, RequestsType, SendAllKeeps DEF HandleNewAllActors
    <3> QED
      BY <3>1, <3>3
  <2>3. CASE msg.type = "Request" /\ HandleGetActor(on, n, msg.actor)
    <3>1. DiskOK'
      BY <1>4, <1>6, <2>3 DEF HandleGetActor, DiskOK, OwnOK, PartsInOrder, Readable
    <3>2. msg.actor \in Actors
      BY <1>2, <2>3 DEF Messages, AllRequest, AllResponse, Request, NewActor
    <3> DEFINE answer == IF Readable(n, msg.actor) THEN NewActor(msg.actor) ELSE Request(msg.actor)
    <3>3. answer \in Messages /\ SendAll(on, n, {answer})
      BY <2>3, <3>2, MessageTypes DEF HandleGetActor
    <3> HIDE DEF answer
    <3> QED
      BY <1>3, <1>6, <3>1, <3>3, OneMessage, SendAllKeeps
  <2>4. CASE msg.type = "NewActor" /\ AddActor(on, n, msg.actor)
    <3>1. msg.actor \in Actors
      BY <1>2, <2>4 DEF Messages, AllRequest, AllResponse, Request, NewActor
    <3>2. OwnOK'
      BY <1>4, <1>6 DEF DiskOK, OwnOK
    <3> QED
      BY <1>3, <1>6, <2>4, <3>1, <3>2, AddActorKeeps
  <2> QED
    BY <1>4, <2>1, <2>2, <2>3, <2>4 DEF Handle
<1> QED
  BY <1>4, <1>5, <1>7 DEF IInv, OnLinks

\* A kill while a received actor is added, or while the profile's are.
LEMMA KillInDeliverKeeps ==
  ASSUME IInv, NEW p \in Nodes, NEW n \in Nodes, KillInDeliver(p, n)
  PROVE  IInv'
<1>1. Head(net[p][n]) \in Messages
  BY DEF KillInDeliver, IInv, OnLinks
<1>2. Head(net[p][n]).actor \in Actors
  BY <1>1 DEF KillInDeliver, Messages, AllRequest, AllResponse, Request, NewActor
<1>3. OwnOK'
  BY DEF KillInDeliver, IInv, DiskOK, OwnOK
<1> QED
  BY <1>2, <1>3, KilledInAddActorKeeps DEF KillInDeliver

LEMMA KillInLoadKeeps ==
  ASSUME IInv, NEW n \in Nodes, KillInLoad(n)
  PROVE  IInv'
<1>1. PICK a \in own[n] : KilledInAddActor(n, a)
  BY DEF KillInLoad
<1>2. a \in Actors /\ OwnOK'
  BY DEF IInv, DiskOK, OwnOK, KillInLoad
<1> QED
  BY <1>1, <1>2, KilledInAddActorKeeps

LEMMA StutterKeeps ==
  ASSUME IInv, UNCHANGED vars
  PROVE  IInv'
  BY DEF vars, disk, IInv, DiskOK, OwnOK, PartsInOrder, Readable, LinksOK, OnLinks, CacheOK

LEMMA StepKeeps ==
  ASSUME IInv, [Next]_vars
  PROVE  IInv'
  BY CreateKeeps, LoadKeeps, ConnectKeeps, DisconnectKeeps, KillKeeps, GetAllActorsKeeps,
     DeliverKeeps, KillInDeliverKeeps, KillInLoadKeeps, StutterKeeps DEF Next

-----------------------------------------------------------------------------
(* Actors in parts *)

\* A step without a kill leaves no other actor in parts.
LEMMA NoneBroken ==
  ASSUME BrokenOK, kills' = kills,
         \A m \in Nodes, b \in Actors : InParts(m, b)' => InParts(m, b)
  PROVE  BrokenOK'
<1>1. Broken' \subseteq Broken
  BY DEF Broken
<1>2. IsFiniteSet(Broken') /\ Cardinality(Broken') <= Cardinality(Broken)
  BY <1>1, FS_Subset DEF BrokenOK
<1>3. Cardinality(Broken) \in Nat /\ Cardinality(Broken') \in Nat
  BY <1>2, FS_CardinalityType DEF BrokenOK
<1> QED
  BY <1>2, <1>3 DEF BrokenOK

\* A kill leaves one at most.
LEMMA OneBroken ==
  ASSUME BrokenOK, kills' = kills + 1, NEW n, NEW a,
         \A m \in Nodes, b \in Actors : InParts(m, b)' => InParts(m, b) \/ (m = n /\ b = a)
  PROVE  BrokenOK'
<1> DEFINE more == Broken \cup {<<n, a>>}
<1>1. Broken' \subseteq more
  BY DEF Broken
<1>2. IsFiniteSet(more) /\ Cardinality(more) <= Cardinality(Broken) + 1 /\ Cardinality(Broken) \in Nat
  <2>1. IsFiniteSet(Broken) /\ Cardinality(Broken) \in Nat
    BY FS_CardinalityType DEF BrokenOK
  <2>2. /\ IsFiniteSet(more)
        /\ Cardinality(more) = IF <<n, a>> \in Broken THEN Cardinality(Broken)
                                                      ELSE Cardinality(Broken) + 1
    BY <2>1, FS_AddElement
  <2> QED
    BY <2>1, <2>2
<1> HIDE DEF more
<1>3. IsFiniteSet(Broken') /\ Cardinality(Broken') <= Cardinality(more)
  BY <1>1, <1>2, FS_Subset
<1>4. Cardinality(more) \in Nat /\ Cardinality(Broken') \in Nat
  BY <1>2, <1>3, FS_CardinalityType
<1> QED
  BY <1>2, <1>3, <1>4 DEF BrokenOK

\* addActor leaves the actor whole.
LEMMA WholeNotBroken ==
  ASSUME DiskOK, BrokenOK, kills' = kills, NEW n \in Nodes, NEW a \in Actors,
         file' = [file EXCEPT ![n][a] = "full"],
         folder' = [folder EXCEPT ![n] = @ \cup {a}]
  PROVE  BrokenOK'
<1>1. ASSUME NEW m \in Nodes, NEW b \in Actors, InParts(m, b)' PROVE InParts(m, b)
  BY <1>1 DEF DiskOK, InParts, Readable
<1> QED
  BY <1>1, NoneBroken

LEMMA SameNotBroken ==
  ASSUME BrokenOK, kills' = kills, file' = file, folder' = folder
  PROVE  BrokenOK'
<1>1. \A m \in Nodes, b \in Actors : InParts(m, b)' => InParts(m, b)
  BY DEF InParts, Readable
<1> QED
  BY <1>1, NoneBroken

LEMMA KillBreaksOne ==
  ASSUME DiskOK, BrokenOK, NEW n \in Nodes, NEW a \in Actors, KilledInAddActor(n, a)
  PROVE  BrokenOK'
<1>1. kills' = kills + 1
  BY DEF KilledInAddActor, Killed
<1>2. PICK parts \in Parts :
         /\ file' = [file EXCEPT ![n][a] = IF "full" \in parts THEN "full"
                                             ELSE IF "empty" \in parts THEN "empty" ELSE @]
         /\ folder' = [folder EXCEPT ![n] = IF "folder" \in parts THEN @ \cup {a} ELSE @]
  BY Zenon DEF KilledInAddActor
<1>3. ASSUME NEW m \in Nodes, NEW b \in Actors, ~(m = n /\ b = a)
      PROVE  file'[m][b] = file[m][b] /\ (b \in folder'[m] <=> b \in folder[m])
  BY <1>2, <1>3 DEF DiskOK
<1>4. \A m \in Nodes, b \in Actors : InParts(m, b)' => InParts(m, b) \/ (m = n /\ b = a)
  BY <1>3 DEF InParts, Readable
<1> QED
  BY <1>1, <1>4, OneBroken

LEMMA BrokenInit == Init => BrokenOK
<1> SUFFICES ASSUME Init PROVE BrokenOK
  OBVIOUS
<1>1. \A n \in Nodes, a \in Actors : ~InParts(n, a)
  BY DEF Init, InParts, Readable
<1>2. Broken = {} /\ kills = 0
  BY <1>1 DEF Init, Broken
<1> QED
  BY <1>2, FS_EmptySet DEF BrokenOK

LEMMA BrokenStep ==
  ASSUME IInv, BrokenOK, [Next]_vars
  PROVE  BrokenOK'
<1>1. DiskOK
  BY DEF IInv
<1>2. ASSUME NEW n \in Nodes, NEW a \in Actors, NEW on, AddActor(on, n, a), kills' = kills
      PROVE  BrokenOK'
  BY <1>1, <1>2, WholeNotBroken, SameNotBroken DEF AddActor
<1>3. ASSUME NEW n \in Nodes, NEW a \in Actors, Create(n, a) PROVE BrokenOK'
  <2>1. CASE KilledInAddActor(n, a)
    BY <1>1, <2>1, KillBreaksOne
  <2>2. CASE AddActor(net, n, a) /\ UNCHANGED counts
    BY <1>2, <2>2 DEF counts
  <2>3. CASE /\ file' = [file EXCEPT ![n][a] = "full"]
             /\ folder' = [folder EXCEPT ![n] = @ \cup {a}] /\ UNCHANGED counts
    BY <1>1, <2>3, WholeNotBroken DEF counts
  <2> QED
    BY <1>3, <2>1, <2>2, <2>3 DEF Create
<1>4. ASSUME NEW n \in Nodes, Load(n) PROVE BrokenOK'
  <2>1. PICK missing \in SUBSET Actors :
          /\ file' = [file EXCEPT ![n] = [a \in Actors |-> IF a \in missing THEN "full" ELSE @[a]]]
          /\ folder' = [folder EXCEPT ![n] = @ \cup missing]
    BY <1>1, <1>4 DEF Load, DiskOK, OwnOK
  <2>2. ASSUME NEW m \in Nodes, NEW b \in Actors, InParts(m, b)' PROVE InParts(m, b)
    BY <1>1, <2>1, <2>2 DEF DiskOK, InParts, Readable
  <2> QED
    BY <1>4, <2>2, NoneBroken DEF Load, counts
<1>5. ASSUME NEW n \in Nodes, KillInLoad(n) PROVE BrokenOK'
  BY <1>1, <1>5, KillBreaksOne DEF KillInLoad, DiskOK, OwnOK
<1>6. ASSUME NEW n \in Nodes, Kill(n) PROVE BrokenOK'
  <2>1. kills' = kills + 1 /\ file' = file /\ folder' = folder
    BY <1>6 DEF Kill, Killed, disk
  <2>2. \A m \in Nodes, b \in Actors : InParts(m, b)' => InParts(m, b)
    BY <2>1 DEF InParts, Readable
  <2> QED
    BY <2>1, <2>2, OneBroken
<1>7. ASSUME NEW p \in Nodes, NEW n \in Nodes, Deliver(p, n) PROVE BrokenOK'
  <2> DEFINE msg == Head(net[p][n])
             on == [net EXCEPT ![p][n] = Tail(@)]
  <2>1. net[p][n] \in Seq(Messages) /\ net[p][n] # <<>>
    BY <1>7 DEF Deliver, IInv, OnLinks
  <2>2. msg \in Messages
    BY <2>1
  <2>3. Handle(on, n, msg) /\ kills' = kills
    BY <1>7 DEF Deliver, counts
  <2> HIDE DEF on, msg
  <2>4. CASE msg.type = "NewActor" /\ AddActor(on, n, msg.actor)
    BY <1>2, <2>2, <2>3, <2>4 DEF Messages, AllRequest, AllResponse, Request, NewActor
  <2>5. CASE file' = file /\ folder' = folder
    BY <2>3, <2>5, SameNotBroken
  <2> QED
    BY <2>3, <2>4, <2>5 DEF Handle, HandleGetAllActor, HandleNewAllActors, HandleGetActor
<1>8. ASSUME NEW p \in Nodes, NEW n \in Nodes, KillInDeliver(p, n) PROVE BrokenOK'
  <2>1. Head(net[p][n]) \in Messages
    BY <1>8 DEF KillInDeliver, IInv, OnLinks
  <2>2. Head(net[p][n]).actor \in Actors
    BY <1>8, <2>1 DEF KillInDeliver, Messages, AllRequest, AllResponse, Request, NewActor
  <2> QED
    BY <1>1, <1>8, <2>2, KillBreaksOne DEF KillInDeliver
<1>9. CASE kills' = kills /\ UNCHANGED disk
  BY <1>9, SameNotBroken DEF disk
<1>10. ASSUME NEW n \in Nodes, GetAllActors(n) PROVE BrokenOK'
  BY <1>9, <1>10 DEF GetAllActors, counts
<1>11. ASSUME NEW n \in Nodes, NEW q \in Nodes, Connect(n, q) PROVE BrokenOK'
  BY <1>9, <1>11 DEF Connect, counts
<1>12. ASSUME NEW l \in link, Disconnect(l) PROVE BrokenOK'
  BY <1>9, <1>12 DEF Disconnect
<1>13. CASE UNCHANGED vars
  BY <1>9, <1>13 DEF vars, counts
<1> QED
  BY <1>3, <1>4, <1>5, <1>6, <1>7, <1>8, <1>10, <1>11, <1>12, <1>13 DEF Next

-----------------------------------------------------------------------------
(* The actors *)

\* What a node lists it can answer for, what has a folder is listed, and each
\* kill leaves one actor in parts at most, after any messages, timers, logins,
\* drops, and kills inside addActor.
THEOREM ActorIndexRight == Spec => []ActorIndexInv
<1>1. IInv /\ BrokenOK => ActorIndexInv
  BY DEF IInv, DiskOK, OwnOK, LinksOK, OnLinks, CacheOK, BrokenOK, OneBrokenByAKill,
         ActorIndexInv, TypeOK
<1>2. IInv /\ BrokenOK /\ [Next]_vars => (IInv /\ BrokenOK)'
  BY StepKeeps, BrokenStep
<1>3. Init => IInv /\ BrokenOK
  BY InitInv, BrokenInit
<1> QED
  BY <1>1, <1>2, <1>3, PTL DEF Spec

-----------------------------------------------------------------------------
(* Natural numbers *)

\* A non-empty set of naturals has a least element.
LEMMA LeastOne ==
  ASSUME NEW S \in SUBSET Nat, S # {}
  PROVE  \E m \in S : \A x \in S : m <= x
<1> DEFINE R == {ss \in Nat \X Nat : ss[1] < ss[2]}
<1>1. IsWellFoundedOn(R, Nat)
  BY NatLessThanWellFounded, Zenon DEF OpToRel
<1>2. PICK m \in S : \A x \in S : ~ (<<x, m>> \in R)
  <2>1. S \subseteq Nat
    OBVIOUS
  <2> HIDE DEF R
  <2> QED
    BY <1>1, <2>1, WFMin
<1>3. \A x \in S : m <= x
  <2> SUFFICES ASSUME NEW x \in S, ~ (m <= x) PROVE <<x, m>> \in R
    BY <1>2
  <2>1. x \in Nat /\ m \in Nat /\ x < m
    OBVIOUS
  <2> DEFINE ss == <<x, m>>
  <2>2. ss \in Nat \X Nat /\ ss[1] = x /\ ss[2] = m
    BY <2>1
  <2> QED
    BY <2>1, <2>2
<1> QED
  BY <1>3

\* What holds at 0 and passes from each number to the next holds of all.
LEMMA AllNumbers ==
  ASSUME NEW G, 0 \in G, \A k \in Nat : k \in G => k + 1 \in G
  PROVE  \A k \in Nat : k \in G
<1> DEFINE off == {k \in Nat : k \notin G}
<1> SUFFICES ASSUME off # {} PROVE FALSE
  OBVIOUS
<1>1. PICK m \in off : \A k \in off : m <= k
  <2>1. off \in SUBSET Nat
    OBVIOUS
  <2> HIDE DEF off
  <2> QED
    BY <2>1, LeastOne
<1>2. m \in Nat /\ m \notin G /\ m # 0
  OBVIOUS
<1>3. m - 1 \in Nat /\ ~ (m <= m - 1) /\ m - 1 + 1 = m
  BY <1>2
<1>4. m - 1 \notin off
  <2> HIDE DEF off
  <2> QED
    BY <1>1, <1>3
<1> QED
  BY <1>2, <1>3, <1>4

-----------------------------------------------------------------------------
(* What is left of a sequence *)

\* t is the loop of Left, for the first n elements.
IsLeft(s, places, n, t) ==
  t = [m \in 0 .. n |-> IF m = 0 THEN <<>>
                        ELSE IF m \in places THEN Append(t[m - 1], s[m]) ELSE t[m - 1]]

\* There is such a loop.
LEMMA LeftExists ==
  ASSUME NEW s, NEW places
  PROVE  \A n \in Nat : \E t : IsLeft(s, places, n, t)
<1> DEFINE G == {n \in Nat : \E t : IsLeft(s, places, n, t)}
<1>1. 0 \in G
  <2> DEFINE t == [m \in 0 .. 0 |-> <<>>]
  <2>1. IsLeft(s, places, 0, t)
    BY DEF IsLeft
  <2> QED
    BY <2>1
<1>2. ASSUME NEW n \in Nat, n \in G PROVE n + 1 \in G
  <2>1. PICK t : IsLeft(s, places, n, t)
    BY <1>2
  <2> DEFINE next == IF n + 1 \in places THEN Append(t[n], s[n + 1]) ELSE t[n]
             u == [m \in 0 .. n + 1 |-> IF m = n + 1 THEN next ELSE t[m]]
             v == [m \in 0 .. n + 1 |-> IF m = 0 THEN <<>>
                        ELSE IF m \in places THEN Append(u[m - 1], s[m]) ELSE u[m - 1]]
  <2>2. ASSUME NEW m \in 0 .. n + 1
        PROVE  (IF m = n + 1 THEN next ELSE t[m])
                 = IF m = 0 THEN <<>>
                   ELSE IF m \in places THEN Append(u[m - 1], s[m]) ELSE u[m - 1]
    <3>1. CASE m = n + 1
      <4>1. m # 0 /\ m - 1 = n /\ n \in 0 .. n + 1 /\ n # n + 1
        BY <3>1
      <4>2. u[n] = t[n]
        BY <4>1
      <4> HIDE DEF u
      <4> QED
        BY <3>1, <4>1, <4>2
    <3>2. CASE m # n + 1
      <4>1. m \in 0 .. n
        BY <3>2
      <4>2. t[m] = IF m = 0 THEN <<>>
                   ELSE IF m \in places THEN Append(t[m - 1], s[m]) ELSE t[m - 1]
        BY <2>1, <4>1 DEF IsLeft
      <4>3. m # 0 => m - 1 \in 0 .. n + 1 /\ m - 1 # n + 1
        BY <4>1
      <4>4. m # 0 => u[m - 1] = t[m - 1]
        BY <4>3
      <4> HIDE DEF u, next
      <4> QED
        BY <3>2, <4>2, <4>4
    <3> QED
      BY <3>1, <3>2
  <2>3. u = v
    BY <2>2
  <2> HIDE DEF u
  <2>4. IsLeft(s, places, n + 1, u)
    BY <2>3 DEF IsLeft
  <2> QED
    BY <2>4
<1>3. \A n \in Nat : n \in G
  <2> HIDE DEF G
  <2> QED
    BY <1>1, <1>2, AllNumbers
<1> QED
  BY <1>3

\* t has the elements of s at these places of the first n, in their order: at
\* its i-th place what s has at e[i].
Takes(s, places, n, t, e) ==
  /\ e \in [1 .. Len(t) -> 1 .. n]
  /\ \A i \in 1 .. Len(t) : e[i] \in places /\ t[i] = s[e[i]]
  /\ \A i, j \in 1 .. Len(t) : i < j => e[i] < e[j]
  /\ \A j \in 1 .. n : j \in places => \E i \in 1 .. Len(t) : e[i] = j

\* One element more.
LEMMA TakesMore ==
  ASSUME NEW T, NEW s \in Seq(T), NEW places, NEW n \in Nat, n < Len(s),
         NEW t \in Seq(T), NEW e, Takes(s, places, n, t, e), n + 1 \in places
  PROVE  LET u == Append(t, s[n + 1])
         IN u \in Seq(T) /\ \E f : Takes(s, places, n + 1, u, f)
<1> DEFINE l == Len(t)
           u == Append(t, s[n + 1])
           f == [i \in 1 .. l + 1 |-> IF i = l + 1 THEN n + 1 ELSE e[i]]
<1>1. l \in Nat /\ n + 1 \in 1 .. Len(s) /\ s[n + 1] \in T
  OBVIOUS
<1>2. /\ u \in Seq(T) /\ Len(u) = l + 1 /\ u[l + 1] = s[n + 1]
      /\ \A i \in 1 .. l : u[i] = t[i]
  BY <1>1
<1>3. /\ e \in [1 .. l -> 1 .. n]
      /\ \A i \in 1 .. l : e[i] \in places /\ t[i] = s[e[i]]
      /\ \A i, j \in 1 .. l : i < j => e[i] < e[j]
      /\ \A j \in 1 .. n : j \in places => \E i \in 1 .. l : e[i] = j
  BY DEF Takes
<1> HIDE DEF l, u
<1>4. \A i \in 1 .. l + 1 : i = l + 1 \/ i \in 1 .. l
  BY <1>1
<1>5. f[l + 1] = n + 1 /\ \A i \in 1 .. l : f[i] = e[i] /\ e[i] \in 1 .. n
  BY <1>1, <1>3
<1>6. f \in [1 .. l + 1 -> 1 .. n + 1]
  BY <1>1, <1>3, <1>4
<1> HIDE DEF f
<1>7. \A i \in 1 .. l + 1 : f[i] \in places /\ u[i] = s[f[i]]
  BY <1>2, <1>3, <1>4, <1>5
<1>8. ASSUME NEW i \in 1 .. l + 1, NEW j \in 1 .. l + 1, i < j PROVE f[i] < f[j]
  <2>1. i \in 1 .. l
    BY <1>1, <1>8
  <2>2. f[i] = e[i] /\ e[i] \in 1 .. n
    BY <1>5, <2>1
  <2>3. CASE j = l + 1
    BY <1>5, <2>2, <2>3
  <2>4. CASE j \in 1 .. l
    BY <1>3, <1>5, <1>8, <2>1, <2>2, <2>4
  <2> QED
    BY <1>4, <2>3, <2>4
<1>9. ASSUME NEW j \in 1 .. n + 1, j \in places PROVE \E i \in 1 .. l + 1 : f[i] = j
  <2>1. CASE j = n + 1
    <3>1. l + 1 \in 1 .. l + 1
      BY <1>1
    <3> QED
      BY <1>5, <2>1, <3>1
  <2>2. CASE j # n + 1
    <3>1. j \in 1 .. n
      BY <2>2
    <3>2. PICK i \in 1 .. l : e[i] = j
      BY <1>3, <1>9, <3>1
    <3>3. i \in 1 .. l + 1
      BY <1>1
    <3> QED
      BY <1>5, <3>2, <3>3
  <2> QED
    BY <2>1, <2>2
<1>10. Takes(s, places, n + 1, u, f)
  BY <1>2, <1>6, <1>7, <1>8, <1>9 DEF Takes
<1> QED
  BY <1>2, <1>10 DEF u

\* One element passed over.
LEMMA TakesNoMore ==
  ASSUME NEW s, NEW places, NEW n \in Nat, NEW t, NEW e,
         Takes(s, places, n, t, e), n + 1 \notin places
  PROVE  Takes(s, places, n + 1, t, e)
<1>1. \A j \in 1 .. n + 1 : j = n + 1 \/ j \in 1 .. n
  OBVIOUS
<1>2. 1 .. n \subseteq 1 .. n + 1
  OBVIOUS
<1>3. e \in [1 .. Len(t) -> 1 .. n + 1]
  BY <1>2 DEF Takes
<1>4. \A j \in 1 .. n + 1 : j \in places => \E i \in 1 .. Len(t) : e[i] = j
  BY <1>1 DEF Takes
<1> QED
  BY <1>3, <1>4 DEF Takes

\* What Left leaves.
LEMMA LeftIs ==
  ASSUME NEW T, NEW s \in Seq(T), NEW places
  PROVE  /\ Left(s, places) \in Seq(T)
         /\ \E e : Takes(s, places, Len(s), Left(s, places), e)
<1> DEFINE l == Len(s)
           t == CHOOSE t : IsLeft(s, places, l, t)
<1>1. l \in Nat
  OBVIOUS
<1>2. IsLeft(s, places, l, t)
  BY <1>1, LeftExists
<1>3. Left(s, places) = t[l]
  BY DEF Left, IsLeft
<1> HIDE DEF t, l
<1> DEFINE G == {n \in Nat : n <= l => t[n] \in Seq(T) /\ \E e : Takes(s, places, n, t[n], e)}
<1>4. 0 \in G
  <2>1. t[0] = <<>>
    BY <1>1, <1>2 DEF IsLeft
  <2> DEFINE e == [i \in 1 .. 0 |-> i]
             z == t[0]
  <2>2. z = <<>> /\ z \in Seq(T) /\ Len(z) = 0 /\ 1 .. 0 = {} /\ e \in [1 .. 0 -> 1 .. 0]
    BY <2>1
  <2> HIDE DEF e, z
  <2>3. Takes(s, places, 0, z, e)
    BY <2>2 DEF Takes
  <2> QED
    BY <2>2, <2>3 DEF z
<1>5. ASSUME NEW n \in Nat, n \in G PROVE n + 1 \in G
  <2> SUFFICES ASSUME n + 1 <= l
               PROVE  t[n + 1] \in Seq(T) /\ \E e : Takes(s, places, n + 1, t[n + 1], e)
    OBVIOUS
  <2>1. n <= l /\ n < l /\ n + 1 \in 0 .. l /\ n + 1 # 0 /\ n + 1 - 1 = n
    BY <1>1
  <2>2. t[n + 1] = IF n + 1 \in places THEN Append(t[n], s[n + 1]) ELSE t[n]
    <3> DEFINE k == n + 1
    <3>1. k \in 0 .. l /\ k # 0 /\ k - 1 = n /\ k = n + 1
      BY <2>1
    <3> HIDE DEF k
    <3>2. t[k] = IF k = 0 THEN <<>>
                 ELSE IF k \in places THEN Append(t[k - 1], s[k]) ELSE t[k - 1]
      BY <1>2, <3>1 DEF IsLeft
    <3> QED
      BY <3>1, <3>2
  <2> DEFINE v == t[n]
  <2>3. v \in Seq(T) /\ \E e : Takes(s, places, n, v, e)
    BY <1>5, <2>1
  <2>4. n < Len(s)
    BY <2>1 DEF l
  <2> HIDE DEF v
  <2>5. PICK e : Takes(s, places, n, v, e)
    BY <2>3
  <2>6. CASE n + 1 \in places
    <3>1. t[n + 1] = Append(v, s[n + 1])
      BY <2>2, <2>6 DEF v
    <3>2. Append(v, s[n + 1]) \in Seq(T) /\ \E f : Takes(s, places, n + 1, Append(v, s[n + 1]), f)
      BY <2>3, <2>4, <2>5, <2>6, TakesMore
    <3> QED
      BY <3>1, <3>2
  <2>7. CASE n + 1 \notin places
    <3>1. t[n + 1] = v
      BY <2>2, <2>7 DEF v
    <3>2. Takes(s, places, n + 1, v, e)
      BY <2>5, <2>7, TakesNoMore
    <3> QED
      BY <2>3, <3>1, <3>2
  <2> QED
    BY <2>6, <2>7
<1>6. \A n \in Nat : n \in G
  <2> HIDE DEF G
  <2> QED
    BY <1>4, <1>5, AllNumbers
<1>7. t[l] \in Seq(T) /\ \E e : Takes(s, places, l, t[l], e)
  BY <1>1, <1>6
<1> QED
  BY <1>3, <1>7 DEF l

-----------------------------------------------------------------------------
(* What a table holds *)

\* Having one key is the same for both, and goes on to a third.
LEMMA SameKeyFacts ==
  /\ \A x, y : SameKey(x, y) => SameKey(y, x) /\ SameKey(x, x)
  /\ \A x, y, z : SameKey(x, y) /\ SameKey(y, z) => SameKey(x, z)
BY DEF SameKey

\* The rows rs are those that are to be there of the puts, each key once, and
\* each key of a complete put is there.
RowsPut(puts, rs) ==
  \A i \in DOMAIN rs : \E j \in DOMAIN puts : Stays(puts, j) /\ rs[i] = puts[j].row
PutsThere(puts, rs) ==
  \A j \in DOMAIN puts : Stays(puts, j) => \E i \in DOMAIN rs : rs[i] = puts[j].row
KeysOnce(rs) == \A i, j \in DOMAIN rs : i # j => ~ SameKey(rs[i], rs[j])
KeysThere(puts, rs) ==
  \A j \in DOMAIN puts : Complete(puts[j].row) /\ HasKey =>
    \E i \in DOMAIN rs : SameKey(puts[j].row, rs[i])
RowsRight(puts, rs) ==
  RowsPut(puts, rs) /\ PutsThere(puts, rs) /\ KeysOnce(rs) /\ KeysThere(puts, rs)

\* A sequence with one element more.
IsAppended(s, x, t) ==
  /\ DOMAIN s = 1 .. Len(s) /\ Len(s) \in Nat /\ DOMAIN t = 1 .. Len(s) + 1
  /\ t[Len(s) + 1] = x /\ \A i \in 1 .. Len(s) : t[i] = s[i]

\* Append makes such a sequence.
LEMMA Appended ==
  ASSUME NEW T, NEW s \in Seq(T), NEW x \in T
  PROVE  IsAppended(s, x, Append(s, x)) /\ Append(s, x) \in Seq(T)
BY DEF IsAppended

\* The rivals of one put.
RivalOf(puts, j, k) == Complete(puts[k].row) /\ SameKey(puts[j].row, puts[k].row)

\* When a put stays, in terms of its rivals.
LEMMA StaysIs ==
  ASSUME NEW puts, NEW j
  PROVE  Stays(puts, j) <=>
           /\ Complete(puts[j].row)
           /\ puts[j].isReplace =>
                \A k \in DOMAIN puts : RivalOf(puts, j, k) /\ k > j => ~ puts[k].isReplace
           /\ ~ puts[j].isReplace =>
                \A k \in DOMAIN puts : RivalOf(puts, j, k) => k >= j /\ ~ puts[k].isReplace
BY DEF Stays, RivalOf

\* An insert changes nothing for the puts before it, and stays if it is complete
\* and none of them is its rival.
LEMMA StaysInserted ==
  ASSUME NEW puts, NEW put, NEW more, IsAppended(puts, put, more), ~ put.isReplace
  PROVE  /\ \A j \in DOMAIN puts : Stays(more, j) <=> Stays(puts, j)
         /\ Stays(more, Len(puts) + 1) <=>
              /\ Complete(put.row)
              /\ \A k \in DOMAIN puts :
                   ~ (Complete(puts[k].row) /\ SameKey(put.row, puts[k].row))
<1> DEFINE n == Len(puts)
<1>1. /\ n \in Nat /\ DOMAIN puts = 1 .. n /\ DOMAIN more = 1 .. n + 1
      /\ more[n + 1] = put /\ \A i \in 1 .. n : more[i] = puts[i]
  BY DEF IsAppended
<1> HIDE DEF n
<1>2. \A k \in 1 .. n + 1 : k = n + 1 \/ k \in 1 .. n
  BY <1>1
<1>3. n + 1 \in 1 .. n + 1 /\ \A k \in 1 .. n : k \in 1 .. n + 1 /\ k < n + 1 /\ ~ (k > n + 1)
  BY <1>1
<1>4. ASSUME NEW j \in 1 .. n PROVE Stays(more, j) <=> Stays(puts, j)
  <2>1. \A k \in 1 .. n : RivalOf(more, j, k) <=> RivalOf(puts, j, k)
    BY <1>1 DEF RivalOf
  <2>2. n + 1 >= j /\ more[j] = puts[j] /\ ~ more[n + 1].isReplace
    BY <1>1, <1>3
  <2>3. ASSUME Stays(puts, j) PROVE Stays(more, j)
    <3>1. puts[j].isReplace =>
            \A k \in 1 .. n + 1 : RivalOf(more, j, k) /\ k > j => ~ more[k].isReplace
      BY <1>1, <1>2, <2>1, <2>2, <2>3, StaysIs
    <3>2. ~ puts[j].isReplace =>
            \A k \in 1 .. n + 1 : RivalOf(more, j, k) => k >= j /\ ~ more[k].isReplace
      BY <1>1, <1>2, <2>1, <2>2, <2>3, StaysIs
    <3>3. Complete(more[j].row)
      BY <2>2, <2>3, StaysIs
    <3> QED
      BY <1>1, <2>2, <3>1, <3>2, <3>3, StaysIs
  <2>4. ASSUME Stays(more, j) PROVE Stays(puts, j)
    <3>1. puts[j].isReplace =>
            \A k \in 1 .. n : RivalOf(puts, j, k) /\ k > j => ~ puts[k].isReplace
      BY <1>1, <1>3, <2>1, <2>2, <2>4, StaysIs
    <3>2. ~ puts[j].isReplace =>
            \A k \in 1 .. n : RivalOf(puts, j, k) => k >= j /\ ~ puts[k].isReplace
      BY <1>1, <1>3, <2>1, <2>2, <2>4, StaysIs
    <3>3. Complete(puts[j].row)
      BY <2>2, <2>4, StaysIs
    <3> QED
      BY <1>1, <3>1, <3>2, <3>3, StaysIs
  <2> QED
    BY <2>3, <2>4
<1>5. Stays(more, n + 1) <=>
        /\ Complete(put.row)
        /\ \A k \in 1 .. n : ~ (Complete(puts[k].row) /\ SameKey(put.row, puts[k].row))
  <2> DEFINE at == n + 1
  <2>0. at = n + 1 /\ at \in 1 .. n + 1 /\ more[at] = put /\ DOMAIN more = 1 .. at
    BY <1>1, <1>3
  <2> HIDE DEF at
  <2>1. \A k \in 1 .. n :
          RivalOf(more, at, k) <=> Complete(puts[k].row) /\ SameKey(put.row, puts[k].row)
    BY <1>1, <2>0 DEF RivalOf
  <2>2. Stays(more, at) <=>
          /\ Complete(put.row)
          /\ \A k \in 1 .. at : RivalOf(more, at, k) => k >= at /\ ~ more[k].isReplace
    BY <2>0, StaysIs
  <2>3. ASSUME Stays(more, at), NEW k \in 1 .. n PROVE ~ RivalOf(more, at, k)
    <3>1. k \in 1 .. at /\ ~ (k >= at)
      BY <1>1, <2>0
    <3> QED
      BY <2>2, <2>3, <3>1
  <2>4. ASSUME \A k \in 1 .. n : ~ RivalOf(more, at, k), NEW k \in 1 .. at, RivalOf(more, at, k)
        PROVE  k >= at /\ ~ more[k].isReplace
    <3>1. k = at
      BY <1>1, <2>0, <2>4
    <3> QED
      BY <1>1, <2>0, <3>1
  <2>5. Stays(more, at) <=> Complete(put.row) /\ \A k \in 1 .. n : ~ RivalOf(more, at, k)
    BY <2>2, <2>3, <2>4
  <2> QED
    BY <2>0, <2>1, <2>5
<1> QED
  BY <1>1, <1>4, <1>5 DEF n

\* A replace takes away the puts of its key, and stays itself.
LEMMA StaysReplaced ==
  ASSUME NEW puts, NEW put, NEW more, IsAppended(puts, put, more), put.isReplace, Complete(put.row)
  PROVE  /\ \A j \in DOMAIN puts :
              Stays(more, j) <=> Stays(puts, j) /\ ~ SameKey(puts[j].row, put.row)
         /\ Stays(more, Len(puts) + 1)
<1> DEFINE at == Len(puts) + 1
<1>1. /\ Len(puts) \in Nat /\ DOMAIN puts = 1 .. Len(puts) /\ DOMAIN more = 1 .. at
      /\ at = Len(puts) + 1 /\ more[at] = put /\ \A i \in 1 .. Len(puts) : more[i] = puts[i]
  BY DEF IsAppended
<1> HIDE DEF at
<1>2. \A k \in DOMAIN more : k = at \/ k \in DOMAIN puts
  BY <1>1
<1>3. /\ at \in DOMAIN more
      /\ \A k \in DOMAIN puts : k \in DOMAIN more /\ at > k /\ at >= k /\ ~ (k >= at)
  BY <1>1
<1>4. ASSUME NEW j \in DOMAIN puts
      PROVE  Stays(more, j) <=> Stays(puts, j) /\ ~ SameKey(puts[j].row, put.row)
  <2>1. \A k \in DOMAIN puts : RivalOf(more, j, k) <=> RivalOf(puts, j, k)
    BY <1>1 DEF RivalOf
  <2>2. more[j] = puts[j] /\ (RivalOf(more, j, at) <=> SameKey(puts[j].row, put.row))
    BY <1>1 DEF RivalOf
  <2>3. ASSUME Stays(puts, j), ~ SameKey(puts[j].row, put.row) PROVE Stays(more, j)
    <3>1. puts[j].isReplace =>
            \A k \in DOMAIN more : RivalOf(more, j, k) /\ k > j => ~ more[k].isReplace
      BY <1>1, <1>2, <2>1, <2>2, <2>3, StaysIs
    <3>2. ~ puts[j].isReplace =>
            \A k \in DOMAIN more : RivalOf(more, j, k) => k >= j /\ ~ more[k].isReplace
      BY <1>1, <1>2, <2>1, <2>2, <2>3, StaysIs
    <3> QED
      BY <2>2, <2>3, <3>1, <3>2, StaysIs
  <2>4. ASSUME Stays(more, j) PROVE Stays(puts, j) /\ ~ SameKey(puts[j].row, put.row)
    <3>1. puts[j].isReplace =>
            \A k \in DOMAIN puts : RivalOf(puts, j, k) /\ k > j => ~ puts[k].isReplace
      BY <1>1, <1>3, <2>1, <2>2, <2>4, StaysIs
    <3>2. ~ puts[j].isReplace =>
            \A k \in DOMAIN puts : RivalOf(puts, j, k) => k >= j /\ ~ puts[k].isReplace
      BY <1>1, <1>3, <2>1, <2>2, <2>4, StaysIs
    <3>3. ~ RivalOf(more, j, at)
      BY <1>1, <1>3, <2>2, <2>4, StaysIs
    <3> QED
      BY <2>2, <2>4, <3>1, <3>2, <3>3, StaysIs
  <2> QED
    BY <2>3, <2>4
<1>5. Stays(more, at)
  <2>1. \A k \in DOMAIN more : ~ (k > at)
    BY <1>1
  <2> QED
    BY <1>1, <2>1, StaysIs
<1> QED
  BY <1>1, <1>4, <1>5

\* A sequence counts its elements.
Counts(s) == Len(s) \in Nat /\ DOMAIN s = 1 .. Len(s)

\* An insert.
LEMMA InsertRight ==
  ASSUME NEW puts, NEW put, NEW more, IsAppended(puts, put, more), ~ put.isReplace,
         NEW rs, NEW rs2, RowsRight(puts, rs),
         IF Complete(put.row) /\ \A i \in DOMAIN rs : ~ SameKey(put.row, rs[i])
         THEN IsAppended(rs, put.row, rs2) ELSE rs2 = rs
  PROVE  RowsRight(more, rs2)
<1> DEFINE at == Len(puts) + 1
           Free == Complete(put.row) /\ \A i \in DOMAIN rs : ~ SameKey(put.row, rs[i])
<1>1. /\ DOMAIN puts \subseteq DOMAIN more /\ at \in DOMAIN more /\ more[at] = put
      /\ \A k \in DOMAIN more : k = at \/ k \in DOMAIN puts
      /\ \A k \in DOMAIN puts : more[k] = puts[k]
  BY DEF IsAppended
<1>2. /\ \A j \in DOMAIN puts : Stays(more, j) <=> Stays(puts, j)
      /\ Stays(more, at) <=>
           /\ Complete(put.row)
           /\ \A k \in DOMAIN puts : ~ (Complete(puts[k].row) /\ SameKey(put.row, puts[k].row))
  BY StaysInserted
<1> HIDE DEF at
<1>3. ASSUME NEW j \in DOMAIN puts, Stays(puts, j) PROVE Complete(puts[j].row)
  BY <1>3, StaysIs
<1>4. Stays(more, at) <=> Free
  <2>1. ASSUME Free, NEW k \in DOMAIN puts, Complete(puts[k].row), SameKey(put.row, puts[k].row)
        PROVE  FALSE
    <3>1. PICK i \in DOMAIN rs : SameKey(puts[k].row, rs[i])
      BY <2>1 DEF RowsRight, KeysThere, SameKey
    <3> QED
      BY <2>1, <3>1, SameKeyFacts
  <2>2. ASSUME Stays(more, at), NEW i \in DOMAIN rs, SameKey(put.row, rs[i])
        PROVE  FALSE
    <3>1. PICK j \in DOMAIN puts : Stays(puts, j) /\ rs[i] = puts[j].row
      BY DEF RowsRight, RowsPut
    <3> QED
      BY <1>2, <1>3, <2>2, <3>1
  <2> QED
    BY <1>2, <2>1, <2>2
<1>5. CASE ~ Free
  <2>1. rs2 = rs
    BY <1>5
  <2>2. RowsPut(more, rs)
    BY <1>1, <1>2 DEF RowsRight, RowsPut
  <2>3. PutsThere(more, rs)
    BY <1>1, <1>2, <1>4, <1>5 DEF RowsRight, PutsThere
  <2>4. KeysThere(more, rs)
    BY <1>1, <1>5 DEF RowsRight, KeysThere
  <2> QED
    BY <2>1, <2>2, <2>3, <2>4 DEF RowsRight
<1>6. CASE Free
  <2> DEFINE last == Len(rs) + 1
  <2>1. /\ DOMAIN rs \subseteq DOMAIN rs2 /\ last \in DOMAIN rs2 /\ rs2[last] = put.row
        /\ \A k \in DOMAIN rs2 : k = last \/ k \in DOMAIN rs
        /\ \A k \in DOMAIN rs : rs2[k] = rs[k]
    BY <1>6 DEF IsAppended
  <2> HIDE DEF last
  <2>2. RowsPut(more, rs2)
    BY <1>1, <1>2, <1>4, <1>6, <2>1 DEF RowsRight, RowsPut
  <2>3. PutsThere(more, rs2)
    BY <1>1, <1>2, <2>1 DEF RowsRight, PutsThere
  <2>4. KeysOnce(rs2)
    BY <1>6, <2>1, SameKeyFacts DEF RowsRight, KeysOnce
  <2>5. KeysThere(more, rs2)
    <3>1. HasKey => SameKey(put.row, put.row)
      BY DEF SameKey
    <3> QED
      BY <1>1, <2>1, <3>1 DEF RowsRight, KeysThere
  <2> QED
    BY <2>2, <2>3, <2>4, <2>5 DEF RowsRight
<1> QED
  BY <1>5, <1>6

\* A replace.
LEMMA ReplaceRight ==
  ASSUME NEW puts, NEW put, NEW more, IsAppended(puts, put, more), put.isReplace,
         Complete(put.row), NEW rs, Counts(rs), RowsRight(puts, rs), NEW left, Counts(left),
         NEW e, Takes(rs, {i \in DOMAIN rs : ~ SameKey(put.row, rs[i])}, Len(rs), left, e),
         NEW rs2, IsAppended(left, put.row, rs2)
  PROVE  RowsRight(more, rs2)
<1> DEFINE at == Len(puts) + 1
           last == Len(left) + 1
<1>1. /\ DOMAIN puts \subseteq DOMAIN more /\ at \in DOMAIN more /\ more[at] = put
      /\ \A k \in DOMAIN more : k = at \/ k \in DOMAIN puts
      /\ \A k \in DOMAIN puts : more[k] = puts[k]
  BY DEF IsAppended
<1>2. /\ \A j \in DOMAIN puts :
           Stays(more, j) <=> Stays(puts, j) /\ ~ SameKey(puts[j].row, put.row)
      /\ Stays(more, at)
  BY StaysReplaced
<1>3. /\ DOMAIN left \subseteq DOMAIN rs2 /\ last \in DOMAIN rs2 /\ rs2[last] = put.row
      /\ \A k \in DOMAIN rs2 : k = last \/ k \in DOMAIN left
      /\ \A k \in DOMAIN left : rs2[k] = left[k]
  BY DEF IsAppended
<1> HIDE DEF at, last
<1>4. \A i \in DOMAIN left :
        e[i] \in DOMAIN rs /\ ~ SameKey(put.row, rs[e[i]]) /\ left[i] = rs[e[i]]
  BY DEF Takes, Counts
<1>5. \A j \in DOMAIN rs : ~ SameKey(put.row, rs[j]) => \E i \in DOMAIN left : e[i] = j
  BY DEF Takes, Counts
<1>6. \A i, j \in DOMAIN left : i # j => e[i] # e[j]
  <2>1. \A i, j \in DOMAIN left : i \in Int /\ j \in Int /\ e[i] \in Int /\ e[j] \in Int
    BY DEF Takes, Counts
  <2>2. \A i, j \in DOMAIN left : i < j => e[i] < e[j]
    BY DEF Takes, Counts
  <2> QED
    BY <2>1, <2>2
<1>7. RowsPut(more, rs2)
  <2>1. ASSUME NEW i \in DOMAIN left
        PROVE  \E j \in DOMAIN more : Stays(more, j) /\ rs2[i] = more[j].row
    <3>1. PICK j \in DOMAIN puts : Stays(puts, j) /\ rs[e[i]] = puts[j].row
      BY <1>4 DEF RowsRight, RowsPut
    <3>2. Stays(more, j)
      BY <1>2, <1>4, <3>1, SameKeyFacts
    <3> QED
      BY <1>1, <1>3, <1>4, <3>1, <3>2
  <2> QED
    BY <1>1, <1>2, <1>3, <2>1 DEF RowsPut
<1>8. PutsThere(more, rs2)
  <2>1. ASSUME NEW j \in DOMAIN puts, Stays(more, j)
        PROVE  \E i \in DOMAIN rs2 : rs2[i] = more[j].row
    <3>1. PICK i \in DOMAIN rs : rs[i] = puts[j].row
      BY <1>2, <2>1 DEF RowsRight, PutsThere
    <3>2. ~ SameKey(put.row, rs[i])
      BY <1>2, <2>1, <3>1, SameKeyFacts
    <3>3. PICK m \in DOMAIN left : e[m] = i
      BY <1>5, <3>2
    <3> QED
      BY <1>1, <1>3, <1>4, <3>1, <3>3
  <2> QED
    BY <1>1, <1>3, <2>1 DEF PutsThere
<1>9. KeysOnce(rs2)
  <2>1. \A i, j \in DOMAIN left : i # j => ~ SameKey(left[i], left[j])
    BY <1>4, <1>6 DEF RowsRight, KeysOnce
  <2>2. \A i \in DOMAIN left : ~ SameKey(put.row, left[i]) /\ ~ SameKey(left[i], put.row)
    BY <1>4, SameKeyFacts
  <2> QED
    BY <1>3, <2>1, <2>2 DEF KeysOnce
<1>10. KeysThere(more, rs2)
  <2> SUFFICES ASSUME HasKey, NEW j \in DOMAIN more, Complete(more[j].row)
               PROVE  \E i \in DOMAIN rs2 : SameKey(more[j].row, rs2[i])
    BY DEF KeysThere
  <2>1. CASE SameKey(more[j].row, put.row)
    BY <1>3, <2>1
  <2>2. CASE ~ SameKey(more[j].row, put.row)
    <3>1. j \in DOMAIN puts /\ more[j] = puts[j]
      <4>1. SameKey(put.row, put.row)
        BY DEF SameKey
      <4> QED
        BY <1>1, <2>2, <4>1
    <3>2. PICK i \in DOMAIN rs : SameKey(puts[j].row, rs[i])
      BY <3>1 DEF RowsRight, KeysThere
    <3>3. ~ SameKey(put.row, rs[i])
      BY <2>2, <3>1, <3>2, SameKeyFacts
    <3>4. PICK m \in DOMAIN left : e[m] = i
      BY <1>5, <3>3
    <3> QED
      BY <1>3, <1>4, <3>1, <3>2, <3>4
  <2> QED
    BY <2>1, <2>2
<1> QED
  BY <1>7, <1>8, <1>9, <1>10 DEF RowsRight

\* A delete leaves or takes a put together with all its rivals.
LEMMA StaysDeleted ==
  ASSUME NEW puts, Counts(puts), NEW kept, NEW left, Counts(left),
         NEW f, Takes(puts, kept, Len(puts), left, f),
         \A j, k \in DOMAIN puts : j \in kept /\ SameKey(puts[j].row, puts[k].row) => k \in kept
  PROVE  \A j \in DOMAIN left : Stays(left, j) <=> Stays(puts, f[j])
<1>1. \A i \in DOMAIN left : f[i] \in DOMAIN puts /\ f[i] \in kept /\ left[i] = puts[f[i]]
  BY DEF Takes, Counts
<1>2. \A j \in DOMAIN puts : j \in kept => \E i \in DOMAIN left : f[i] = j
  BY DEF Takes, Counts
<1>3. \A i, j \in DOMAIN left : (i > j <=> f[i] > f[j]) /\ (i >= j <=> f[i] >= f[j])
  <2>1. \A i, j \in DOMAIN left : i \in Int /\ j \in Int /\ f[i] \in Int /\ f[j] \in Int
    BY DEF Takes, Counts
  <2>2. \A i, j \in DOMAIN left : i < j => f[i] < f[j]
    BY DEF Takes, Counts
  <2> QED
    BY <2>1, <2>2
<1> SUFFICES ASSUME NEW j \in DOMAIN left
             PROVE  Stays(left, j) <=> Stays(puts, f[j])
  OBVIOUS
<1> DEFINE at == f[j]
<1>4. at \in DOMAIN puts /\ at \in kept /\ left[j] = puts[at] /\ at = f[j]
  BY <1>1
<1> HIDE DEF at
<1>5. \A k \in DOMAIN left : RivalOf(left, j, k) <=> RivalOf(puts, at, f[k])
  BY <1>1, <1>4 DEF RivalOf
<1>6. \A k \in DOMAIN puts : RivalOf(puts, at, k) => \E i \in DOMAIN left : f[i] = k
  BY <1>2, <1>4 DEF RivalOf
<1>7. ASSUME Stays(puts, at) PROVE Stays(left, j)
  <2>1. left[j].isReplace =>
          \A k \in DOMAIN left : RivalOf(left, j, k) /\ k > j => ~ left[k].isReplace
    BY <1>1, <1>3, <1>4, <1>5, <1>7, StaysIs
  <2>2. ~ left[j].isReplace =>
          \A k \in DOMAIN left : RivalOf(left, j, k) => k >= j /\ ~ left[k].isReplace
    BY <1>1, <1>3, <1>4, <1>5, <1>7, StaysIs
  <2>3. Complete(left[j].row)
    BY <1>4, <1>7, StaysIs
  <2> QED
    BY <2>1, <2>2, <2>3, StaysIs
<1>8. ASSUME Stays(left, j) PROVE Stays(puts, at)
  <2>1. ASSUME puts[at].isReplace, NEW k \in DOMAIN puts, RivalOf(puts, at, k), k > at
        PROVE  ~ puts[k].isReplace
    <3>1. PICK i \in DOMAIN left : f[i] = k
      BY <1>6, <2>1
    <3>2. RivalOf(left, j, i) /\ i > j
      BY <1>3, <1>4, <1>5, <2>1, <3>1
    <3>3. ~ left[i].isReplace
      BY <1>4, <1>8, <2>1, <3>2, StaysIs
    <3> QED
      BY <1>1, <3>1, <3>3
  <2>2. ASSUME ~ puts[at].isReplace, NEW k \in DOMAIN puts, RivalOf(puts, at, k)
        PROVE  k >= at /\ ~ puts[k].isReplace
    <3>1. PICK i \in DOMAIN left : f[i] = k
      BY <1>6, <2>2
    <3>2. RivalOf(left, j, i)
      BY <1>5, <2>2, <3>1
    <3>3. i >= j /\ ~ left[i].isReplace
      BY <1>4, <1>8, <2>2, <3>2, StaysIs
    <3> QED
      BY <1>1, <1>3, <1>4, <3>1, <3>3
  <2>3. Complete(puts[at].row)
    BY <1>4, <1>8, StaysIs
  <2> QED
    BY <2>1, <2>2, <2>3, StaysIs
<1> QED
  BY <1>4, <1>7, <1>8

\* A delete.  A row that is gone takes along its equals.
LEMMA DeleteRight ==
  ASSUME NEW puts, Counts(puts), NEW rs, Counts(rs), RowsRight(puts, rs), NEW gone,
         \A i \in gone : i \in DOMAIN rs,
         \A i \in gone : \A j \in DOMAIN rs : rs[j] = rs[i] => j \in gone,
         NEW kept, kept = {j \in DOMAIN puts : \A i \in gone :
                             puts[j].row # rs[i] /\ ~ SameKey(puts[j].row, rs[i])},
         NEW left, Counts(left), NEW e, Takes(rs, DOMAIN rs \ gone, Len(rs), left, e),
         NEW less, Counts(less), NEW f, Takes(puts, kept, Len(puts), less, f)
  PROVE  RowsRight(less, left)
<1>1. /\ \A i \in DOMAIN left : e[i] \in DOMAIN rs /\ e[i] \notin gone /\ left[i] = rs[e[i]]
      /\ \A j \in DOMAIN rs : j \notin gone => \E i \in DOMAIN left : e[i] = j
  BY DEF Takes, Counts
<1>2. \A i, j \in DOMAIN left : i # j => e[i] # e[j]
  <2>1. \A i, j \in DOMAIN left : i \in Int /\ j \in Int /\ e[i] \in Int /\ e[j] \in Int
    BY DEF Takes, Counts
  <2>2. \A i, j \in DOMAIN left : i < j => e[i] < e[j]
    BY DEF Takes, Counts
  <2> QED
    BY <2>1, <2>2
<1>3. /\ \A i \in DOMAIN less : f[i] \in DOMAIN puts /\ f[i] \in kept /\ less[i] = puts[f[i]]
      /\ \A j \in DOMAIN puts : j \in kept => \E i \in DOMAIN less : f[i] = j
  BY DEF Takes, Counts
<1>4. \A j, k \in DOMAIN puts : j \in kept /\ SameKey(puts[j].row, puts[k].row) => k \in kept
  BY SameKeyFacts
<1>5. \A j \in DOMAIN less : Stays(less, j) <=> Stays(puts, f[j])
  BY <1>4, StaysDeleted
<1>6. \A i \in DOMAIN rs : \A j \in DOMAIN puts :
        j \in kept /\ SameKey(puts[j].row, rs[i]) => i \notin gone
  OBVIOUS
<1>7. \A i \in DOMAIN rs : \A j \in DOMAIN puts : j \in kept /\ puts[j].row = rs[i] => i \notin gone
  OBVIOUS
<1>8. \A i \in DOMAIN rs : \A j \in DOMAIN puts : i \notin gone /\ puts[j].row = rs[i] => j \in kept
  BY DEF RowsRight, KeysOnce
<1>9. RowsPut(less, left)
  <2> SUFFICES ASSUME NEW i \in DOMAIN left
               PROVE  \E j \in DOMAIN less : Stays(less, j) /\ left[i] = less[j].row
    BY DEF RowsPut
  <2>1. PICK j \in DOMAIN puts : Stays(puts, j) /\ rs[e[i]] = puts[j].row
    BY <1>1 DEF RowsRight, RowsPut
  <2>2. j \in kept
    BY <1>1, <1>8, <2>1
  <2>3. PICK m \in DOMAIN less : f[m] = j
    BY <1>3, <2>2
  <2> QED
    BY <1>1, <1>3, <1>5, <2>1, <2>3
<1>10. PutsThere(less, left)
  <2> SUFFICES ASSUME NEW j \in DOMAIN less, Stays(less, j)
               PROVE  \E i \in DOMAIN left : left[i] = less[j].row
    BY DEF PutsThere
  <2>1. PICK i \in DOMAIN rs : rs[i] = puts[f[j]].row
    BY <1>3, <1>5 DEF RowsRight, PutsThere
  <2>2. i \notin gone
    BY <1>3, <1>7, <2>1
  <2>3. PICK m \in DOMAIN left : e[m] = i
    BY <1>1, <2>2
  <2> QED
    BY <1>1, <1>3, <2>1, <2>3
<1>11. KeysOnce(left)
  BY <1>1, <1>2 DEF RowsRight, KeysOnce
<1>12. KeysThere(less, left)
  <2> SUFFICES ASSUME HasKey, NEW j \in DOMAIN less, Complete(less[j].row)
               PROVE  \E i \in DOMAIN left : SameKey(less[j].row, left[i])
    BY DEF KeysThere
  <2>1. PICK i \in DOMAIN rs : SameKey(puts[f[j]].row, rs[i])
    BY <1>3 DEF RowsRight, KeysThere
  <2>2. i \notin gone
    BY <1>3, <1>6, <2>1
  <2>3. PICK m \in DOMAIN left : e[m] = i
    BY <1>1, <2>2
  <2> QED
    BY <1>1, <1>3, <2>1, <2>3
<1> QED
  BY <1>9, <1>10, <1>11, <1>12 DEF RowsRight

-----------------------------------------------------------------------------
(* The invariant *)

\* The rows of the table: a number was cut off at the first other character.
TableRows ==
  {one \in [Columns -> Texts \cup Numbers \cup {Null}] :
     \A c \in Columns : TypeOf(c) \in {"INT", "INTEGER"} => one[c] # "7z"}
TablePuts == [row : TableRows, isReplace : BOOLEAN]

TablesInv ==
  /\ table = NoTable => rows = <<>> /\ given = <<>>
  /\ rows \in Seq(TableRows)
  /\ given \in Seq(TablePuts)
  /\ RowsRight(given, rows)

\* An empty table.
LEMMA NothingThere == RowsRight(<<>>, <<>>)
BY DEF RowsRight, RowsPut, PutsThere, KeysOnce, KeysThere

\* As long as the table is the same one, what is right of it stays right.
LEMMA SameTable ==
  ASSUME table' = table, rows' \in Seq(TableRows), given' \in Seq(TablePuts),
         table = NoTable => rows' = <<>> /\ given' = <<>>, RowsRight(given', rows')
  PROVE  TablesInv'
<1>1. Columns' = Columns /\ TableRows' = TableRows /\ TablePuts' = TablePuts
  BY DEF Columns, TableRows, TablePuts, TypeOf
<1>2. \A one : Complete(one)' <=> Complete(one)
  BY DEF Complete, Required, Columns
<1>3. \A one, other : SameKey(one, other)' <=> SameKey(one, other)
  BY DEF SameKey, HasKey
<1>4. HasKey' <=> HasKey
  BY DEF HasKey
<1>5. \A j : Stays(given, j)' <=> Stays(given', j)
  BY <1>2, <1>3 DEF Stays
<1>6. RowsRight(given, rows)'
  <2>1. RowsPut(given, rows)'
    BY <1>5 DEF RowsRight, RowsPut
  <2>2. PutsThere(given, rows)'
    BY <1>5 DEF RowsRight, PutsThere
  <2>3. KeysOnce(rows)'
    BY <1>3 DEF RowsRight, KeysOnce
  <2>4. KeysThere(given, rows)'
    BY <1>2, <1>3, <1>4 DEF RowsRight, KeysThere
  <2> QED
    BY <2>1, <2>2, <2>3, <2>4 DEF RowsRight
<1> QED
  BY <1>1, <1>6 DEF TablesInv

\* What is asked to be put in makes a row.
LEMMA StoredIsRow ==
  ASSUME NEW data \in Requests
  PROVE  Stored(data) \in TableRows
<1>1. ASSUME NEW c \in DOMAIN data PROVE data[c] \in Texts \cup Numbers
  <2>1. \A d \in Columns : Usual[d] \in Texts \cup Numbers
    BY DEF Usual, Texts, Numbers
  <2>2. DOMAIN Usual = Columns
    BY DEF Usual
  <2>3. \A d : Values(d) \subseteq Texts \cup Numbers
    BY DEF Values, Texts, Numbers
  <2>4. CASE \E d \in Varied : \E v \in Values(d) : data = [Usual EXCEPT ![d] = v]
    BY <1>1, <2>1, <2>2, <2>3, <2>4
  <2>5. CASE \E d \in Varied : data = [k \in Columns \ {d} |-> Usual[k]]
    BY <1>1, <2>1, <2>5
  <2> DEFINE some == UNION {{[Usual EXCEPT ![d] = v] : v \in Values(d)} : d \in Varied}
             less == {[d \in Columns \ {m} |-> Usual[d]] : m \in {d \in Varied : ~ KindOf(d)[3]}}
  <2>6. data \in some \/ data \in less
    <3>1. Requests = some \cup less
      BY DEF Requests
    <3> HIDE DEF some, less
    <3> QED
      BY <3>1
  <2>7. ASSUME data \in some
        PROVE  \E d \in Varied : \E v \in Values(d) : data = [Usual EXCEPT ![d] = v]
    BY <2>7
  <2>8. ASSUME data \in less
        PROVE  \E d \in Varied : data = [k \in Columns \ {d} |-> Usual[k]]
    <3>1. \E m : m \in Varied /\ data = [d \in Columns \ {m} |-> Usual[d]]
      BY <2>8, Zenon
    <3> QED
      BY <3>1
  <2> QED
    BY <2>4, <2>5, <2>6, <2>7, <2>8
<1>2. \A c \in DOMAIN data : /\ Bound(c, data[c]) \in Texts \cup Numbers
                             /\ TypeOf(c) \in {"INT", "INTEGER"} => Bound(c, data[c]) # "7z"
  BY <1>1 DEF Bound, Numbers
<1>3. Null # "7z"
  BY DEF Null
<1> QED
  BY <1>2, <1>3 DEF Stored, TableRows

\* Sequences count.
LEMMA SequencesCount == \A T : \A s \in Seq(T) : Counts(s)
BY DEF Counts

\* No table yet.
LEMMA TablesInitInv == TablesInit => TablesInv
BY NothingThere DEF TablesInit, TablesInv

\* A call that leaves the table alone.
LEMMA TableEndKeeps ==
  ASSUME TablesInv, UNCHANGED <<table, rows, given>>
  PROVE  TablesInv'
BY SameTable DEF TablesInv

\* A table that is new is empty.
LEMMA TableCreateKeeps ==
  ASSUME TablesInv, table = NoTable, rows' = rows, given' = given
  PROVE  TablesInv'
<1>1. rows' = <<>> /\ given' = <<>>
  BY DEF TablesInv
<1>2. RowsRight(given, rows)'
  BY <1>1 DEF RowsRight, RowsPut, PutsThere, KeysOnce, KeysThere
<1> QED
  BY <1>1, <1>2 DEF TablesInv

\* So is one that is gone.
LEMMA TableDropKeeps ==
  ASSUME rows' = <<>>, given' = <<>>
  PROVE  TablesInv'
<1>1. RowsRight(given, rows)'
  BY DEF RowsRight, RowsPut, PutsThere, KeysOnce, KeysThere
<1> QED
  BY <1>1 DEF TablesInv

\* insert, of any row.
LEMMA TableInsertKeeps ==
  ASSUME TablesInv, table # NoTable, NEW data \in Requests, Insert(data)
  PROVE  TablesInv'
<1> DEFINE new == Stored(data)
           put == [row |-> new, isReplace |-> FALSE]
<1>1. CASE Ends(data)
  BY <1>1, TableEndKeeps DEF Insert, End
<1>2. CASE ~ Ends(data)
  <2>1. /\ table' = table /\ given' = Append(given, put)
        /\ rows' = IF Complete(new) /\ \A i \in DOMAIN rows : ~ SameKey(new, rows[i])
                   THEN Append(rows, new) ELSE rows
    BY <1>2 DEF Insert
  <2>2. new \in TableRows /\ put \in TablePuts /\ put.row = new /\ ~ put.isReplace
    BY StoredIsRow DEF TablePuts
  <2>3. rows \in Seq(TableRows) /\ given \in Seq(TablePuts) /\ RowsRight(given, rows)
    BY DEF TablesInv
  <2> HIDE DEF new, put
  <2>4. IsAppended(given, put, given') /\ given' \in Seq(TablePuts)
    BY <2>1, <2>2, <2>3, Appended
  <2>5. IsAppended(rows, new, Append(rows, new)) /\ Append(rows, new) \in Seq(TableRows)
    BY <2>2, <2>3, Appended
  <2>6. rows' \in Seq(TableRows)
    BY <2>1, <2>3, <2>5
  <2>7. IF Complete(put.row) /\ \A i \in DOMAIN rows : ~ SameKey(put.row, rows[i])
        THEN IsAppended(rows, put.row, rows') ELSE rows' = rows
    BY <2>1, <2>2, <2>5
  <2>8. RowsRight(given', rows')
    BY <2>2, <2>3, <2>4, <2>7, InsertRight
  <2> QED
    BY <2>1, <2>4, <2>6, <2>8, SameTable
<1> QED
  BY <1>1, <1>2

\* The same for replace.
LEMMA TableReplaceKeeps ==
  ASSUME TablesInv, table # NoTable, NEW data \in Requests, Replace(data)
  PROVE  TablesInv'
<1> DEFINE new == Stored(data)
           put == [row |-> new, isReplace |-> TRUE]
           left == Left(rows, {i \in DOMAIN rows : ~ SameKey(new, rows[i])})
<1>1. CASE Ends(data)
  BY <1>1, TableEndKeeps DEF Replace, End
<1>2. CASE ~ Ends(data)
  <2>1. /\ table' = table /\ given' = Append(given, put) /\ Complete(new)
        /\ rows' = Append(left, new)
    BY <1>2 DEF Replace
  <2>2. new \in TableRows /\ put \in TablePuts /\ put.row = new /\ put.isReplace
    BY StoredIsRow DEF TablePuts
  <2>3. /\ rows \in Seq(TableRows) /\ given \in Seq(TablePuts) /\ RowsRight(given, rows)
        /\ Counts(rows)
    BY SequencesCount DEF TablesInv
  <2> HIDE DEF new, put
  <2>4. IsAppended(given, put, given') /\ given' \in Seq(TablePuts)
    BY <2>1, <2>2, <2>3, Appended
  <2>5. left \in Seq(TableRows)
    BY <2>3, LeftIs
  <2>6. PICK e : Takes(rows, {i \in DOMAIN rows : ~ SameKey(put.row, rows[i])}, Len(rows), left, e)
    BY <2>2, <2>3, LeftIs
  <2> HIDE DEF left
  <2>7. Counts(left)
    BY <2>5, SequencesCount
  <2>8. IsAppended(left, put.row, rows') /\ rows' \in Seq(TableRows)
    BY <2>1, <2>2, <2>5, Appended
  <2>9. RowsRight(given', rows')
    BY <2>1, <2>2, <2>3, <2>4, <2>6, <2>7, <2>8, ReplaceRight
  <2> QED
    BY <2>1, <2>4, <2>8, <2>9, SameTable
<1> QED
  BY <1>1, <1>2

\* And for deleteRow.
LEMMA TableDeleteKeeps ==
  ASSUME TablesInv, table # NoTable, NEW data, DeleteRow(data)
  PROVE  TablesInv'
<1> DEFINE gone == {i \in DOMAIN rows : Matches(data, rows[i])}
           kept == {j \in DOMAIN given : \A i \in gone :
                      given[j].row # rows[i] /\ ~ SameKey(given[j].row, rows[i])}
<1>1. CASE Ends(data)
  BY <1>1, TableEndKeeps DEF DeleteRow, End
<1>2. CASE ~ Ends(data)
  <2>1. table' = table /\ rows' = Left(rows, DOMAIN rows \ gone) /\ given' = Left(given, kept)
    BY <1>2 DEF DeleteRow
  <2>2. /\ rows \in Seq(TableRows) /\ given \in Seq(TablePuts) /\ RowsRight(given, rows)
        /\ Counts(rows) /\ Counts(given)
    BY SequencesCount DEF TablesInv
  <2>3. (\A i \in gone : i \in DOMAIN rows)
        /\ \A i \in gone : \A j \in DOMAIN rows : rows[j] = rows[i] => j \in gone
    OBVIOUS
  <2>4. kept = {j \in DOMAIN given : \A i \in gone :
                  given[j].row # rows[i] /\ ~ SameKey(given[j].row, rows[i])}
    OBVIOUS
  <2> HIDE DEF gone, kept
  <2>5. rows' \in Seq(TableRows) /\ \E e : Takes(rows, DOMAIN rows \ gone, Len(rows), rows', e)
    BY <2>1, <2>2, LeftIs
  <2>6. given' \in Seq(TablePuts) /\ \E f : Takes(given, kept, Len(given), given', f)
    BY <2>1, <2>2, LeftIs
  <2>7. Counts(rows') /\ Counts(given')
    BY <2>5, <2>6, SequencesCount
  <2>8. PICK e : Takes(rows, DOMAIN rows \ gone, Len(rows), rows', e)
    BY <2>5
  <2>9. PICK f : Takes(given, kept, Len(given), given', f)
    BY <2>6
  <2>10. RowsRight(given', rows')
    BY <2>2, <2>3, <2>4, <2>7, <2>8, <2>9, DeleteRight
  <2> QED
    BY <2>1, <2>5, <2>6, <2>10, SameTable
<1> QED
  BY <1>1, <1>2

\* Every call.
LEMMA TablesNextInv == TablesInv /\ [TablesNext]_dbVars => TablesInv'
<1> SUFFICES ASSUME TablesInv, [TablesNext]_dbVars PROVE TablesInv'
  OBVIOUS
<1>1. CASE Open
  BY <1>1, TableEndKeeps DEF Open, End
<1>2. CASE Close
  BY <1>2, TableEndKeeps DEF Close
<1>3. CASE table = NoTable /\ \E name \in DOMAIN Schemas : CreateTable(name)
  BY <1>3, TableCreateKeeps DEF CreateTable, End
<1>4. CASE DropTable
  BY <1>4, TableEndKeeps, TableDropKeeps DEF DropTable, End
<1>5. CASE table # NoTable /\ \E data \in Requests : Insert(data) \/ Replace(data)
  BY <1>5, TableInsertKeeps, TableReplaceKeeps
<1>6. CASE table # NoTable /\ \E i \in DOMAIN rows : DeleteRow(SelectAll[i])
  BY <1>6, TableDeleteKeeps
<1>7. CASE UNCHANGED dbVars
  BY <1>7, TableEndKeeps DEF dbVars
<1> QED
  BY <1>1, <1>2, <1>3, <1>4, <1>5, <1>6, <1>7 DEF TablesNext

\* What was read finds the row it was read from, and no other, unless something
\* in it is NULL or cut off.
LEMMA ReadBack ==
  ASSUME NEW one \in TableRows, NEW other \in TableRows
  PROVE  LET sent == ReadRow(one)
         IN IF HasNull(one) THEN ~ Matches(sent, other)
            ELSE Matches(sent, other) <=> ~ HasNul(other) /\ other = sent
<1> DEFINE sent == ReadRow(one)
<1>1. /\ DOMAIN sent = Columns /\ \A c \in Columns : sent[c] = ReadValue(c, one[c])
      /\ \A c \in Columns : one[c] \in Texts \cup Numbers \cup {Null}
      /\ \A c \in Columns : other[c] \in Texts \cup Numbers \cup {Null}
      /\ \A c \in Columns : TypeOf(c) \in {"INT", "INTEGER"} => one[c] # "7z"
      /\ \A c \in Columns : TypeOf(c) \in {"INT", "INTEGER"} => other[c] # "7z"
      /\ other = [c \in Columns |-> other[c]] /\ sent = [c \in Columns |-> sent[c]]
  BY DEF ReadRow, TableRows
<1> HIDE DEF sent
<1>2. CASE HasNull(one)
  <2>1. PICK c \in Columns : one[c] = Null
    BY <1>2 DEF HasNull
  <2>2. sent[c] = "" /\ Bound(c, sent[c]) = ""
    BY <1>1, <2>1 DEF ReadValue, Bound
  <2>3. other[c] # ""
    BY <1>1 DEF Texts, Numbers, Null
  <2> QED
    BY <1>1, <1>2, <2>2, <2>3 DEF Matches, sent
<1>3. CASE ~ HasNull(one)
  <2>1. ASSUME NEW c \in Columns
        PROVE  /\ Bound(c, sent[c]) = sent[c] /\ sent[c] # Null
               /\ TypeOf(c) = "TEXT" => sent[c] # "w NUL z"
    <3>1. one[c] # Null
      BY <1>3 DEF HasNull
    <3>2. sent[c] = IF TypeOf(c) = "TEXT" /\ one[c] = "w NUL z" THEN "w" ELSE one[c]
      BY <1>1, <3>1 DEF ReadValue
    <3>3. TypeOf(c) \in {"INT", "INTEGER"} => sent[c] # "7z"
      BY <1>1, <3>2
    <3> QED
      BY <3>1, <3>2, <3>3 DEF Bound, Null
  <2>2. Matches(sent, other) <=> \A c \in Columns : other[c] = sent[c]
    BY <1>1, <2>1 DEF Matches
  <2>3. (\A c \in Columns : other[c] = sent[c]) <=> other = sent
    BY <1>1
  <2>4. other = sent => ~ HasNul(other)
    BY <2>1 DEF HasNul
  <2> QED
    BY <1>3, <2>2, <2>3, <2>4 DEF sent
<1> QED
  BY <1>2, <1>3

\* The invariant says what is to be shown.
LEMMA TablesInvImplies == TablesInv => TablesExact
<1> SUFFICES ASSUME TablesInv PROVE TablesExact
  OBVIOUS
<1>1. rows \in Seq(TableRows) /\ RowsRight(given, rows)
  BY DEF TablesInv
<1>2. {rows[i] : i \in DOMAIN rows} = {given[j].row : j \in {k \in DOMAIN given : Stays(given, k)}}
  BY <1>1 DEF RowsRight, RowsPut, PutsThere
<1>3. \A i, j \in DOMAIN rows : i # j => ~ SameKey(rows[i], rows[j])
  BY <1>1 DEF RowsRight, KeysOnce
<1>4. \A i, j \in DOMAIN rows :
        LET sent == SelectAll[i]
        IN IF HasNull(rows[i]) THEN ~ Matches(sent, rows[j])
           ELSE Matches(sent, rows[j]) <=> ~ HasNul(rows[j]) /\ rows[j] = sent
  <2> SUFFICES ASSUME NEW i \in DOMAIN rows, NEW j \in DOMAIN rows
               PROVE  LET sent == SelectAll[i]
                      IN IF HasNull(rows[i]) THEN ~ Matches(sent, rows[j])
                         ELSE Matches(sent, rows[j]) <=> ~ HasNul(rows[j]) /\ rows[j] = sent
    OBVIOUS
  <2>1. rows[i] \in TableRows /\ rows[j] \in TableRows
    BY <1>1
  <2>2. SelectAll[i] = ReadRow(rows[i])
    BY DEF SelectAll
  <2> QED
    BY <2>1, <2>2, ReadBack
<1> QED
  BY <1>2, <1>3, <1>4 DEF TablesExact

\* After any calls a table holds what its users were told of, and what was read
\* of a row deletes that row and no other, apart from NULL and NUL.
THEOREM TablesRight == TablesSpec => []TablesExact
<1>1. TablesInit => TablesInv
  BY TablesInitInv
<1>2. TablesInv /\ [TablesNext]_dbVars => TablesInv'
  BY TablesNextInv
<1>3. TablesInv => TablesExact
  BY TablesInvImplies
<1> QED
  BY <1>1, <1>2, <1>3, PTL DEF TablesSpec

-----------------------------------------------------------------------------
(* Powers *)

\* p is the loop of Power.
IsPowers(base, e, p) == p = [k \in 0 .. e |-> IF k = 0 THEN 1 ELSE base * p[k - 1]]

\* There is such a loop, of any length.
LEMMA PowersExist == ASSUME NEW base PROVE \A e \in Nat : \E p : IsPowers(base, e, p)
<1> DEFINE G == {e \in Nat : \E p : IsPowers(base, e, p)}
<1>1. 0 \in G
  <2> DEFINE p == [k \in 0 .. 0 |-> 1]
  <2>1. IsPowers(base, 0, p)
    BY DEF IsPowers
  <2> QED
    BY <2>1
<1>2. ASSUME NEW e \in Nat, e \in G PROVE e + 1 \in G
  <2>1. PICK p : IsPowers(base, e, p)
    BY <1>2
  <2> DEFINE q == [k \in 0 .. e + 1 |-> IF k = e + 1 THEN base * p[e] ELSE p[k]]
             r == [k \in 0 .. e + 1 |-> IF k = 0 THEN 1 ELSE base * q[k - 1]]
  <2>2. ASSUME NEW k \in 0 .. e + 1
        PROVE  (IF k = e + 1 THEN base * p[e] ELSE p[k]) = (IF k = 0 THEN 1 ELSE base * q[k - 1])
    <3>1. CASE k = e + 1
      <4>1. k # 0 /\ k - 1 = e /\ e \in 0 .. e + 1 /\ e # e + 1
        BY <3>1
      <4>2. q[e] = p[e]
        BY <4>1
      <4> HIDE DEF q
      <4> QED
        BY <3>1, <4>1, <4>2
    <3>2. CASE k # e + 1
      <4>1. k \in 0 .. e
        BY <3>2
      <4>2. p[k] = IF k = 0 THEN 1 ELSE base * p[k - 1]
        BY <2>1, <4>1 DEF IsPowers
      <4>3. k # 0 => k - 1 \in 0 .. e + 1 /\ k - 1 # e + 1
        BY <4>1
      <4>4. k # 0 => q[k - 1] = p[k - 1]
        BY <4>3
      <4> HIDE DEF q
      <4> QED
        BY <3>2, <4>2, <4>4
    <3> QED
      BY <3>1, <3>2
  <2>3. q = r
    BY <2>2
  <2> HIDE DEF q
  <2>4. IsPowers(base, e + 1, q)
    BY <2>3 DEF IsPowers
  <2> QED
    BY <2>4
<1>3. \A e \in Nat : e \in G
  <2> HIDE DEF G
  <2> QED
    BY <1>1, <1>2, AllNumbers
<1> QED
  BY <1>3

\* One of them begins as the other.
LEMMA PowersAgree ==
  ASSUME NEW base, NEW e \in Nat, NEW f \in Nat, e <= f, NEW p, NEW q, IsPowers(base, e, p), IsPowers(base, f, q)
  PROVE  \A k \in 0 .. e : p[k] = q[k]
<1> DEFINE G == {k \in Nat : k <= e => p[k] = q[k]}
<1>1. 0 \in G
  <2>1. 0 \in 0 .. e /\ 0 \in 0 .. f
    OBVIOUS
  <2>2. p[0] = 1 /\ q[0] = 1
    BY <2>1 DEF IsPowers
  <2> QED
    BY <2>2
<1>2. ASSUME NEW k \in Nat, k \in G PROVE k + 1 \in G
  <2> SUFFICES ASSUME k + 1 <= e PROVE p[k + 1] = q[k + 1]
    OBVIOUS
  <2>1. k + 1 \in 0 .. e /\ k + 1 \in 0 .. f /\ k + 1 # 0 /\ k + 1 - 1 = k /\ k <= e
    OBVIOUS
  <2>2. p[k + 1] = base * p[k] /\ q[k + 1] = base * q[k]
    BY <2>1 DEF IsPowers
  <2> QED
    BY <1>2, <2>1, <2>2
<1>3. \A k \in Nat : k \in G
  <2> HIDE DEF G
  <2> QED
    BY <1>1, <1>2, AllNumbers
<1> QED
  BY <1>3

\* Power is what it is called.
LEMMA PowerFacts ==
  ASSUME NEW base \in Nat, base >= 2
  PROVE
  /\ Power(base, 0) = 1
  /\ \A e \in Nat : Power(base, e + 1) = base * Power(base, e)
  /\ \A e \in Nat : Power(base, e) \in Nat /\ e < Power(base, e)
<1> DEFINE P(e) == CHOOSE p : IsPowers(base, e, p)
<1>1. ASSUME NEW e \in Nat PROVE Power(base, e) = P(e)[e] /\ IsPowers(base, e, P(e))
  <2>1. IsPowers(base, e, P(e))
    BY PowersExist
  <2>2. Power(base, e) = P(e)[e]
    BY DEF Power, IsPowers
  <2> QED
    BY <2>1, <2>2
<1> HIDE DEF P
<1>2. Power(base, 0) = 1
  BY <1>1 DEF IsPowers
<1>3. ASSUME NEW e \in Nat PROVE Power(base, e + 1) = base * Power(base, e)
  <2>1. e \in 0 .. e + 1 /\ e + 1 \in 0 .. e + 1 /\ e \in 0 .. e /\ e + 1 # 0 /\ e + 1 - 1 = e
        /\ e + 1 \in Nat /\ e <= e + 1
    OBVIOUS
  <2>2. IsPowers(base, e, P(e)) /\ IsPowers(base, e + 1, P(e + 1))
    BY <1>1, <2>1
  <2>3. P(e)[e] = P(e + 1)[e]
    BY <2>1, <2>2, PowersAgree
  <2>4. P(e + 1)[e + 1] = base * P(e + 1)[e]
    BY <2>1, <2>2 DEF IsPowers
  <2> QED
    BY <1>1, <2>1, <2>3, <2>4
<1> DEFINE G == {e \in Nat : Power(base, e) \in Nat /\ e < Power(base, e)}
<1>4. 0 \in G
  BY <1>2
<1>5. ASSUME NEW e \in Nat, e \in G PROVE e + 1 \in G
  BY <1>3, <1>5
<1>6. \A e \in Nat : e \in G
  <2> HIDE DEF G
  <2> QED
    BY <1>4, <1>5, AllNumbers
<1> QED
  BY <1>2, <1>3, <1>6

\* Powers of two.
LEMMA TwoFacts ==
  /\ Power(2, 0) = 1
  /\ \A e \in Nat : Power(2, e + 1) = 2 * Power(2, e)
  /\ \A e \in Nat : Power(2, e) \in Nat /\ e < Power(2, e)
BY PowerFacts

\* Powers of ten.
LEMMA TenFacts ==
  /\ Power(10, 0) = 1
  /\ \A e \in Nat : Power(10, e + 1) = 10 * Power(10, e)
  /\ \A e \in Nat : Power(10, e) \in Nat /\ e < Power(10, e)
BY PowerFacts

\* Powers multiply as their exponents add, and grow with them.
LEMMA TenSum ==
  ASSUME NEW d \in Nat, NEW e \in Nat
  PROVE  Power(10, d + e) = Power(10, d) * Power(10, e)
<1> DEFINE G == {k \in Nat : Power(10, d + k) = Power(10, d) * Power(10, k)}
<1>1. 0 \in G
  BY TenFacts
<1>2. ASSUME NEW k \in Nat, k \in G PROVE k + 1 \in G
  <2>1. Power(10, d + k) = Power(10, d) * Power(10, k)
    BY <1>2
  <2>2. d + k \in Nat /\ d + (k + 1) = d + k + 1
    OBVIOUS
  <2>3. Power(10, d + k + 1) = 10 * Power(10, d + k) /\ Power(10, k + 1) = 10 * Power(10, k)
    BY <2>2, TenFacts
  <2>4. Power(10, d) \in Nat /\ Power(10, k) \in Nat
    BY TenFacts
  <2>5. 10 * (Power(10, d) * Power(10, k)) = Power(10, d) * (10 * Power(10, k))
    BY <2>4
  <2>6. Power(10, d + (k + 1)) = Power(10, d) * Power(10, k + 1)
    BY <2>1, <2>2, <2>3, <2>5
  <2> QED
    BY <2>6
<1>3. \A k \in Nat : k \in G
  <2> HIDE DEF G
  <2> QED
    BY <1>1, <1>2, AllNumbers
<1> QED
  BY <1>3

\* A power further on is larger by its factor.
LEMMA TenGrows ==
  ASSUME NEW d \in Nat, NEW e \in Nat, d <= e
  PROVE  \E q \in Nat \ {0} : Power(10, e) = Power(10, d) * q
<1>1. e - d \in Nat /\ d + (e - d) = e
  OBVIOUS
<1>2. Power(10, e - d) \in Nat \ {0}
  BY <1>1, TenFacts
<1>3. Power(10, e) = Power(10, d) * Power(10, e - d)
  BY <1>1, TenSum
<1> QED
  BY <1>2, <1>3

\* Powers are in the order of their exponents.
LEMMA TenOrder ==
  ASSUME NEW d \in Nat, NEW e \in Nat, d <= e
  PROVE  Power(10, d) <= Power(10, e)
<1>1. PICK q \in Nat \ {0} : Power(10, e) = Power(10, d) * q
  BY TenGrows
<1>2. Power(10, d) \in Nat
  BY TenFacts
<1>3. Power(10, d) * q >= Power(10, d)
  BY <1>2
<1> QED
  BY <1>1, <1>3

-----------------------------------------------------------------------------
(* Units and multiples of them *)

\* Absolute values: of a number and its negative, and of a sum.
LEMMA AbsFacts ==
  ASSUME NEW n \in Int
  PROVE  AbsOf(n) \in Nat /\ n <= AbsOf(n) /\ -n <= AbsOf(n) /\ (AbsOf(n) = n \/ AbsOf(n) = -n)
BY DEF AbsOf

\* The number of surplus digits of n is e.
HasSurplus(n, e) ==
  /\ AbsOf(n) < Power(10, e + Digits)
  /\ e = 0 \/ Power(10, e + Digits - 1) <= AbsOf(n)

\* Every number has one number of surplus digits.
LEMMA SurplusIs ==
  ASSUME NEW n \in Int
  PROVE  /\ Surplus(n) \in Nat /\ HasSurplus(n, Surplus(n))
         /\ \A e \in Nat : HasSurplus(n, e) => e = Surplus(n)
<1> USE AmountsAssumption
<1>1. AbsOf(n) \in Nat
  BY AbsFacts
<1> DEFINE S == {e \in Nat : AbsOf(n) < Power(10, e + Digits)}
<1>2. AbsOf(n) \in S
  <2>1. AbsOf(n) + Digits \in Nat
    BY <1>1
  <2>2. AbsOf(n) + Digits < Power(10, AbsOf(n) + Digits) /\ Power(10, AbsOf(n) + Digits) \in Nat
    BY <2>1, TenFacts
  <2> QED
    BY <1>1, <2>2
<1>3. PICK e \in S : \A d \in S : e <= d
  <2>1. S \in SUBSET Nat /\ S # {}
    BY <1>2
  <2> HIDE DEF S
  <2> QED
    BY <2>1, LeastOne
<1>4. e \in 0 .. AbsOf(n)
  BY <1>1, <1>2, <1>3
<1>5. e # 0 => Power(10, e + Digits - 1) <= AbsOf(n)
  <2> SUFFICES ASSUME e # 0 PROVE Power(10, e + Digits - 1) <= AbsOf(n)
    OBVIOUS
  <2>1. e - 1 \in Nat /\ ~ (e <= e - 1) /\ e - 1 + Digits = e + Digits - 1 /\ e + Digits - 1 \in Nat
    BY <1>4
  <2>2. e - 1 \notin S
    <3> HIDE DEF S
    <3> QED
      BY <1>3, <2>1
  <2>3. ~ (AbsOf(n) < Power(10, e - 1 + Digits))
    BY <2>1, <2>2
  <2>4. Power(10, e + Digits - 1) \in Nat
    BY <2>1, TenFacts
  <2> QED
    BY <1>1, <2>1, <2>3, <2>4
<1>6. HasSurplus(n, e)
  BY <1>3, <1>5 DEF HasSurplus
<1> HIDE DEF S
<1>7. Surplus(n) = CHOOSE d \in 0 .. AbsOf(n) : HasSurplus(n, d)
  BY DEF Surplus, HasSurplus
<1>8. Surplus(n) \in 0 .. AbsOf(n) /\ HasSurplus(n, Surplus(n))
  BY <1>4, <1>6, <1>7
<1>9. ASSUME NEW c \in Nat, NEW d \in Nat, HasSurplus(n, c), HasSurplus(n, d), c < d
      PROVE  FALSE
  <2>1. c + Digits \in Nat /\ d + Digits - 1 \in Nat /\ c + Digits <= d + Digits - 1 /\ d # 0
    BY <1>9
  <2>2. Power(10, c + Digits) <= Power(10, d + Digits - 1)
    BY <2>1, TenOrder
  <2>3. AbsOf(n) < Power(10, c + Digits) /\ Power(10, d + Digits - 1) <= AbsOf(n)
    BY <1>9, <2>1 DEF HasSurplus
  <2>4. Power(10, c + Digits) \in Nat /\ Power(10, d + Digits - 1) \in Nat
    BY <2>1, TenFacts
  <2> QED
    BY <1>1, <2>2, <2>3, <2>4
<1>10. Surplus(n) \in Nat
  BY <1>1, <1>8
<1>11. ASSUME NEW d \in Nat, HasSurplus(n, d) PROVE d = Surplus(n)
  <2>1. ~ (d < Surplus(n)) /\ ~ (Surplus(n) < d)
    BY <1>8, <1>9, <1>10, <1>11
  <2> QED
    BY <1>10, <2>1
<1> QED
  BY <1>8, <1>10, <1>11

\* Multiples of U are at least U apart.
LEMMA NextMultiple ==
  ASSUME NEW U \in Nat \ {0}, NEW p \in Int, NEW q \in Int, U * p < U * q
  PROVE  U * p + U <= U * q
OBVIOUS

\* m is one of the two multiples of U around n, and none is nearer.
IsNearest(U, n, m) ==
  /\ m \in {U * (n \div U), U * (n \div U) + U}
  /\ AbsOf(m - n) <= AbsOf(U * (n \div U) - n)
  /\ AbsOf(m - n) <= AbsOf(U * (n \div U) + U - n)

\* The nearest multiple of U does not pass any multiple of U.
LEMMA Nearest ==
  ASSUME NEW U \in Nat \ {0}, NEW n \in Int, NEW m, IsNearest(U, n, m)
  PROVE  /\ m \in Int /\ \E q \in Int : m = U * q
         /\ 2 * AbsOf(m - n) <= U
         /\ \A T \in Int : (n <= U * T => m <= U * T) /\ (U * T <= n => U * T <= m)
<1> DEFINE D == n \div U
           low == U * D
<1>1. D \in Int /\ low \in Int /\ low <= n /\ n < low + U
  OBVIOUS
<1>2. U * (D + 1) = low + U
  BY <1>1
<1>3. m \in Int /\ \E q \in Int : m = U * q
  <2>1. m = U * D \/ m = U * (D + 1)
    BY <1>2 DEF IsNearest
  <2>2. D \in Int /\ D + 1 \in Int
    BY <1>1
  <2>3. m \in Int
    BY <1>1 DEF IsNearest
  <2>4. CASE m = U * D
    BY <2>2, <2>3, <2>4
  <2>5. CASE m = U * (D + 1)
    <3> DEFINE q == D + 1
    <3>1. q \in Int /\ m = U * q
      BY <2>2, <2>5
    <3> HIDE DEF q
    <3> QED
      BY <2>3, <3>1
  <2> QED
    BY <2>1, <2>4, <2>5
<1>4. m \in {low, low + U} /\ AbsOf(m - n) <= AbsOf(low - n) /\ AbsOf(m - n) <= AbsOf(low + U - n)
  BY DEF IsNearest
<1> HIDE DEF low
<1>5. AbsOf(low - n) = n - low /\ AbsOf(low + U - n) = low + U - n
  BY <1>1 DEF AbsOf
<1>6. 2 * AbsOf(m - n) <= U
  BY <1>1, <1>3, <1>4, <1>5, AbsFacts
<1>7. ASSUME NEW T \in Int, n <= U * T PROVE m <= U * T
  <2>1. CASE n = U * T
    <3>1. m = n \/ AbsOf(m - n) <= 0
      <4>1. ~ (low < n)
        <5> SUFFICES ASSUME low < n PROVE FALSE
          OBVIOUS
        <5>1. U * D < U * T /\ U * T < U * (D + 1)
          BY <1>1, <1>2, <2>1 DEF low
        <5>2. D < T /\ T < D + 1
          BY <1>1, <5>1
        <5> QED
          BY <1>1, <5>2
      <4>2. low = n
        BY <1>1, <4>1
      <4> QED
        BY <1>1, <1>4, <1>5, <4>2
    <3>2. m = n
      BY <1>3, <3>1 DEF AbsOf
    <3> QED
      BY <1>3, <2>1, <3>2
  <2>2. CASE n # U * T
    <3>1. U * D < U * T
      BY <1>1, <1>7, <2>2 DEF low
    <3>2. U * D + U <= U * T
      BY <1>1, <3>1, NextMultiple
    <3> QED
      BY <1>1, <1>4, <3>2 DEF low
  <2> QED
    BY <2>1, <2>2
<1>8. ASSUME NEW T \in Int, U * T <= n PROVE U * T <= m
  <2>1. U * T < U * (D + 1)
    BY <1>1, <1>2, <1>8
  <2>2. T <= D
    <3>1. T < D + 1
      BY <1>1, <2>1
    <3> QED
      BY <1>1, <3>1
  <2>3. U * T <= U * D
    BY <1>1, <2>2
  <2> QED
    BY <1>1, <1>4, <2>3 DEF low
<1> QED
  BY <1>3, <1>6, <1>7, <1>8

\* The unit of a number is a power of ten.
LEMMA UnitFacts ==
  ASSUME NEW n \in Int
  PROVE  /\ Unit(n) \in Nat \ {0} /\ RoundedOff(n) \in Nat
         /\ \E T \in Nat \ {0} : Power(10, Surplus(n) + Digits) = Unit(n) * T
         /\ Surplus(n) # 0 =>
              \E V \in Nat \ {0} : Power(10, Surplus(n) + Digits - 1) = Unit(n) * V
<1> DEFINE e == Surplus(n)
<1>1. e \in Nat
  BY SurplusIs
<1>2. Unit(n) = Power(10, e)
  BY DEF Unit
<1> HIDE DEF e
<1>3. Unit(n) \in Nat \ {0} /\ RoundedOff(n) \in Nat
  BY <1>1, <1>2, TenFacts DEF RoundedOff
<1>4. e + Digits \in Nat /\ e <= e + Digits /\ e + Digits - 1 \in Nat /\ e <= e + Digits - 1
  BY <1>1, AmountsAssumption
<1>5. \E T \in Nat \ {0} : Power(10, e + Digits) = Unit(n) * T
  BY <1>1, <1>2, <1>4, TenGrows
<1>6. \E V \in Nat \ {0} : Power(10, e + Digits - 1) = Unit(n) * V
  BY <1>1, <1>2, <1>4, TenGrows
<1> QED
  BY <1>3, <1>5, <1>6 DEF e

\* A number that is written as it is.
Even(n) == \E q \in Int : n = Unit(n) * q

\* What is written of n is written again as it is, and is off by no more than
\* half a unit, its own or that of n.
LEMMA WrittenFacts ==
  ASSUME NEW n \in Int, NEW m \in Written(n)
  PROVE  /\ m \in Int /\ Even(m)
         /\ 2 * AbsOf(m - n) <= RoundedOff(n) /\ RoundedOff(n) <= RoundedOff(m)
<1> DEFINE e == Surplus(n)
           U == Unit(n)
<1>1. e \in Nat /\ HasSurplus(n, e)
  BY SurplusIs
<1>2. U \in Nat \ {0} /\ U = Power(10, e)
  BY UnitFacts DEF Unit
<1>3. /\ m \in Int /\ \E q \in Int : m = U * q
      /\ 2 * AbsOf(m - n) <= U
      /\ \A T \in Int : (n <= U * T => m <= U * T) /\ (U * T <= n => U * T <= m)
  <2> DEFINE low == Unit(n) * (n \div Unit(n))
             either == {low, low + Unit(n)}
  <2>1. Written(n) = {x \in either : \A other \in either : AbsOf(x - n) <= AbsOf(other - n)}
    BY DEF Written
  <2>2. m \in either /\ \A other \in either : AbsOf(m - n) <= AbsOf(other - n)
    <3> HIDE DEF either
    <3> QED
      BY <2>1
  <2>3. /\ m \in {low, low + Unit(n)} /\ AbsOf(m - n) <= AbsOf(low - n)
        /\ AbsOf(m - n) <= AbsOf(low + Unit(n) - n)
    <3>1. low \in either /\ low + Unit(n) \in either /\ either = {low, low + Unit(n)}
      OBVIOUS
    <3> HIDE DEF low, either
    <3>2. AbsOf(m - n) <= AbsOf(low - n)
      BY <2>2, <3>1
    <3>3. AbsOf(m - n) <= AbsOf(low + Unit(n) - n)
      <4> DEFINE high == low + Unit(n)
      <4>1. high \in either /\ high = low + Unit(n)
        BY <3>1
      <4> HIDE DEF high
      <4>2. AbsOf(m - n) <= AbsOf(high - n)
        BY <2>2, <4>1
      <4>3. low \in Int /\ Unit(n) \in Int
        BY <1>2 DEF low
      <4> QED
        BY <4>1, <4>2, <4>3
    <3> QED
      BY <2>2, <3>1, <3>2, <3>3
  <2>4. IsNearest(U, n, m) /\ U \in Nat \ {0}
    <3>1. IsNearest(U, n, m) <=>
            /\ m \in {low, low + Unit(n)} /\ AbsOf(m - n) <= AbsOf(low - n)
            /\ AbsOf(m - n) <= AbsOf(low + Unit(n) - n)
      BY Zenon DEF IsNearest
    <3> QED
      BY <1>2, <2>3, <3>1
  <2> HIDE DEF U, low, either
  <2> QED
    BY <2>4, Nearest
<1>4. PICK T \in Nat \ {0} : Power(10, e + Digits) = U * T
  BY UnitFacts
<1>5. e # 0 => \E V \in Nat \ {0} : Power(10, e + Digits - 1) = U * V
  BY UnitFacts
<1>6. \E q \in Int : m = Unit(n) * q
  BY <1>3
<1>a. 2 * AbsOf(m - n) <= RoundedOff(n) /\ RoundedOff(n) <= U
  BY <1>2, <1>3, AbsFacts DEF RoundedOff
<1> HIDE DEF e, U
<1>7. AbsOf(m) <= Power(10, e + Digits)
  <2>1. n <= U * T /\ -n <= U * T
    BY <1>1, <1>2, <1>4, AbsFacts DEF HasSurplus
  <2>2. U * (-T) = -(U * T) /\ -T \in Int /\ T \in Int /\ U * T \in Int
    BY <1>2
  <2>3. U * (-T) <= n
    BY <2>1, <2>2
  <2>4. m <= U * T /\ U * (-T) <= m
    BY <1>3, <2>1, <2>2, <2>3
  <2> QED
    BY <1>3, <1>4, <2>2, <2>4, AbsFacts
<1>8. e # 0 => Power(10, e + Digits - 1) <= AbsOf(m)
  <2> SUFFICES ASSUME e # 0 PROVE Power(10, e + Digits - 1) <= AbsOf(m)
    OBVIOUS
  <2>1. PICK V \in Nat \ {0} : Power(10, e + Digits - 1) = U * V
    BY <1>5
  <2>2. U * V <= AbsOf(n)
    BY <1>1, <2>1 DEF HasSurplus
  <2>3. U * (-V) = -(U * V) /\ -V \in Int /\ V \in Int /\ U * V \in Int
    BY <1>2
  <2>4. U * V <= n \/ n <= U * (-V)
    BY <2>2, <2>3, AbsFacts
  <2>5. U * V <= m \/ m <= U * (-V)
    BY <1>3, <2>3, <2>4
  <2> QED
    BY <1>3, <2>1, <2>3, <2>5, AbsFacts
<1>9. CASE AbsOf(m) < Power(10, e + Digits)
  <2>1. HasSurplus(m, e)
    BY <1>8, <1>9 DEF HasSurplus
  <2>2. Surplus(m) = Surplus(n)
    BY <1>1, <1>3, <2>1, SurplusIs DEF e
  <2>3. Unit(m) = Unit(n)
    BY <2>2 DEF Unit
  <2>4. Even(m)
    BY <1>6, <2>3 DEF Even
  <2>5. RoundedOff(m) = RoundedOff(n)
    BY <2>3 DEF RoundedOff
  <2>6. RoundedOff(n) \in Int
    BY UnitFacts
  <2> QED
    BY <1>3, <1>a, <2>4, <2>5, <2>6
<1>10. CASE ~ (AbsOf(m) < Power(10, e + Digits))
  <2>1. /\ e + Digits \in Nat /\ e + 1 \in Nat /\ e + 1 + Digits = e + Digits + 1
        /\ e + 1 + Digits - 1 = e + Digits /\ e + 1 <= e + Digits
    BY <1>1, AmountsAssumption
  <2>2. Power(10, e + Digits) \in Nat \ {0} /\ Power(10, e + Digits + 1) = 10 * Power(10, e + Digits)
    BY <2>1, TenFacts
  <2>3. AbsOf(m) = Power(10, e + Digits)
    BY <1>3, <1>7, <1>10, <2>2, AbsFacts
  <2>4. HasSurplus(m, e + 1)
    BY <2>1, <2>2, <2>3 DEF HasSurplus
  <2>5. Surplus(m) = e + 1
    BY <1>3, <2>1, <2>4, SurplusIs
  <2>6. Unit(m) = Power(10, e + 1) /\ Power(10, e + 1) = 10 * U
    BY <1>1, <1>2, <2>5, TenFacts DEF Unit
  <2>7. PICK q \in Nat \ {0} : Power(10, e + Digits) = Power(10, e + 1) * q
    BY <2>1, TenGrows
  <2>8. m = Unit(m) * q \/ m = Unit(m) * (-q)
    <3>1. m = Power(10, e + 1) * q \/ m = -(Power(10, e + 1) * q)
      BY <1>3, <2>3, <2>7, AbsFacts
    <3>2. Power(10, e + 1) \in Nat
      BY <2>1, TenFacts
    <3>3. -(Power(10, e + 1) * q) = Power(10, e + 1) * (-q)
      BY <3>2
    <3> QED
      BY <2>6, <3>1, <3>3
  <2>9. Even(m)
    <3>1. q \in Int /\ -q \in Int
      OBVIOUS
    <3> QED
      BY <2>8, <3>1 DEF Even
  <2>10. RoundedOff(m) = 10 * U
    BY <1>2, <2>6 DEF RoundedOff
  <2>11. RoundedOff(n) \in Int
    BY UnitFacts
  <2> QED
    BY <1>2, <1>3, <1>a, <2>9, <2>10, <2>11
<1> QED
  BY <1>9, <1>10

\* A multiple of the unit of n less than half a unit below n is what is
\* written of n.
LEMMA WrittenIs ==
  ASSUME NEW n \in Int, NEW q \in Int, Unit(n) * q <= n, 2 * (n - Unit(n) * q) < Unit(n)
  PROVE  Written(n) = {Unit(n) * q}
<1> DEFINE U == Unit(n)
           D == n \div U
           low == U * D
           either == {low, low + U}
<1>1. U \in Nat \ {0}
  BY UnitFacts
<1>2. D \in Int /\ low \in Int /\ low <= n /\ n < low + U
  <2> HIDE DEF U
  <2> QED
    BY <1>1
<1>3. D = q
  <2>1. U * q \in Int /\ U * D \in Int /\ U * (D + 1) = U * D + U /\ U * (q + 1) = U * q + U
    BY <1>1, <1>2
  <2>2. U * q < U * (D + 1) /\ U * D < U * (q + 1)
    BY <1>1, <1>2, <2>1
  <2>3. q < D + 1 /\ D < q + 1
    <3> HIDE DEF U, D
    <3> QED
      BY <1>1, <1>2, <2>2
  <2> QED
    BY <1>2, <2>3
<1>4. low = Unit(n) * q
  BY <1>3
<1>5. Written(n) = {x \in either : \A other \in either : AbsOf(x - n) <= AbsOf(other - n)}
  BY DEF Written
<1> HIDE DEF low, D, U
<1>6. low <= n /\ 2 * (n - low) < U
  BY <1>4 DEF U
<1>7. AbsOf(low - n) = n - low /\ AbsOf(low + U - n) = low + U - n
  BY <1>1, <1>2 DEF AbsOf
<1>8. AbsOf(low - n) < AbsOf(low + U - n) /\ AbsOf(low - n) \in Int /\ AbsOf(low + U - n) \in Int
  BY <1>1, <1>2, <1>6, <1>7
<1> DEFINE high == low + U
<1>9. /\ either = {low, high} /\ high \in Int
      /\ AbsOf(low - n) < AbsOf(high - n)
      /\ AbsOf(low - n) \in Int /\ AbsOf(high - n) \in Int
  BY <1>1, <1>2, <1>8
<1> HIDE DEF either, high
<1>10. low \in Written(n)
  BY <1>2, <1>5, <1>9
<1>11. high \notin Written(n)
  BY <1>2, <1>5, <1>9
<1>12. \A x \in Written(n) : x = low \/ x = high
  BY <1>5, <1>9
<1> QED
  BY <1>4, <1>10, <1>11, <1>12

\* What is written as it is.
LEMMA EvenWritten ==
  ASSUME NEW n \in Int, Even(n)
  PROVE  Written(n) = {n}
<1>1. PICK q \in Int : n = Unit(n) * q
  BY DEF Even
<1>2. Unit(n) \in Nat \ {0}
  BY UnitFacts
<1>3. Unit(n) * q <= n /\ 2 * (n - Unit(n) * q) < Unit(n)
  BY <1>1, <1>2
<1>4. Written(n) = {Unit(n) * q}
  BY <1>3, WrittenIs
<1> QED
  BY <1>1, <1>4

\* What adds less than half a unit, before and after, adds nothing.
LEMMA TooLittle ==
  ASSUME NEW b \in Int, Even(b), NEW a \in Nat, Unit(b) > 2 * a, Unit(b + a) > 2 * a
  PROVE  Written(b + a) = {b}
<1> DEFINE n == b + a
           e == Surplus(b)
           f == Surplus(n)
           U == Unit(b)
           W == Unit(n)
<1>1. n \in Int /\ e \in Nat /\ f \in Nat /\ HasSurplus(b, e) /\ HasSurplus(n, f)
  BY SurplusIs
<1>2. U \in Nat \ {0} /\ W \in Nat \ {0} /\ U = Power(10, e) /\ W = Power(10, f)
  BY <1>1, UnitFacts DEF Unit
<1>3. PICK p \in Int : b = U * p
  BY DEF Even
<1>4. PICK T \in Nat \ {0} : Power(10, e + Digits) = U * T
  BY UnitFacts
<1>5. U > 2 * a /\ W > 2 * a /\ n = b + a
  OBVIOUS
<1> HIDE DEF n, e, f, U, W
<1>6. b < U * T /\ -b < U * T
  BY <1>1, <1>2, <1>4, AbsFacts DEF HasSurplus
<1>7. n < U * T /\ -n < U * T
  <2>1. U * p + U <= U * T
    BY <1>2, <1>3, <1>6, NextMultiple
  <2>2. U * T \in Int
    BY <1>2
  <2> QED
    BY <1>1, <1>2, <1>3, <1>5, <1>6, <2>1, <2>2
<1>8. f <= e
  <2> SUFFICES ASSUME e < f PROVE FALSE
    BY <1>1
  <2>1. /\ e + Digits \in Nat /\ f + Digits - 1 \in Nat
        /\ e + Digits <= f + Digits - 1 /\ f # 0
    BY <1>1, AmountsAssumption
  <2>2. Power(10, e + Digits) <= Power(10, f + Digits - 1) /\ Power(10, f + Digits - 1) \in Nat
    BY <2>1, TenOrder, TenFacts
  <2>3. Power(10, f + Digits - 1) <= AbsOf(n)
    BY <1>1, <2>1 DEF HasSurplus
  <2>4. AbsOf(n) < U * T
    BY <1>1, <1>7, AbsFacts
  <2>5. U * T \in Int /\ AbsOf(n) \in Int
    BY <1>1, <1>2, AbsFacts
  <2> QED
    BY <1>4, <2>2, <2>3, <2>4, <2>5
<1>9. PICK c \in Nat \ {0} : U = W * c
  BY <1>1, <1>2, <1>8, TenGrows
<1>10. b = W * (c * p) /\ c * p \in Int
  BY <1>2, <1>3, <1>9
<1> DEFINE q == c * p
<1>11. q \in Int /\ b = W * q
  BY <1>10
<1> HIDE DEF q
<1>12. W * q <= n /\ 2 * (n - W * q) < W
  BY <1>1, <1>2, <1>5, <1>11
<1>13. Unit(n) * q <= n /\ 2 * (n - Unit(n) * q) < Unit(n)
  BY <1>12 DEF W
<1>14. Written(n) = {Unit(n) * q}
  BY <1>1, <1>11, <1>13, WrittenIs
<1>15. Unit(n) * q = b
  BY <1>11 DEF W
<1> QED
  BY <1>14, <1>15 DEF n

-----------------------------------------------------------------------------
(* Balances *)

\* A balance is what is written of it, and no further from the exact one than
\* the roundings may have come to.
AmountsInv ==
  /\ balance \in [Holders -> Int] /\ exact \in [Holders -> Int] /\ slack \in [Holders -> Int]
  /\ \A h \in Holders : Even(balance[h]) /\ 2 * AbsOf(balance[h] - exact[h]) <= slack[h]

\* The ledger begins with amounts that are written as they are.
LEMMA AmountsInitInv == AmountsInit => AmountsInv
<1> SUFFICES ASSUME AmountsInit PROVE AmountsInv
  OBVIOUS
<1>1. Even(0)
  <2>1. Unit(0) \in Nat
    BY UnitFacts
  <2>2. 0 = Unit(0) * 0
    BY <2>1
  <2> QED
    BY <2>2 DEF Even
<1>2. AbsOf(0 - 0) = 0
  BY DEF AbsOf
<1> QED
  BY <1>1, <1>2 DEF AmountsInit, AmountsInv

\* saveTxInfoInEC keeps it: what is rounded off is added to the slack.
LEMMA SaveTxKeeps ==
  ASSUME AmountsInv, NEW sender \in Holders, NEW receiver \in Holders, NEW amount \in Amounts,
         SaveTx(sender, receiver, amount)
  PROVE  AmountsInv'
<1>1. amount \in Int
  BY AmountsAssumption
<1>a. PICK paid \in Written(amount) :
      \E less \in Written(balance[sender] - paid) :
      \E more \in Written(paid + IF receiver = sender THEN less ELSE balance[receiver]) :
       /\ balance' = [balance EXCEPT ![sender] = less, ![receiver] = more]
       /\ exact' = [h \in Holders |->
            exact[h] - (IF h = sender THEN amount ELSE 0) + (IF h = receiver THEN amount ELSE 0)]
       /\ slack' = [h \in Holders |-> slack[h]
            + (IF h = sender THEN RoundedOff(amount) + RoundedOff(less) ELSE 0)
            + (IF h = receiver THEN RoundedOff(amount) + RoundedOff(more) ELSE 0)]
  BY DEF SaveTx
<1>2. PICK less \in Written(balance[sender] - paid) :
      \E more \in Written(paid + IF receiver = sender THEN less ELSE balance[receiver]) :
       /\ balance' = [balance EXCEPT ![sender] = less, ![receiver] = more]
       /\ exact' = [h \in Holders |->
            exact[h] - (IF h = sender THEN amount ELSE 0) + (IF h = receiver THEN amount ELSE 0)]
       /\ slack' = [h \in Holders |-> slack[h]
            + (IF h = sender THEN RoundedOff(amount) + RoundedOff(less) ELSE 0)
            + (IF h = receiver THEN RoundedOff(amount) + RoundedOff(more) ELSE 0)]
  BY <1>a
<1> DEFINE base == IF receiver = sender THEN less ELSE balance[receiver]
<1>3. PICK more \in Written(paid + base) :
       /\ balance' = [balance EXCEPT ![sender] = less, ![receiver] = more]
       /\ exact' = [h \in Holders |->
            exact[h] - (IF h = sender THEN amount ELSE 0) + (IF h = receiver THEN amount ELSE 0)]
       /\ slack' = [h \in Holders |-> slack[h]
            + (IF h = sender THEN RoundedOff(amount) + RoundedOff(less) ELSE 0)
            + (IF h = receiver THEN RoundedOff(amount) + RoundedOff(more) ELSE 0)]
  BY <1>2
<1>4. /\ balance[sender] \in Int /\ balance[receiver] \in Int
      /\ exact[sender] \in Int /\ exact[receiver] \in Int
      /\ slack[sender] \in Int /\ slack[receiver] \in Int
      /\ 2 * AbsOf(balance[sender] - exact[sender]) <= slack[sender]
      /\ 2 * AbsOf(balance[receiver] - exact[receiver]) <= slack[receiver]
  BY DEF AmountsInv
<1>5. paid \in Int /\ 2 * AbsOf(paid - amount) <= RoundedOff(amount)
  BY <1>1, WrittenFacts
<1>6. balance[sender] - paid \in Int
  BY <1>4, <1>5
<1>7. /\ less \in Int /\ Even(less)
      /\ 2 * AbsOf(less - (balance[sender] - paid)) <= RoundedOff(less)
  <2>1. /\ less \in Int /\ Even(less)
        /\ 2 * AbsOf(less - (balance[sender] - paid)) <= RoundedOff(balance[sender] - paid)
        /\ RoundedOff(balance[sender] - paid) <= RoundedOff(less)
    BY <1>6, WrittenFacts
  <2>2. RoundedOff(balance[sender] - paid) \in Int /\ RoundedOff(less) \in Int
    BY <1>6, <2>1, UnitFacts
  <2>3. AbsOf(less - (balance[sender] - paid)) \in Int
    BY <1>6, <2>1, AbsFacts
  <2> QED
    BY <2>1, <2>2, <2>3
<1>8. base \in Int /\ paid + base \in Int
  BY <1>4, <1>5, <1>7
<1>9. more \in Int /\ Even(more) /\ 2 * AbsOf(more - (paid + base)) <= RoundedOff(more)
  <2> HIDE DEF base
  <2>1. /\ more \in Int /\ Even(more)
        /\ 2 * AbsOf(more - (paid + base)) <= RoundedOff(paid + base)
        /\ RoundedOff(paid + base) <= RoundedOff(more)
    BY <1>8, WrittenFacts
  <2>2. RoundedOff(paid + base) \in Int /\ RoundedOff(more) \in Int
    BY <1>8, <2>1, UnitFacts
  <2>3. AbsOf(more - (paid + base)) \in Int
    BY <1>8, <2>1, AbsFacts
  <2> QED
    BY <2>1, <2>2, <2>3
<1>10. RoundedOff(amount) \in Nat /\ RoundedOff(less) \in Nat /\ RoundedOff(more) \in Nat
  BY <1>1, <1>7, <1>9, UnitFacts
<1>11. balance' \in [Holders -> Int] /\ exact' \in [Holders -> Int] /\ slack' \in [Holders -> Int]
  BY <1>1, <1>3, <1>7, <1>9, <1>10 DEF AmountsInv
<1>12. ASSUME NEW h \in Holders
       PROVE  Even(balance'[h]) /\ 2 * AbsOf(balance'[h] - exact'[h]) <= slack'[h]
  <2>1. CASE h # sender /\ h # receiver
    <3>1. balance'[h] = balance[h] /\ exact'[h] = exact[h] /\ slack'[h] = slack[h]
      BY <1>3, <2>1 DEF AmountsInv
    <3> QED
      BY <3>1 DEF AmountsInv
  <2>2. CASE h = sender /\ h # receiver
    <3>1. /\ balance'[h] = less /\ exact'[h] = exact[h] - amount
          /\ slack'[h] = slack[h] + RoundedOff(amount) + RoundedOff(less)
      BY <1>1, <1>3, <1>4, <1>10, <2>2 DEF AmountsInv
    <3>2. 2 * AbsOf(less - (exact[h] - amount)) <= slack[h] + RoundedOff(amount) + RoundedOff(less)
      BY <1>1, <1>4, <1>5, <1>7, <1>10, <2>2 DEF AbsOf
    <3> QED
      BY <1>7, <3>1, <3>2
  <2>3. CASE h = receiver /\ h # sender
    <3>1. /\ balance'[h] = more /\ exact'[h] = exact[h] + amount
          /\ slack'[h] = slack[h] + RoundedOff(amount) + RoundedOff(more)
      BY <1>1, <1>3, <1>4, <1>10, <2>3 DEF AmountsInv
    <3>2. base = balance[h]
      BY <2>3
    <3>3. 2 * AbsOf(more - (exact[h] + amount)) <= slack[h] + RoundedOff(amount) + RoundedOff(more)
      BY <1>1, <1>4, <1>5, <1>9, <1>10, <2>3, <3>2 DEF AbsOf
    <3> QED
      BY <1>9, <3>1, <3>3
  <2>4. CASE h = sender /\ h = receiver
    <3>1. /\ balance'[h] = more /\ exact'[h] = exact[h] - amount + amount
          /\ slack'[h] = slack[h] + (RoundedOff(amount) + RoundedOff(less)) + (RoundedOff(amount) + RoundedOff(more))
      BY <1>1, <1>3, <1>4, <1>10, <2>4 DEF AmountsInv
    <3>2. base = less
      BY <2>4
    <3>3. 2 * AbsOf(more - exact[h])
            <= slack[h] + (RoundedOff(amount) + RoundedOff(less)) + (RoundedOff(amount) + RoundedOff(more))
      BY <1>1, <1>4, <1>5, <1>7, <1>9, <1>10, <2>4, <3>2 DEF AbsOf
    <3>4. exact[h] - amount + amount = exact[h]
      BY <1>1, <1>4, <2>4
    <3> QED
      BY <1>9, <3>1, <3>3, <3>4
  <2> QED
    BY <2>1, <2>2, <2>3, <2>4
<1> QED
  BY <1>11, <1>12 DEF AmountsInv

\* The invariant says what is to be shown.
LEMMA AmountsInvImplies == AmountsInv => BalancesDrift
<1> SUFFICES ASSUME AmountsInv PROVE BalancesDrift
  OBVIOUS
<1>1. ASSUME NEW h \in Holders
      PROVE  2 * AbsOf(balance[h] - exact[h]) <= slack[h] /\ Written(balance[h]) = {balance[h]}
  BY EvenWritten DEF AmountsInv
<1>2. ASSUME NEW a \in Amounts, NEW h \in Holders,
             Unit(balance[h]) > 2 * a, Unit(balance[h] + a) > 2 * a
      PROVE  Written(balance[h] + a) = {balance[h]}
  <2>1. balance[h] \in Int /\ Even(balance[h]) /\ a \in Nat
    BY AmountsAssumption DEF AmountsInv
  <2> QED
    BY <1>2, <2>1, TooLittle
<1> QED
  BY <1>1, <1>2 DEF BalancesDrift

\* Whatever is transferred between whom, a balance is off by no more than half
\* a unit for each rounding that was not exact, is not rounded again when it is
\* written again, and takes no notice of an amount below half its unit.  For
\* any actors, amounts and number of digits.
THEOREM DriftBounded == AmountsSpec => []BalancesDrift
<1>1. AmountsInv /\ [AmountsNext]_amountVars => AmountsInv'
  <2> SUFFICES ASSUME AmountsInv, [AmountsNext]_amountVars PROVE AmountsInv'
    OBVIOUS
  <2>1. CASE UNCHANGED amountVars
    BY <2>1 DEF amountVars, AmountsInv
  <2> QED
    BY <2>1, SaveTxKeeps DEF AmountsNext
<1> QED
  BY <1>1, AmountsInitInv, AmountsInvImplies, PTL DEF AmountsSpec

-----------------------------------------------------------------------------
(* Rewards *)

\* Doubling num as often as it takes to reach den, and no more often.
LEMMA Doublings ==
  ASSUME NEW num \in Nat \ {0}, NEW den \in Nat
  PROVE  LET Enough(k) == num * Power(2, k) >= den
             doublings == CHOOSE k \in 0 .. den : Enough(k) /\ (k = 0 \/ ~ Enough(k - 1))
         IN /\ doublings \in 0 .. den /\ Enough(doublings)
            /\ doublings = 0 \/ ~ Enough(doublings - 1)
<1> DEFINE Enough(k) == num * Power(2, k) >= den
           S == {k \in Nat : Enough(k)}
<1>1. \A k \in Nat : Power(2, k) \in Nat /\ k < Power(2, k)
  BY TwoFacts
<1>2. den \in S
  <2>1. Power(2, den) \in Nat /\ den < Power(2, den)
    BY <1>1
  <2>2. num * Power(2, den) >= Power(2, den)
    BY <2>1
  <2>3. num * Power(2, den) \in Nat
    BY <2>1
  <2> QED
    BY <2>1, <2>2, <2>3
<1>3. PICK k \in S : \A j \in S : k <= j
  <2>1. S \in SUBSET Nat /\ S # {}
    BY <1>2
  <2> HIDE DEF S
  <2> QED
    BY <2>1, LeastOne
<1>4. k \in 0 .. den
  BY <1>2, <1>3
<1>5. k = 0 \/ ~ Enough(k - 1)
  <2> SUFFICES ASSUME k # 0, Enough(k - 1) PROVE FALSE
    OBVIOUS
  <2>1. k - 1 \in Nat /\ ~ (k <= k - 1)
    BY <1>4
  <2>2. k - 1 \in S
    BY <2>1
  <2> HIDE DEF S
  <2> QED
    BY <1>3, <2>1, <2>2
<1>6. Enough(k)
  BY <1>3
<1> HIDE DEF Enough
<1> QED
  BY <1>4, <1>5, <1>6 DEF Enough

\* c is num, doubled until it reaches den, as a fraction of den.
IsReward(c, num, den) ==
  /\ c[1] \in Nat /\ c[2] = den
  /\ \E k \in 0 .. den :
       /\ c[1] = num * Power(2, k) /\ c[1] >= den
       /\ k = 0 \/ ~ (num * Power(2, k - 1) >= den)

\* What calculateCoins makes of positive numbers.
LEMMA CoinsAre ==
  ASSUME NEW stored \in Nat \ {0}, NEW total \in Nat \ {0}, NEW supply \in Nat \ {0},
         NEW blocks \in Nat \ {0}
  PROVE  IsReward(CalculateCoins(stored, total, supply, blocks, <<1, 2>>), stored * supply,
                  2 * total * blocks)
<1> DEFINE c == CalculateCoins(stored, total, supply, blocks, <<1, 2>>)
           num == stored * supply
           den == 2 * total * blocks
           Enough(k) == num * Power(2, k) >= den
           doublings == CHOOSE k \in 0 .. den : Enough(k) /\ (k = 0 \/ ~ Enough(k - 1))
<1>1. num \in Nat \ {0} /\ den \in Nat \ {0}
  OBVIOUS
<1>2. stored * supply * 1 = num /\ total * blocks * 2 = den
  OBVIOUS
<1>3. 0 \notin {stored, total, supply, blocks}
  OBVIOUS
<1>4. c = <<num * Power(2, doublings), den>>
  BY <1>2, <1>3 DEF CalculateCoins
<1> HIDE DEF num, den
<1>5. doublings \in 0 .. den /\ Enough(doublings) /\ (doublings = 0 \/ ~ Enough(doublings - 1))
  BY <1>1, Doublings
<1>6. Power(2, doublings) \in Nat
  BY <1>5, TwoFacts
<1> HIDE DEF doublings, c
<1>7. c[1] = num * Power(2, doublings) /\ c[2] = den /\ c[1] \in Nat
  BY <1>1, <1>4, <1>6
<1>8. IsReward(c, num, den)
  BY <1>5, <1>7 DEF IsReward
<1> QED
  BY <1>8 DEF c, num, den

\* Of as many bytes as coins, in two blocks, three earn one and a half and four
\* earn one.
LEMMA GoesDown ==
  \E a, b, total, blocks \in 1 .. MaxStored :
    LET x == CalculateCoins(a, total, MaxStored, blocks, <<1, 2>>)
        y == CalculateCoins(b, total, MaxStored, blocks, <<1, 2>>)
    IN a < b /\ x[1] * y[2] > y[1] * x[2]
<1> USE MiningAssumption
<1> DEFINE S == MaxStored
           x == CalculateCoins(3, S, S, 2, <<1, 2>>)
           y == CalculateCoins(4, S, S, 2, <<1, 2>>)
<1>1. 3 \in 1 .. S /\ 4 \in 1 .. S /\ S \in 1 .. S /\ 2 \in 1 .. S
  OBVIOUS
<1>2. Power(2, 0) = 1 /\ Power(2, 1) = 2
  <2>1. Power(2, 0 + 1) = 2 * Power(2, 0) /\ Power(2, 0) = 1
    BY TwoFacts
  <2> QED
    BY <2>1
<1>3. 2 * S * 2 = 4 * S
  OBVIOUS
<1>4. x[1] = 6 * S /\ x[2] = 4 * S
  <2>1. x[2] = 4 * S /\ \E k \in 0 .. 4 * S :
          /\ x[1] = 3 * S * Power(2, k) /\ x[1] >= 4 * S
          /\ k = 0 \/ ~ (3 * S * Power(2, k - 1) >= 4 * S)
    <3>1. 3 \in Nat \ {0} /\ 2 \in Nat \ {0} /\ S \in Nat \ {0}
      OBVIOUS
    <3>2. IsReward(x, 3 * S, 2 * S * 2)
      BY <3>1, CoinsAre
    <3> HIDE DEF x
    <3> QED
      BY <1>3, <3>2 DEF IsReward
  <2> HIDE DEF x
  <2>2. PICK k \in 0 .. 4 * S : /\ x[1] = 3 * S * Power(2, k) /\ x[1] >= 4 * S
                                /\ k = 0 \/ ~ (3 * S * Power(2, k - 1) >= 4 * S)
    BY <2>1
  <2>3. k # 0
    BY <1>2, <2>2
  <2>4. ~ (k >= 2)
    <3> SUFFICES ASSUME k >= 2 PROVE FALSE
      OBVIOUS
    <3>1. k - 1 \in Nat /\ k - 1 >= 1 /\ k - 2 \in Nat /\ k - 1 = k - 2 + 1
      OBVIOUS
    <3>2. Power(2, k - 1) = 2 * Power(2, k - 2) /\ Power(2, k - 2) \in Nat /\ Power(2, k - 2) >= 1
      BY <3>1, TwoFacts
    <3> DEFINE r == Power(2, k - 2)
    <3>3. 3 * S * (2 * r) >= 4 * S
      BY <3>2
    <3> QED
      BY <2>2, <2>3, <3>2, <3>3
  <2>5. k = 1
    BY <2>3, <2>4
  <2> QED
    BY <1>2, <2>1, <2>2, <2>5
<1>5. y[1] = 4 * S /\ y[2] = 4 * S
  <2>1. y[2] = 4 * S /\ \E k \in 0 .. 4 * S :
          /\ y[1] = 4 * S * Power(2, k) /\ y[1] >= 4 * S
          /\ k = 0 \/ ~ (4 * S * Power(2, k - 1) >= 4 * S)
    <3>1. 4 \in Nat \ {0} /\ 2 \in Nat \ {0} /\ S \in Nat \ {0}
      OBVIOUS
    <3>2. IsReward(y, 4 * S, 2 * S * 2)
      BY <3>1, CoinsAre
    <3> HIDE DEF y
    <3> QED
      BY <1>3, <3>2 DEF IsReward
  <2> HIDE DEF y
  <2>2. PICK k \in 0 .. 4 * S : /\ y[1] = 4 * S * Power(2, k) /\ y[1] >= 4 * S
                                /\ k = 0 \/ ~ (4 * S * Power(2, k - 1) >= 4 * S)
    BY <2>1
  <2>3. k = 0
    <3> SUFFICES ASSUME k # 0 PROVE FALSE
      OBVIOUS
    <3>1. k - 1 \in Nat
      OBVIOUS
    <3>2. Power(2, k - 1) \in Nat /\ Power(2, k - 1) >= 1
      BY <3>1, TwoFacts
    <3> DEFINE r == Power(2, k - 1)
    <3>3. 4 * S * r >= 4 * S
      BY <3>2
    <3> QED
      BY <2>2, <3>3
  <2> QED
    BY <1>2, <2>1, <2>2, <2>3
<1> HIDE DEF x, y
<1>6. x[1] * y[2] > y[1] * x[2]
  <2>1. (6 * S) * (4 * S) > (4 * S) * (4 * S)
    OBVIOUS
  <2> QED
    BY <1>4, <1>5, <2>1
<1>7. 3 < 4
  OBVIOUS
<1> QED
  BY <1>1, <1>6, <1>7 DEF x, y

\* The rewards are what they should be.
LEMMA CoinsRight == CoinsExact
<1> USE MiningAssumption
<1> DEFINE N == 1 .. MaxStored
           coef == <<1, 2>>
<1>1. ASSUME NEW stored \in N, NEW total \in N, NEW supply \in N, NEW blocks \in N
      PROVE  LET c == CalculateCoins(stored, total, supply, blocks, coef)
                 num == stored * supply
                 den == 2 * total * blocks
             IN /\ c[1] >= c[2]
                /\ \E k \in 0 .. den :
                     /\ c[1] * den = c[2] * num * Power(2, k)
                     /\ k > 0 => c[1] < 2 * c[2]
  <2> DEFINE c == CalculateCoins(stored, total, supply, blocks, coef)
             num == stored * supply
             den == 2 * total * blocks
  <2>1. num \in Nat \ {0} /\ den \in Nat \ {0}
    OBVIOUS
  <2>2. c[1] \in Nat /\ c[2] = den
        /\ \E k \in 0 .. den : /\ c[1] = num * Power(2, k) /\ c[1] >= den
                               /\ k = 0 \/ ~ (num * Power(2, k - 1) >= den)
    <3>1. /\ stored \in Nat \ {0} /\ total \in Nat \ {0} /\ supply \in Nat \ {0}
          /\ blocks \in Nat \ {0}
      OBVIOUS
    <3>2. IsReward(c, num, den)
      BY <3>1, CoinsAre
    <3> HIDE DEF c, num, den
    <3> QED
      BY <3>2 DEF IsReward
  <2> HIDE DEF c, num, den
  <2>3. PICK k \in 0 .. den : /\ c[1] = num * Power(2, k) /\ c[1] >= den
                              /\ k = 0 \/ ~ (num * Power(2, k - 1) >= den)
    BY <2>2
  <2>4. Power(2, k) \in Nat
    BY <2>1, <2>3, TwoFacts
  <2>5. c[1] * den = c[2] * num * Power(2, k)
    <3> DEFINE r == Power(2, k)
    <3>1. num * r * den = den * num * r
      BY <2>1, <2>4
    <3> QED
      BY <2>2, <2>3, <3>1
  <2>6. k > 0 => c[1] < 2 * c[2]
    <3> SUFFICES ASSUME k > 0 PROVE c[1] < 2 * c[2]
      OBVIOUS
    <3>1. k - 1 \in Nat /\ k = k - 1 + 1 /\ k # 0
      BY <2>1
    <3>2. Power(2, k) = 2 * Power(2, k - 1) /\ Power(2, k - 1) \in Nat
      BY <3>1, TwoFacts
    <3> DEFINE r == Power(2, k - 1)
    <3>3. num * (2 * r) = 2 * (num * r) /\ num * r \in Nat
      BY <2>1, <3>2
    <3>4. num * r < den
      BY <2>1, <2>3, <3>1, <3>3
    <3> HIDE DEF r
    <3> QED
      BY <2>1, <2>2, <2>3, <3>2, <3>3, <3>4 DEF r
  <2> QED
    BY <2>1, <2>2, <2>3, <2>5, <2>6 DEF c, num, den
<1>2. \A stored, total, records \in 0 .. MaxStored :
        MakeRewardTx("first", "node", [stored |-> stored, coef |-> coef], total, records).amount
          = <<0, 1>>
  BY DEF MakeRewardTx, CalculateCoins, CirculativeSupply
<1>3. ASSUME NEW index \in 0 .. 2 * CoinProductionRate
      PROVE  RewardRequested(index) <=> index \in {0, CoinProductionRate, 2 * CoinProductionRate}
  <2> DEFINE R == CoinProductionRate
  <2>1. R \in Nat \ {0} /\ index \in Nat /\ index <= 2 * R
    OBVIOUS
  <2> HIDE DEF R
  <2>2. ASSUME NEW k \in 0 .. index, index = k * R PROVE k \in {0, 1, 2}
    <3> SUFFICES ASSUME k >= 3 PROVE FALSE
      BY <2>1
    <3>1. k * R >= 3 * R
      BY <2>1
    <3> QED
      BY <2>1, <2>2, <3>1
  <2>3. RewardRequested(index) => index \in {0, R, 2 * R}
    <3> SUFFICES ASSUME NEW k \in 0 .. index, index = k * R PROVE index \in {0, R, 2 * R}
      BY DEF RewardRequested, R
    <3> QED
      BY <2>1, <2>2
  <2>4. ASSUME NEW j \in {0, 1, 2}, index = j * R PROVE RewardRequested(index)
    <3>1. j \in 0 .. index
      BY <2>1, <2>4
    <3> QED
      BY <2>4, <3>1 DEF RewardRequested, R
  <2>5. index \in {0, R, 2 * R} => \E j \in {0, 1, 2} : index = j * R
    BY <2>1
  <2> QED
    BY <2>3, <2>4, <2>5 DEF R
<1> QED
  BY <1>1, <1>2, <1>3, GoesDown DEF CoinsExact

-----------------------------------------------------------------------------
(* The hash of a list *)

\* A function on 1 .. n is a sequence.
LEMMA IsSequence ==
  ASSUME NEW S, NEW n \in Nat, NEW s, s = [i \in 1 .. n |-> s[i]], \A i \in 1 .. n : s[i] \in S
  PROVE  s \in Seq(S) /\ Len(s) = n
OBVIOUS

\* t is the loop of Rounds, for n rounds.
IsRounds(list, past, n, t) ==
  t = [k \in 0 .. n |-> IF k = 0 THEN list ELSE Paired(t[k - 1], past)]

\* There is such a loop.
LEMMA RoundsExist ==
  ASSUME NEW list, NEW past
  PROVE  \A n \in Nat : \E t : IsRounds(list, past, n, t)
<1> DEFINE G == {n \in Nat : \E t : IsRounds(list, past, n, t)}
<1>1. 0 \in G
  <2> DEFINE t == [m \in 0 .. 0 |-> list]
  <2>1. IsRounds(list, past, 0, t)
    BY DEF IsRounds
  <2> QED
    BY <2>1
<1>2. ASSUME NEW n \in Nat, n \in G PROVE n + 1 \in G
  <2>1. PICK t : IsRounds(list, past, n, t)
    BY <1>2
  <2> DEFINE next == Paired(t[n], past)
             u == [m \in 0 .. n + 1 |-> IF m = n + 1 THEN next ELSE t[m]]
             v == [m \in 0 .. n + 1 |-> IF m = 0 THEN list ELSE Paired(u[m - 1], past)]
  <2>2. ASSUME NEW m \in 0 .. n + 1
        PROVE  (IF m = n + 1 THEN next ELSE t[m]) = IF m = 0 THEN list ELSE Paired(u[m - 1], past)
    <3>1. CASE m = n + 1
      <4>1. m # 0 /\ m - 1 = n /\ n \in 0 .. n + 1 /\ n # n + 1
        BY <3>1
      <4>2. u[n] = t[n]
        BY <4>1
      <4> HIDE DEF u
      <4> QED
        BY <3>1, <4>1, <4>2
    <3>2. CASE m # n + 1
      <4>1. m \in 0 .. n
        BY <3>2
      <4>2. t[m] = IF m = 0 THEN list ELSE Paired(t[m - 1], past)
        BY <2>1, <4>1 DEF IsRounds
      <4>3. m # 0 => m - 1 \in 0 .. n + 1 /\ m - 1 # n + 1
        BY <4>1
      <4>4. m # 0 => u[m - 1] = t[m - 1]
        BY <4>3
      <4> HIDE DEF u, next
      <4> QED
        BY <3>2, <4>2, <4>4
    <3> QED
      BY <3>1, <3>2
  <2>3. u = v
    BY <2>2
  <2> HIDE DEF u
  <2>4. IsRounds(list, past, n + 1, u)
    BY <2>3 DEF IsRounds
  <2> QED
    BY <2>4
<1>3. \A n \in Nat : n \in G
  <2> HIDE DEF G
  <2> QED
    BY <1>1, <1>2, AllNumbers
<1> QED
  BY <1>3

\* Each round pairs what the one before left.
LEMMA RoundsAre ==
  ASSUME NEW list, Len(list) \in Nat, NEW past
  PROVE  /\ Rounds(list, past)[0] = list
         /\ \A k \in 0 .. Len(list) - 1 :
              Rounds(list, past)[k + 1] = Paired(Rounds(list, past)[k], past)
<1> DEFINE n == Len(list)
           t == CHOOSE t : IsRounds(list, past, n, t)
<1>1. IsRounds(list, past, n, t)
  BY RoundsExist
<1>2. Rounds(list, past) = t
  BY DEF Rounds, IsRounds
<1> HIDE DEF t, n
<1>3. n \in Nat
  BY DEF n
<1>4. t[0] = list
  BY <1>1, <1>3 DEF IsRounds
<1>5. ASSUME NEW k \in 0 .. n - 1 PROVE t[k + 1] = Paired(t[k], past)
  <2> DEFINE at == k + 1
  <2>1. at \in 0 .. n /\ at # 0 /\ at - 1 = k
    BY <1>3
  <2> HIDE DEF at
  <2>2. t[at] = Paired(t[k], past)
    BY <1>1, <2>1 DEF IsRounds
  <2> QED
    BY <2>2 DEF at
<1> QED
  BY <1>2, <1>4, <1>5 DEF n

\* s is a list of n elements.
IsListOf(s, n) == Len(s) = n /\ s = [i \in 1 .. n |-> s[i]]

\* What one round makes of n elements.
LEMMA PairedIs ==
  ASSUME NEW n \in Nat \ {0}, NEW s, IsListOf(s, n), NEW past, NEW half, half = (n + 1) \div 2
  PROVE  /\ half \in Nat \ {0} /\ half <= n /\ (n # 1 => half < n)
         /\ 2 * half = n \/ 2 * half = n + 1
         /\ IsListOf(Paired(s, past), half)
         /\ \A k \in 1 .. half :
              Paired(s, past)[k] = <<s[2 * k - 1], IF 2 * k <= n THEN s[2 * k] ELSE past>>
<1> DEFINE p == Paired(s, past)
           F(k) == <<s[2 * k - 1], IF 2 * k <= n THEN s[2 * k] ELSE past>>
<1>1. /\ half \in Nat \ {0} /\ half <= n /\ (n # 1 => half < n)
      /\ 2 * half = n \/ 2 * half = n + 1
  OBVIOUS
<1>2. p = [k \in 1 .. half |-> F(k)]
  BY DEF Paired, IsListOf
<1> HIDE DEF F
<1>3. \A k \in 1 .. half : p[k] = F(k)
  BY <1>2
<1>4. p = [k \in 1 .. half |-> p[k]]
  BY <1>2
<1> HIDE DEF p
<1>5. Len(p) = half
  <2> DEFINE S == {p[k] : k \in 1 .. half}
  <2>1. \A k \in 1 .. half : p[k] \in S
    OBVIOUS
  <2> HIDE DEF S
  <2>2. half \in Nat
    BY <1>1
  <2> QED
    BY <1>4, <2>1, <2>2, IsSequence
<1> QED
  BY <1>1, <1>3, <1>4, <1>5 DEF p, F, IsListOf

\* Two lists of n elements that differ in the last one at most.
AgreeToLast(n, a, b) == IsListOf(a, n) /\ IsListOf(b, n) /\ \A i \in 1 .. n - 1 : a[i] = b[i]

\* Two lists a and b of n elements become pa and pb of half as many.
RoundOf(n, a, b, half, pa, pb) ==
  /\ AgreeToLast(half, pa, pb)
  /\ pa[half] = pb[half] <=> a[n] = b[n] /\ n = 2 * half

\* What lies after the end shows after a round of an odd number of elements,
\* and what shows is never lost.
LEMMA NextRound ==
  ASSUME NEW n \in Nat \ {0}, NEW a, NEW b, AgreeToLast(n, a, b), NEW half, half = (n + 1) \div 2
  PROVE  RoundOf(n, a, b, half, Paired(a, "one"), Paired(b, "other"))
<1> DEFINE pa == Paired(a, "one")
           pb == Paired(b, "other")
<1>1. IsListOf(a, n) /\ IsListOf(b, n) /\ \A i \in 1 .. n - 1 : a[i] = b[i]
  BY DEF AgreeToLast
<1>2. /\ half \in Nat \ {0} /\ (2 * half = n \/ 2 * half = n + 1) /\ IsListOf(pa, half)
      /\ \A k \in 1 .. half : pa[k] = <<a[2 * k - 1], IF 2 * k <= n THEN a[2 * k] ELSE "one">>
  BY <1>1, PairedIs
<1>3. /\ IsListOf(pb, half)
      /\ \A k \in 1 .. half : pb[k] = <<b[2 * k - 1], IF 2 * k <= n THEN b[2 * k] ELSE "other">>
  BY <1>1, PairedIs
<1> HIDE DEF pa, pb
<1>4. ASSUME NEW k \in 1 .. half - 1 PROVE pa[k] = pb[k]
  <2>1. k \in 1 .. half /\ 2 * k <= n /\ 2 * k \in 1 .. n - 1 /\ 2 * k - 1 \in 1 .. n - 1
    BY <1>2
  <2>2. a[2 * k] = b[2 * k] /\ a[2 * k - 1] = b[2 * k - 1]
    <3> DEFINE x == 2 * k
               y == 2 * k - 1
    <3>1. x \in 1 .. n - 1 /\ y \in 1 .. n - 1
      BY <2>1
    <3> HIDE DEF x, y
    <3>2. a[x] = b[x] /\ a[y] = b[y]
      BY <1>1, <3>1
    <3> QED
      BY <3>2 DEF x, y
  <2>3. pa[k] = <<a[2 * k - 1], a[2 * k]>> /\ pb[k] = <<b[2 * k - 1], b[2 * k]>>
    BY <1>2, <1>3, <2>1
  <2> QED
    BY <2>2, <2>3
<1>5. half \in 1 .. half
  BY <1>2
<1>6. CASE 2 * half = n
  <2>1. pa[half] = <<a[n - 1], a[n]>> /\ pb[half] = <<b[n - 1], b[n]>>
    BY <1>2, <1>3, <1>5, <1>6
  <2>2. a[n - 1] = b[n - 1]
    <3> DEFINE x == n - 1
    <3>1. x \in 1 .. n - 1
      BY <1>2, <1>6
    <3> HIDE DEF x
    <3>2. a[x] = b[x]
      BY <1>1, <3>1 DEF x
    <3> QED
      BY <3>2 DEF x
  <2>3. pa[half] = pb[half] <=> a[n] = b[n]
    BY <2>1, <2>2
  <2> QED
    BY <1>2, <1>3, <1>4, <1>6, <2>3 DEF RoundOf, AgreeToLast, pa, pb
<1>7. CASE 2 * half = n + 1
  <2>1. ~ (2 * half <= n) /\ 2 * half # n
    BY <1>2, <1>7
  <2>2. pa[half] = <<a[2 * half - 1], "one">> /\ pb[half] = <<b[2 * half - 1], "other">>
    BY <1>2, <1>3, <1>5, <2>1
  <2>3. pa[half] # pb[half]
    BY <2>2
  <2> QED
    BY <1>2, <1>3, <1>4, <2>1, <2>3 DEF RoundOf, AgreeToLast, pa, pb
<1> QED
  BY <1>2, <1>6, <1>7

\* A predicate that says where the last round is.
IsLast(n, t, k) == k \in 1 .. n /\ Len(t[k]) = 1 /\ \A j \in 1 .. k - 1 : Len(t[j]) # 1

\* There is one last round, once as many rounds as elements have been made.
LEMMA OneLast ==
  ASSUME NEW n \in Nat, NEW t, NEW k, IsLast(n, t, k)
  PROVE  \A j : IsLast(n, t, j) => j = k
<1> SUFFICES ASSUME NEW j, IsLast(n, t, j) PROVE j = k
  OBVIOUS
<1>1. j \in 1 .. n /\ k \in 1 .. n
  BY DEF IsLast
<1>2. ~ (j < k)
  BY <1>1 DEF IsLast
<1>3. ~ (k < j)
  BY <1>1 DEF IsLast
<1> QED
  BY <1>1, <1>2, <1>3

\* The hash is what the last round leaves.
LEMMA RootIs ==
  ASSUME NEW list, Len(list) \in Nat, NEW past, NEW k, IsLast(Len(list), Rounds(list, past), k)
  PROVE  RootMerkleHash(list, past) = Rounds(list, past)[k][1]
<1> DEFINE n == Len(list)
           t == Rounds(list, past)
           last == CHOOSE m \in 1 .. n : Len(t[m]) = 1 /\ \A j \in 1 .. m - 1 : Len(t[j]) # 1
<1>1. RootMerkleHash(list, past) = t[last][1]
  BY DEF RootMerkleHash
<1> HIDE DEF t
<1>2. IsLast(n, t, k)
  BY DEF t
<1>3. IsLast(n, t, last)
  BY <1>2 DEF IsLast
<1> HIDE DEF last
<1>4. last = k
  BY <1>2, <1>3, OneLast
<1> QED
  BY <1>1, <1>4 DEF t

\* Two sets of rounds of one list, by the sizes c[k] of their lists, with other
\* things after the end.
AreTwins(n, c, a, b) ==
  /\ c[0] = n /\ \A k \in 0 .. n : c[k] \in Nat \ {0} /\ AgreeToLast(c[k], a[k], b[k])
  /\ a[0][n] = b[0][n]
  /\ \A k \in 0 .. n - 1 :
       /\ c[k + 1] = (c[k] + 1) \div 2
       /\ a[k + 1][c[k + 1]] = b[k + 1][c[k + 1]]
            <=> a[k][c[k]] = b[k][c[k]] /\ c[k] = 2 * c[k + 1]

\* The rounds of one list are such.
LEMMA RoundsAreTwins ==
  ASSUME NEW n \in Nat \ {0}, NEW list, IsListOf(list, n)
  PROVE  \E c : AreTwins(n, c, Rounds(list, "one"), Rounds(list, "other"))
<1> DEFINE a == Rounds(list, "one")
           b == Rounds(list, "other")
           c == [k \in 0 .. n |-> Len(a[k])]
<1>1. Len(list) = n
  BY DEF IsListOf
<1>2. a[0] = list /\ \A k \in 0 .. n - 1 : a[k + 1] = Paired(a[k], "one")
  BY <1>1, RoundsAre
<1>3. b[0] = list /\ \A k \in 0 .. n - 1 : b[k + 1] = Paired(b[k], "other")
  BY <1>1, RoundsAre
<1>4. \A k \in 0 .. n : c[k] = Len(a[k])
  OBVIOUS
<1> HIDE DEF a, b, c
<1>5. AgreeToLast(n, a[0], b[0]) /\ a[0][n] = b[0][n]
  BY <1>2, <1>3 DEF AgreeToLast
<1>6. c[0] = n
  BY <1>1, <1>2, <1>4
<1> DEFINE Fine(k) == c[k] \in Nat \ {0} /\ AgreeToLast(c[k], a[k], b[k])
           Next1(k) == /\ c[k + 1] = (c[k] + 1) \div 2
                       /\ a[k + 1][c[k + 1]] = b[k + 1][c[k + 1]]
                            <=> a[k][c[k]] = b[k][c[k]] /\ c[k] = 2 * c[k + 1]
<1>7. ASSUME NEW k \in 0 .. n - 1, Fine(k) PROVE Fine(k + 1) /\ Next1(k)
  <2> DEFINE m == c[k]
             x == a[k]
             y == b[k]
             half == (m + 1) \div 2
             at == k + 1
  <2>1. m \in Nat \ {0} /\ AgreeToLast(m, x, y)
    BY <1>7
  <2>2. at \in 0 .. n /\ a[at] = Paired(x, "one") /\ b[at] = Paired(y, "other") /\ c[at] = Len(a[at])
    BY <1>2, <1>3, <1>4
  <2> HIDE DEF m, x, y, at
  <2>3. half \in Nat \ {0}
    BY <2>1
  <2>4. half = (m + 1) \div 2
    OBVIOUS
  <2> HIDE DEF half
  <2>5. /\ AgreeToLast(half, a[at], b[at])
        /\ a[at][half] = b[at][half] <=> x[m] = y[m] /\ m = 2 * half
    <3>1. RoundOf(m, x, y, half, Paired(x, "one"), Paired(y, "other"))
      BY <2>1, <2>4, NextRound
    <3> QED
      BY <2>2, <3>1 DEF RoundOf
  <2>6. c[at] = half
    BY <2>2, <2>5 DEF AgreeToLast, IsListOf
  <2>7. Fine(at)
    BY <2>3, <2>5, <2>6
  <2>8. c[at] = (m + 1) \div 2 /\ (a[at][c[at]] = b[at][c[at]] <=> x[m] = y[m] /\ m = 2 * c[at])
    BY <2>4, <2>5, <2>6
  <2> QED
    BY <2>7, <2>8 DEF at, m, x, y
<1> DEFINE G == {k \in Nat : k <= n => Fine(k)}
<1>8. 0 \in G
  BY <1>5, <1>6
<1>9. ASSUME NEW k \in Nat, k \in G PROVE k + 1 \in G
  <2> SUFFICES ASSUME k + 1 <= n PROVE Fine(k + 1)
    OBVIOUS
  <2>1. k \in 0 .. n - 1 /\ Fine(k)
    BY <1>9
  <2> HIDE DEF Fine
  <2> QED
    BY <1>7, <2>1
<1>10. \A k \in Nat : k \in G
  <2> HIDE DEF G
  <2> QED
    BY <1>8, <1>9, AllNumbers
<1>11. \A k \in 0 .. n : Fine(k)
  BY <1>10
<1>12. \A k \in 0 .. n - 1 : Next1(k)
  <2>1. \A k \in 0 .. n - 1 : k \in 0 .. n
    OBVIOUS
  <2> HIDE DEF Fine, Next1
  <2> QED
    BY <1>7, <1>11, <2>1
<1>13. AreTwins(n, c, a, b)
  BY <1>5, <1>6, <1>11, <1>12 DEF AreTwins
<1> QED
  BY <1>13 DEF a, b

\* There is a last round: each is smaller than the one before, or of one.
LEMMA LastExists ==
  ASSUME NEW n \in Nat \ {0}, NEW c, NEW a, NEW b, AreTwins(n, c, a, b)
  PROVE  \E k : IsLast(n, a, k) /\ IsLast(n, b, k)
<1>1. c[0] = n /\ \A k \in 0 .. n : c[k] \in Nat \ {0} /\ Len(a[k]) = c[k] /\ Len(b[k]) = c[k]
  BY DEF AreTwins, AgreeToLast, IsListOf
<1>2. ASSUME NEW k \in 0 .. n - 1 PROVE c[k + 1] = 1 \/ c[k + 1] < c[k]
  <2> DEFINE m == c[k]
             at == k + 1
  <2>1. m \in Nat \ {0} /\ c[at] = (m + 1) \div 2
    BY <1>1 DEF AreTwins
  <2> HIDE DEF m, at
  <2>2. c[at] = 1 \/ c[at] < m
    BY <2>1
  <2> QED
    BY <2>2 DEF m, at
<1> DEFINE G == {k \in Nat : k <= n /\ k # 0 => c[k] = 1 \/ c[k] <= n - k}
<1>3. 0 \in G
  OBVIOUS
<1>4. ASSUME NEW k \in Nat, k \in G PROVE k + 1 \in G
  <2> SUFFICES ASSUME k + 1 <= n PROVE c[k + 1] = 1 \/ c[k + 1] <= n - (k + 1)
    OBVIOUS
  <2>1. k \in 0 .. n - 1 /\ k \in 0 .. n /\ k + 1 \in 0 .. n
    OBVIOUS
  <2>2. c[k] \in Nat \ {0} /\ c[k + 1] \in Nat \ {0} /\ (c[k + 1] = 1 \/ c[k + 1] < c[k])
    <3> DEFINE at == k + 1
    <3>1. at \in 0 .. n
      BY <2>1
    <3> HIDE DEF at
    <3>2. c[at] \in Nat \ {0}
      BY <1>1, <3>1
    <3> QED
      BY <1>1, <1>2, <2>1, <3>2 DEF at
  <2>3. CASE k = 0
    BY <1>1, <2>2, <2>3
  <2>4. CASE k # 0
    <3>1. c[k] = 1 \/ c[k] <= n - k
      BY <1>4, <2>1, <2>4
    <3> QED
      BY <2>2, <3>1
  <2> QED
    BY <2>3, <2>4
<1>5. n \in G
  <2> HIDE DEF G
  <2> QED
    BY <1>3, <1>4, AllNumbers
<1>6. c[n] = 1
  <2>1. n \in 0 .. n
    OBVIOUS
  <2>2. c[n] \in Nat \ {0}
    BY <1>1, <2>1
  <2> QED
    BY <1>5, <2>2
<1> DEFINE S == {k \in 1 .. n : c[k] = 1}
<1>7. PICK k \in S : \A j \in S : k <= j
  <2>1. S \in SUBSET Nat /\ n \in S
    BY <1>6
  <2> HIDE DEF S
  <2> QED
    BY <2>1, LeastOne
<1>8. \A j \in 1 .. k - 1 : c[j] # 1 /\ j \in 0 .. n
  BY <1>7
<1>9. k \in 1 .. n /\ k \in 0 .. n /\ c[k] = 1
  BY <1>7
<1> QED
  BY <1>1, <1>8, <1>9 DEF IsLast

\* If nothing from after the end shows in the last round, the size has halved
\* in each.
LEMMA HiddenHalves ==
  ASSUME NEW n \in Nat \ {0}, NEW c, NEW a, NEW b, AreTwins(n, c, a, b), NEW k \in 1 .. n,
         c[k] = 1, a[k][1] = b[k][1]
  PROVE  n = Power(2, k)
<1> DEFINE G == {j \in Nat : j <= n /\ a[j][c[j]] = b[j][c[j]] => n = Power(2, j) * c[j]}
<1>1. 0 \in G
  BY TwoFacts DEF AreTwins
<1>2. ASSUME NEW j \in Nat, j \in G PROVE j + 1 \in G
  <2> DEFINE at == j + 1
  <2> SUFFICES ASSUME at <= n, a[at][c[at]] = b[at][c[at]] PROVE n = Power(2, at) * c[at]
    OBVIOUS
  <2>1. j \in 0 .. n - 1 /\ at \in 0 .. n /\ j <= n
    OBVIOUS
  <2>2. a[j][c[j]] = b[j][c[j]] /\ c[j] = 2 * c[at]
    BY <2>1 DEF AreTwins
  <2>3. n = Power(2, j) * c[j]
    BY <1>2, <2>1, <2>2
  <2>4. Power(2, at) = 2 * Power(2, j) /\ Power(2, j) \in Nat
    BY TwoFacts
  <2> HIDE DEF at
  <2>5. c[at] \in Nat
    BY <2>1 DEF AreTwins
  <2> QED
    BY <2>2, <2>3, <2>4, <2>5
<1>3. k \in G
  <2> HIDE DEF G
  <2> QED
    BY <1>1, <1>2, AllNumbers
<1>4. n = Power(2, k) * 1
  BY <1>3
<1>5. Power(2, k) \in Nat
  BY TwoFacts
<1> QED
  BY <1>4, <1>5

\* If the size is a power of two, it halves in each round, down to one, and
\* nothing from after the end shows.
LEMMA HalvesHide ==
  ASSUME NEW n \in Nat \ {0}, NEW c, NEW a, NEW b, AreTwins(n, c, a, b), NEW m \in 1 .. n,
         n = Power(2, m)
  PROVE  /\ \A k \in 0 .. m : c[k] = Power(2, m - k)
         /\ a[m][1] = b[m][1]
<1> DEFINE G == {k \in Nat : k <= m => c[k] = Power(2, m - k) /\ a[k][c[k]] = b[k][c[k]]}
<1>1. 0 \in G
  BY DEF AreTwins
<1>2. ASSUME NEW k \in Nat, k \in G PROVE k + 1 \in G
  <2> DEFINE at == k + 1
  <2> SUFFICES ASSUME at <= m PROVE c[at] = Power(2, m - at) /\ a[at][c[at]] = b[at][c[at]]
    OBVIOUS
  <2>1. k \in 0 .. n - 1 /\ k <= m /\ m - at \in Nat /\ m - k = m - at + 1
    OBVIOUS
  <2>2. c[k] = Power(2, m - k) /\ a[k][c[k]] = b[k][c[k]]
    BY <1>2, <2>1
  <2>3. Power(2, m - k) = 2 * Power(2, m - at) /\ Power(2, m - at) \in Nat
    <3> DEFINE d == m - at
    <3>1. d \in Nat /\ m - k = d + 1
      BY <2>1
    <3> HIDE DEF d
    <3>2. Power(2, d + 1) = 2 * Power(2, d) /\ Power(2, d) \in Nat
      BY <3>1, TwoFacts
    <3> QED
      BY <3>1, <3>2 DEF d
  <2>4. c[at] = (c[k] + 1) \div 2
    BY <2>1 DEF AreTwins
  <2>5. a[at][c[at]] = b[at][c[at]] <=> a[k][c[k]] = b[k][c[k]] /\ c[k] = 2 * c[at]
    BY <2>1 DEF AreTwins
  <2> HIDE DEF at
  <2>6. c[at] = Power(2, m - at)
    <3> DEFINE r == Power(2, m - at)
    <3>1. c[at] = (2 * r + 1) \div 2 /\ r \in Nat
      BY <2>2, <2>3, <2>4
    <3> HIDE DEF r
    <3>2. c[at] = r
      BY <3>1
    <3> QED
      BY <3>2 DEF r
  <2> QED
    BY <2>2, <2>3, <2>5, <2>6
<1>3. \A k \in Nat : k \in G
  <2> HIDE DEF G
  <2> QED
    BY <1>1, <1>2, AllNumbers
<1>4. \A k \in 0 .. m : c[k] = Power(2, m - k)
  BY <1>3
<1>5. c[m] = 1 /\ a[m][c[m]] = b[m][c[m]]
  <2>1. m \in G /\ m - m = 0
    BY <1>3
  <2>2. c[m] = Power(2, 0) /\ a[m][c[m]] = b[m][c[m]]
    BY <2>1
  <2> QED
    BY <2>2, TwoFacts
<1> QED
  BY <1>4, <1>5

\* The hash of a list depends on nothing but the list exactly if the length is
\* a power of two, of any length and whatever the elements.
THEOREM RootOfList ==
  ASSUME NEW n \in Nat \ {0}, NEW list, IsListOf(list, n)
  PROVE  RootMerkleHash(list, "one") = RootMerkleHash(list, "other")
           <=> \E k \in 1 .. n : n = Power(2, k)
<1> DEFINE a == Rounds(list, "one")
           b == Rounds(list, "other")
<1>1. PICK c : AreTwins(n, c, a, b)
  BY RoundsAreTwins
<1>2. PICK k : IsLast(n, a, k) /\ IsLast(n, b, k)
  BY <1>1, LastExists
<1>3. Len(list) = n /\ Len(list) \in Nat
  BY DEF IsListOf
<1>4. RootMerkleHash(list, "one") = a[k][1] /\ RootMerkleHash(list, "other") = b[k][1]
  BY <1>2, <1>3, RootIs
<1> HIDE DEF a, b
<1>5. \A j \in 0 .. n : Len(a[j]) = c[j]
  BY <1>1 DEF AreTwins, AgreeToLast, IsListOf
<1>6. k \in 1 .. n /\ c[k] = 1
  <2>1. k \in 1 .. n /\ Len(a[k]) = 1
    BY <1>2 DEF IsLast
  <2>2. k \in 0 .. n
    BY <2>1
  <2> QED
    BY <1>5, <2>1, <2>2
<1>7. ASSUME a[k][1] = b[k][1] PROVE n = Power(2, k)
  BY <1>1, <1>6, <1>7, HiddenHalves
<1>8. ASSUME NEW m \in 1 .. n, n = Power(2, m) PROVE a[k][1] = b[k][1]
  <2>1. (\A j \in 0 .. m : c[j] = Power(2, m - j)) /\ a[m][1] = b[m][1]
    BY <1>1, <1>8, HalvesHide
  <2>2. Len(a[m]) = 1
    <3>1. m \in 0 .. m /\ m \in 0 .. n /\ m - m = 0
      OBVIOUS
    <3>2. c[m] = Power(2, 0) /\ Len(a[m]) = c[m]
      BY <1>5, <2>1, <3>1
    <3> QED
      BY <3>2, TwoFacts
  <2>3. ASSUME NEW j \in 1 .. m - 1 PROVE Len(a[j]) # 1
    <3>1. j \in 0 .. m /\ j \in 0 .. n /\ m - j \in Nat /\ m - j >= 1
      OBVIOUS
    <3> DEFINE d == m - j
    <3>2. d \in Nat /\ d >= 1
      BY <3>1
    <3>3. Len(a[j]) = c[j] /\ c[j] = Power(2, d)
      BY <1>5, <2>1, <3>1
    <3> HIDE DEF d
    <3>4. d < Power(2, d) /\ Power(2, d) \in Nat
      BY <3>2, TwoFacts
    <3> QED
      BY <3>2, <3>3, <3>4
  <2>4. IsLast(n, a, m)
    BY <2>2, <2>3 DEF IsLast
  <2>5. m = k
    BY <1>2, <2>4, OneLast
  <2> QED
    BY <2>1, <2>5
<1> QED
  BY <1>4, <1>6, <1>7, <1>8

\* And so for the lists of the run.
LEMMA RootRight == RootRead
<1> SUFFICES ASSUME NEW n \in 1 .. MaxPieces
             PROVE  LET list == [i \in 1 .. n |-> i]
                    IN RootMerkleHash(list, "one") = RootMerkleHash(list, "other")
                         <=> \E k \in 1 .. n : n = Power(2, k)
  BY DEF RootRead
<1> DEFINE list == [i \in 1 .. n |-> i]
<1>1. n \in Nat \ {0}
  BY MerkleAssumption
<1>2. \A i \in 1 .. n : list[i] \in Nat
  OBVIOUS
<1>3. list = [i \in 1 .. n |-> list[i]]
  OBVIOUS
<1> HIDE DEF list
<1>4. IsListOf(list, n)
  BY <1>1, <1>2, <1>3, IsSequence DEF IsListOf
<1>5. RootMerkleHash(list, "one") = RootMerkleHash(list, "other") <=> \E k \in 1 .. n : n = Power(2, k)
  BY <1>1, <1>4, RootOfList
<1> QED
  BY <1>5 DEF list

-----------------------------------------------------------------------------
(* What is read back *)

\* Whatever is called and whatever moves, a table holds what its users were told,
\* balances are as exact as their texts, the hash of a list depends on nothing
\* else where it does, and the reward is what it should be.
THEOREM ReadsRight == TablesSpec /\ AmountsSpec => []ReadsExact
<1>1. TablesExact /\ BalancesDrift => ReadsExact
  BY RootRight, CoinsRight DEF ReadsExact
<1> QED
  BY <1>1, TablesRight, DriftBounded, PTL
=============================================================================
