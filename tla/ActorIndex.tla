----------------------------- MODULE ActorIndex -----------------------------
(***************************************************************************)
(* The index of known actors on every node (actorindex.cpp) and the        *)
(* exchange that fills it: an actor is announced when it is added, every   *)
(* node asks all others for their lists when it gets a connection and      *)
(* every 30 seconds, and asks for each actor of a list that it lacks.      *)
(*                                                                         *)
(* An actor is a file, a row of the table Actors and, through              *)
(* initializeActor, a folder of the DFS; a kill may leave the first of     *)
(* them only.  Profiles and logins are in module Accounts, the folder in   *)
(* module Directory.                                                       *)
(*                                                                         *)
(* Messages arrive in order.  A message that is on the way already is not  *)
(* sent again: a second copy of an actor is ignored, and a second request  *)
(* asks for what the timer may ask for at any time.                        *)
(***************************************************************************)
EXTENDS Naturals, SequencesExt, FiniteSets, TLC

CONSTANTS
  Nodes,
  Actors,
  Owner,      \* Owner[a]: the node whose profile has the private key
  Main,       \* Main[n]: the main actor of the profile
  MaxKills,   \* bound: kills, each followed by a restart
  MaxDrops    \* bound: connections that are lost without a kill

ASSUME ActorIndexAssumption ==
  /\ IsFiniteSet(Actors)
  /\ Owner \in [Actors -> Nodes]
  /\ Main \in [Nodes -> Actors]
  /\ \A n \in Nodes : Owner[Main[n]] = n
  /\ {MaxKills, MaxDrops} \subseteq Nat

VARIABLES
  own,      \* own[n]: actors of the profile file
  file,     \* file[n][a]: "none", "empty" or "full"
  row,      \* row[n]: the table Actors
  folder,   \* folder[n]: actors with a folder in the DFS
  logged,   \* nodes somebody is logged in at
  link,     \* pairs of nodes with an active connection
  net,      \* net[p][q]: messages on the way
  cache,    \* cache[n]: messages that wait for a connection
  kills, drops

disk == <<own, file, row, folder>>
counts == <<kills, drops>>
vars == <<disk, logged, link, net, cache, counts>>

AllRequest(n) == [type |-> "AllRequest", ignored |-> Main[n]]
AllResponse(actors) == [type |-> "AllResponse", actors |-> actors]
Request(a) == [type |-> "Request", actor |-> a]
\* NewActor, or the answer to a request: both are handled by handleNewActor.
NewActor(a) == [type |-> "NewActor", actor |-> a]

Peers(n) == {q \in Nodes : {n, q} \in link}

Readable(n, a) == file[n][a] = "full"

-----------------------------------------------------------------------------
(* Sending; on is what is on the way before *)

Add(queue, msgs) == queue \o SetToSeq(msgs \ ToSet(queue))

\* To every connection, answers too, or into the cache; nothing before a login.
SendAll(on, n, msgs) ==
  IF n \notin logged \/ Peers(n) = {}
    THEN /\ net' = on
         /\ cache' = IF n \in logged THEN [cache EXCEPT ![n] = Add(@, msgs)] ELSE cache
    ELSE /\ net' = [on EXCEPT ![n] = [q \in Nodes |-> IF q \in Peers(n) THEN Add(@[q], msgs) ELSE @[q]]]
         /\ UNCHANGED cache

-----------------------------------------------------------------------------
(* Adding an actor *)

\* add
IsNew(n, a) == file[n][a] = "none"

\* addActor: file, row, folder, and the announcement to everybody.
AddActor(on, n, a) ==
  IF IsNew(n, a)
    THEN /\ file' = [file EXCEPT ![n][a] = "full"]
         /\ row' = [row EXCEPT ![n] = @ \cup {a}]
         /\ folder' = [folder EXCEPT ![n] = @ \cup {a}]
         /\ SendAll(on, n, {NewActor(a)})
    ELSE UNCHANGED <<file, row, folder, cache>> /\ net' = on

\* Mutant: the row is inserted before the file is written.
PartsRowFirst == {{}, {"row"}, {"row", "full"}, {"row", "full", "folder"}}

\* What a kill in addActor leaves: the file (created, then written), the row,
\* the folder.
Parts == {{}, {"empty"}, {"full"}, {"full", "row"}, {"full", "row", "folder"}}

\* Everything in memory is gone, and so are the connections.
Killed(n) ==
  /\ kills < MaxKills
  /\ kills' = kills + 1
  /\ logged' = logged \ {n}
  /\ link' = {l \in link : n \notin l}
  /\ net' = [p \in Nodes |-> [q \in Nodes |-> IF n \in {p, q} THEN <<>> ELSE net[p][q]]]
  /\ UNCHANGED <<cache, drops>>

KilledInAddActor(n, a) ==
  /\ IsNew(n, a)
  /\ \E parts \in Parts :
       /\ file' = [file EXCEPT ![n][a] = IF "full" \in parts THEN "full"
                                           ELSE IF "empty" \in parts THEN "empty" ELSE @]
       /\ row' = [row EXCEPT ![n] = IF "row" \in parts THEN @ \cup {a} ELSE @]
       /\ folder' = [folder EXCEPT ![n] = IF "folder" \in parts THEN @ \cup {a} ELSE @]
  /\ Killed(n)

-----------------------------------------------------------------------------
(* The profile's actors *)

Fresh(n) == {a \in Actors : Owner[a] = n /\ a \notin own[n] /\ (a = Main[n]) = (own[n] = {})}

\* createProfile and createWallet: the profile file is written first.
Create(n, a) ==
  /\ a \in Fresh(n)
  /\ own[n] = {} \/ n \in logged
  /\ own' = [own EXCEPT ![n] = @ \cup {a}]
  /\ \/ /\ own[n] = {}   \* the profile is in memory before addActor sends
        /\ logged' = logged \cup {n}
        /\ file' = [file EXCEPT ![n][a] = "full"]
        /\ row' = [row EXCEPT ![n] = @ \cup {a}]
        /\ folder' = [folder EXCEPT ![n] = @ \cup {a}]
        /\ cache' = [cache EXCEPT ![n] = Append(@, NewActor(a))]
        /\ UNCHANGED <<link, net, counts>>
     \/ /\ own[n] # {}
        /\ AddActor(net, n, a)
        /\ UNCHANGED <<logged, link, counts>>
     \/ KilledInAddActor(n, a)

\* load: actors of the profile that cannot be read in the index are added
\* again, and nothing is sent, as the profile is not in memory yet.
Load(n) ==
  LET missing == {a \in own[n] : ~Readable(n, a) /\ IsNew(n, a)}
  IN /\ n \notin logged /\ own[n] # {}
     /\ logged' = logged \cup {n}
     /\ file' = [file EXCEPT ![n] = [a \in Actors |-> IF a \in missing THEN "full" ELSE @[a]]]
     /\ row' = [row EXCEPT ![n] = @ \cup missing]
     /\ folder' = [folder EXCEPT ![n] = @ \cup missing]
     /\ UNCHANGED <<own, link, net, cache, counts>>

\* The first actor that is missing is added while the process is killed.
KillInLoad(n) ==
  /\ n \notin logged
  /\ \E a \in own[n] : KilledInAddActor(n, a)
  /\ UNCHANGED own

-----------------------------------------------------------------------------
(* Connections *)

\* newSocket, on both sides: the lists are asked for at once, which is before
\* the new connection is active; then the caches are sent.
Connect(n, q) ==
  /\ n # q /\ {n, q} \subseteq logged /\ {n, q} \notin link
  /\ link' = link \cup {{n, q}}
  /\ net' = [p \in Nodes |-> [r \in Nodes |->
               CASE {p, r} = {n, q} -> IF Peers(p) = {} THEN Append(cache[p], AllRequest(p)) ELSE cache[p]
                 [] p \in {n, q} /\ r \in Peers(p) -> Add(net[p][r], {AllRequest(p)})
                 [] OTHER -> net[p][r]]]
  /\ cache' = [cache EXCEPT ![n] = <<>>, ![q] = <<>>]
  /\ UNCHANGED <<disk, logged, counts>>

Disconnect(l) ==
  /\ l \in link
  /\ drops < MaxDrops
  /\ drops' = drops + 1
  /\ link' = link \ {l}
  /\ net' = [p \in Nodes |-> [q \in Nodes |-> IF {p, q} = l THEN <<>> ELSE net[p][q]]]
  /\ UNCHANGED <<disk, logged, cache, kills>>

Kill(n) == n \in logged /\ Killed(n) /\ UNCHANGED disk

\* getAllActorsTimerCall
GetAllActors(n) ==
  /\ n \in logged /\ Peers(n) # {}
  /\ SendAll(net, n, {AllRequest(n)})
  /\ UNCHANGED <<disk, logged, link, counts>>

-----------------------------------------------------------------------------
(* Handlers of a message that n has received *)

\* handleGetAllActor
HandleGetAllActor(on, n, ignored) ==
  /\ IF row[n] \ {ignored} = {}
       THEN net' = on /\ UNCHANGED cache
       ELSE SendAll(on, n, {AllResponse(row[n] \ {ignored})})
  /\ UNCHANGED <<file, row, folder>>

\* Mutant: only actors with a row here are asked for.
WantedWithRow(n, actors) == {a \in actors : ~Readable(n, a) /\ a \in row[n]}

\* getActor asks for what cannot be read.
Wanted(n, actors) == {a \in actors : ~Readable(n, a)}

\* handleNewAllActors
HandleNewAllActors(on, n, actors) ==
  /\ SendAll(on, n, {Request(a) : a \in Wanted(n, actors)})
  /\ UNCHANGED <<file, row, folder>>

\* handleGetActor: a node that cannot answer asks everybody in its turn, in
\* getActor and once more.
HandleGetActor(on, n, a) ==
  /\ SendAll(on, n, {IF Readable(n, a) THEN NewActor(a) ELSE Request(a)})
  /\ UNCHANGED <<file, row, folder>>

Handle(on, n, msg) ==
  \/ msg.type = "AllRequest" /\ HandleGetAllActor(on, n, msg.ignored)
  \/ msg.type = "AllResponse" /\ HandleNewAllActors(on, n, msg.actors)
  \/ msg.type = "Request" /\ HandleGetActor(on, n, msg.actor)
  \/ msg.type = "NewActor" /\ AddActor(on, n, msg.actor)

Deliver(p, n) ==
  /\ net[p][n] # <<>>
  /\ Handle([net EXCEPT ![p][n] = Tail(@)], n, Head(net[p][n]))
  /\ UNCHANGED <<own, logged, link, counts>>

KillInDeliver(p, n) ==
  /\ net[p][n] # <<>>
  /\ Head(net[p][n]).type = "NewActor"
  /\ KilledInAddActor(n, Head(net[p][n]).actor)
  /\ UNCHANGED own

-----------------------------------------------------------------------------
\* Some nodes have a profile already, and somebody is logged in there.
Init ==
  /\ logged \in SUBSET Nodes
  /\ own = [n \in Nodes |-> IF n \in logged THEN {Main[n]} ELSE {}]
  /\ row = own /\ folder = own
  /\ file = [n \in Nodes |-> [a \in Actors |-> IF a \in own[n] THEN "full" ELSE "none"]]
  /\ cache = [n \in Nodes |-> IF n \in logged THEN <<NewActor(Main[n])>> ELSE <<>>]
  /\ link = {}
  /\ net = [p \in Nodes |-> [q \in Nodes |-> <<>>]]
  /\ kills = 0 /\ drops = 0

Messages ==
  {AllRequest(n) : n \in Nodes} \cup {AllResponse(s) : s \in SUBSET Actors}
    \cup {Request(a) : a \in Actors} \cup {NewActor(a) : a \in Actors}

Next ==
  \/ \E n \in Nodes : Load(n) \/ KillInLoad(n) \/ Kill(n) \/ GetAllActors(n)
  \/ \E n \in Nodes, a \in Actors : Create(n, a)
  \/ \E n, q \in Nodes : Connect(n, q)
  \/ \E l \in link : Disconnect(l)
  \/ \E p, n \in Nodes : Deliver(p, n) \/ KillInDeliver(p, n)

\* The timer goes off again and again, and a message on the way arrives, if
\* its connection stays.
Fairness ==
  /\ \A n \in Nodes : WF_vars(GetAllActors(n))
  /\ \A p, n \in Nodes : WF_vars(Deliver(p, n))

Spec == Init /\ [][Next]_vars /\ Fairness

-----------------------------------------------------------------------------
(* Properties *)

\* The types; connections are between nodes somebody is logged in at, and
\* messages are on the way on connections only.
TypeOK ==
  /\ \A n \in Nodes : own[n] \subseteq {a \in Actors : Owner[a] = n}
  /\ file \in [Nodes -> [Actors -> {"none", "empty", "full"}]]
  /\ row \in [Nodes -> SUBSET Actors] /\ folder \in [Nodes -> SUBSET Actors]
  /\ logged \subseteq Nodes
  /\ \A l \in link : l \subseteq logged /\ Cardinality(l) = 2
  /\ \A p, q \in Nodes : net[p][q] \in Seq(Messages) /\ (net[p][q] # <<>> => {p, q} \in link)
  /\ \A n \in Nodes : cache[n] \in Seq(Messages)

\* The three parts of an actor come in one order, whatever is killed: what a
\* node lists it can also answer for, and what has a folder is listed.
PartsInOrder ==
  \A n \in Nodes :
    /\ folder[n] \subseteq row[n]
    /\ \A a \in row[n] : Readable(n, a)

\* A node has a file of the actor, but cannot read it or lacks row or folder.
InParts(n, a) == file[n][a] # "none" /\ ~(Readable(n, a) /\ a \in folder[n])
Broken == {at \in Nodes \X Actors : InParts(at[1], at[2])}

\* An actor is whole or not there at all, but for one actor of one node for each
\* kill: no order of messages, logins and second copies leaves another one.
OneBrokenByAKill == Cardinality(Broken) <= kills

\* What every order of messages, timers, logins, drops and kills keeps.
ActorIndexInv == TypeOK /\ PartsInOrder /\ OneBrokenByAKill

\* An actor that one side of a connection lists can be read on the other side
\* in the end, if they stay connected, whatever was lost or killed before; but
\* for one of which a kill left an empty file there, which nothing ever repairs.
ActorsSpread ==
  \A a \in Actors, n \in Nodes : \A q \in Nodes \ {n} :
    {n, q} \in link /\ a \in row[q] /\ file[n][a] # "empty"
      ~> {n, q} \notin link \/ Readable(n, a)
=============================================================================
