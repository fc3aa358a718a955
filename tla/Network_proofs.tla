--------------------------- MODULE Network_proofs ---------------------------
(***************************************************************************)
(* The network of a node.  A handshake lets only compatible nodes through  *)
(* and never gives a node two services for one peer, for any nodes, dials, *)
(* versions, networks, numbers of connections and failures.  On the        *)
(* connections there are, send_message keeps the promise of Mailbox, and   *)
(* the filter drops no message before it was handled, for any number of    *)
(* peers, messages, copies and kills.  What travels there, transactions    *)
(* and blocks, is valid for exactly those it should be valid for, whatever *)
(* is set, signed, copied, stored and read.                                *)
(***************************************************************************)
EXTENDS Connections, Messages, Blocks, SequenceTheorems, WellFoundedInduction, TLAPS

-----------------------------------------------------------------------------
(* Connections *)

FirstIds == {NoId} \cup {StartId[n] : n \in Nodes}
NodesOrNone == Nodes \cup {NoNode}

Services ==
  [ws : {"closed", "dialing", "open"}, listed : BOOLEAN, pub : BOOLEAN,
   identifier : NodesOrNone, activated : BOOLEAN]

IsOpen(c, s) == socket[c][s].ws # "closed"

\* The service of this side has sent its key.
HasSentKey(c, s) == socket[c][s].ws = "open" /\ socket[c][s].listed

Messages ==
  {Key} \cup [type : {"first"}, firstId : FirstIds, version : {Version[n] : n \in Nodes},
              identifier : Nodes]

\* A first message of n.  The first id in it is the one n has, or from before n
\* had one.
IsFirst(msg, n) ==
  /\ msg \in Messages
  /\ msg.type = "first" /\ msg.identifier = n /\ msg.version = Version[n]
  /\ msg.firstId \in {NoId, firstId[n]}
  /\ StartId[n] # NoId => msg.firstId = StartId[n]

\* What can be on the way to side s: what it has not read yet of a key and a
\* first message.
OnWire(c, s) ==
  LET first(msg) == IsFirst(msg, nodes[c][Other(s)])
  IN \/ wire[c][s] = <<>>
     \/ ~socket[c][s].pub /\ wire[c][s] = <<Key>>
     \/ ~socket[c][s].pub /\ \E msg \in Messages : first(msg) /\ wire[c][s] = <<Key, msg>>
     \/ socket[c][s].pub /\ ~socket[c][s].activated /\ \E msg \in Messages : first(msg) /\ wire[c][s] = <<msg>>

HasFirst(c, s) == \E i \in DOMAIN wire[c][s] : wire[c][s][i].type = "first"

\* While both sides are there, what is on the way to s is what the other side
\* has sent.
Matches(c, s) ==
  LET other == socket[c][Other(s)]
  IN /\ ~HasSentKey(c, Other(s)) => wire[c][s] = <<>> /\ ~socket[c][s].pub
     /\ HasSentKey(c, Other(s)) /\ ~other.pub =>
          IF socket[c][s].pub THEN wire[c][s] = <<>> ELSE wire[c][s] = <<Key>>
     /\ ~other.pub => ~socket[c][s].activated
     /\ other.pub => socket[c][s].activated \/ HasFirst(c, s)

MatchesAll(c) == IsOpen(c, 1) /\ IsOpen(c, 2) => Matches(c, 1) /\ Matches(c, 2)

ConnectionTypes ==
  /\ nodes \in [Connections -> [Sides -> NodesOrNone]]
  /\ socket \in [Connections -> [Sides -> Services]]
  /\ wire \in [Connections -> [Sides -> Seq(Messages)]]
  /\ firstId \in [Nodes -> FirstIds]
  /\ reconnections \in [Nodes -> SUBSET Nodes]

\* Who is in a network stays in it.
NetworkKept == \A n \in Nodes : StartId[n] # NoId => firstId[n] = StartId[n]

\* A service that was never looked at, or is gone, knows nothing; one that is
\* active has read the other's first message.
SideOK(c, s) ==
  LET side == socket[c][s]
      peer == nodes[c][Other(s)]
  IN /\ ~side.listed => ~side.pub /\ side.identifier = NoNode
     /\ side.ws = "closed" => ~side.listed
     /\ side.ws # "closed" =>
          /\ nodes[c][s] \in Nodes /\ peer \in Nodes
          /\ OnWire(c, s)
     /\ side.ws = "dialing" => ~side.pub /\ (side.listed <=> s = 1)
     /\ IsActive(c, s) =>
          /\ Version[nodes[c][s]] = Version[peer]
          /\ StartId[peer] # NoId => firstId[nodes[c][s]] = StartId[peer]
     /\ side.ws # "closed" /\ side.activated => side.pub

\* The inductive invariant.
IInv ==
  /\ ConnectionTypes
  /\ NetworkKept
  /\ \A c \in Connections, s \in Sides : SideOK(c, s)
  /\ \A c \in Connections : MatchesAll(c)
  /\ OneServicePerPeer

-----------------------------------------------------------------------------
(* What a step leaves as it is *)

\* The first id of a node changes at most from none to some.
FirstIdsGrow == \A n \in Nodes : firstId'[n] = firstId[n] \/ firstId[n] = NoId

LEMMA SidesFacts ==
  ASSUME NEW s \in Sides
  PROVE  Other(s) \in Sides /\ Other(Other(s)) = s /\ Other(s) # s
  BY DEF Sides, Other

LEMMA FirstKept ==
  ASSUME NetworkKept', FirstIdsGrow, NEW n \in Nodes, NEW msg, IsFirst(msg, n)
  PROVE  IsFirst(msg, n)'
  BY DEF IsFirst, FirstIdsGrow, NetworkKept

\* A side that a step does not touch.
LEMMA SideKept ==
  ASSUME IInv, NetworkKept', FirstIdsGrow, NEW c \in Connections, NEW s \in Sides,
         nodes'[c] = nodes[c], socket'[c][s] = socket[c][s], wire'[c][s] = wire[c][s]
  PROVE  SideOK(c, s)'
<1>1. SideOK(c, s)
  BY DEF IInv
<1>2. CASE socket[c][s].ws = "closed"
  BY <1>1, <1>2 DEF SideOK, IsActive
<1>3. CASE socket[c][s].ws # "closed"
  <2>1. nodes[c][s] \in Nodes /\ nodes[c][Other(s)] \in Nodes /\ OnWire(c, s)
    BY <1>1, <1>3 DEF SideOK
  <2>2. OnWire(c, s)'
    BY <2>1, FirstKept DEF OnWire
  <2>3. IsActive(c, s)' => IsActive(c, s)
    BY DEF IsActive
  <2>4. StartId[nodes[c][Other(s)]] # NoId /\ firstId[nodes[c][s]] = StartId[nodes[c][Other(s)]]
          => firstId'[nodes[c][s]] = StartId[nodes[c][Other(s)]]
    BY <2>1 DEF FirstIdsGrow
  <2> QED
    BY <1>1, <1>3, <2>1, <2>2, <2>3, <2>4 DEF SideOK
<1> QED
  BY <1>2, <1>3

LEMMA MatchesKept ==
  ASSUME NEW c \in Connections, MatchesAll(c), socket'[c] = socket[c], wire'[c] = wire[c]
  PROVE  MatchesAll(c)'
  BY DEF MatchesAll, IsOpen, Matches, HasSentKey, HasFirst

\* A service that knows its peer knew it before.
LEMMA OneServiceKept ==
  ASSUME OneServicePerPeer,
         \A c \in Connections, s \in Sides :
           socket'[c][s].listed /\ socket'[c][s].identifier # NoNode =>
             /\ socket[c][s].listed /\ socket[c][s].identifier = socket'[c][s].identifier
             /\ nodes'[c][s] = nodes[c][s]
  PROVE  OneServicePerPeer'
<1> SUFFICES ASSUME NEW n \in Nodes, NEW e \in Listed(n)', NEW f \in Listed(n)',
                    socket'[e[1]][e[2]].identifier = socket'[f[1]][f[2]].identifier,
                    socket'[e[1]][e[2]].identifier # NoNode
             PROVE  e = f
  BY DEF OneServicePerPeer
<1>1. e \in Listed(n) /\ f \in Listed(n)
  BY DEF Listed
<1>2. /\ socket[e[1]][e[2]].identifier = socket'[e[1]][e[2]].identifier
      /\ socket[f[1]][f[2]].identifier = socket'[f[1]][f[2]].identifier
  BY DEF Listed
<1> QED
  BY <1>1, <1>2 DEF OneServicePerPeer

\* A step on one connection: what is to be shown is about that one.
LEMMA OneConnection ==
  ASSUME IInv, ConnectionTypes', NetworkKept', FirstIdsGrow, OneServicePerPeer',
         NEW c \in Connections,
         \A d \in Connections \ {c} :
           nodes'[d] = nodes[d] /\ socket'[d] = socket[d] /\ wire'[d] = wire[d],
         \A s \in Sides : SideOK(c, s)',
         MatchesAll(c)'
  PROVE  IInv'
<1>1. ASSUME NEW d \in Connections, NEW s \in Sides
      PROVE  SideOK(d, s)'
  <2>1. CASE d = c
    BY <2>1
  <2>2. CASE d # c
    BY <2>2, SideKept
  <2> QED
    BY <2>1, <2>2
<1>2. ASSUME NEW d \in Connections
      PROVE  MatchesAll(d)'
  <2>1. CASE d = c
    BY <2>1
  <2>2. CASE d # c
    BY <2>2, MatchesKept DEF IInv
  <2> QED
    BY <2>1, <2>2
<1> QED
  BY <1>1, <1>2 DEF IInv

-----------------------------------------------------------------------------
(* What the actions of connections do *)

LEMMA InitInv ==
  ASSUME Init
  PROVE  IInv
<1> USE ConnectionsAssumption
<1>1. ConnectionTypes
  <2>1. Closed \in Services
    BY DEF Closed, Services, NodesOrNone
  <2>2. firstId \in [Nodes -> FirstIds]
    BY DEF Init, FirstIds
  <2>3. nodes \in [Connections -> [Sides -> NodesOrNone]]
    BY DEF Init, Sides, NodesOrNone
  <2>4. socket \in [Connections -> [Sides -> Services]]
    BY <2>1 DEF Init, Sides
  <2>5. wire \in [Connections -> [Sides -> Seq(Messages)]]
    <3> DEFINE none == <<>>
    <3>1. none \in Seq(Messages)
      OBVIOUS
    <3> HIDE DEF none
    <3>2. <<none, none>> \in [Sides -> Seq(Messages)]
      BY <3>1 DEF Sides
    <3> QED
      BY <3>2 DEF Init, none
  <2> QED
    BY <2>2, <2>3, <2>4, <2>5 DEF Init, ConnectionTypes
<1>2. \A c \in Connections, s \in Sides : socket[c][s] = Closed
  BY DEF Init, Sides
<1>3. \A c \in Connections, s \in Sides : SideOK(c, s)
  BY <1>2 DEF SideOK, Closed, IsActive
<1>4. \A c \in Connections : MatchesAll(c)
  BY <1>2 DEF MatchesAll, IsOpen, Closed, Sides
<1>5. OneServicePerPeer
  BY <1>2 DEF OneServicePerPeer, Listed, Closed
<1> QED
  BY <1>1, <1>3, <1>4, <1>5 DEF IInv, NetworkKept, Init

\* The service of a side is gone: what it had activated does not count.
LEMMA CloseKeeps ==
  ASSUME IInv, NetworkKept', FirstIdsGrow, NEW c \in Connections, NEW s \in Sides,
         firstId' \in [Nodes -> FirstIds], reconnections' \in [Nodes -> SUBSET Nodes],
         nodes' = nodes,
         NEW gone \in {Closed, [Closed EXCEPT !.activated = TRUE]},
         socket' = [socket EXCEPT ![c][s] = gone],
         wire' = [wire EXCEPT ![c][s] = <<>>]
  PROVE  IInv'
<1> USE SidesFacts
<1>1. gone \in Services
  <2>1. Closed \in Services
    BY DEF Closed, Services, NodesOrNone
  <2>2. [Closed EXCEPT !.activated = TRUE] \in Services
    BY <2>1, Zenon DEF Services
  <2> QED
    BY <2>1, <2>2
<1>2. gone.ws = "closed" /\ ~gone.listed /\ ~gone.pub /\ gone.identifier = NoNode
  BY DEF Closed
<1>3. ConnectionTypes
  BY DEF IInv
<1>4. ConnectionTypes'
  BY <1>1, <1>3 DEF ConnectionTypes
<1>5. /\ socket'[c][s] = gone
      /\ \A d \in Connections, r \in Sides : <<d, r>> # <<c, s>> =>
           socket'[d][r] = socket[d][r] /\ wire'[d][r] = wire[d][r]
      /\ \A d \in Connections \ {c} : socket'[d] = socket[d] /\ wire'[d] = wire[d]
  BY <1>3 DEF ConnectionTypes
<1>6. OneServicePerPeer'
  BY <1>2, <1>5, OneServiceKept DEF IInv
<1>7. SideOK(c, s)'
  BY <1>2, <1>5 DEF SideOK, IsActive
<1>8. ASSUME NEW r \in Sides, r # s
      PROVE  SideOK(c, r)'
  BY <1>5, <1>8, SideKept
<1>9. MatchesAll(c)'
  BY <1>2, <1>5 DEF MatchesAll, IsOpen, Sides
<1> QED
  BY <1>4, <1>5, <1>6, <1>7, <1>8, <1>9, OneConnection

LEMMA ClosingKeeps ==
  ASSUME IInv, NEW c \in Connections, NEW s \in Sides, OnDisconnected(c, s) \/ Break(c, s)
  PROVE  IInv'
<1>1. CloseSocket(c, s) /\ UNCHANGED <<nodes, firstId, reconnections>>
  BY DEF OnDisconnected, Break
<1>2. NetworkKept' /\ FirstIdsGrow
  BY <1>1 DEF IInv, NetworkKept, FirstIdsGrow
<1> QED
  BY <1>1, <1>2, CloseKeeps DEF CloseSocket, IInv, ConnectionTypes

\* A service that does not know its peer when the step is over.
LEMMA NoNewPeer ==
  ASSUME OneServicePerPeer, nodes' = nodes, NEW c \in Connections, NEW s \in Sides,
         socket'[c][Other(s)] = socket[c][Other(s)],
         \A d \in Connections \ {c} : socket'[d] = socket[d],
         \/ socket'[c][s].identifier = NoNode
         \/ socket[c][s].listed /\ socket'[c][s].identifier = socket[c][s].identifier
  PROVE  OneServicePerPeer'
<1>1. ASSUME NEW d \in Connections, NEW r \in Sides,
             socket'[d][r].listed, socket'[d][r].identifier # NoNode
      PROVE  /\ socket[d][r].listed /\ socket[d][r].identifier = socket'[d][r].identifier
             /\ nodes'[d][r] = nodes[d][r]
  <2>1. CASE d # c
    BY <1>1, <2>1
  <2>2. CASE d = c /\ r = s
    BY <1>1, <2>2
  <2>3. CASE d = c /\ r = Other(s)
    BY <1>1, <2>3
  <2> QED
    BY <2>1, <2>2, <2>3 DEF Sides, Other
<1> QED
  BY <1>1, OneServiceKept

LEMMA AcceptKeeps ==
  ASSUME IInv, NEW c \in Connections, Accept(c)
  PROVE  IInv'
<1> DEFINE full == Cardinality(Listed(nodes[c][2])) >= MaxConnections
           mine == IF full THEN [socket[c][2] EXCEPT !.ws = "open"] ELSE Service("open")
           others == IF full THEN wire[c][1] ELSE Append(wire[c][1], Key)
<1>0. 1 \in Sides /\ 2 \in Sides /\ Other(2) = 1 /\ Other(1) = 2
  BY DEF Sides, Other
<1>1. ConnectionTypes /\ SideOK(c, 1) /\ SideOK(c, 2) /\ MatchesAll(c)
  BY <1>0 DEF IInv
<1>2. /\ socket[c][1].ws = "dialing" /\ socket[c][2].ws = "dialing"
      /\ nodes' = nodes /\ firstId' = firstId /\ reconnections' = reconnections
  BY DEF Accept
<1>3. /\ ~socket[c][1].pub /\ ~socket[c][2].pub /\ ~socket[c][2].listed
      /\ wire[c][1] = <<>> /\ wire[c][2] = <<>>
      /\ socket[c][2].identifier = NoNode /\ ~socket[c][2].activated /\ ~socket[c][1].activated
  BY <1>0, <1>1, <1>2 DEF SideOK, MatchesAll, Matches, IsOpen, HasSentKey
<1>4. mine \in Services
  <2>1. CASE full
    <3>1. socket[c][2] \in Services
      BY <1>0, <1>1 DEF ConnectionTypes
    <3> QED
      BY <2>1, <3>1, Zenon DEF Services
  <2>2. CASE ~full
    <3>1. Closed \in Services
      BY DEF Closed, Services, NodesOrNone
    <3>2. Service("open") \in Services
      BY <3>1, Zenon DEF Service, Services
    <3> QED
      BY <2>2, <3>2
  <2> QED
    BY <2>1, <2>2
<1>5. /\ mine.ws = "open" /\ ~mine.pub /\ mine.identifier = NoNode /\ ~mine.activated
      /\ full => ~mine.listed
      /\ ~full => mine.listed
  <2>1. CASE full
    BY <1>0, <1>1, <1>3, <2>1 DEF ConnectionTypes, Services
  <2>2. CASE ~full
    BY <2>2 DEF Service, Closed
  <2> QED
    BY <2>1, <2>2
<1>6. /\ Key \in Messages
      /\ others \in Seq(Messages)
      /\ full => others = <<>>
      /\ ~full => others = <<Key>>
  <2>1. CASE full
    BY <1>3, <2>1 DEF Messages
  <2>2. CASE ~full
    BY <1>3, <2>2 DEF Messages
  <2> QED
    BY <2>1, <2>2
<1>7. wire[c][2] \in Seq(Messages)
  BY <1>0, <1>1 DEF ConnectionTypes
<1>8. /\ socket' = [socket EXCEPT ![c][2] = mine]
      /\ wire' = [wire EXCEPT ![c][2] = wire[c][2], ![c][Other(2)] = others]
  <2>1. CASE full
    BY <1>0, <1>1, <2>1 DEF Accept, ConnectionTypes
  <2>2. CASE ~full
    BY <1>0, <1>1, <2>2 DEF Accept, ConnectionTypes, Send
  <2> QED
    BY <2>1, <2>2
<1>9. /\ ConnectionTypes'
      /\ socket'[c][2] = mine /\ wire'[c][2] = wire[c][2]
      /\ socket'[c][1] = socket[c][1] /\ wire'[c][1] = others
      /\ \A d \in Connections \ {c} :
           nodes'[d] = nodes[d] /\ socket'[d] = socket[d] /\ wire'[d] = wire[d]
  <2>1. reconnections' \in [Nodes -> SUBSET Nodes] /\ firstId' \in [Nodes -> FirstIds]
    BY <1>1, <1>2 DEF ConnectionTypes
  <2>2. mine \in Services /\ others \in Seq(Messages)
    BY <1>4, <1>6
  <2> HIDE DEF mine, others
  <2> QED
    <3>1. /\ socket' \in [Connections -> [Sides -> Services]]
          /\ socket'[c][2] = mine /\ socket'[c][1] = socket[c][1]
          /\ \A d \in Connections \ {c} : socket'[d] = socket[d]
      BY <1>0, <1>1, <1>8, <2>2 DEF ConnectionTypes
    <3>2. /\ wire' \in [Connections -> [Sides -> Seq(Messages)]]
          /\ wire'[c][2] = wire[c][2] /\ wire'[c][1] = others
          /\ \A d \in Connections \ {c} : wire'[d] = wire[d]
      BY <1>0, <1>1, <1>7, <1>8, <2>2 DEF ConnectionTypes
    <3> QED
      BY <1>1, <1>2, <2>1, <3>1, <3>2 DEF ConnectionTypes
<1> HIDE DEF mine, others, full
<1>10. NetworkKept' /\ FirstIdsGrow
  BY <1>2 DEF IInv, NetworkKept, FirstIdsGrow
<1>11. OneServicePerPeer'
  BY <1>0, <1>2, <1>5, <1>9, NoNewPeer DEF IInv
<1>12. SideOK(c, 1)'
  BY <1>0, <1>1, <1>2, <1>3, <1>6, <1>9 DEF SideOK, OnWire, IsActive
<1>13. SideOK(c, 2)'
  BY <1>0, <1>1, <1>2, <1>3, <1>5, <1>9 DEF SideOK, OnWire, IsActive
<1>14. MatchesAll(c)'
  BY <1>0, <1>2, <1>3, <1>5, <1>6, <1>9 DEF MatchesAll, Matches, HasSentKey
<1>15. \A s \in Sides : SideOK(c, s)'
  BY <1>12, <1>13 DEF Sides
<1> QED
  BY <1>9, <1>10, <1>11, <1>14, <1>15, OneConnection

LEMMA OnConnectedKeeps ==
  ASSUME IInv, NEW c \in Connections, OnConnected(c)
  PROVE  IInv'
<1> DEFINE mine == [socket[c][1] EXCEPT !.ws = "open"]
           others == Append(wire[c][2], Key)
<1>0. 1 \in Sides /\ 2 \in Sides /\ Other(2) = 1 /\ Other(1) = 2
  BY DEF Sides, Other
<1>1. ConnectionTypes /\ SideOK(c, 1) /\ SideOK(c, 2) /\ MatchesAll(c)
  BY <1>0 DEF IInv
<1>2. /\ socket[c][1].ws = "dialing" /\ socket[c][2].ws = "open"
      /\ nodes' = nodes /\ firstId' = firstId /\ reconnections' = reconnections
  BY DEF OnConnected
<1>3. /\ ~socket[c][1].pub /\ socket[c][1].listed /\ ~socket[c][1].activated
      /\ wire[c][2] = <<>> /\ ~socket[c][2].pub /\ ~socket[c][2].activated
      /\ Matches(c, 1) /\ OnWire(c, 1)
  BY <1>0, <1>1, <1>2 DEF SideOK, MatchesAll, Matches, IsOpen, HasSentKey
<1>4. mine \in Services
  <2>1. socket[c][1] \in Services
    BY <1>0, <1>1 DEF ConnectionTypes
  <2> QED
    BY <2>1, Zenon DEF Services
<1>5. /\ mine.ws = "open" /\ ~mine.pub /\ mine.listed /\ ~mine.activated
      /\ mine.identifier = socket[c][1].identifier
  BY <1>0, <1>1, <1>3 DEF ConnectionTypes, Services
<1>6. others \in Seq(Messages) /\ others = <<Key>> /\ wire[c][1] \in Seq(Messages)
  BY <1>0, <1>1, <1>3 DEF Messages, ConnectionTypes
<1>7. /\ socket' = [socket EXCEPT ![c][1] = mine]
      /\ wire' = [wire EXCEPT ![c][1] = wire[c][1], ![c][Other(1)] = others]
  BY <1>0, <1>1 DEF OnConnected, ConnectionTypes, Send
<1>8. /\ ConnectionTypes'
      /\ socket'[c][1] = mine /\ wire'[c][1] = wire[c][1]
      /\ socket'[c][2] = socket[c][2] /\ wire'[c][2] = others
      /\ \A d \in Connections \ {c} :
           nodes'[d] = nodes[d] /\ socket'[d] = socket[d] /\ wire'[d] = wire[d]
  <2>1. reconnections' \in [Nodes -> SUBSET Nodes] /\ firstId' \in [Nodes -> FirstIds]
    BY <1>1, <1>2 DEF ConnectionTypes
  <2>2. mine \in Services /\ others \in Seq(Messages)
    BY <1>4, <1>6
  <2> HIDE DEF mine, others
  <2> QED
    BY <1>0, <1>1, <1>2, <1>6, <1>7, <2>1, <2>2 DEF ConnectionTypes
<1> HIDE DEF mine, others
<1>9. NetworkKept' /\ FirstIdsGrow
  BY <1>2 DEF IInv, NetworkKept, FirstIdsGrow
<1>10. OneServicePerPeer'
  BY <1>0, <1>2, <1>3, <1>5, <1>8, NoNewPeer DEF IInv
<1>11. OnWire(c, 1)' /\ OnWire(c, 2)'
  <2>1. OnWire(c, 1)'
    BY <1>0, <1>1, <1>2, <1>3, <1>5, <1>8 DEF OnWire, IsFirst
  <2>2. OnWire(c, 2)'
    BY <1>0, <1>3, <1>6, <1>8 DEF OnWire
  <2> QED
    BY <2>1, <2>2
<1>12. SideOK(c, 1)'
  BY <1>0, <1>1, <1>2, <1>3, <1>5, <1>8, <1>11 DEF SideOK, IsActive
<1>13. SideOK(c, 2)'
  BY <1>0, <1>1, <1>2, <1>3, <1>8, <1>11 DEF SideOK, IsActive
<1>14. Matches(c, 1)' /\ Matches(c, 2)'
  <2>1. Matches(c, 1)'
    BY <1>0, <1>3, <1>5, <1>8 DEF Matches, HasSentKey, HasFirst
  <2>2. Matches(c, 2)'
    BY <1>0, <1>3, <1>5, <1>6, <1>8 DEF Matches, HasSentKey
  <2> QED
    BY <2>1, <2>2
<1>15. \A s \in Sides : SideOK(c, s)'
  BY <1>12, <1>13 DEF Sides
<1> QED
  BY <1>8, <1>9, <1>10, <1>14, <1>15, OneConnection DEF MatchesAll

LEMMA AppendAt ==
  ASSUME NEW S, NEW q \in Seq(S), NEW y \in S
  PROVE  /\ Append(q, y) \in Seq(S) /\ Len(Append(q, y)) = Len(q) + 1
         /\ Append(q, y)[Len(q) + 1] = y
         /\ \A i \in 1 .. Len(q) : Append(q, y)[i] = q[i]
  OBVIOUS

LEMMA AppendToOne ==
  ASSUME NEW S, NEW x \in S, NEW y \in S
  PROVE  Append(<<x>>, y) = <<x, y>>
<1> DEFINE one == <<x>>
           two == <<x, y>>
           sum == Append(one, y)
<1>1. one \in Seq(S) /\ Len(one) = 1 /\ one[1] = x
  OBVIOUS
<1>2. two \in Seq(S) /\ Len(two) = 2 /\ two[1] = x /\ two[2] = y
  OBVIOUS
<1> HIDE DEF one, two
<1>3. /\ sum \in Seq(S) /\ Len(sum) = Len(one) + 1
      /\ sum[Len(one) + 1] = y
      /\ \A i \in 1 .. Len(one) : sum[i] = one[i]
  <2>1. one \in Seq(S)
    BY <1>1
  <2> QED
    BY <2>1, AppendAt
<1> HIDE DEF sum
<1>4. Len(sum) = 2 /\ sum[1] = x /\ sum[2] = y
  BY <1>1, <1>3
<1>5. sum = two
  BY <1>2, <1>3, <1>4, SeqEqual
<1> QED
  BY <1>5 DEF one, two, sum

\* A side reads the other's key and answers with its first message.
LEMMA KeyKeeps ==
  ASSUME IInv, NEW c \in Connections, NEW s \in Sides, OnTextMessage(c, s), ~socket[c][s].pub
  PROVE  IInv'
<1> DEFINE o == Other(s)
           n == nodes[c][s]
           mine == [socket[c][s] EXCEPT !.pub = TRUE]
           mail == FirstMessage(n)
           others == Append(wire[c][o], mail)
<1>0. o \in Sides /\ Other(o) = s /\ o # s
  BY SidesFacts
<1>1. ConnectionTypes /\ SideOK(c, s) /\ SideOK(c, o) /\ MatchesAll(c)
  BY <1>0 DEF IInv
<1>2. /\ socket[c][s].ws = "open" /\ socket[c][s].listed /\ wire[c][s] # <<>>
      /\ socket' = [socket EXCEPT ![c][s].pub = TRUE]
      /\ wire' = [wire EXCEPT ![c][s] = Tail(@), ![c][Other(s)] = Append(@, FirstMessage(nodes[c][s]))]
      /\ nodes' = nodes /\ firstId' = firstId /\ reconnections' = reconnections
  BY DEF OnTextMessage
<1>3. /\ ~socket[c][s].activated
      /\ n \in Nodes /\ nodes[c][o] \in Nodes
      /\ OnWire(c, s)
  BY <1>1, <1>2 DEF SideOK
<1>4. mail \in Messages /\ IsFirst(mail, n)
  <2>1. firstId[n] \in FirstIds
    BY <1>1, <1>3 DEF ConnectionTypes
  <2>2. StartId[n] # NoId => firstId[n] = StartId[n]
    BY <1>3 DEF IInv, NetworkKept
  <2>3. mail \in Messages
    BY <1>3, <2>1 DEF FirstMessage, Messages
  <2> QED
    BY <2>2, <2>3 DEF FirstMessage, IsFirst
<1>5. mine \in Services
  <2>1. socket[c][s] \in Services
    BY <1>1 DEF ConnectionTypes
  <2> QED
    BY <2>1, Zenon DEF Services
<1>6. /\ mine.ws = "open" /\ mine.pub /\ mine.listed /\ ~mine.activated
      /\ mine.identifier = socket[c][s].identifier
  BY <1>1, <1>2, <1>3 DEF ConnectionTypes, Services
<1>7. \/ wire[c][s] = <<Key>> /\ Tail(wire[c][s]) = <<>> /\ ~HasFirst(c, s)
      \/ \E msg \in Messages :
           IsFirst(msg, nodes[c][o]) /\ wire[c][s] = <<Key, msg>> /\ Tail(wire[c][s]) = <<msg>>
  <2>1. CASE wire[c][s] = <<Key>>
    BY <2>1 DEF HasFirst, Key
  <2>2. ASSUME NEW msg \in Messages, IsFirst(msg, nodes[c][o]), wire[c][s] = <<Key, msg>>
        PROVE  Tail(wire[c][s]) = <<msg>>
    BY <2>2
  <2> QED
    BY <1>2, <1>3, <2>1, <2>2, Zenon DEF OnWire
<1>8. wire[c][s] \in Seq(Messages) /\ wire[c][o] \in Seq(Messages)
  BY <1>0, <1>1 DEF ConnectionTypes
<1>9. Tail(wire[c][s]) \in Seq(Messages) /\ others \in Seq(Messages)
  BY <1>2, <1>4, <1>8
<1>10. /\ ConnectionTypes'
       /\ socket'[c][s] = mine /\ socket'[c][o] = socket[c][o]
       /\ wire'[c][s] = Tail(wire[c][s]) /\ wire'[c][o] = others
       /\ \A d \in Connections \ {c} :
            nodes'[d] = nodes[d] /\ socket'[d] = socket[d] /\ wire'[d] = wire[d]
  <2> HIDE DEF mail
  <2>0. socket' = [socket EXCEPT ![c][s] = mine]
    BY <1>2
  <2> HIDE DEF mine
  <2>1. /\ socket' \in [Connections -> [Sides -> Services]]
        /\ socket'[c][s] = mine /\ socket'[c][o] = socket[c][o]
        /\ \A d \in Connections \ {c} : socket'[d] = socket[d]
    BY <1>0, <1>1, <1>5, <2>0 DEF ConnectionTypes
  <2>2. wire' = [wire EXCEPT ![c][s] = Tail(wire[c][s]), ![c][o] = others]
    BY <1>0, <1>1, <1>2 DEF ConnectionTypes, mail
  <2> HIDE DEF others, o
  <2>3. /\ wire' \in [Connections -> [Sides -> Seq(Messages)]]
        /\ wire'[c][s] = Tail(wire[c][s]) /\ wire'[c][o] = others
        /\ \A d \in Connections \ {c} : wire'[d] = wire[d]
    BY <1>0, <1>1, <1>9, <2>2 DEF ConnectionTypes
  <2> QED
    BY <1>1, <1>2, <2>1, <2>3 DEF ConnectionTypes
<1> HIDE DEF mine, mail
<1>11. NetworkKept' /\ FirstIdsGrow
  BY <1>2 DEF IInv, NetworkKept, FirstIdsGrow
<1>12. OneServicePerPeer'
  BY <1>2, <1>6, <1>10, NoNewPeer DEF IInv
<1>13. \A msg \in Messages : \A m \in Nodes : IsFirst(msg, m) => IsFirst(msg, m)'
  BY <1>11, FirstKept
<1>14. SideOK(c, s)'
  <2>1. OnWire(c, s)'
    BY <1>2, <1>3, <1>6, <1>7, <1>10, <1>13 DEF OnWire
  <2> QED
    BY <1>2, <1>3, <1>6, <1>10, <2>1 DEF SideOK, IsActive
<1>15. CASE socket[c][o].ws = "closed"
  <2>1. SideOK(c, o)'
    BY <1>1, <1>10, <1>15 DEF SideOK, IsActive
  <2>2. MatchesAll(c)'
    BY <1>0, <1>10, <1>15 DEF MatchesAll, IsOpen, Sides
  <2>3. \A r \in Sides : SideOK(c, r)'
    BY <1>0, <1>14, <2>1 DEF Sides
  <2> QED
    BY <1>10, <1>11, <1>12, <2>2, <2>3, OneConnection
<1>16. CASE socket[c][o].ws # "closed"
  <2>1. Matches(c, s) /\ Matches(c, o)
    BY <1>0, <1>1, <1>2, <1>16 DEF MatchesAll, IsOpen, Sides
  <2>2. /\ socket[c][o].pub => wire[c][o] = <<>>
        /\ ~socket[c][o].pub => wire[c][o] = <<Key>>
    BY <1>0, <1>2, <2>1 DEF Matches, HasSentKey
  <2>3. ~socket[c][o].activated
    BY <1>0, <2>1 DEF Matches
  <2>4. /\ socket[c][o].pub => others = <<mail>>
        /\ ~socket[c][o].pub => others = <<Key, mail>>
    <3>1. wire[c][o] = <<>> => others = <<mail>>
      OBVIOUS
    <3>2. wire[c][o] = <<Key>> => others = <<Key, mail>>
      <4>1. Key \in Messages
        BY DEF Messages
      <4>2. Append(<<Key>>, mail) = <<Key, mail>>
        BY <1>4, <4>1, AppendToOne, Zenon
      <4> QED
        BY <4>2, Zenon
    <3> QED
      BY <2>2, <3>1, <3>2, Zenon
  <2> HIDE DEF others
  <2>5. OnWire(c, o)'
    BY <1>0, <1>2, <1>3, <1>4, <1>10, <1>13, <2>3, <2>4 DEF OnWire
  <2>6. SideOK(c, o)'
    BY <1>0, <1>1, <1>2, <1>10, <1>16, <2>3, <2>5 DEF SideOK, IsActive
  <2>7. HasFirst(c, o)'
    BY <1>4, <1>10, <2>4 DEF HasFirst, IsFirst
  <2>8. Matches(c, o)'
    BY <1>0, <1>2, <1>6, <1>10, <2>3, <2>7 DEF Matches, HasSentKey
  <2>9. HasSentKey(c, o)
    BY <1>0, <1>2, <2>1 DEF Matches
  <2>10. ~socket[c][o].pub => wire[c][s] = <<Key>> /\ Tail(wire[c][s]) = <<>>
    <3>1. ~socket[c][o].pub => wire[c][s] = <<Key>>
      BY <1>0, <2>1, <2>9 DEF Matches
    <3>2. wire[c][s] = <<Key>> => Tail(wire[c][s]) = <<>>
      OBVIOUS
    <3> QED
      BY <3>1, <3>2, Zenon
  <2>11. socket[c][o].pub => HasFirst(c, s)'
    <3>1. SUFFICES ASSUME socket[c][o].pub
                   PROVE  HasFirst(c, s)'
      OBVIOUS
    <3>2. HasFirst(c, s)
      BY <1>0, <1>3, <2>1, <3>1 DEF Matches
    <3>3. PICK msg \in Messages : IsFirst(msg, nodes[c][o]) /\ wire'[c][s] = <<msg>>
      BY <1>7, <1>10, <3>2
    <3> QED
      BY <3>3 DEF HasFirst, IsFirst
  <2>12. Matches(c, s)'
    <3>1. ~socket[c][o].pub => wire'[c][s] = <<>>
      BY <1>10, <2>10
    <3>2. HasSentKey(c, o)'
      BY <1>10, <2>9 DEF HasSentKey
    <3> QED
      BY <1>0, <1>3, <1>6, <1>10, <2>11, <3>1, <3>2 DEF Matches
  <2>13. MatchesAll(c)' /\ \A r \in Sides : SideOK(c, r)'
    BY <1>0, <1>14, <2>6, <2>8, <2>12 DEF MatchesAll, Sides
  <2> QED
    BY <1>10, <1>11, <1>12, <2>13, OneConnection
<1> QED
  BY <1>15, <1>16

\* What a side that waits for the first message reads: that of its peer.
LEMMA WhatIsRead ==
  ASSUME IInv, NEW c \in Connections, NEW s \in Sides,
         OnTextMessage(c, s), socket[c][s].pub
  PROVE  /\ nodes[c][s] \in Nodes /\ nodes[c][Other(s)] \in Nodes
         /\ ~socket[c][s].activated
         /\ \E msg \in Messages :
              IsFirst(msg, nodes[c][Other(s)]) /\ wire[c][s] = <<msg>> /\ Head(wire[c][s]) = msg
<1>1. SideOK(c, s)
  BY DEF IInv
<1>2. socket[c][s].ws = "open" /\ wire[c][s] # <<>>
  BY DEF OnTextMessage
<1>3. PICK msg \in Messages :
        ~socket[c][s].activated /\ IsFirst(msg, nodes[c][Other(s)]) /\ wire[c][s] = <<msg>>
  BY <1>1, <1>2 DEF SideOK, OnWire
<1> QED
  BY <1>1, <1>2, <1>3 DEF SideOK

\* A side judges the first message of the other one.
LEMMA FirstMessageKeeps ==
  ASSUME IInv, NEW c \in Connections, NEW s \in Sides, OnTextMessage(c, s), socket[c][s].pub
  PROVE  IInv'
<1> DEFINE o == Other(s)
           n == nodes[c][s]
           p == nodes[c][o]
<1>0. o \in Sides /\ Other(o) = s /\ o # s
  BY SidesFacts
<1>1. ConnectionTypes /\ SideOK(c, s) /\ SideOK(c, o) /\ MatchesAll(c) /\ NetworkKept
  BY <1>0 DEF IInv
<1>2. n \in Nodes /\ p \in Nodes /\ ~socket[c][s].activated
  BY WhatIsRead
<1>3. PICK msg \in Messages : IsFirst(msg, p) /\ wire[c][s] = <<msg>> /\ Head(wire[c][s]) = msg
  BY WhatIsRead
<1>4. /\ socket[c][s].ws = "open" /\ socket[c][s].listed
      /\ CheckFirstMessage(c, s, msg)
      /\ nodes' = nodes
  BY <1>3 DEF OnTextMessage
<1>5. /\ firstId' = [firstId EXCEPT ![n] = TakeOver(n, msg.firstId)]
      /\ socket' = [socket EXCEPT ![c][s] = Judged(c, s, msg)]
      /\ wire' = [wire EXCEPT ![c][s] = IF socket'[c][s].ws = "open" THEN Tail(@) ELSE <<>>]
      /\ reconnections' = IF Hopeless(c, s, msg)
                            THEN [reconnections EXCEPT ![n] = @ \ {p}]
                            ELSE reconnections
  BY <1>4 DEF CheckFirstMessage
<1>6. msg.firstId \in FirstIds /\ msg.identifier = p /\ msg.version = Version[p]
  BY <1>1, <1>2, <1>3 DEF IsFirst, ConnectionTypes, FirstIds
<1>7. firstId' \in [Nodes -> FirstIds] /\ NetworkKept' /\ FirstIdsGrow
  BY <1>1, <1>2, <1>5, <1>6 DEF TakeOver, ConnectionTypes, NetworkKept, FirstIdsGrow
<1>8. reconnections' \in [Nodes -> SUBSET Nodes]
  BY <1>1, <1>5 DEF ConnectionTypes
<1>9. CASE Judged(c, s, msg) \in {Closed, [Closed EXCEPT !.activated = TRUE]}
  <2>1. Judged(c, s, msg).ws = "closed"
    BY <1>9 DEF Closed
  <2>2. socket'[c][s] = Judged(c, s, msg)
    BY <1>1, <1>5 DEF ConnectionTypes
  <2>3. wire' = [wire EXCEPT ![c][s] = <<>>]
    BY <1>5, <2>1, <2>2
  <2> QED
    BY <1>4, <1>5, <1>7, <1>8, <1>9, <2>3, CloseKeeps
<1>10. CASE Judged(c, s, msg) \notin {Closed, [Closed EXCEPT !.activated = TRUE]}
  <2> DEFINE mine == Activated(c, s, msg)
  <2>1. Judged(c, s, msg) = mine /\ ~Refused(c, s, msg) /\ msg.version = Version[n]
    BY <1>10 DEF Judged
  <2>2. mine \in Services
    <3>1. socket[c][s] \in Services /\ p \in NodesOrNone
      BY <1>1, <1>2 DEF ConnectionTypes, NodesOrNone
    <3> QED
      BY <1>6, <3>1, Zenon DEF Activated, Services
  <2>3. mine.ws = "open" /\ mine.listed /\ mine.pub /\ mine.identifier = p /\ mine.activated
    BY <1>1, <1>4, <1>6 DEF Activated, ConnectionTypes, Services
  <2> HIDE DEF mine
  <2>4. socket' = [socket EXCEPT ![c][s] = mine]
    BY <1>5, <2>1
  <2>5. /\ socket' \in [Connections -> [Sides -> Services]]
        /\ socket'[c][s] = mine /\ socket'[c][o] = socket[c][o]
        /\ \A d \in Connections \ {c} : socket'[d] = socket[d]
    BY <1>0, <1>1, <2>2, <2>4 DEF ConnectionTypes
  <2>6. Tail(wire[c][s]) = <<>>
    BY <1>3
  <2>7. wire' = [wire EXCEPT ![c][s] = <<>>]
    BY <1>5, <2>3, <2>5, <2>6
  <2>8. /\ wire' \in [Connections -> [Sides -> Seq(Messages)]]
        /\ wire'[c][s] = <<>> /\ wire'[c][o] = wire[c][o]
        /\ \A d \in Connections \ {c} : wire'[d] = wire[d]
    <3> DEFINE none == <<>>
    <3>1. none \in Seq(Messages)
      OBVIOUS
    <3>2. wire' = [wire EXCEPT ![c][s] = none]
      BY <2>7
    <3> HIDE DEF none
    <3>3. /\ wire' \in [Connections -> [Sides -> Seq(Messages)]]
          /\ wire'[c][s] = none /\ wire'[c][o] = wire[c][o]
          /\ \A d \in Connections \ {c} : wire'[d] = wire[d]
      BY <1>0, <1>1, <3>1, <3>2 DEF ConnectionTypes
    <3> QED
      BY <3>3 DEF none
  <2>9. ConnectionTypes'
    BY <1>1, <1>4, <1>7, <1>8, <2>5, <2>8 DEF ConnectionTypes
  <2>10. SideOK(c, s)'
    <3>1. Version[n] = Version[p]
      BY <1>6, <2>1
    <3>2. StartId[p] # NoId => firstId'[n] = StartId[p]
      <4>1. SUFFICES ASSUME StartId[p] # NoId
                     PROVE  firstId'[n] = StartId[p]
        OBVIOUS
      <4>2. msg.firstId = StartId[p]
        BY <1>3, <4>1 DEF IsFirst
      <4>3. firstId'[n] = TakeOver(n, msg.firstId)
        BY <1>1, <1>2, <1>5 DEF ConnectionTypes
      <4> QED
        BY <2>1, <4>1, <4>2, <4>3 DEF TakeOver, Refused, SameNetwork
    <3>3. OnWire(c, s)'
      BY <2>8 DEF OnWire
    <3> QED
      BY <1>2, <1>4, <2>3, <2>5, <3>1, <3>2, <3>3 DEF SideOK, IsActive
  <2>11. SideOK(c, o)'
    BY <1>0, <1>4, <1>7, <2>5, <2>8, SideKept
  <2>12. MatchesAll(c)'
    <3>1. SUFFICES ASSUME socket[c][o].ws # "closed"
                   PROVE  Matches(c, s)' /\ Matches(c, o)'
      BY <1>0, <2>5 DEF MatchesAll, IsOpen, Sides
    <3>2. Matches(c, s) /\ Matches(c, o)
      BY <1>0, <1>1, <1>4, <3>1 DEF MatchesAll, IsOpen, Sides
    <3>3. HasSentKey(c, o) /\ socket[c][o].pub
      BY <1>0, <1>3, <3>2 DEF Matches
    <3>4. Matches(c, s)'
      BY <1>0, <2>3, <2>5, <3>3 DEF Matches, HasSentKey
    <3>5. HasSentKey(c, s) /\ HasSentKey(c, s)'
      BY <1>4, <2>3, <2>5 DEF HasSentKey
    <3>6. socket[c][o].activated \/ HasFirst(c, o)
      BY <1>0, <3>2 DEF Matches
    <3>7. Matches(c, o)'
      BY <1>0, <2>3, <2>5, <2>8, <3>5, <3>6 DEF Matches, HasFirst
    <3> QED
      BY <3>4, <3>7
  <2>13. OneServicePerPeer'
    <3>1. \A e \in Listed(n) : e # <<c, s>> => socket[e[1]][e[2]].identifier # p
      BY <1>6, <2>1 DEF Refused, Duplicate
    <3>2. ASSUME NEW d \in Connections, NEW r \in Sides, <<d, r>> # <<c, s>>
          PROVE  socket'[d][r] = socket[d][r]
      BY <1>0, <2>5, <3>2 DEF Sides
    <3>3. ASSUME NEW m \in Nodes, NEW e \in Listed(m)', e # <<c, s>>
          PROVE  e \in Listed(m) /\ socket'[e[1]][e[2]] = socket[e[1]][e[2]]
      BY <1>4, <3>2, <3>3 DEF Listed
    <3>4. ASSUME NEW m \in Nodes, <<c, s>> \in Listed(m)'
          PROVE  m = n
      BY <1>4, <3>4 DEF Listed
    <3> SUFFICES ASSUME NEW m \in Nodes, NEW e \in Listed(m)', NEW f \in Listed(m)',
                        socket'[e[1]][e[2]].identifier = socket'[f[1]][f[2]].identifier,
                        socket'[e[1]][e[2]].identifier # NoNode
                 PROVE  e = f
      BY DEF OneServicePerPeer
    <3>5. CASE e # <<c, s>> /\ f # <<c, s>>
      <4>1. e \in Listed(m) /\ socket'[e[1]][e[2]] = socket[e[1]][e[2]]
        BY <3>3, <3>5
      <4>2. f \in Listed(m) /\ socket'[f[1]][f[2]] = socket[f[1]][f[2]]
        BY <3>3, <3>5
      <4> QED
        BY <4>1, <4>2 DEF IInv, OneServicePerPeer
    <3>6. CASE e = <<c, s>> /\ f # <<c, s>>
      <4>1. m = n /\ socket'[e[1]][e[2]].identifier = p
        BY <2>3, <2>5, <3>4, <3>6
      <4>2. f \in Listed(m) /\ socket'[f[1]][f[2]] = socket[f[1]][f[2]]
        BY <3>3, <3>6
      <4> QED
        BY <3>1, <3>6, <4>1, <4>2
    <3>7. CASE e # <<c, s>> /\ f = <<c, s>>
      <4>1. m = n /\ socket'[f[1]][f[2]].identifier = p
        BY <2>3, <2>5, <3>4, <3>7
      <4>2. e \in Listed(m) /\ socket'[e[1]][e[2]] = socket[e[1]][e[2]]
        BY <3>3, <3>7
      <4> QED
        BY <3>1, <3>7, <4>1, <4>2
    <3> QED
      BY <3>5, <3>6, <3>7
  <2>14. \A r \in Sides : SideOK(c, r)'
    BY <1>0, <2>10, <2>11 DEF Sides
  <2> QED
    BY <1>4, <1>7, <2>5, <2>8, <2>9, <2>12, <2>13, <2>14, OneConnection
<1> QED
  BY <1>9, <1>10

\* Calls on connections nobody uses, whoever is called.
LEMMA DialKeeps ==
  ASSUME IInv, NEW n \in Nodes, NEW called \in SUBSET Nodes, Dial(n, called)
  PROVE  IInv'
<1>1. PICK slot \in Injection(called, {c \in Connections : Unused(c)}) :
        LET used == {slot[m] : m \in called}
            callee(c) == CHOOSE m \in called : slot[m] = c
        IN /\ nodes' = [c \in Connections |-> IF c \in used THEN <<n, callee(c)>> ELSE nodes[c]]
           /\ socket' = [c \in Connections |->
                           IF c \in used THEN <<Service("dialing"), Awaited>> ELSE socket[c]]
           /\ wire' = [c \in Connections |-> IF c \in used THEN <<<<>>, <<>>>> ELSE wire[c]]
  BY DEF Dial
<1> DEFINE used == {slot[m] : m \in called}
           callee(c) == CHOOSE m \in called : slot[m] = c
           caller == Service("dialing")
           none == <<>>
<1>2. \A c \in used : c \in Connections /\ callee(c) \in Nodes
  <2>1. slot \in [called -> {c \in Connections : Unused(c)}]
    BY DEF Injection
  <2>2. ASSUME NEW m \in called
        PROVE  slot[m] \in Connections /\ callee(slot[m]) \in Nodes
    BY <2>1
  <2> QED
    BY <2>2
<1>3. /\ firstId' = firstId
      /\ reconnections' = [reconnections EXCEPT ![n] = @ \cup called]
  BY DEF Dial
<1>4. /\ caller.ws = "dialing" /\ caller.listed /\ ~caller.pub /\ ~caller.activated
      /\ caller.identifier = NoNode
      /\ Awaited.ws = "dialing" /\ ~Awaited.listed /\ ~Awaited.pub /\ ~Awaited.activated
      /\ Awaited.identifier = NoNode
  BY DEF Service, Awaited, Closed
<1>5. caller \in Services /\ Awaited \in Services
  <2>1. Closed \in Services
    BY DEF Closed, Services, NodesOrNone
  <2> QED
    BY <2>1, Zenon DEF Service, Awaited, Services
<1>6. none \in Seq(Messages)
  OBVIOUS
<1>7. ConnectionTypes /\ NetworkKept /\ NetworkKept' /\ FirstIdsGrow
  BY <1>3 DEF IInv, NetworkKept, FirstIdsGrow
<1>8. /\ nodes' = [c \in Connections |-> IF c \in used THEN <<n, callee(c)>> ELSE nodes[c]]
      /\ socket' = [c \in Connections |-> IF c \in used THEN <<caller, Awaited>> ELSE socket[c]]
      /\ wire' = [c \in Connections |-> IF c \in used THEN <<none, none>> ELSE wire[c]]
  BY <1>1
<1> HIDE DEF used, callee, caller, none
<1>9. ASSUME NEW c \in used
      PROVE  /\ nodes'[c][1] = n /\ nodes'[c][2] = callee(c)
             /\ socket'[c][1] = caller /\ socket'[c][2] = Awaited
             /\ wire'[c][1] = none /\ wire'[c][2] = none
             /\ nodes'[c] \in [Sides -> NodesOrNone]
             /\ socket'[c] \in [Sides -> Services]
             /\ wire'[c] \in [Sides -> Seq(Messages)]
  <2>1. nodes'[c] = <<n, callee(c)>> /\ socket'[c] = <<caller, Awaited>> /\ wire'[c] = <<none, none>>
    BY <1>2, <1>8
  <2>2. nodes'[c] \in [Sides -> NodesOrNone]
    BY <1>2, <2>1 DEF Sides, NodesOrNone
  <2>3. socket'[c] \in [Sides -> Services]
    BY <1>5, <2>1 DEF Sides
  <2>4. wire'[c] \in [Sides -> Seq(Messages)]
    BY <1>6, <2>1 DEF Sides
  <2>5. nodes'[c][1] = n /\ nodes'[c][2] = callee(c)
    BY <2>1
  <2>6. socket'[c][1] = caller /\ socket'[c][2] = Awaited
    BY <2>1
  <2>7. wire'[c][1] = none /\ wire'[c][2] = none
    BY <2>1
  <2> QED
    BY <2>2, <2>3, <2>4, <2>5, <2>6, <2>7
<1>10. ASSUME NEW c \in Connections, c \notin used
       PROVE  nodes'[c] = nodes[c] /\ socket'[c] = socket[c] /\ wire'[c] = wire[c]
  BY <1>8, <1>10
<1>11. ConnectionTypes'
  <2>1. nodes' \in [Connections -> [Sides -> NodesOrNone]]
    BY <1>7, <1>8, <1>9, <1>10 DEF ConnectionTypes
  <2>2. socket' \in [Connections -> [Sides -> Services]]
    BY <1>7, <1>8, <1>9, <1>10 DEF ConnectionTypes
  <2>3. wire' \in [Connections -> [Sides -> Seq(Messages)]]
    BY <1>7, <1>8, <1>9, <1>10 DEF ConnectionTypes
  <2>4. reconnections' \in [Nodes -> SUBSET Nodes]
    BY <1>3, <1>7 DEF ConnectionTypes
  <2> QED
    BY <1>3, <1>7, <2>1, <2>2, <2>3, <2>4 DEF ConnectionTypes
<1>12. ASSUME NEW c \in Connections, NEW s \in Sides
       PROVE  SideOK(c, s)'
  <2>1. CASE c \notin used
    BY <1>7, <1>10, <2>1, SideKept
  <2>2. CASE c \in used
    <3>1. nodes'[c][s] \in Nodes /\ nodes'[c][Other(s)] \in Nodes
      BY <1>2, <1>9, <2>2 DEF Sides, Other
    <3>2. OnWire(c, s)'
      BY <1>9, <2>2 DEF Sides, OnWire, none
    <3>3. CASE s = 1
      BY <1>4, <1>9, <2>2, <3>1, <3>2, <3>3 DEF SideOK, IsActive
    <3>4. CASE s = 2
      BY <1>4, <1>9, <2>2, <3>1, <3>2, <3>4 DEF SideOK, IsActive
    <3> QED
      BY <3>3, <3>4 DEF Sides
  <2> QED
    BY <2>1, <2>2
<1>13. ASSUME NEW c \in Connections
       PROVE  MatchesAll(c)'
  <2>1. CASE c \notin used
    BY <1>10, <2>1, MatchesKept DEF IInv
  <2>2. CASE c \in used
    <3>1. Matches(c, 1)'
      BY <1>4, <1>9, <2>2 DEF Matches, HasSentKey, Other, none
    <3>2. Matches(c, 2)'
      BY <1>4, <1>9, <2>2 DEF Matches, HasSentKey, Other, none
    <3> QED
      BY <3>1, <3>2 DEF MatchesAll
  <2> QED
    BY <2>1, <2>2
<1>14. OneServicePerPeer'
  <2>1. ASSUME NEW c \in Connections, NEW s \in Sides,
               socket'[c][s].listed, socket'[c][s].identifier # NoNode
        PROVE  /\ socket[c][s].listed /\ socket[c][s].identifier = socket'[c][s].identifier
               /\ nodes'[c][s] = nodes[c][s]
    <3>1. c \notin used
      BY <1>4, <1>9, <2>1 DEF Sides
    <3> QED
      BY <1>10, <2>1, <3>1
  <2> QED
    BY <2>1, OneServiceKept DEF IInv
<1> QED
  BY <1>7, <1>11, <1>12, <1>13, <1>14 DEF IInv

-----------------------------------------------------------------------------
(* The theorems about connections *)

LEMMA IInvStep ==
  ASSUME IInv, [Next]_vars
  PROVE  IInv'
<1>1. ASSUME NEW n \in Nodes, NEW m \in Nodes, ConnectToNode(n, m)
      PROVE  IInv'
  <2>1. {m} \in SUBSET Nodes
    OBVIOUS
  <2> QED
    BY <1>1, <2>1, DialKeeps DEF ConnectToNode
<1>2. ASSUME NEW n \in Nodes, Reconnection(n)
      PROVE  IInv'
  <2>1. reconnections[n] \in SUBSET Nodes
    BY DEF IInv, ConnectionTypes
  <2>2. PICK called \in SUBSET reconnections[n] : Dial(n, called)
    BY <1>2 DEF Reconnection
  <2> QED
    BY <2>1, <2>2, DialKeeps
<1>3. ASSUME NEW c \in Connections, Accept(c) \/ OnConnected(c)
      PROVE  IInv'
  BY <1>3, AcceptKeeps, OnConnectedKeeps
<1>4. ASSUME NEW c \in Connections, NEW s \in Sides, OnTextMessage(c, s)
      PROVE  IInv'
  BY <1>4, KeyKeeps, FirstMessageKeeps
<1>5. ASSUME NEW c \in Connections, NEW s \in Sides, OnDisconnected(c, s) \/ Break(c, s)
      PROVE  IInv'
  BY <1>5, ClosingKeeps
<1>6. CASE UNCHANGED vars
  <2>1. ConnectionTypes' /\ NetworkKept' /\ FirstIdsGrow
    BY <1>6 DEF vars, IInv, ConnectionTypes, NetworkKept, FirstIdsGrow
  <2>2. \A c \in Connections, s \in Sides : SideOK(c, s)'
    BY <1>6, <2>1, SideKept DEF vars
  <2>3. \A c \in Connections : MatchesAll(c)'
    BY <1>6, MatchesKept DEF vars, IInv
  <2>4. OneServicePerPeer'
    BY <1>6 DEF vars, IInv, OneServicePerPeer, Listed
  <2> QED
    BY <2>1, <2>2, <2>3, <2>4 DEF IInv
<1> QED
  BY <1>1, <1>2, <1>3, <1>4, <1>5, <1>6 DEF Next

LEMMA IInvImplies ==
  ASSUME IInv
  PROVE  ConnectionsInv
<1>1. TypeOK
  BY DEF IInv, ConnectionTypes, TypeOK, FirstIds, Services, NodesOrNone
<1>2. ActiveOnlyCompatible
  <2>1. ASSUME NEW c \in Connections, NEW s \in Sides, IsActive(c, s)
        PROVE  Version[nodes[c][1]] = Version[nodes[c][2]]
    <3>1. Version[nodes[c][s]] = Version[nodes[c][Other(s)]]
      BY <2>1 DEF IInv, SideOK
    <3> QED
      BY <3>1 DEF Sides, Other
  <2> QED
    BY <2>1 DEF ActiveOnlyCompatible
<1>3. OneNetwork
  <2>1. SUFFICES ASSUME NEW c \in Connections, IsActive(c, 1), IsActive(c, 2)
                 PROVE  \/ firstId[nodes[c][1]] = firstId[nodes[c][2]]
                        \/ StartId[nodes[c][1]] = NoId /\ StartId[nodes[c][2]] = NoId
    BY DEF OneNetwork
  <2>2. 1 \in Sides /\ 2 \in Sides /\ Other(1) = 2 /\ Other(2) = 1
    BY DEF Sides, Other
  <2>3. nodes[c][1] \in Nodes /\ nodes[c][2] \in Nodes
    BY <2>1, <2>2 DEF IInv, SideOK, IsActive
  <2>4. StartId[nodes[c][2]] # NoId => firstId[nodes[c][1]] = StartId[nodes[c][2]]
    BY <2>1, <2>2 DEF IInv, SideOK
  <2>5. StartId[nodes[c][1]] # NoId => firstId[nodes[c][2]] = StartId[nodes[c][1]]
    BY <2>1, <2>2 DEF IInv, SideOK
  <2> QED
    BY <2>3, <2>4, <2>5 DEF IInv, NetworkKept
<1>4. NoEarlyBinary
  <2>1. SUFFICES ASSUME NEW c \in Connections, NEW s \in Sides, IsActive(c, s),
                        socket[c][Other(s)].ws # "closed"
                 PROVE  socket[c][Other(s)].activated \/ HasFirst(c, Other(s))
    BY DEF NoEarlyBinary, HasFirst
  <2>2. Other(s) \in Sides /\ Other(Other(s)) = s
    BY SidesFacts
  <2>3. socket[c][s].ws = "open" /\ socket[c][s].pub
    BY <2>1 DEF IInv, SideOK, IsActive
  <2>4. MatchesAll(c) /\ IsOpen(c, 1) /\ IsOpen(c, 2)
    BY <2>1, <2>3 DEF IInv, IsOpen, Sides, Other
  <2>5. Matches(c, Other(s))
    BY <2>2, <2>4 DEF MatchesAll, Sides
  <2> QED
    BY <2>2, <2>3, <2>5 DEF Matches
<1> QED
  BY <1>1, <1>2, <1>3, <1>4 DEF ConnectionsInv, IInv

\* However the nodes dial each other, break off and dial again, in whatever order
\* keys and first messages arrive: one service for each peer, no active side
\* between different versions, no two active sides in different networks when one
\* had a network from the start, and no binary message that comes before the
\* first message.
THEOREM ConnectionsRight == Spec => []ConnectionsInv
<1>1. Init => IInv
  BY InitInv
<1>2. IInv /\ [Next]_vars => IInv'
  BY IInvStep
<1>3. IInv => ConnectionsInv
  BY IInvImplies
<1> QED
  BY <1>1, <1>2, <1>3, PTL DEF Spec

\* Only CheckFirstMessage takes an address off the list.
LEMMA LeftStep ==
  ASSUME IInv, [Next]_vars
  PROVE  \A n, m \in Nodes :
           m \in reconnections[n] \ reconnections'[n] =>
             \/ m = n
             \/ Version[n] # Version[m]
             \/ NoId \notin {firstId[n], firstId[m]} /\ firstId[n] # firstId[m]
<1> SUFFICES ASSUME NEW n \in Nodes, NEW m \in Nodes, m \in reconnections[n] \ reconnections'[n]
             PROVE  \/ m = n
                    \/ Version[n] # Version[m]
                    \/ NoId \notin {firstId[n], firstId[m]} /\ firstId[n] # firstId[m]
  OBVIOUS
<1>1. reconnections \in [Nodes -> SUBSET Nodes]
  BY DEF IInv, ConnectionTypes
<1>2. ASSUME NEW k \in Nodes, NEW called, Dial(k, called)
      PROVE  FALSE
  BY <1>1, <1>2 DEF Dial
<1>3. \A k \in Nodes : ~Reconnection(k) /\ \A l \in Nodes : ~ConnectToNode(k, l)
  BY <1>2 DEF Reconnection, ConnectToNode
<1>4. PICK c \in Connections, s \in Sides : OnTextMessage(c, s)
  BY <1>3 DEF Next, vars, Accept, OnConnected, OnDisconnected, Break
<1>5. socket[c][s].pub
  BY <1>4 DEF OnTextMessage
<1> DEFINE p == nodes[c][Other(s)]
<1>6. PICK msg \in Messages : IsFirst(msg, p) /\ Head(wire[c][s]) = msg
  BY <1>4, <1>5, WhatIsRead
<1>7. nodes[c][s] \in Nodes /\ p \in Nodes
  BY <1>4, <1>5, WhatIsRead
<1>8. CheckFirstMessage(c, s, msg)
  BY <1>4, <1>5, <1>6 DEF OnTextMessage
<1>9. n = nodes[c][s] /\ m = p /\ Hopeless(c, s, msg)
  BY <1>1, <1>7, <1>8 DEF CheckFirstMessage
<1>10. msg.version = Version[m] /\ msg.identifier = m /\ msg.firstId \in {NoId, firstId[m]}
  BY <1>6, <1>9 DEF IsFirst
<1> QED
  BY <1>9, <1>10 DEF Hopeless, SameNetwork

\* An address is given up only for a node that no connection can be activated
\* with: itself, another version, another network.  Dials that cross never lose
\* one.
THEOREM LeftRight == Spec => LeftOnlyIfHopeless
<1>1. Init => IInv
  BY InitInv
<1>2. IInv /\ [Next]_vars => IInv'
  BY IInvStep
<1>3. IInv /\ [Next]_vars =>
        [\A n, m \in Nodes :
           m \in reconnections[n] \ reconnections'[n] =>
             \/ m = n
             \/ Version[n] # Version[m]
             \/ NoId \notin {firstId[n], firstId[m]} /\ firstId[n] # firstId[m]]_reconnections
  BY LeftStep
<1> QED
  BY <1>1, <1>2, <1>3, PTL DEF Spec, LeftOnlyIfHopeless

-----------------------------------------------------------------------------
(* Messages *)

\* A message that is remembered was handled since it was last dropped.
RememberedIfHandled ==
  \A m \in DOMAIN counted : m \in Repeated => dropped[m] < processed[m]

\* The inductive invariant.
FilterInv ==
  /\ processed \in [Repeated -> Nat]
  /\ dropped \in [Repeated -> Nat]
  /\ DroppedOnlyIfHandled
  /\ RememberedIfHandled

ServiceType == service \in [Peers -> {"none", "inactive", "active", "invalid"}]
CacheInv == ServiceType /\ CacheOnlyOffline

-----------------------------------------------------------------------------
(* The cache *)

\* After a kill there is no connection, so nobody to send to.
LEMMA LostIsOffline ==
  ASSUME Lost
  PROVE  ServiceType' /\ ~Online(service')
  BY DEF Lost, ServiceType, Online

\* Whatever becomes of a connection that was not there or not active, there is
\* nobody new to send to.
LEMMA NotMoreOnline ==
  ASSUME ServiceType, NEW p \in Peers, NEW s, s # "active",
         service' = [service EXCEPT ![p] = s], Online(service')
  PROVE  Online(service)
<1>1. PICK q \in Peers : service'[q] = "active"
  BY DEF Online
<1>2. q # p
  BY <1>1 DEF ServiceType
<1> QED
  BY <1>1, <1>2 DEF Online, ServiceType

\* checkConnectionsStatus leaves nothing in the cache when it finds somebody.
LEMMA CheckedCache ==
  ASSUME CheckConnectionsStatus, Online(service')
  PROVE  cache' = <<>>
  BY DEF CheckConnectionsStatus, SendFromCache

\* One step keeps the cache empty as long as somebody is there.
LEMMA CacheStep ==
  ASSUME CacheInv, [MessagesNext]_messagesVars
  PROVE  CacheInv'
<1> USE DEF CacheInv, CacheOnlyOffline
<1>1. CASE Login
  BY <1>1 DEF Login, ServiceType
<1>2. CASE SendMessage
  BY <1>2 DEF SendMessage, SendOrSave, ServiceType
<1>3. ASSUME NEW p \in Peers, Connect(p)
      PROVE  CacheInv'
  <2>1. ServiceType' /\ cache' = cache
    BY <1>3 DEF Connect, ServiceType, outgoing
  <2>2. Online(service') => Online(service)
    BY <1>3, NotMoreOnline DEF Connect
  <2> QED
    BY <2>1, <2>2
<1>4. ASSUME NEW p \in Peers, Activate(p)
      PROVE  CacheInv'
  <2>1. ServiceType'
    BY <1>4 DEF Activate, ServiceType
  <2> QED
    BY <1>4, <2>1, CheckedCache DEF Activate
<1>5. ASSUME NEW p \in Peers, SocketInvalid(p)
      PROVE  CacheInv'
  <2>1. ServiceType' /\ cache' = cache
    BY <1>5 DEF SocketInvalid, ServiceType, outgoing
  <2>2. Online(service') => Online(service)
    BY <1>5, NotMoreOnline DEF SocketInvalid
  <2> QED
    BY <2>1, <2>2
<1>6. ASSUME NEW p \in Peers, RemoveWsConnection(p)
      PROVE  CacheInv'
  <2>1. ServiceType'
    BY <1>6 DEF RemoveWsConnection, ServiceType
  <2> QED
    BY <1>6, <2>1, CheckedCache DEF RemoveWsConnection
<1>7. ASSUME NEW p \in Peers, NEW m \in Repeated, MessageReceived(p, m)
      PROVE  CacheInv'
  BY <1>7 DEF MessageReceived, ServiceType, outgoing
<1>8. CASE Kill \/ KillInSendFromCache \/ KillInSaveToCache
  BY <1>8, LostIsOffline DEF Kill, KillInSendFromCache, KillInSaveToCache
<1>9. CASE UNCHANGED messagesVars
  BY <1>9 DEF messagesVars, outgoing, ServiceType
<1> QED
  BY <1>1, <1>2, <1>3, <1>4, <1>5, <1>6, <1>7, <1>8, <1>9 DEF MessagesNext

\* Nothing waits in the cache while there is somebody to send to.
LEMMA CacheInvariant == MessagesSpec => []CacheInv
<1>1. MessagesInit => CacheInv
  BY DEF MessagesInit, CacheInv, CacheOnlyOffline, ServiceType
<1> QED
  BY <1>1, CacheStep, PTL DEF MessagesSpec

-----------------------------------------------------------------------------
(* The filter *)

\* Actions of sending and of connections do not touch the filter.
LEMMA FilterKept ==
  ASSUME FilterInv, UNCHANGED incoming
  PROVE  FilterInv'
  BY DEF FilterInv, DroppedOnlyIfHandled, RememberedIfHandled, incoming

\* A restart forgets all messages, not what became of them.
LEMMA FilterLost ==
  ASSUME FilterInv, Lost
  PROVE  FilterInv'
<1>1. DOMAIN counted' = {}
  BY DEF Lost
<1> QED
  BY <1>1 DEF FilterInv, DroppedOnlyIfHandled, RememberedIfHandled, Lost

\* A copy is dropped only if the message is remembered, and is then forgotten.
LEMMA FilterReceives ==
  ASSUME FilterInv, NEW p \in Peers, NEW m \in Repeated, MessageReceived(p, m)
  PROVE  FilterInv'
<1>1. CASE IsRepeat(m)
  <2>1. dropped' = [dropped EXCEPT ![m] = @ + 1] /\ processed' = processed
    BY <1>1 DEF MessageReceived
  <2>2. DOMAIN counted' = DOMAIN counted \ {m}
    BY <1>1 DEF MessageReceived
  <2>3. dropped[m] < processed[m]
    BY <1>1 DEF IsRepeat, FilterInv, RememberedIfHandled
  <2> QED
    BY <2>1, <2>2, <2>3 DEF FilterInv, DroppedOnlyIfHandled, RememberedIfHandled
<1>2. CASE ~IsRepeat(m)
  <2>1. processed' = [processed EXCEPT ![m] = @ + 1] /\ dropped' = dropped
    BY <1>2 DEF MessageReceived
  <2>2. DOMAIN counted' = DOMAIN counted \cup {m}
    BY <1>2 DEF MessageReceived
  <2> QED
    BY <2>1, <2>2 DEF FilterInv, DroppedOnlyIfHandled, RememberedIfHandled
<1> QED
  BY <1>1, <1>2

\* The filter never drops what was not handled.
LEMMA FilterInvariant == MessagesSpec => []FilterInv
<1>1. MessagesInit => FilterInv
  BY DEF MessagesInit, FilterInv, DroppedOnlyIfHandled, RememberedIfHandled
<1>2. FilterInv /\ [MessagesNext]_messagesVars => FilterInv'
  <2> SUFFICES ASSUME FilterInv, [MessagesNext]_messagesVars
               PROVE  FilterInv'
    OBVIOUS
  <2>1. CASE Login \/ SendMessage
    BY <2>1, FilterKept DEF Login, SendMessage
  <2>2. ASSUME NEW p \in Peers,
               Connect(p) \/ Activate(p) \/ SocketInvalid(p) \/ RemoveWsConnection(p)
        PROVE  FilterInv'
    BY <2>2, FilterKept DEF Connect, Activate, SocketInvalid, RemoveWsConnection
  <2>3. ASSUME NEW p \in Peers, NEW m \in Repeated, MessageReceived(p, m)
        PROVE  FilterInv'
    BY <2>3, FilterReceives
  <2>4. CASE Kill \/ KillInSendFromCache \/ KillInSaveToCache
    BY <2>4, FilterLost DEF Kill, KillInSendFromCache, KillInSaveToCache
  <2>5. CASE UNCHANGED messagesVars
    BY <2>5, FilterKept DEF messagesVars
  <2> QED
    BY <2>1, <2>2, <2>3, <2>4, <2>5 DEF MessagesNext
<1> QED
  BY <1>1, <1>2, PTL DEF MessagesSpec

-----------------------------------------------------------------------------
(* The theorems about messages *)

\* Between send_message, the connection signals and the filter, in any order:
\* nothing waits while there is somebody to send to, and nothing is dropped that
\* was not handled.
THEOREM MessagesRight == MessagesSpec => []MessagesInv
<1>1. CacheInv /\ FilterInv => MessagesInv
  BY DEF CacheInv, FilterInv, MessagesInv
<1> QED
  BY <1>1, CacheInvariant, FilterInvariant, PTL

\* A step of the network manager is a step of the mailbox, or none.
LEMMA MailStep ==
  ASSUME CacheInv, [MessagesNext]_messagesVars
  PROVE  [Mail!Next]_(Mail!vars)
<1> USE DEF Mail!vars, Mail!Next
<1>1. CASE Login
  BY <1>1 DEF Login
<1>2. CASE SendMessage
  <2>1. CASE Online(service)
    BY <1>2, <2>1 DEF SendMessage, SendOrSave, CacheInv, CacheOnlyOffline, Mail!GiveOnline
  <2>2. CASE ~Online(service)
    BY <1>2, <2>2 DEF SendMessage, SendOrSave, SaveToCache, Mail!GiveOffline
  <2> QED
    BY <2>1, <2>2
<1>3. ASSUME NEW p \in Peers, Connect(p) \/ SocketInvalid(p)
      PROVE  [Mail!Next]_(Mail!vars)
  BY <1>3 DEF Connect, SocketInvalid, outgoing
<1>4. ASSUME NEW p \in Peers, Activate(p) \/ RemoveWsConnection(p)
      PROVE  [Mail!Next]_(Mail!vars)
  <2>1. CheckConnectionsStatus /\ UNCHANGED given
    BY <1>4 DEF Activate, RemoveWsConnection
  <2> QED
    BY <2>1 DEF CheckConnectionsStatus, SendFromCache, Mail!SendWaiting
<1>5. ASSUME NEW p \in Peers, NEW m \in Repeated, MessageReceived(p, m)
      PROVE  [Mail!Next]_(Mail!vars)
  BY <1>5 DEF MessageReceived, outgoing
<1>6. CASE Kill
  BY <1>6 DEF Kill
<1>7. CASE KillInSendFromCache
  BY <1>7 DEF KillInSendFromCache, Mail!Crash
<1>8. CASE KillInSaveToCache
  BY <1>8 DEF KillInSaveToCache, Mail!Crash
<1>9. CASE UNCHANGED messagesVars
  BY <1>9 DEF messagesVars, outgoing
<1> QED
  BY <1>1, <1>2, <1>3, <1>4, <1>5, <1>6, <1>7, <1>8, <1>9 DEF MessagesNext

\* send_message, the cache and its replay implement Mailbox: messages go out in
\* the order given, each once, and only a kill loses some.
THEOREM Refinement == MessagesSpec => MessagesImplementMailbox
<1>1. MessagesInit => Mail!Init
  BY DEF MessagesInit, Mail!Init
<1> QED
  BY <1>1, MailStep, CacheInvariant, PTL DEF MessagesSpec, MessagesImplementMailbox, Mail!Spec

-----------------------------------------------------------------------------
(* Transactions and blocks in hand *)

TxSpec == TxInit /\ [][TxNext]_txVars
BlockSpec == BlockInit /\ [][BlockNext]_blockVars

TxFields ==
  {"body", "prevBlock", "gas", "hop", "approver", "producer", "typeTx", "hash", "digSig"}

\* What a signature made by the last call of sign covers.
SignedFields ==
  [parties |-> signedTx.body.parties, text |-> InARow(signedTx),
   approver |-> signedTx.actor, producer |-> signedTx.producer]

\* The texts that run together are texts.
TextsTyped(t) ==
  /\ {t.body.amount, t.body.date, t.body.data, t.body.token} \subseteq Seq(Nat)
  /\ t.prevBlock \in Seq(Nat) /\ t.gas \in Seq(Nat)

\* Only sign makes a signature, of the fields the transaction had then.
TxInv ==
  /\ DOMAIN tx = TxFields
  /\ TextsTyped(tx)
  /\ \/ signedTx = [actor |-> NoOne] /\ tx.digSig = NoSig
     \/ /\ signedTx.actor \in Actors /\ TextsTyped(signedTx)
        /\ tx.digSig = <<signedTx.actor, <<SignedFields, SignedFields>> >>

\* Two texts in a row are told apart from others by one of them alone.
LEMMA Peel ==
  ASSUME NEW p \in Seq(Nat), NEW q \in Seq(Nat), NEW a \in Seq(Nat), NEW b \in Seq(Nat),
         p \o a = q \o b
  PROVE  /\ p \o a \in Seq(Nat) /\ q \o b \in Seq(Nat)
         /\ a = b => p = q
         /\ p = q => a = b
<1>1. p \o a \in Seq(Nat) /\ q \o b \in Seq(Nat)
  BY ConcatProperties
<1>2. a = b => p = q
  BY ConcatSimplifications
<1>3. p = q => a = b
  BY ConcatSimplifications
<1> QED
  BY <1>1, <1>2, <1>3

\* So one of six texts in a row cannot change alone.
LEMMA AloneNoticed ==
  ASSUME NEW t, NEW u, TextsTyped(t), TextsTyped(u), InARow(t) = InARow(u),
         NEW i \in DOMAIN TextsOf(t),
         \A j \in DOMAIN TextsOf(t) \ {i} : TextsOf(t)[j] = TextsOf(u)[j]
  PROVE  TextsOf(t)[i] = TextsOf(u)[i]
<1> DEFINE a1 == t.body.amount  a2 == t.body.date  a3 == t.body.data
           a4 == t.body.token   a5 == t.prevBlock  a6 == t.gas
           b1 == u.body.amount  b2 == u.body.date  b3 == u.body.data
           b4 == u.body.token   b5 == u.prevBlock  b6 == u.gas
           p2 == a1 \o a2  p3 == p2 \o a3  p4 == p3 \o a4  p5 == p4 \o a5
           q2 == b1 \o b2  q3 == q2 \o b3  q4 == q3 \o b4  q5 == q4 \o b5
<1>1. /\ a1 \in Seq(Nat) /\ a2 \in Seq(Nat) /\ a3 \in Seq(Nat)
      /\ a4 \in Seq(Nat) /\ a5 \in Seq(Nat) /\ a6 \in Seq(Nat)
      /\ b1 \in Seq(Nat) /\ b2 \in Seq(Nat) /\ b3 \in Seq(Nat)
      /\ b4 \in Seq(Nat) /\ b5 \in Seq(Nat) /\ b6 \in Seq(Nat)
  BY DEF TextsTyped
<1>2. /\ p2 \in Seq(Nat) /\ q2 \in Seq(Nat)
  BY <1>1, ConcatProperties
<1>3. /\ p3 \in Seq(Nat) /\ q3 \in Seq(Nat)
  BY <1>1, <1>2, ConcatProperties
<1>4. /\ p4 \in Seq(Nat) /\ q4 \in Seq(Nat)
  BY <1>1, <1>3, ConcatProperties
<1>5. /\ p5 \in Seq(Nat) /\ q5 \in Seq(Nat)
  BY <1>1, <1>4, ConcatProperties
<1>6. p5 \o a6 = q5 \o b6
  BY DEF InARow
<1>7. /\ TextsOf(t) = <<a1, a2, a3, a4, a5, a6>> /\ TextsOf(u) = <<b1, b2, b3, b4, b5, b6>>
      /\ DOMAIN TextsOf(t) = 1 .. 6
  BY DEF TextsOf
<1> HIDE DEF a1, a2, a3, a4, a5, a6, b1, b2, b3, b4, b5, b6
<1>8. /\ 1 # i => a1 = b1
      /\ 2 # i => a2 = b2
      /\ 3 # i => a3 = b3
      /\ 4 # i => a4 = b4
      /\ 5 # i => a5 = b5
      /\ 6 # i => a6 = b6
  BY <1>7
<1> SUFFICES /\ a1 = b1 /\ a2 = b2 /\ a3 = b3
             /\ a4 = b4 /\ a5 = b5 /\ a6 = b6
  BY <1>7
<1>9. CASE i = 6
  <2>1. p5 = q5
    BY <1>8, <1>9
  <2> HIDE DEF p5, q5
  <2>2. a6 = b6
    BY <1>1, <1>5, <1>6, <2>1, Peel
  <2> QED
    BY <1>8, <1>9, <2>2
<1> SUFFICES ASSUME i \in 1 .. 5
             PROVE  /\ a1 = b1 /\ a2 = b2 /\ a3 = b3
                    /\ a4 = b4 /\ a5 = b5 /\ a6 = b6
  BY <1>7, <1>9
<1>10. p5 = q5
  <2>1. a6 = b6
    BY <1>8
  <2> HIDE DEF p5, q5
  <2> QED
    BY <1>1, <1>5, <1>6, <2>1, Peel
<1>11. CASE i = 5
  <2>1. p4 = q4 /\ p4 \o a5 = q4 \o b5
    BY <1>8, <1>10, <1>11
  <2> HIDE DEF p4, q4
  <2>2. a5 = b5
    BY <1>1, <1>4, <2>1, Peel
  <2> QED
    BY <1>8, <1>11, <2>2
<1> SUFFICES ASSUME i \in 1 .. 4
             PROVE  /\ a1 = b1 /\ a2 = b2 /\ a3 = b3
                    /\ a4 = b4 /\ a5 = b5 /\ a6 = b6
  BY <1>11
<1>12. p4 = q4
  <2>1. a5 = b5 /\ p4 \o a5 = q4 \o b5
    BY <1>8, <1>10
  <2> HIDE DEF p4, q4
  <2> QED
    BY <1>1, <1>4, <2>1, Peel
<1>13. CASE i = 4
  <2>1. p3 = q3 /\ p3 \o a4 = q3 \o b4
    BY <1>8, <1>12, <1>13
  <2> HIDE DEF p3, q3
  <2>2. a4 = b4
    BY <1>1, <1>3, <2>1, Peel
  <2> QED
    BY <1>8, <1>13, <2>2
<1> SUFFICES ASSUME i \in 1 .. 3
             PROVE  /\ a1 = b1 /\ a2 = b2 /\ a3 = b3
                    /\ a4 = b4 /\ a5 = b5 /\ a6 = b6
  BY <1>13
<1>14. p3 = q3
  <2>1. a4 = b4 /\ p3 \o a4 = q3 \o b4
    BY <1>8, <1>12
  <2> HIDE DEF p3, q3
  <2> QED
    BY <1>1, <1>3, <2>1, Peel
<1>15. CASE i = 3
  <2>1. p2 = q2 /\ p2 \o a3 = q2 \o b3
    BY <1>8, <1>14, <1>15
  <2> HIDE DEF p2, q2
  <2>2. a3 = b3
    BY <1>1, <1>2, <2>1, Peel
  <2> QED
    BY <1>8, <1>15, <2>2
<1> SUFFICES ASSUME i \in 1 .. 2
             PROVE  /\ a1 = b1 /\ a2 = b2 /\ a3 = b3
                    /\ a4 = b4 /\ a5 = b5 /\ a6 = b6
  BY <1>15
<1>16. a1 \o a2 = b1 \o b2
  <2>1. a3 = b3 /\ p2 \o a3 = q2 \o b3
    BY <1>8, <1>14
  <2>2. p2 = q2
    <3> HIDE DEF p2, q2
    <3> QED
      BY <1>1, <1>2, <2>1, Peel
  <2> QED
    BY <2>2
<1>17. a1 = b1 \/ a2 = b2
  BY <1>8
<1>18. a1 = b1 => a2 = b2
  BY <1>1, <1>16, Peel
<1>19. ASSUME a2 = b2 PROVE a1 = b1
  <2>1. a1 \o b2 = b1 \o b2
    BY <1>16, <1>19
  <2> QED
    BY <1>1, <2>1, ConcatSimplifications
<1> QED
  BY <1>8, <1>17, <1>18, <1>19

\* No call but sign touches the signature.
LEMMA TxStep == TxInv /\ [TxNext]_txVars => TxInv'
<1> SUFFICES ASSUME TxInv, [TxNext]_txVars PROVE TxInv'
  OBVIOUS
<1>1. CASE SetField
  <2>1. signedTx' = signedTx
    BY <1>1 DEF SetField
  <2>2. DOMAIN tx' = TxFields /\ tx'.digSig = tx.digSig
    BY <1>1 DEF SetField, CalcHash, TxInv, TxFields
  <2>3. /\ tx'.body = tx.body \/ tx'.body \in Bodies
        /\ tx'.prevBlock = tx.prevBlock \/ tx'.prevBlock \in PrevBlocks
        /\ tx'.gas = tx.gas \/ tx'.gas \in Gases
    BY <1>1 DEF SetField, CalcHash, TxInv, TxFields
  <2>4. TextsTyped(tx')
    BY <2>3, RecordsAssumption DEF TxInv, TextsTyped
  <2> QED
    BY <2>1, <2>2, <2>4 DEF TxInv, SignedFields
<1>2. ASSUME NEW a \in Actors, Sign(a) PROVE TxInv'
  <2> DEFINE named == CalcHash([tx EXCEPT !.approver = a])
  <2>1. /\ DOMAIN named = TxFields
        /\ named.hash = Hashed(named)
        /\ named.body = tx.body /\ named.prevBlock = tx.prevBlock /\ named.gas = tx.gas
        /\ named.producer = tx.producer /\ named.approver = a
    BY DEF CalcHash, TxInv, TxFields, Hashed, InARow
  <2>2. tx' = [named EXCEPT !.digSig = <<a, DigSigData(named)>>]
    BY <1>2 DEF Sign, Signed
  <2>3. signedTx' = [actor |-> a, body |-> tx.body, producer |-> tx.producer,
                     prevBlock |-> tx.prevBlock, gas |-> tx.gas]
    BY <1>2 DEF Sign
  <2>4. Hashed(named) = SignedFields'
    BY <2>1, <2>3 DEF Hashed, SignedFields, InARow
  <2> HIDE DEF named
  <2>5. DOMAIN tx' = TxFields /\ tx'.digSig = <<a, DigSigData(named)>>
    BY <2>1, <2>2 DEF TxFields
  <2>6. DigSigData(named) = <<SignedFields', SignedFields'>>
    BY <2>1, <2>4 DEF DigSigData
  <2>7. tx'.body = tx.body /\ tx'.prevBlock = tx.prevBlock /\ tx'.gas = tx.gas
    BY <2>1, <2>2 DEF TxFields
  <2>8. TextsTyped(tx') /\ TextsTyped(signedTx')
    BY <2>3, <2>7 DEF TxInv, TextsTyped
  <2> QED
    BY <2>3, <2>5, <2>6, <2>8 DEF TxInv
<1>3. CASE HandOver
  BY <1>3 DEF HandOver, CopyOf, CalcHash, TxInv, TxFields, SignedFields, TextsTyped
<1>4. CASE UNCHANGED txVars
  BY <1>4 DEF txVars, TxInv, SignedFields
<1> QED
  BY <1>1, <1>2, <1>3, <1>4 DEF TxNext

\* A signature and what it is checked against are equal text by text.
LEMMA TxInvImplies == TxInv => SignatureExact
<1> SUFFICES ASSUME TxInv, NEW a \in Actors
             PROVE  /\ Verify(CopyOf(tx), a) <=>
                         /\ signedTx.actor = a /\ tx.approver = a
                         /\ tx.body.parties = signedTx.body.parties
                         /\ tx.producer = signedTx.producer
                         /\ InARow(tx) = InARow(signedTx)
                    /\ Verify(CopyOf(tx), a) => ~ OneTextChanged
                    /\ Verify(tx, a) => Verify(CopyOf(tx), a)
  BY DEF SignatureExact
<1>1. /\ CopyOf(tx).digSig = tx.digSig
      /\ CopyOf(tx).hash = Hashed(tx) /\ Hashed(CopyOf(tx)) = Hashed(tx)
  BY DEF CopyOf, CalcHash, Hashed, InARow, TxInv, TxFields
<1>2. Verify(CopyOf(tx), a) <=> tx.digSig = <<a, <<Hashed(tx), Hashed(tx)>> >>
  BY <1>1 DEF Verify, DigSigData
<1>3. Verify(tx, a) <=> tx.digSig = <<a, <<Hashed(tx), tx.hash>> >>
  BY DEF Verify, DigSigData
<1>4. CASE signedTx = [actor |-> NoOne] /\ tx.digSig = NoSig
  <2>1. ~ Verify(CopyOf(tx), a) /\ ~ Verify(tx, a)
    BY <1>2, <1>3, <1>4 DEF NoSig
  <2>2. signedTx.actor # a
    BY <1>4, RecordsAssumption
  <2> QED
    BY <2>1, <2>2
<1>5. CASE /\ signedTx.actor \in Actors /\ TextsTyped(signedTx)
           /\ tx.digSig = <<signedTx.actor, <<SignedFields, SignedFields>> >>
  <2>1. Hashed(tx) = SignedFields <=>
          /\ tx.approver = signedTx.actor
          /\ tx.body.parties = signedTx.body.parties
          /\ tx.producer = signedTx.producer
          /\ InARow(tx) = InARow(signedTx)
    BY DEF Hashed, SignedFields
  <2>2. Verify(CopyOf(tx), a) <=> signedTx.actor = a /\ Hashed(tx) = SignedFields
    BY <1>2, <1>5
  <2>3. Verify(tx, a) => Verify(CopyOf(tx), a)
    BY <1>2, <1>3, <1>5
  <2>4. InARow(tx) = InARow(signedTx) => ~ OneTextChanged
    BY <1>5, AloneNoticed DEF OneTextChanged, TxInv
  <2> QED
    BY <2>1, <2>2, <2>3, <2>4
<1> QED
  BY <1>4, <1>5 DEF TxInv

\* A transaction that moves by TxNext alone verifies exactly for who signed it
\* last and with the texts it had then in a row.
LEMMA TxSafe == TxSpec => []SignatureExact
<1>1. TxInit => TxInv
  <2> SUFFICES ASSUME TxInit PROVE TxInv
    OBVIOUS
  <2>1. PICK b \in Bodies : tx = Made(b)
    BY DEF TxInit
  <2>2. DOMAIN tx = TxFields /\ tx.digSig = NoSig
        /\ tx.body = b /\ tx.prevBlock = <<0>> /\ tx.gas = <<0>>
    BY <2>1 DEF Made, CalcHash, TxFields
  <2>3. TextsTyped(tx)
    BY <2>2, RecordsAssumption DEF TextsTyped
  <2> QED
    BY <2>2, <2>3 DEF TxInit, TxInv
<1> QED
  BY <1>1, TxStep, TxInvImplies, PTL DEF TxSpec

\* The loop g does as c: it begins alike, and each step leads from one value of
\* c to the next.
SameSteps(g, c, n) == g[0] = c[0] /\ \A k \in 1 .. n : g[k - 1] = c[k - 1] => g[k] = c[k]

\* What such a loop computes in n steps is c.
LEMMA LoopIs ==
  ASSUME NEW n \in Nat, NEW g, NEW c, SameSteps(g, c, n)
  PROVE  \A k \in 0 .. n : g[k] = c[k]
<1> DEFINE off == {k \in Nat : k <= n /\ g[k] # c[k]}
<1> SUFFICES ASSUME off # {} PROVE FALSE
  OBVIOUS
<1>1. PICK m \in off : \A k \in off : m <= k
  <2> DEFINE R == {ss \in Nat \X Nat : ss[1] < ss[2]}
  <2>1. IsWellFoundedOn(R, Nat)
    BY NatLessThanWellFounded, Zenon DEF OpToRel
  <2>2. PICK m \in off : \A x \in off : ~ (<<x, m>> \in R)
    <3>1. off \subseteq Nat
      OBVIOUS
    <3> HIDE DEF R, off
    <3> QED
      BY <2>1, <3>1, WFMin
  <2>3. \A x \in off : m <= x
    <3> SUFFICES ASSUME NEW x \in off, ~ (m <= x) PROVE <<x, m>> \in R
      BY <2>2
    <3>1. x \in Nat /\ m \in Nat /\ x < m
      OBVIOUS
    <3> DEFINE ss == <<x, m>>
    <3>2. ss \in Nat \X Nat /\ ss[1] = x /\ ss[2] = m
      BY <3>1
    <3> QED
      BY <3>1, <3>2
  <2> QED
    BY <2>3
<1>2. m \in 1 .. n /\ m - 1 \in Nat /\ m - 1 <= n /\ ~ (m <= m - 1)
  BY DEF SameSteps
<1>3. m - 1 \notin off
  <2> HIDE DEF off
  <2> QED
    BY <1>1, <1>2
<1>4. g[m] # c[m]
  OBVIOUS
<1> QED
  BY <1>2, <1>3, <1>4 DEF SameSteps

\* Sequences are equal if they agree at each index.
LEMMA SeqsEqual ==
  ASSUME NEW S, NEW s \in Seq(S), NEW t \in Seq(S), Len(s) = Len(t),
         \A i \in 1 .. Len(s) : s[i] = t[i]
  PROVE  s = t
OBVIOUS

\* So are two that agree before the last index and at it.
LEMMA SameToTheLast ==
  ASSUME NEW S, NEW n \in Nat \ {0}, NEW s \in Seq(S), NEW t \in Seq(S),
         Len(s) = n, Len(t) = n, s[n] = t[n], \A i \in 1 .. n - 1 : s[i] = t[i]
  PROVE  s = t
<1>1. \A i \in 1 .. n : i = n \/ i \in 1 .. n - 1
  OBVIOUS
<1>2. \A i \in 1 .. n : s[i] = t[i]
  BY <1>1
<1> QED
  BY <1>2, SeqsEqual

\* A function on 1 .. n is a sequence.
LEMMA IsSequence ==
  ASSUME NEW S, NEW n \in Nat, NEW s, s = [i \in 1 .. n |-> s[i]], \A i \in 1 .. n : s[i] \in S
  PROVE  s \in Seq(S) /\ Len(s) = n
OBVIOUS

\* A sequence of one.
LEMMA OneElement ==
  ASSUME NEW S, NEW x \in S
  PROVE  <<x>> \in Seq(S) /\ Len(<<x>>) = 1 /\ <<x>>[1] = x
OBVIOUS

\* A sequence with another last element.
LEMMA OtherLast ==
  ASSUME NEW S, NEW t \in Seq(S), t # <<>>, NEW x \in S
  PROVE  LET v == Front(t) \o <<x>>
         IN /\ v \in Seq(S) /\ Len(v) = Len(t) /\ v[Len(t)] = x
            /\ \A i \in 1 .. Len(t) - 1 : v[i] = t[i]
            /\ v \o <<>> = v
<1>1. Front(t) \in Seq(S) /\ Len(Front(t)) = Len(t) - 1
      /\ \A i \in 1 .. Len(t) - 1 : Front(t)[i] = t[i]
  <2>1. Len(t) \in Nat \ {0} /\ \A i \in 1 .. Len(t) - 1 : t[i] \in S
    BY EmptySeq, ElementOfSeq
  <2> DEFINE n == Len(t) - 1
  <2>2. n \in Int /\ n >= 0 /\ n = Len(t) - 1 /\ \A i \in 1 .. n : t[i] \in S
    BY <2>1
  <2> HIDE DEF n
  <2>3. n - 1 + 1 = n /\ (1 <= n => n - 1 + 1 = n) /\ (~ (1 <= n) => n = 0)
    BY <2>2
  <2>4. /\ SubSeq(t, 1, n) \in Seq(S)
        /\ Len(SubSeq(t, 1, n)) = IF 1 <= n THEN n - 1 + 1 ELSE 0
        /\ \A i \in 1 .. n - 1 + 1 : SubSeq(t, 1, n)[i] = t[1 + i - 1]
    BY <2>2, SubSeqProperties
  <2>5. \A i \in 1 .. n : 1 + i - 1 = i
    BY <2>2
  <2> QED
    BY <2>2, <2>3, <2>4, <2>5 DEF Front
<1> DEFINE f == Front(t)
<1> HIDE DEF f
<1>2. f \in Seq(S) /\ Len(f) = Len(t) - 1 /\ \A i \in 1 .. Len(t) - 1 : f[i] = t[i]
  BY <1>1 DEF f
<1>3. /\ f \o <<x>> \in Seq(S) /\ Len(f \o <<x>>) = Len(t) /\ (f \o <<x>>)[Len(t)] = x
      /\ \A i \in 1 .. Len(t) - 1 : (f \o <<x>>)[i] = t[i]
  BY <1>2
<1>4. (f \o <<x>>) \o <<>> = f \o <<x>>
  BY <1>3
<1> QED
  BY <1>3, <1>4 DEF f

\* The elements of a block's data.
Rows == Contents \cup {NoRow}

\* The data of a block built from list and added to: what is added is glued to
\* the last element.
Text(list, more) ==
  IF list = <<>> THEN IF more = <<>> THEN <<>> ELSE <<more>>
  ELSE [i \in 1 .. Len(list) |-> IF i = Len(list) THEN <<list[i]>> \o more ELSE <<list[i]>>]

\* One more element is glued to it, too.
LEMMA TextAdd ==
  ASSUME NEW list \in Seq(Rows), NEW more \in Seq(Rows), NEW e \in Rows
  PROVE  AddData(Text(list, more), e) = Text(list, Append(more, e))
<1>1. Serialize(<<e>>) = << <<e>> >>
  BY DEF Serialize
<1>2. CASE list = <<>> /\ more = <<>>
  <2>1. Text(list, more) = <<>> /\ Text(list, Append(more, e)) = << <<e>> >>
    BY <1>2 DEF Text
  <2> QED
    BY <1>1, <2>1 DEF AddData, Joined
<1>3. CASE ~ (list = <<>> /\ more = <<>>)
  <2> DEFINE t == Text(list, more)
             last == IF list = <<>> THEN more ELSE <<list[Len(list)]>> \o more
             n == IF list = <<>> THEN 1 ELSE Len(list)
  <2>1. /\ t \in Seq(Seq(Rows)) /\ Len(t) = n /\ n \in Nat \ {0}
        /\ t[n] = last /\ last \in Seq(Rows)
        /\ \A i \in 1 .. n - 1 : t[i] = <<list[i]>>
    <3>1. CASE list = <<>>
      BY <1>3, <3>1 DEF Text
    <3>2. CASE list # <<>>
      <4>1. Len(list) \in Nat \ {0}
        BY <3>2
      <4>2. \A i \in 1 .. Len(list) : list[i] \in Rows
        OBVIOUS
      <4>3. t = [i \in 1 .. Len(list) |-> IF i = Len(list) THEN <<list[i]>> \o more ELSE <<list[i]>>]
        BY <3>2 DEF Text
      <4>4. \A i \in 1 .. Len(list) : <<list[i]>> \in Seq(Rows) /\ <<list[i]>> \o more \in Seq(Rows)
        BY <4>2
      <4> QED
        BY <3>2, <4>1, <4>3, <4>4
    <3> QED
      BY <3>1, <3>2
  <2>2. n \in Nat \ {0} /\ last \o <<e>> \in Seq(Rows)
    <3>1. last \in Seq(Rows) /\ <<e>> \in Seq(Rows)
      BY <2>1
    <3> HIDE DEF t, last
    <3> QED
      BY <2>1, <3>1
  <2> DEFINE u == Text(list, Append(more, e))
             v == AddData(t, e)
  <2>3. /\ v \in Seq(Seq(Rows)) /\ Len(v) = n
        /\ v[n] = last \o <<e>>
        /\ \A i \in 1 .. n - 1 : v[i] = t[i]
    <3>1. t # <<>> /\ << <<e>> >> # <<>>
      BY <2>1
    <3>2. Last(t) = last /\ Head(<< <<e>> >>) = <<e>> /\ Tail(<< <<e>> >>) = <<>>
      BY <2>1 DEF Last
    <3>3. v = (Front(t) \o << last \o <<e>> >>) \o <<>>
      <4> HIDE DEF t, last
      <4> QED
        BY <1>1, <3>1, <3>2 DEF AddData, Joined
    <3>4. t \in Seq(Seq(Rows)) /\ Len(t) = n
      BY <2>1
    <3> DEFINE S == Seq(Rows)
    <3> HIDE DEF t, last, n, v, S
    <3>5. t \in Seq(S) /\ last \o <<e>> \in S
      BY <2>2, <3>4 DEF S
    <3> DEFINE x == last \o <<e>>
               w == Front(t) \o <<x>>
    <3>6. /\ w \in Seq(S) /\ Len(w) = Len(t) /\ w[Len(t)] = x
          /\ \A i \in 1 .. Len(t) - 1 : w[i] = t[i]
          /\ w \o <<>> = w
      <4> HIDE DEF x
      <4>1. x \in S
        BY <3>5 DEF x
      <4> QED
        BY <3>1, <3>5, <4>1, OtherLast
    <3>7. /\ v \in Seq(S) /\ Len(v) = n
          /\ v[n] = last \o <<e>>
          /\ \A i \in 1 .. n - 1 : v[i] = t[i]
      <4> HIDE DEF w
      <4>1. v = w
        BY <3>3, <3>6 DEF w
      <4> QED
        BY <3>4, <3>6, <4>1
    <3> QED
      BY <3>7 DEF S
  <2>4. /\ u \in Seq(Seq(Rows)) /\ Len(u) = n
        /\ u[n] = last \o <<e>>
        /\ \A i \in 1 .. n - 1 : u[i] = t[i]
    <3>1. CASE list = <<>>
      <4>1. Append(more, e) # <<>> /\ last \o <<e>> = Append(more, e)
            /\ Append(more, e) \in Seq(Rows)
        BY <3>1
      <4>2. u = <<Append(more, e)>>
        BY <3>1, <4>1 DEF Text
      <4>3. n = 1 /\ 1 .. n - 1 = {}
        BY <3>1
      <4> HIDE DEF t, last, n, u
      <4> QED
        BY <4>1, <4>2, <4>3, OneElement
    <3>2. CASE list # <<>>
      <4>1. <<list[Len(list)]>> \o Append(more, e) = last \o <<e>>
        <5>1. list[Len(list)] \in Rows
          BY <3>2
        <5> QED
          BY <3>2, <5>1
      <4>2. u = [i \in 1 .. Len(list) |-> IF i = Len(list) THEN <<list[i]>> \o Append(more, e)
                                                          ELSE <<list[i]>>]
        BY <3>2 DEF Text
      <4>3. n = Len(list)
        BY <3>2
      <4>4. \A i \in 1 .. n : u[i] = IF i = n THEN last \o <<e>> ELSE <<list[i]>>
        <5> HIDE DEF t, last, n, u
        <5> QED
          BY <4>1, <4>2, <4>3
      <4>5. \A i \in 1 .. n : <<list[i]>> \in Seq(Rows)
        BY <3>2
      <4>6. u = [i \in 1 .. n |-> u[i]]
        <5> HIDE DEF t, last, n
        <5> QED
          BY <4>2, <4>3
      <4>7. n \in 1 .. n /\ 1 .. n - 1 \subseteq 1 .. n /\ \A i \in 1 .. n - 1 : i # n
        <5> HIDE DEF n
        <5> QED
          BY <2>2
      <4>8. \A i \in 1 .. n - 1 : t[i] = <<list[i]>>
        BY <2>1
      <4> HIDE DEF t, last, n, u
      <4>9. \A i \in 1 .. n : u[i] \in Seq(Rows)
        BY <2>2, <4>4, <4>5
      <4>10. u \in Seq(Seq(Rows)) /\ Len(u) = n
        BY <2>2, <4>6, <4>9, IsSequence
      <4> QED
        BY <4>4, <4>7, <4>8, <4>10
    <3> QED
      BY <3>1, <3>2
  <2>5. u = v
    <3>1. \A i \in 1 .. n - 1 : u[i] = v[i]
      BY <2>3, <2>4
    <3> DEFINE S == Seq(Rows)
    <3>2. u \in Seq(S) /\ v \in Seq(S) /\ Len(u) = n /\ Len(v) = n /\ u[n] = v[n]
      BY <2>3, <2>4
    <3> HIDE DEF t, last, n, u, v, S
    <3> QED
      BY <2>2, <3>1, <3>2, SameToTheLast
  <2> QED
    BY <2>5
<1> QED
  BY <1>2, <1>3

\* A text of the two lists above, element by element.
LEMMA TextElements ==
  ASSUME NEW list \in Seq(Rows), NEW more \in Seq(Rows), list # <<>> \/ more # <<>>
  PROVE  LET t == Text(list, more)
             n == IF list = <<>> THEN 1 ELSE Len(list)
         IN /\ t # <<>> /\ n \in Nat \ {0}
            /\ t \in Seq(Seq(Rows)) /\ Len(t) = n
            /\ \A i \in 1 .. n :
                 t[i] # <<>> /\ Head(t[i]) = IF list = <<>> THEN Head(more) ELSE list[i]
            /\ list = <<>> => t[1] = more
<1>1. CASE list = <<>>
  BY <1>1 DEF Text
<1>2. CASE list # <<>>
  <2> DEFINE n == Len(list)
             t == Text(list, more)
  <2>1. n \in Nat \ {0} /\ \A i \in 1 .. n : list[i] \in Rows
    BY <1>2, EmptySeq, ElementOfSeq
  <2>2. t = [i \in 1 .. n |-> IF i = n THEN <<list[i]>> \o more ELSE <<list[i]>>]
    BY <1>2 DEF Text
  <2>3. \A x \in Rows : /\ <<x>> \o more \in Seq(Rows) /\ <<x>> \o more # <<>>
                        /\ Head(<<x>> \o more) = x
                        /\ <<x>> \in Seq(Rows) /\ <<x>> # <<>> /\ Head(<<x>>) = x
    <3> TAKE x \in Rows
    <3>1. <<x>> \in Seq(Rows) /\ Len(<<x>>) = 1 /\ <<x>>[1] = x
      OBVIOUS
    <3>2. /\ <<x>> \o more \in Seq(Rows) /\ Len(<<x>> \o more) = 1 + Len(more)
          /\ \A i \in 1 .. 1 + Len(more) :
               (<<x>> \o more)[i] = IF i <= 1 THEN <<x>>[i] ELSE more[i - 1]
      <4> DEFINE one == <<x>>
      <4>1. one \in Seq(Rows) /\ Len(one) = 1
        BY <3>1
      <4> HIDE DEF one
      <4>2. /\ one \o more \in Seq(Rows) /\ Len(one \o more) = Len(one) + Len(more)
            /\ \A i \in 1 .. Len(one) + Len(more) :
                 (one \o more)[i] = IF i <= Len(one) THEN one[i] ELSE more[i - Len(one)]
        BY <4>1, ConcatProperties
      <4> QED
        BY <4>1, <4>2 DEF one
    <3>3. Len(more) \in Nat
      OBVIOUS
    <3>4. (<<x>> \o more)[1] = x
      BY <3>1, <3>2, <3>3
    <3> QED
      BY <3>1, <3>2, <3>3, <3>4
  <2> HIDE DEF t, n
  <2>4. \A i \in 1 .. n : t[i] = IF i = n THEN <<list[i]>> \o more ELSE <<list[i]>>
    BY <2>2
  <2>5. \A i \in 1 .. n : t[i] \in Seq(Rows) /\ t[i] # <<>> /\ Head(t[i]) = list[i]
    BY <2>1, <2>3, <2>4
  <2>6. t = [i \in 1 .. n |-> t[i]]
    BY <2>2
  <2>7. t \in Seq(Seq(Rows)) /\ Len(t) = n
    BY <2>1, <2>5, <2>6, IsSequence
  <2>8. t # <<>>
    BY <2>1, <2>7
  <2> QED
    BY <1>2, <2>1, <2>5, <2>7, <2>8 DEF t, n
<1> QED
  BY <1>1, <1>2

\* What is read of a text: the first part of each element.
LEMMA TextRead ==
  ASSUME NEW list \in Seq(Rows), NEW more \in Seq(Rows)
  PROVE  ExtractTransactions(Text(list, more)) =
           IF list # <<>> \/ more = <<>> THEN list ELSE <<Head(more)>>
<1> DEFINE all == Deserialize(Text(list, more))
           n == Len(all)
           Loop(f) == f = [k \in 0 .. n |->
             IF k = 0 THEN <<>>
             ELSE IF all[k] = <<>> THEN f[k - 1] ELSE Append(f[k - 1], Head(all[k]))]
           read == CHOOSE f : Loop(f)
<1>1. ExtractTransactions(Text(list, more)) = read[n]
  BY Zenon DEF ExtractTransactions
<1>2. CASE list = <<>> /\ more = <<>>
  <2>1. all = << <<>> >> /\ n = 1 /\ all[1] = <<>>
    BY <1>2 DEF Text, Deserialize
  <2> HIDE DEF all, n
  <2>2. Loop([k \in 0 .. n |-> <<>>])
    BY <2>1
  <2>3. Loop(read)
    BY <2>2
  <2>4. read[0] = <<>> /\ read[1] = read[0]
    <3> HIDE DEF read
    <3>1. 0 \in 0 .. n /\ 1 \in 0 .. n /\ 1 - 1 = 0
      BY <2>1
    <3>2. read[0] = <<>>
      BY <2>3, <3>1
    <3>3. read[1] = read[1 - 1]
      BY <2>1, <2>3, <3>1
    <3> QED
      BY <3>1, <3>2, <3>3
  <2> QED
    BY <1>1, <1>2, <2>1, <2>4
<1>3. CASE ~ (list = <<>> /\ more = <<>>)
  <2> DEFINE m == IF list = <<>> THEN 1 ELSE Len(list)
             whole == IF list = <<>> THEN <<Head(more)>> ELSE list
             c == [k \in 0 .. n |-> SubSeq(whole, 1, k)]
  <2>1. /\ n = m /\ m \in Nat \ {0} /\ whole \in Seq(Rows) /\ Len(whole) = m
        /\ \A i \in 1 .. m : all[i] # <<>> /\ Head(all[i]) = whole[i]
    <3>1. all = Text(list, more)
      BY <1>3, TextElements DEF Deserialize
    <3>2. /\ Len(all) = m /\ m \in Nat \ {0}
          /\ \A i \in 1 .. m :
               all[i] # <<>> /\ Head(all[i]) = IF list = <<>> THEN Head(more) ELSE list[i]
      <4>1. /\ Len(Text(list, more)) = m /\ m \in Nat \ {0}
            /\ \A i \in 1 .. m :
                 /\ Text(list, more)[i] # <<>>
                 /\ Head(Text(list, more)[i]) = IF list = <<>> THEN Head(more) ELSE list[i]
        BY <1>3, TextElements
      <4> HIDE DEF all, m
      <4> QED
        BY <3>1, <4>1
    <3> HIDE DEF all
    <3>3. CASE list = <<>>
      <4>1. Head(more) \in Rows
        BY <1>3, <3>3, HeadTailProperties
      <4> QED
        BY <3>2, <3>3, <4>1
    <3>4. CASE list # <<>>
      BY <3>2, <3>4
    <3> QED
      BY <3>3, <3>4
  <2> HIDE DEF all, m, whole
  <2> HIDE DEF n
  <2>2. \A k \in 1 .. n : k - 1 \in 0 .. n /\ k \in 0 .. n /\ k \in 1 .. Len(whole) /\ k # 0
    BY <2>1
  <2>3. \A k \in 1 .. n : SubSeq(whole, 1, k) = Append(SubSeq(whole, 1, k - 1), whole[k])
    <3> TAKE k \in 1 .. n
    <3>1. k \in 1 .. Len(whole) /\ 1 \in 1 .. Len(whole) /\ k \in Nat /\ k - 1 <= Len(whole)
      BY <2>1
    <3>2. whole[k] \in Rows
      BY <2>1, <3>1, ElementOfSeq
    <3>3. SubSeq(whole, 1, k - 1) \in Seq(Rows)
      <4>1. \A i \in 1 .. k - 1 : whole[i] \in Rows
        BY <2>1, <3>1, ElementOfSeq
      <4> QED
        BY <3>1, <4>1, SubSeqProperties
    <3>4. SubSeq(whole, 1, k) = SubSeq(whole, 1, k - 1) \o << whole[k] >>
      BY <2>1, <3>1, SubSeqRecursiveSecond
    <3> QED
      BY <3>2, <3>3, <3>4, AppendIsConcat
  <2>4. c[0] = <<>>
    BY <2>1
  <2>5. \A k \in 1 .. n : c[k] = Append(c[k - 1], Head(all[k])) /\ all[k] # <<>>
    BY <2>1, <2>2, <2>3
  <2>6. Loop(c)
    <3> HIDE DEF c
    <3>1. \A k \in 0 .. n : k = 0 \/ k \in 1 .. n
      BY <2>1
    <3>2. c = [k \in 0 .. n |-> c[k]]
      BY DEF c
    <3>3. \A k \in 0 .. n : c[k] =
             IF k = 0 THEN <<>>
             ELSE IF all[k] = <<>> THEN c[k - 1] ELSE Append(c[k - 1], Head(all[k]))
      BY <2>4, <2>5, <3>1
    <3> QED
      BY <3>2, <3>3
  <2>7. Loop(read)
    <3> HIDE DEF c, Loop
    <3> QED
      BY <2>6
  <2>8. /\ read[0] = <<>>
        /\ \A k \in 1 .. n : read[k] = Append(read[k - 1], Head(all[k]))
    <3> HIDE DEF read
    <3>1. \A k \in 0 .. n : read[k] =
             IF k = 0 THEN <<>>
             ELSE IF all[k] = <<>> THEN read[k - 1] ELSE Append(read[k - 1], Head(all[k]))
      BY <2>7
    <3>2. 0 \in 0 .. n
      BY <2>1
    <3> QED
      BY <2>2, <2>5, <3>1, <3>2
  <2>9. n \in Nat /\ SameSteps(read, c, n)
    <3> HIDE DEF read, c
    <3> QED
      BY <2>1, <2>4, <2>5, <2>8 DEF SameSteps
  <2>10. read[n] = c[n]
    <3> HIDE DEF read, c
    <3>1. \A k \in 0 .. n : read[k] = c[k]
      BY <2>9, LoopIs
    <3> QED
      BY <2>9, <3>1
  <2>11. c[n] = whole
    BY <2>1, SubSeqFull
  <2> HIDE DEF read, c
  <2> QED
    BY <1>1, <1>3, <2>10, <2>11 DEF whole
<1> QED
  BY <1>2, <1>3

\* Rows read from a text: one that stands alone, or a row of nobody.
LEMMA RowsRead ==
  ASSUME NEW more \in Seq(Rows)
  PROVE  ExtractDataRows(Text(<<>>, more)) = IF Len(more) = 1 THEN more ELSE <<NoRow>>
<1>1. CASE more = <<>>
  BY <1>1 DEF Text, ExtractDataRows, Deserialize
<1>2. CASE more # <<>>
  <2>1. Text(<<>>, more) = <<more>>
    BY <1>2 DEF Text
  <2>2. Deserialize(<<more>>) = <<more>>
    BY DEF Deserialize
  <2>3. ExtractDataRows(<<more>>) = [i \in 1 .. 1 |-> IF Len(more) = 1 THEN more[1] ELSE NoRow]
    BY <2>2 DEF ExtractDataRows
  <2> QED
    BY <2>1, <2>3
<1> QED
  BY <1>1, <1>2

\* The rows of a genesis block are put into the block that is read.
LEMMA ReadDataIs ==
  ASSUME NEW more \in Seq(Rows), NEW b, b.type = "genesis", b.data = Text(<<>>, more)
  PROVE  ReadData(b) = Text(<<>>, ExtractDataRows(b.data))
<1> DEFINE rr == ExtractDataRows(b.data)
           Loop(f) == f = [k \in 0 .. Len(rr) |-> IF k = 0 THEN <<>> ELSE AddData(f[k - 1], rr[k])]
           text == CHOOSE f : Loop(f)
<1>1. ReadData(b) = text[Len(rr)]
  BY Zenon DEF ReadData
<1>2. rr \in Seq(Rows) /\ Len(rr) = 1
  <2>1. NoRow \in Rows /\ <<NoRow>> \in Seq(Rows) /\ Len(<<NoRow>>) = 1
    BY DEF Rows
  <2>2. rr = IF Len(more) = 1 THEN more ELSE <<NoRow>>
    BY RowsRead
  <2> HIDE DEF rr
  <2> QED
    BY <2>1, <2>2
<1> HIDE DEF rr
<1>3. <<>> \in Seq(Rows) /\ Append(<<>>, rr[1]) = rr /\ rr[1] \in Rows
  <2>1. rr[1] \in Rows /\ 1 .. Len(rr) = {1}
    <3>1. 1 .. Len(rr) = {1} /\ 1 \in 1 .. Len(rr)
      BY <1>2
    <3> QED
      BY <1>2, <3>1, ElementOfSeq
  <2>2. Append(<<>>, rr[1]) = <<rr[1]>> /\ <<rr[1]>> \in Seq(Rows) /\ Len(<<rr[1]>>) = 1
    BY <2>1
  <2>3. rr = <<rr[1]>>
    BY <1>2, <2>1, <2>2, SeqsEqual
  <2> QED
    BY <2>1, <2>2, <2>3
<1>4. AddData(<<>>, rr[1]) = Text(<<>>, rr)
  <2>1. Text(<<>>, <<>>) = <<>>
    BY DEF Text
  <2> QED
    BY <1>3, <2>1, TextAdd
<1>5. 0 \in 0 .. 1 /\ 1 \in 0 .. 1 /\ 1 - 1 = 0 /\ \A k \in 0 .. 1 : k = 0 \/ k = 1
  OBVIOUS
<1>6. Loop([k \in 0 .. 1 |-> IF k = 0 THEN <<>> ELSE AddData(<<>>, rr[1])])
  BY <1>2, <1>5
<1>7. Loop(text)
  <2> HIDE DEF Loop
  <2> QED
    BY <1>6
<1>8. text[0] = <<>> /\ text[1] = AddData(text[0], rr[1])
  <2> HIDE DEF text
  <2> QED
    BY <1>2, <1>5, <1>7
<1> HIDE DEF text
<1> QED
  BY <1>1, <1>2, <1>4, <1>8 DEF rr

\* The hash of a block, and its signatures.
Hashes == BOOLEAN \X Seq(Rows)
Sigs == [actor : Actors, of : Hashes, isApprove : BOOLEAN]

\* The i-th signature is the last that approves.
LastApproves(sigs, i) ==
  /\ i \in 1 .. Len(sigs) /\ sigs[i].isApprove
  /\ \A j \in 1 .. Len(sigs) : j > i => ~ sigs[j].isApprove

\* The data is what was put into the block; the first signature and the last
\* approving one are those of the first and of the last call of sign, and the
\* hash in the block is that of the last call.
BlockInv ==
  /\ DOMAIN block = {"type", "data", "prev", "hash", "sigs"}
  /\ packed \in Seq(Rows) /\ added \in Seq(Rows)
  /\ block.type = "genesis" => packed = <<>>
  /\ block.data = Text(packed, added)
  /\ block.sigs \in Seq(Sigs)
  /\ IF block.sigs = <<>>
     THEN firstSig = [actor |-> NoOne] /\ lastSig = [actor |-> NoOne]
     ELSE /\ block.sigs[1].actor = firstSig.actor
          /\ block.sigs[1].of = <<block.prev = FirstPrev, firstSig.txs>>
          /\ block.sigs[1].isApprove
          /\ firstSig.txs \in Seq(Rows) /\ lastSig.txs \in Seq(Rows)
          /\ block.hash = <<block.prev = FirstPrev, lastSig.txs>>
          /\ \E i \in 1 .. Len(block.sigs) :
               LastApproves(block.sigs, i) /\ block.sigs[i].actor = lastSig.actor

\* Max of a set that has one.
LEMMA MaxIs ==
  ASSUME NEW S \in SUBSET Int, NEW m \in S, \A x \in S : x <= m
  PROVE  Max(S) = m
<1>1. \A n \in S : (\A x \in S : x <= n) => n = m
  OBVIOUS
<1> QED
  BY <1>1 DEF Max

\* getApprover finds the last that approves.
LEMMA ApproverIs ==
  ASSUME NEW b, b.sigs \in Seq(Sigs), NEW i, LastApproves(b.sigs, i)
  PROVE  GetApprover(b) = b.sigs[i].actor
<1> DEFINE I == {k \in 1 .. Len(b.sigs) : b.sigs[k].isApprove}
<1>1. i \in I /\ I \in SUBSET Int /\ i \in Int
  BY DEF LastApproves
<1>2. \A x \in I : x <= i
  <2> SUFFICES ASSUME NEW x \in I, ~ (x <= i) PROVE FALSE
    OBVIOUS
  <2>1. x \in 1 .. Len(b.sigs) /\ x \in Int /\ x > i
    BY <1>1
  <2> QED
    BY <2>1 DEF LastApproves
<1>3. Max(I) = i
  <2> HIDE DEF I
  <2> QED
    BY <1>1, <1>2, MaxIs
<1>4. SelectLastInSeq(b.sigs, LAMBDA s : s.isApprove) = IF I # {} THEN Max(I) ELSE 0
  BY DEF SelectLastInSeq
<1>5. i # 0
  BY <1>1
<1> HIDE DEF I
<1> QED
  BY <1>1, <1>3, <1>4, <1>5 DEF GetApprover

\* Nobody approved a block without signatures.
LEMMA NoApprover ==
  ASSUME NEW b, b.sigs = <<>>
  PROVE  GetApprover(b) = NoOne
<1>1. {k \in 1 .. Len(b.sigs) : b.sigs[k].isApprove} = {}
  OBVIOUS
<1>2. SelectLastInSeq(b.sigs, LAMBDA s : s.isApprove) = 0
  BY <1>1 DEF SelectLastInSeq
<1> QED
  BY <1>2 DEF GetApprover

\* By the invariant the block is valid exactly as BlockExact says, and read as
\* DataRead says.
LEMMA BlockInvImplies == BlockInv => BlockExact /\ DataRead
<1> SUFFICES ASSUME BlockInv PROVE BlockExact /\ DataRead
  OBVIOUS
<1>1. DataRead
  <2>1. ExtractTransactions(block.data) = Readable
    <3>1. ExtractTransactions(block.data) =
            IF packed # <<>> \/ added = <<>> THEN packed ELSE <<Head(added)>>
      BY TextRead DEF BlockInv
    <3> QED
      BY <3>1 DEF Readable
  <2>2. packed = <<>> => ExtractDataRows(block.data) = IF Len(added) = 1 THEN added ELSE <<NoRow>>
    BY RowsRead DEF BlockInv
  <2> QED
    BY <2>1, <2>2 DEF DataRead
<1>2. CASE block.sigs = <<>>
  BY <1>1, <1>2, NoApprover DEF BlockExact, ValidateBlock, BlockInv
<1>3. CASE block.sigs # <<>>
  <2>1. PICK i \in 1 .. Len(block.sigs) :
               LastApproves(block.sigs, i) /\ block.sigs[i].actor = lastSig.actor
    BY <1>3 DEF BlockInv
  <2>2. GetApprover(block) = lastSig.actor
    BY <2>1, ApproverIs DEF BlockInv
  <2>3. lastSig.actor \in Actors /\ lastSig.actor # NoOne
    <3>1. block.sigs[i] \in Sigs
      BY <2>1, ElementOfSeq DEF BlockInv
    <3> QED
      BY <2>1, <3>1, RecordsAssumption DEF Sigs
  <2>4. Head(block.sigs) = block.sigs[1]
    BY <1>3 DEF BlockInv
  <2>5. ValidateBlock(block) <=>
          /\ firstSig.actor = lastSig.actor
          /\ <<block.prev = FirstPrev, firstSig.txs>> = <<block.prev = FirstPrev, lastSig.txs>>
    BY <1>3, <2>2, <2>3, <2>4 DEF ValidateBlock, VerifyBlock, BlockInv
  <2> QED
    BY <1>1, <2>3, <2>5 DEF BlockExact
<1> QED
  BY <1>1, <1>2, <1>3

\* What the invariant says of the signatures of b.
SigsInv(b, first, last) ==
  /\ b.sigs \in Seq(Sigs)
  /\ IF b.sigs = <<>>
     THEN first = [actor |-> NoOne] /\ last = [actor |-> NoOne]
     ELSE /\ b.sigs[1].actor = first.actor
          /\ b.sigs[1].of = <<b.prev = FirstPrev, first.txs>>
          /\ b.sigs[1].isApprove
          /\ first.txs \in Seq(Rows) /\ last.txs \in Seq(Rows)
          /\ b.hash = <<b.prev = FirstPrev, last.txs>>
          /\ \E i \in 1 .. Len(b.sigs) :
               LastApproves(b.sigs, i) /\ b.sigs[i].actor = last.actor

\* What it says of the data.
DataInv ==
  /\ DOMAIN block = {"type", "data", "prev", "hash", "sigs"}
  /\ packed \in Seq(Rows) /\ added \in Seq(Rows)
  /\ block.type = "genesis" => packed = <<>>
  /\ block.data = Text(packed, added)

\* The invariant in its two parts.
LEMMA InvParts == BlockInv <=> DataInv /\ SigsInv(block, firstSig, lastSig)
  BY DEF BlockInv, DataInv, SigsInv

\* The same after a step.
LEMMA InvPartsNext == BlockInv' <=> DataInv' /\ SigsInv(block', firstSig', lastSig')
  BY DEF BlockInv, DataInv, SigsInv

\* A new block satisfies the invariant.
LEMMA BlockInitInv == BlockInit => BlockInv
<1> SUFFICES ASSUME BlockInit PROVE BlockInv
  OBVIOUS
<1>1. PICK prev \in Prevs, list \in {<<>>} \cup [1 .. 2 -> Contents] :
       \/ block = NewBlock("data", Packed(list), prev) /\ packed = list
       \/ block = NewBlock("genesis", <<>>, prev) /\ packed = <<>>
  BY DEF BlockInit
<1>2. list \in Seq(Rows) /\ <<>> \in Seq(Rows)
  <2>1. CASE list = <<>>
    BY <2>1
  <2>2. CASE list \in [1 .. 2 -> Contents]
    <3>1. list = [i \in 1 .. 2 |-> list[i]] /\ \A i \in 1 .. 2 : list[i] \in Rows
      BY <2>2 DEF Rows
    <3> QED
      BY <3>1, IsSequence
  <2> QED
    BY <1>1, <2>1, <2>2
<1>3. Packed(list) = Text(list, <<>>)
  <2>1. CASE list = <<>>
    BY <2>1 DEF Packed, Serialize, Text
  <2>2. CASE list # <<>>
    <3>1. \A i \in 1 .. Len(list) : <<list[i]>> \o <<>> = <<list[i]>>
      <4> TAKE i \in 1 .. Len(list)
      <4>1. <<list[i]>> \in Seq(Rows)
        BY <1>2, ElementOfSeq, OneElement
      <4> QED
        BY <4>1, ConcatEmptySeq
    <3>2. DOMAIN list = 1 .. Len(list)
      BY <1>2
    <3> QED
      BY <2>2, <3>1, <3>2 DEF Packed, Serialize, Text
  <2> QED
    BY <2>1, <2>2
<1>4. added = <<>> /\ firstSig = [actor |-> NoOne] /\ lastSig = [actor |-> NoOne]
  BY DEF BlockInit
<1>5. Text(<<>>, <<>>) = <<>>
  BY DEF Text
<1>6. /\ packed \in Seq(Rows) /\ block.sigs = <<>>
      /\ DOMAIN block = {"type", "data", "prev", "hash", "sigs"}
      /\ block.data = Text(packed, <<>>) /\ (block.type = "genesis" => packed = <<>>)
  <2>1. CASE block = NewBlock("data", Packed(list), prev) /\ packed = list
    <3> DEFINE text == Packed(list)
    <3>1. /\ block.sigs = <<>> /\ block.type = "data" /\ block.data = text
          /\ DOMAIN block = {"type", "data", "prev", "hash", "sigs"}
      <4> HIDE DEF text
      <4> QED
        BY <2>1 DEF NewBlock, text
    <3> QED
      BY <1>2, <1>3, <2>1, <3>1
  <2>2. CASE block = NewBlock("genesis", <<>>, prev) /\ packed = <<>>
    <3>1. /\ block.sigs = <<>> /\ block.type = "genesis" /\ block.data = <<>>
          /\ DOMAIN block = {"type", "data", "prev", "hash", "sigs"}
      BY <2>2 DEF NewBlock
    <3> QED
      BY <1>2, <1>5, <2>2, <3>1
  <2> QED
    BY <1>1, <2>1, <2>2
<1> QED
  BY <1>2, <1>4, <1>6 DEF BlockInv

\* addData and addRow keep the invariant: what is added is glued on.
LEMMA PutKeeps ==
  ASSUME BlockInv, NEW b \in Contents, Put(b)
  PROVE  BlockInv'
<1>1. /\ added' = Append(added, b) /\ packed' = packed /\ firstSig' = firstSig /\ lastSig' = lastSig
      /\ block' = [block EXCEPT !.data = AddData(block.data, b)]
  BY DEF Put
<1>2. DOMAIN block = {"type", "data", "prev", "hash", "sigs"}
  BY DEF BlockInv
<1>3. /\ block'.data = AddData(block.data, b) /\ block'.type = block.type /\ block'.prev = block.prev
      /\ block'.hash = block.hash /\ block'.sigs = block.sigs /\ DOMAIN block' = DOMAIN block
  BY <1>1, <1>2
<1>4. b \in Rows /\ packed \in Seq(Rows) /\ added \in Seq(Rows) /\ block.data = Text(packed, added)
  BY DEF Rows, BlockInv
<1>5. DataInv'
  <2>1. block'.data = Text(packed', added')
    BY <1>1, <1>3, <1>4, TextAdd
  <2>2. added' \in Seq(Rows)
    BY <1>1, <1>4, AppendProperties
  <2> QED
    BY <1>1, <1>2, <1>3, <2>1, <2>2 DEF BlockInv, DataInv
<1>6. SigsInv(block', firstSig', lastSig')
  BY <1>1, <1>3 DEF BlockInv, SigsInv
<1> QED
  BY <1>5, <1>6, InvPartsNext

\* setType and setPrevHash touch neither data nor signatures.
LEMMA SetInBlockKeeps ==
  ASSUME BlockInv, SetInBlock
  PROVE  BlockInv'
<1>1. DOMAIN block = {"type", "data", "prev", "hash", "sigs"}
  BY DEF BlockInv
<1>2. /\ added' = added /\ packed' = packed /\ firstSig' = firstSig /\ lastSig' = lastSig
  BY DEF SetInBlock
<1>3. /\ block'.data = block.data /\ (block'.type = "genesis" => block.type = "genesis")
      /\ (block'.prev = FirstPrev) = (block.prev = FirstPrev)
      /\ block'.hash = block.hash /\ block'.sigs = block.sigs /\ DOMAIN block' = DOMAIN block
  <2>1. CASE \E type \in {"dummy", "dataMerge"} : block' = [block EXCEPT !.type = type]
    BY <1>1, <2>1
  <2>2. CASE \E prev \in Prevs \ {FirstPrev} :
               block.prev # FirstPrev /\ block' = [block EXCEPT !.prev = prev]
    BY <1>1, <2>2
  <2> QED
    BY <2>1, <2>2 DEF SetInBlock
<1>4. DataInv'
  BY <1>1, <1>2, <1>3 DEF BlockInv, DataInv
<1>5. SigsInv(block', firstSig', lastSig')
  BY <1>2, <1>3 DEF BlockInv, SigsInv
<1> QED
  BY <1>4, <1>5, InvPartsNext

\* A signature is put behind the others.
LEMMA AppendSig ==
  ASSUME NEW sigs \in Seq(Sigs), NEW s \in Sigs
  PROVE  LET more == Append(sigs, s) IN
         /\ more \in Seq(Sigs) /\ more # <<>> /\ Len(more) = Len(sigs) + 1
         /\ more[1] = IF sigs = <<>> THEN s ELSE sigs[1]
         /\ s.isApprove => LastApproves(more, Len(sigs) + 1)
         /\ more[Len(sigs) + 1] = s
         /\ \A i \in 1 .. Len(sigs) : more[i] = sigs[i]
         /\ ~ s.isApprove => \A i : LastApproves(sigs, i) => LastApproves(more, i)
<1> DEFINE more == Append(sigs, s)
           n == Len(sigs)
<1>1. /\ more \in Seq(Sigs) /\ more # <<>> /\ Len(more) = n + 1
      /\ \A i \in 1 .. n : more[i] = sigs[i]
      /\ more[n + 1] = s
  BY AppendProperties
<1>2. n \in Nat /\ (sigs = <<>> => n = 0) /\ (sigs # <<>> => n # 0)
  BY EmptySeq
<1> HIDE DEF more, n
<1>3. more[1] = IF sigs = <<>> THEN s ELSE sigs[1]
  BY <1>1, <1>2
<1>4. s.isApprove => LastApproves(more, n + 1)
  BY <1>1, <1>2 DEF LastApproves
<1>5. ASSUME ~ s.isApprove, NEW i, LastApproves(sigs, i)
      PROVE  LastApproves(more, i)
  <2>1. i \in 1 .. n /\ sigs[i].isApprove /\ \A j \in 1 .. n : j > i => ~ sigs[j].isApprove
    BY <1>5 DEF LastApproves, n
  <2>2. i \in 1 .. n + 1 /\ more[i].isApprove
    BY <1>1, <1>2, <2>1
  <2>3. \A j \in 1 .. n + 1 : j \in 1 .. n \/ j = n + 1
    BY <1>2
  <2>4. \A j \in 1 .. n + 1 : j > i => ~ more[j].isApprove
    BY <1>1, <1>5, <2>1, <2>3
  <2> QED
    BY <1>1, <2>2, <2>4 DEF LastApproves
<1> QED
  BY <1>1, <1>3, <1>4, <1>5 DEF more, n

\* The hash of a block: its index, and what a reader finds in it.
LEMMA HashIs ==
  ASSUME BlockInv
  PROVE  LET txs == IF block.type = "data" THEN Readable ELSE <<>>
         IN txs \in Seq(Rows) /\ HashOf(block) = <<block.prev = FirstPrev, txs>>
<1>1. ExtractTransactions(block.data) = Readable
  BY BlockInvImplies DEF DataRead
<1>2. Readable \in Seq(Rows)
  <2>1. CASE packed # <<>> \/ added = <<>>
    BY <2>1 DEF BlockInv, Readable
  <2>2. CASE ~ (packed # <<>> \/ added = <<>>)
    <3>1. Head(added) \in Rows
      BY <2>2, HeadTailProperties DEF BlockInv
    <3> QED
      BY <2>2, <3>1, OneElement DEF Readable
  <2> QED
    BY <2>1, <2>2
<1> QED
  BY <1>1, <1>2 DEF HashOf

\* sign makes a hash of what is in the block now, and approves it last.
LEMMA SignBlockKeeps ==
  ASSUME BlockInv, NEW actor \in Actors, SignBlock(actor)
  PROVE  BlockInv'
<1> DEFINE txs == IF block.type = "data" THEN Readable ELSE <<>>
           hash == HashOf(block)
           sig == [actor |-> actor, of |-> hash, isApprove |-> TRUE]
           more == Append(block.sigs, sig)
<1>1. DOMAIN block = {"type", "data", "prev", "hash", "sigs"}
  BY DEF BlockInv
<1>2. /\ block' = SignedBlock(block, actor)
      /\ lastSig' = [actor |-> actor, txs |-> txs]
      /\ firstSig' = IF block.sigs = <<>> THEN lastSig' ELSE firstSig
      /\ packed' = packed /\ added' = added
  BY DEF SignBlock
<1>3. txs \in Seq(Rows) /\ hash = <<block.prev = FirstPrev, txs>>
  BY HashIs
<1>4. sig \in Sigs /\ sig.actor = actor /\ sig.of = hash /\ sig.isApprove
  <2> HIDE DEF txs, hash
  <2>1. hash \in Hashes
    BY <1>3 DEF Hashes
  <2> QED
    BY <2>1 DEF Sigs
<1>5. /\ block'.hash = hash /\ block'.sigs = more
      /\ block'.data = block.data /\ block'.type = block.type /\ block'.prev = block.prev
      /\ DOMAIN block' = DOMAIN block
  <2> DEFINE b == [block EXCEPT !.hash = hash]
  <2> HIDE DEF hash
  <2>1. /\ DOMAIN b = DOMAIN block /\ b.hash = hash /\ b.sigs = block.sigs
        /\ b.data = block.data /\ b.type = block.type /\ b.prev = block.prev
    BY <1>1
  <2>2. block' = [b EXCEPT !.sigs = Append(b.sigs, [actor |-> actor, of |-> b.hash, isApprove |-> TRUE])]
    BY <1>2 DEF SignedBlock, hash
  <2> HIDE DEF b
  <2> QED
    BY <1>1, <2>1, <2>2
<1> HIDE DEF txs, hash, sig, more
<1>6. /\ more \in Seq(Sigs) /\ more # <<>> /\ Len(more) = Len(block.sigs) + 1
      /\ more[1] = IF block.sigs = <<>> THEN sig ELSE block.sigs[1]
      /\ LastApproves(more, Len(block.sigs) + 1)
      /\ more[Len(block.sigs) + 1] = sig
  BY <1>4, AppendSig DEF BlockInv, more
<1>7. SigsInv(block', firstSig', lastSig')
  <2>1. lastSig'.actor = actor /\ lastSig'.txs = txs
    BY <1>2
  <2>2. \E i \in 1 .. Len(more) : LastApproves(more, i) /\ more[i].actor = lastSig'.actor
    <3>1. Len(block.sigs) + 1 \in 1 .. Len(more)
      BY <1>6 DEF LastApproves
    <3> QED
      BY <1>4, <1>6, <2>1, <3>1
  <2>3. CASE block.sigs = <<>>
    BY <1>2, <1>3, <1>4, <1>5, <1>6, <2>1, <2>2, <2>3 DEF SigsInv
  <2>4. CASE block.sigs # <<>>
    BY <1>2, <1>3, <1>4, <1>5, <1>6, <2>1, <2>2, <2>4 DEF SigsInv, BlockInv
  <2> QED
    BY <2>3, <2>4
<1>8. DataInv'
  BY <1>1, <1>2, <1>5 DEF BlockInv, DataInv
<1> QED
  BY <1>7, <1>8, InvPartsNext

\* A checker signs the hash there is and approves nothing.
LEMMA SignCheckAddKeeps ==
  ASSUME BlockInv, NEW actor \in Actors, SignCheckAdd(actor)
  PROVE  BlockInv'
<1> DEFINE sig == [actor |-> actor, of |-> block.hash, isApprove |-> FALSE]
           more == Append(block.sigs, sig)
<1>1. DOMAIN block = {"type", "data", "prev", "hash", "sigs"} /\ block.sigs \in Seq(Sigs)
  BY DEF BlockInv
<1>2. /\ block' = Countersigned(block, actor)
      /\ lastSig' = lastSig /\ firstSig' = firstSig
      /\ packed' = packed /\ added' = added
  BY DEF SignCheckAdd
<1>3. block.sigs # <<>>
  BY DEF SignCheckAdd, COUNT_APPROVER_BLOCK
<1>4. sig \in Sigs /\ ~ sig.isApprove
  <2>1. block.hash \in Hashes
    <3> DEFINE isFirst == block.prev = FirstPrev
    <3>1. isFirst \in BOOLEAN /\ lastSig.txs \in Seq(Rows) /\ block.hash = <<isFirst, lastSig.txs>>
      BY <1>3 DEF BlockInv
    <3> HIDE DEF isFirst
    <3> QED
      BY <3>1 DEF Hashes
  <2> QED
    BY <2>1 DEF Sigs
<1>5. /\ block'.sigs = more /\ block'.hash = block.hash
      /\ block'.data = block.data /\ block'.type = block.type /\ block'.prev = block.prev
      /\ DOMAIN block' = DOMAIN block
  BY <1>1, <1>2 DEF Countersigned
<1> HIDE DEF sig, more
<1>6. /\ more \in Seq(Sigs) /\ more # <<>> /\ Len(more) = Len(block.sigs) + 1
      /\ more[1] = block.sigs[1]
      /\ \A i \in 1 .. Len(block.sigs) : more[i] = block.sigs[i]
      /\ \A i : LastApproves(block.sigs, i) => LastApproves(more, i)
  BY <1>1, <1>3, <1>4, AppendSig DEF more
<1>7. SigsInv(block', firstSig', lastSig')
  <2>1. PICK i \in 1 .. Len(block.sigs) :
          LastApproves(block.sigs, i) /\ block.sigs[i].actor = lastSig.actor
    BY <1>3 DEF BlockInv
  <2>2. i \in 1 .. Len(more) /\ LastApproves(more, i) /\ more[i].actor = lastSig.actor
    BY <1>6, <2>1 DEF LastApproves
  <2> QED
    BY <1>2, <1>3, <1>5, <1>6, <2>2 DEF BlockInv, SigsInv
<1>8. DataInv'
  BY <1>1, <1>2, <1>5 DEF BlockInv, DataInv
<1> QED
  BY <1>7, <1>8, InvPartsNext

\* A block read again has its first signature or none, and the rows put again.
LEMMA StoreAndReadKeeps ==
  ASSUME BlockInv, StoreAndRead
  PROVE  BlockInv'
<1>1. DOMAIN block = {"type", "data", "prev", "hash", "sigs"} /\ block.sigs \in Seq(Sigs)
  BY DEF BlockInv
<1>2. /\ block'.sigs = ReadSigs(block.sigs) /\ block'.data = ReadData(block)
      /\ block'.hash = block.hash /\ block'.type = block.type /\ block'.prev = block.prev
      /\ DOMAIN block' = DOMAIN block
  BY <1>1 DEF StoreAndRead, ReadBack
<1>3. DataInv'
  <2>1. CASE block.type = "genesis"
    <3>1. packed = <<>> /\ packed' = <<>> /\ added' = ExtractDataRows(block.data)
      BY <2>1 DEF StoreAndRead, BlockInv
    <3>2. block.data = Text(<<>>, added) /\ added \in Seq(Rows)
      BY <3>1 DEF BlockInv
    <3>3. block'.data = Text(<<>>, added')
      BY <1>2, <2>1, <3>1, <3>2, ReadDataIs
    <3>4. added' \in Seq(Rows)
      <4>1. added' = IF Len(added) = 1 THEN added ELSE <<NoRow>>
        BY <3>1, <3>2, RowsRead
      <4>2. <<NoRow>> \in Seq(Rows)
        BY OneElement DEF Rows
      <4> QED
        BY <3>2, <4>1, <4>2
    <3>5. packed' \in Seq(Rows)
      BY <3>1, EmptySeq
    <3> QED
      BY <1>1, <1>2, <3>1, <3>3, <3>4, <3>5 DEF DataInv
  <2>2. CASE block.type # "genesis"
    <3>1. packed' = <<>> /\ added' = <<>> /\ block'.data = <<>>
      BY <1>2, <2>2 DEF StoreAndRead, ReadData
    <3>2. Text(<<>>, <<>>) = <<>> /\ <<>> \in Seq(Rows)
      BY DEF Text
    <3> QED
      BY <1>1, <1>2, <3>1, <3>2 DEF DataInv
  <2> QED
    BY <2>1, <2>2
<1>4. SigsInv(block', firstSig', lastSig')
  <2>1. CASE block.sigs # <<>> /\ \A i \in DOMAIN block.sigs : block.sigs[i].actor = Head(block.sigs).actor
    <3>1. ReadSigs(block.sigs) = <<Head(block.sigs)>>
      BY <2>1 DEF ReadSigs
    <3> DEFINE s == Head(block.sigs)
    <3>2. s = block.sigs[1] /\ s \in Sigs /\ DOMAIN block.sigs = 1 .. Len(block.sigs)
      BY <1>1, <2>1, HeadTailProperties
    <3>3. <<s>> \in Seq(Sigs) /\ Len(<<s>>) = 1 /\ <<s>>[1] = s /\ <<s>> # <<>>
      BY <3>2, OneElement
    <3>4. firstSig' = firstSig /\ lastSig' = lastSig
      BY <3>1, <3>3 DEF StoreAndRead
    <3>5. s.actor = lastSig.actor
      <4>1. PICK i \in 1 .. Len(block.sigs) : block.sigs[i].actor = lastSig.actor
        BY <2>1 DEF BlockInv
      <4> QED
        BY <2>1, <3>2, <4>1
    <3>6. block'.sigs = <<s>>
      BY <1>2, <3>1
    <3>7. s.isApprove /\ s.actor = firstSig.actor /\ s.of = <<block.prev = FirstPrev, firstSig.txs>>
      BY <2>1, <3>2 DEF BlockInv
    <3> HIDE DEF s
    <3>8. LastApproves(<<s>>, 1) /\ 1 \in 1 .. Len(<<s>>)
      BY <3>3, <3>7 DEF LastApproves
    <3>9. /\ firstSig.txs \in Seq(Rows) /\ lastSig.txs \in Seq(Rows)
          /\ block.hash = <<block.prev = FirstPrev, lastSig.txs>>
      BY <2>1 DEF BlockInv
    <3> QED
      BY <1>2, <3>3, <3>4, <3>5, <3>6, <3>7, <3>8, <3>9 DEF SigsInv
  <2>2. CASE ~ (block.sigs # <<>> /\ \A i \in DOMAIN block.sigs : block.sigs[i].actor = Head(block.sigs).actor)
    <3>1. ReadSigs(block.sigs) = <<>>
      BY <2>2 DEF ReadSigs
    <3>2. firstSig' = [actor |-> NoOne] /\ lastSig' = [actor |-> NoOne]
      BY <3>1 DEF StoreAndRead
    <3> QED
      BY <1>2, <3>1, <3>2, EmptySeq DEF SigsInv
  <2> QED
    BY <2>1, <2>2
<1> QED
  BY <1>3, <1>4, InvPartsNext

\* Every call keeps the invariant.
LEMMA BlockStep == BlockInv /\ [BlockNext]_blockVars => BlockInv'
<1> SUFFICES ASSUME BlockInv, [BlockNext]_blockVars PROVE BlockInv'
  OBVIOUS
<1>1. CASE UNCHANGED blockVars
  BY <1>1 DEF blockVars, BlockInv, LastApproves
<1> QED
  BY <1>1, PutKeeps, SetInBlockKeeps, SignBlockKeeps, SignCheckAddKeeps, StoreAndReadKeeps DEF BlockNext

\* Each of the two is in hand alone: a behaviour of both is one of either.
LEMMA RecordsTx == RecordsSpec => TxSpec
<1>1. RecordsInit => TxInit
  BY DEF RecordsInit
<1>2. [RecordsNext]_recordVars => [TxNext]_txVars
  BY DEF RecordsNext, recordVars
<1> QED
  BY <1>1, <1>2, PTL DEF RecordsSpec, TxSpec

\* The same of the block.
LEMMA RecordsBlock == RecordsSpec => BlockSpec
<1>1. RecordsInit => BlockInit
  BY DEF RecordsInit
<1>2. [RecordsNext]_recordVars => [BlockNext]_blockVars
  BY DEF RecordsNext, recordVars
<1> QED
  BY <1>1, <1>2, PTL DEF RecordsSpec, BlockSpec

\* Whatever setters, signers, checkers, copies and reads from files come in
\* whatever order: a transaction and a block verify exactly for whom they
\* should, and the data of a block is read as DataRead says.  For any actors,
\* contents, digits, elements and signatures.
THEOREM RecordsSafe == RecordsSpec => []RecordsExact
<1>1. BlockSpec => [](BlockExact /\ DataRead)
  BY BlockInitInv, BlockStep, BlockInvImplies, PTL DEF BlockSpec
<1>2. SignatureExact /\ BlockExact /\ DataRead => RecordsExact
  BY DEF RecordsExact
<1> QED
  BY <1>1, <1>2, TxSafe, RecordsTx, RecordsBlock, PTL
=============================================================================
