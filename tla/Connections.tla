---------------------------- MODULE Connections ----------------------------
(***************************************************************************)
(* The connections of some nodes, from the dial to the end of the          *)
(* handshake (network_manager.cpp, isocket_service.cpp,                    *)
(* websocket_service.cpp).                                                 *)
(*                                                                         *)
(* A connection has two sides, 1 that dialed and 2 that accepted, each     *)
(* with a WebSocketService of its own.  Both send a public key as soon as  *)
(* they are open, answer the other's key with their first message, and     *)
(* judge the first message they get: version, network (first id),          *)
(* identifier.  Nothing tells a side what the other one concluded, except  *)
(* the closing of the socket.                                              *)
(*                                                                         *)
(* A node runs in one thread; its handlers are atomic.  What is sent once  *)
(* a connection is active is in module Messages.                           *)
(***************************************************************************)
EXTENDS Naturals, Sequences, FiniteSets, Functions

CONSTANTS
  Nodes,           \* Network::currentIdentifier(), and the address, of each
  NoNode,          \* no identifier yet
  NoId,            \* the empty actor id
  StartId,         \* StartId[n]: the first id n has loaded, NoId if none
  Version,         \* Version[n]: EXTRACHAIN_VERSION of n
  MaxConnections,  \* Network::maxConnections
  Dials,           \* bound: <<n, m>>: the application of n knows the address of m
  Connections,     \* bound: connections at a time
  MaxBreaks        \* bound: connections that break

ASSUME ConnectionsAssumption ==
  /\ NoNode \notin Nodes
  /\ StartId \in [Nodes -> {StartId[n] : n \in Nodes}]
  /\ DOMAIN Version = Nodes
  /\ MaxConnections \in Nat
  /\ Dials \subseteq Nodes \X Nodes
  /\ MaxBreaks \in Nat

VARIABLES
  nodes,          \* nodes[c]: who dialed and who is to accept
  socket,         \* socket[c][s]: the WebSocketService of side s
  wire,           \* wire[c][s]: messages on their way to side s
  firstId,        \* firstId[n]: ActorIndex::firstId()
  reconnections,  \* reconnections[n]: m_reconnections
  breaks          \* what MaxBreaks counts

vars == <<nodes, socket, wire, firstId, reconnections, breaks>>

Sides == {1, 2}
Other(s) == 3 - s

\* No socket, a service as it is constructed, and the side that is to accept.
\* listed: the service is in m_connections.
Closed == [ws |-> "closed", listed |-> FALSE, pub |-> FALSE, identifier |-> NoNode, activated |-> FALSE]
Service(ws) == [Closed EXCEPT !.ws = ws, !.listed = TRUE]
Awaited == [Closed EXCEPT !.ws = "dialing"]

Unused(c) == \A s \in Sides : socket[c][s].ws = "closed"
IsActive(c, s) == socket[c][s].activated /\ socket[c][s].ws = "open"

\* m_connections of n.
Listed(n) == {e \in Connections \X Sides : nodes[e[1]][e[2]] = n /\ socket[e[1]][e[2]].listed}

\* SocketService::ip: the node at the other end, once the socket is open.
Ip(c, s) == IF socket[c][s].ws = "open" THEN nodes[c][Other(s)] ELSE NoNode

Send(c, s, msg) == wire' = [wire EXCEPT ![c][Other(s)] = Append(@, msg)]

Key == [type |-> "key"]

FirstMessage(n) == [type |-> "first", firstId |-> firstId[n], version |-> Version[n], identifier |-> n]

-----------------------------------------------------------------------------
(* Dialing and accepting *)

\* connectToNode for each address of called, on unused connections.
Dial(n, called) ==
  /\ reconnections' = [reconnections EXCEPT ![n] = @ \cup called]
  /\ \E slot \in Injection(called, {c \in Connections : Unused(c)}) :
       LET used == {slot[m] : m \in called}
           callee(c) == CHOOSE m \in called : slot[m] = c
       IN /\ nodes' = [c \in Connections |-> IF c \in used THEN <<n, callee(c)>> ELSE nodes[c]]
          /\ socket' = [c \in Connections |->
                          IF c \in used THEN <<Service("dialing"), Awaited>> ELSE socket[c]]
          /\ wire' = [c \in Connections |-> IF c \in used THEN <<<<>>, <<>>>> ELSE wire[c]]
  /\ UNCHANGED <<firstId, breaks>>

ConnectToNode(n, m) ==
  /\ <<n, m>> \in Dials
  /\ Cardinality(Listed(n)) < MaxConnections
  /\ Dial(n, {m})

\* The timer of process: every address without a connection is dialed again,
\* as far as maxConnections allows.  A service that is still dialing has no
\* address yet.
Reconnection(n) ==
  LET missing == {m \in reconnections[n] : \A e \in Listed(n) : Ip(e[1], e[2]) # m}
      free == MaxConnections - Cardinality(Listed(n))
  IN \E called \in SUBSET missing :
       /\ called # {}
       /\ Cardinality(called) <= free
       /\ called = missing \/ Cardinality(called) = free
       /\ Dial(n, called)

\* onNewWsConnection.  With too many connections the socket stays open, and no
\* service ever looks at it.
Accept(c) ==
  /\ socket[c][1].ws = "dialing" /\ socket[c][2].ws = "dialing"
  /\ IF Cardinality(Listed(nodes[c][2])) >= MaxConnections
       THEN /\ socket' = [socket EXCEPT ![c][2].ws = "open"]
            /\ UNCHANGED wire
       ELSE /\ socket' = [socket EXCEPT ![c][2] = Service("open")]
            /\ Send(c, 2, Key)
  /\ UNCHANGED <<nodes, firstId, reconnections, breaks>>

\* onConnected, handshake.
OnConnected(c) ==
  /\ socket[c][1].ws = "dialing" /\ socket[c][2].ws = "open"
  /\ socket' = [socket EXCEPT ![c][1].ws = "open"]
  /\ Send(c, 1, Key)
  /\ UNCHANGED <<nodes, firstId, reconnections, breaks>>

-----------------------------------------------------------------------------
(* Closing *)

\* closeSocket and removeWsConnection; the service is deleted.
CloseSocket(c, s) ==
  /\ socket' = [socket EXCEPT ![c][s] = Closed]
  /\ wire' = [wire EXCEPT ![c][s] = <<>>]

\* A dial fails, a connection breaks on one side, or the application closes it
\* with removeConnection.
Break(c, s) ==
  /\ breaks < MaxBreaks
  /\ breaks' = breaks + 1
  /\ socket[c][s].ws # "closed"
  /\ CloseSocket(c, s)
  /\ UNCHANGED <<nodes, firstId, reconnections>>

\* The other side is gone, and this one hears of it; what was still on its way
\* may be lost.
OnDisconnected(c, s) ==
  /\ socket[c][s].ws # "closed" /\ socket[c][Other(s)].ws = "closed"
  /\ CloseSocket(c, s)
  /\ UNCHANGED <<nodes, firstId, reconnections, breaks>>

-----------------------------------------------------------------------------
(* The handshake *)

SameNetwork(n, msg) == NoId \in {firstId[n], msg.firstId} \/ firstId[n] = msg.firstId

\* Mutant: only the connections accepted by the server are compared.
DuplicateAccepted(c, s, msg) ==
  \E e \in Listed(nodes[c][s]) :
    e # <<c, s>> /\ e[2] = 2 /\ socket[e[1]][e[2]].identifier = msg.identifier

Duplicate(c, s, msg) ==
  \E e \in Listed(nodes[c][s]) : e # <<c, s>> /\ socket[e[1]][e[2]].identifier = msg.identifier

Refused(c, s, msg) ==
  \/ ~SameNetwork(nodes[c][s], msg)
  \/ msg.identifier = nodes[c][s]
  \/ Duplicate(c, s, msg)

Activated(c, s, msg) == [socket[c][s] EXCEPT !.identifier = msg.identifier, !.activated = TRUE]

\* Mutant: the function returns false without closing the socket.
JudgedUnclosed(c, s, msg) ==
  IF Refused(c, s, msg) THEN socket[c][s]
  ELSE IF msg.version # Version[nodes[c][s]] THEN Closed
  ELSE Activated(c, s, msg)

\* The service after checkFirstMessage.  When it has closed the socket because
\* of the version, the function goes on, and may activate the closed service.
Judged(c, s, msg) ==
  IF Refused(c, s, msg) THEN Closed
  ELSE IF msg.version # Version[nodes[c][s]] THEN [Closed EXCEPT !.activated = TRUE]
  ELSE Activated(c, s, msg)

\* Mutant: every error takes the address off the list.
HopelessDuplicate(c, s, msg) == msg.version # Version[nodes[c][s]] \/ Refused(c, s, msg)

\* socketError: a duplicate keeps its address in m_reconnections.
Hopeless(c, s, msg) ==
  \/ msg.version # Version[nodes[c][s]]
  \/ ~SameNetwork(nodes[c][s], msg)
  \/ msg.identifier = nodes[c][s]

TakeOver(n, id) == IF firstId[n] = NoId THEN id ELSE firstId[n]

CheckFirstMessage(c, s, msg) ==
  LET n == nodes[c][s]
  IN /\ firstId' = [firstId EXCEPT ![n] = TakeOver(n, msg.firstId)]
     /\ socket' = [socket EXCEPT ![c][s] = Judged(c, s, msg)]
     /\ wire' = [wire EXCEPT ![c][s] = IF socket'[c][s].ws = "open" THEN Tail(@) ELSE <<>>]
     /\ reconnections' = IF Hopeless(c, s, msg)
                           THEN [reconnections EXCEPT ![n] = @ \ {nodes[c][Other(s)]}]
                           ELSE reconnections

\* onTextMessage.
OnTextMessage(c, s) ==
  /\ socket[c][s].ws = "open" /\ socket[c][s].listed
  /\ wire[c][s] # <<>>
  /\ IF ~socket[c][s].pub
       THEN /\ socket' = [socket EXCEPT ![c][s].pub = TRUE]
            /\ wire' = [wire EXCEPT ![c][s] = Tail(@),
                                    ![c][Other(s)] = Append(@, FirstMessage(nodes[c][s]))]
            /\ UNCHANGED <<firstId, reconnections>>
       ELSE CheckFirstMessage(c, s, Head(wire[c][s]))
  /\ UNCHANGED <<nodes, breaks>>

Init ==
  /\ nodes = [c \in Connections |-> <<NoNode, NoNode>>]
  /\ socket = [c \in Connections |-> <<Closed, Closed>>]
  /\ wire = [c \in Connections |-> <<<<>>, <<>>>>]
  /\ firstId = StartId
  /\ reconnections = [n \in Nodes |-> {}]
  /\ breaks = 0

Next ==
  \/ \E n, m \in Nodes : ConnectToNode(n, m)
  \/ \E n \in Nodes : Reconnection(n)
  \/ \E c \in Connections : Accept(c) \/ OnConnected(c)
  \/ \E c \in Connections, s \in Sides : OnTextMessage(c, s) \/ OnDisconnected(c, s) \/ Break(c, s)

\* A connection that is up delivers what is sent on it, and a side hears sooner
\* or later that the other one is gone.  Nobody has to dial.
Fairness ==
  \A c \in Connections :
    /\ WF_vars(OnConnected(c))
    /\ \A s \in Sides : WF_vars(OnTextMessage(c, s)) /\ WF_vars(OnDisconnected(c, s))

Spec == Init /\ [][Next]_vars /\ Fairness

-----------------------------------------------------------------------------
(* Properties *)

\* The types of what the nodes keep.
TypeOK ==
  /\ firstId \in [Nodes -> UNION {{NoId}, {StartId[n] : n \in Nodes}}]
  /\ reconnections \in [Nodes -> SUBSET Nodes]
  /\ \A c \in Connections, s \in Sides :
       /\ socket[c][s].ws \in {"closed", "dialing", "open"}
       /\ socket[c][s].identifier \in Nodes \cup {NoNode}

\* However dials cross, a node never has two services that know they talk to the
\* same peer: each of them would get every message.
OneServicePerPeer ==
  \A n \in Nodes : \A e, f \in Listed(n) :
    LET id(g) == socket[g[1]][g[2]].identifier
    IN id(e) = id(f) /\ id(e) # NoNode => e = f

\* No side of a connection between different versions is ever active, although
\* checkFirstMessage goes on after it has closed the socket.
ActiveOnlyCompatible ==
  \A c \in Connections, s \in Sides :
    IsActive(c, s) => Version[nodes[c][1]] = Version[nodes[c][2]]

\* Two nodes that are active for each other are in the same network if one of
\* them was in a network when it was started: nobody is moved to another one, and
\* the first id that is in force when the first message comes is what counts.
OneNetwork ==
  \A c \in Connections :
    IsActive(c, 1) /\ IsActive(c, 2) =>
      \/ firstId[nodes[c][1]] = firstId[nodes[c][2]]
      \/ StartId[nodes[c][1]] = NoId /\ StartId[nodes[c][2]] = NoId

\* websocket_service.cpp: a binary message on a service that is not active is
\* qFatal("[WS] Binary: not activated").  An active side may send one at any time;
\* what the other side needs to become active is always ahead of it on the wire.
NoEarlyBinary ==
  \A c \in Connections, s \in Sides :
    IsActive(c, s) =>
      LET other == socket[c][Other(s)]
      IN \/ other.ws = "closed" \/ other.activated
         \/ \E i \in DOMAIN wire[c][Other(s)] : wire[c][Other(s)][i].type = "first"

\* What every order of dials, first messages, closings and failures keeps.
ConnectionsInv ==
  /\ TypeOK
  /\ OneServicePerPeer
  /\ ActiveOnlyCompatible
  /\ OneNetwork
  /\ NoEarlyBinary

\* An address leaves m_reconnections only if no connection to it can ever be
\* activated: never because dials crossed.
LeftOnlyIfHopeless ==
  [][\A n, m \in Nodes :
       m \in reconnections[n] \ reconnections'[n] =>
         \/ m = n
         \/ Version[n] # Version[m]
         \/ NoId \notin {firstId[n], firstId[m]} /\ firstId[n] # firstId[m]]_reconnections

\* Once both services of a connection are open, they activate it both or both
\* close it.
HandshakeSettles ==
  \A c \in Connections :
    socket[c][1].ws = "open" /\ socket[c][2].listed ~>
      Unused(c) \/ (IsActive(c, 1) /\ IsActive(c, 2))
=============================================================================
