------------------------------ MODULE Messages ------------------------------
(***************************************************************************)
(* The messages of one node (network_manager.cpp): what send_message is    *)
(* given goes to every active connection, or into a cache on the disk as   *)
(* long as there is none; what arrives passes a filter for repeats.  How a *)
(* connection becomes active is in module Connections.                     *)
(*                                                                         *)
(* sendMessage computes whom a message is for (typeSend, receiver), but    *)
(* sends it to all: messages are numbered here, and have no receiver.      *)
(***************************************************************************)
EXTENDS Naturals, Sequences, FiniteSets

CONSTANTS
  Peers,        \* nodes at the other ends of connections
  MaxMessages,  \* bound: messages sent
  Repeated,     \* messages that arrive, more than once
  MaxCopies,    \* bound: copies of each
  MaxKills      \* bound: kills of the process

ASSUME MessagesAssumption == {MaxMessages, MaxCopies, MaxKills} \subseteq Nat

VARIABLES
  service,    \* service[p]: the service for p in m_connections
  loggedIn,   \* accountController()->count() # 0
  cache,      \* NetworkCacheFile
  given,      \* messages that send_message has taken
  sent,       \* messages that were written to the active connections
  counted,    \* msgHashList
  processed,  \* processed[m]: how often m went on to its handler
  dropped,    \* dropped[m]: how often m was taken for a repeat
  kills       \* what MaxKills counts

outgoing == <<loggedIn, cache, given, sent>>
incoming == <<counted, processed, dropped>>
messagesVars == <<service, outgoing, incoming, kills>>

ListedPeers(services) == {p \in Peers : services[p] # "none"}
Online(services) == \E p \in Peers : services[p] = "active"

-----------------------------------------------------------------------------
(* Sending *)

\* sendFromCache, called by checkConnectionsStatus when a connection is active.
SendFromCache == sent' = sent \o cache /\ cache' = <<>>

CheckConnectionsStatus ==
  IF Online(service') THEN SendFromCache ELSE UNCHANGED <<cache, sent>>

\* Mutant: the message that finds a cache takes the place of its list.
SaveToCacheAlone(m) == cache' = <<m>>

SaveToCache(m) == cache' = Append(cache, m)

\* sendMessage.
SendOrSave(m) ==
  IF Online(service)
    THEN sent' = Append(sent, m) /\ UNCHANGED cache
    ELSE SaveToCache(m) /\ UNCHANGED sent

\* send_message.  Before a login the message is dropped.
SendMessage ==
  /\ given < MaxMessages
  /\ loggedIn
  /\ given' = given + 1
  /\ SendOrSave(given')
  /\ UNCHANGED <<service, loggedIn, incoming, kills>>

Login ==
  /\ ~loggedIn
  /\ loggedIn' = TRUE
  /\ UNCHANGED <<service, cache, given, sent, incoming, kills>>

-----------------------------------------------------------------------------
(* Connections *)

\* connectWsService.
Connect(p) ==
  /\ service[p] = "none"
  /\ service' = [service EXCEPT ![p] = "inactive"]
  /\ UNCHANGED <<outgoing, incoming, kills>>

Activate(p) ==
  /\ service[p] = "inactive"
  /\ service' = [service EXCEPT ![p] = "active"]
  /\ CheckConnectionsStatus
  /\ UNCHANGED <<loggedIn, given, incoming, kills>>

\* The socket is no longer valid, and the service has not heard of it.
SocketInvalid(p) ==
  /\ service[p] = "active"
  /\ service' = [service EXCEPT ![p] = "invalid"]
  /\ UNCHANGED <<outgoing, incoming, kills>>

\* removeWsConnection.
RemoveWsConnection(p) ==
  /\ service[p] # "none"
  /\ service' = [service EXCEPT ![p] = "none"]
  /\ CheckConnectionsStatus
  /\ UNCHANGED <<loggedIn, given, incoming, kills>>

-----------------------------------------------------------------------------
(* Receiving *)

Limit == Cardinality(ListedPeers(service)) - 1

\* Mutant: a message is counted before it is looked up.
IsRepeatCountedFirst(m) == IF m \in DOMAIN counted THEN counted[m] = Limit ELSE 0 = Limit

\* checkMsgCount: a copy is dropped when as many came before as there are
\* connections now; then the message is forgotten.
IsRepeat(m) == m \in DOMAIN counted /\ counted[m] = Limit

\* onBinaryMessage, messageReceived as far as the filter.
MessageReceived(p, m) ==
  /\ service[p] = "active"
  /\ processed[m] + dropped[m] < MaxCopies
  /\ IF IsRepeat(m)
       THEN /\ counted' = [x \in DOMAIN counted \ {m} |-> counted[x]]
            /\ dropped' = [dropped EXCEPT ![m] = @ + 1]
            /\ UNCHANGED processed
       ELSE /\ counted' = [x \in DOMAIN counted \cup {m} |->
                             IF x # m THEN counted[x] ELSE IF m \in DOMAIN counted THEN counted[m] + 1 ELSE 0]
            /\ processed' = [processed EXCEPT ![m] = @ + 1]
            /\ UNCHANGED dropped
  /\ UNCHANGED <<service, outgoing, kills>>

-----------------------------------------------------------------------------
(* The process is killed, and starts again *)

Lost ==
  /\ kills < MaxKills
  /\ kills' = kills + 1
  /\ service' = [p \in Peers |-> "none"]
  /\ loggedIn' = FALSE
  /\ counted' = <<>>
  /\ UNCHANGED <<processed, dropped>>

Kill == Lost /\ UNCHANGED <<cache, given, sent>>

\* sendFromCache removes the file before it sends.
KillInSendFromCache ==
  /\ \E p \in Peers : service[p] = "inactive"
  /\ cache' = <<>>
  /\ \E n \in 0 .. Len(cache) : sent' = sent \o SubSeq(cache, 1, n)
  /\ Lost
  /\ UNCHANGED given

\* saveToCache cuts the file to nothing before it writes the new list; of a list
\* that is cut off the whole packages are read.
KillInSaveToCache ==
  /\ given < MaxMessages
  /\ loggedIn /\ ~Online(service)
  /\ given' = given + 1
  /\ \E n \in 0 .. Len(cache) : cache' = SubSeq(cache, 1, n)
  /\ Lost
  /\ UNCHANGED sent

MessagesInit ==
  /\ service = [p \in Peers |-> "none"]
  /\ loggedIn = FALSE
  /\ cache = <<>> /\ sent = <<>>
  /\ given = 0
  /\ counted = <<>>
  /\ processed = [m \in Repeated |-> 0]
  /\ dropped = [m \in Repeated |-> 0]
  /\ kills = 0

MessagesNext ==
  \/ Login \/ SendMessage
  \/ \E p \in Peers : Connect(p) \/ Activate(p) \/ SocketInvalid(p) \/ RemoveWsConnection(p)
  \/ \E p \in Peers, m \in Repeated : MessageReceived(p, m)
  \/ Kill \/ KillInSendFromCache \/ KillInSaveToCache

MessagesSpec == MessagesInit /\ [][MessagesNext]_messagesVars

-----------------------------------------------------------------------------
(* Properties *)

\* While there is somebody to send to, nothing waits in the cache; otherwise a
\* message sent now would overtake the ones in it.
CacheOnlyOffline == Online(service) => cache = <<>>

Mail == INSTANCE Mailbox WITH waiting <- cache

\* send_message keeps the promise of Mailbox, whenever connections come and go
\* and the process is killed.
MessagesImplementMailbox == Mail!Spec

\* The filter never drops a message that was not handled since it was last
\* dropped, however the number of connections changes.
DroppedOnlyIfHandled == \A m \in Repeated : dropped[m] <= processed[m]

\* What holds between send_message, the connection signals and the filter of
\* messageReceived in any order.
MessagesInv == CacheOnlyOffline /\ DroppedOnlyIfHandled
=============================================================================
