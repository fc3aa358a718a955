------------------------------ MODULE Accounts ------------------------------
(***************************************************************************)
(* The start of one node: profiles and logins (account_controller.cpp,     *)
(* private_profile.cpp, autologinhash.cpp), the creation of a network      *)
(* (extrachain_node.cpp), and the first id, which names the network        *)
(* (actorindex.cpp) and is claimed by all of: a new network, block 0 on    *)
(* the disk, block 0 of a peer, the node's own first block, and the        *)
(* handshake with a peer.  A second, different claim ends the process.     *)
(*                                                                         *)
(* What addActor stores for each new actor is in module ActorIndex, the    *)
(* handshake in module Connections, and blocks other than the first in     *)
(* module Blockchain.                                                      *)
(***************************************************************************)
EXTENDS Naturals, SequencesExt, FiniteSets, TLC

CONSTANTS
  Hashes,       \* hashes of login and password
  Foreign,      \* first ids of other networks
  NoId, NoHash,
  MaxActors,    \* bound: actors created, numbered in their order
  MaxLoaded,    \* bound: profiles loaded by one process
  MaxKills,     \* bound: kills in the middle of a call
  MaxRestarts,  \* bound: restarts
  MaxExports,   \* bound: exports of profiles that differ
  MaxListed     \* bound: entries of the profile list that an import adds to

Ids == 1 .. MaxActors

ASSUME AccountsAssumption ==
  /\ {MaxActors, MaxLoaded, MaxKills, MaxRestarts, MaxExports, MaxListed} \subseteq Nat
  /\ NoId \notin Ids \cup Foreign /\ NoHash \notin Hashes
  /\ Ids \cap Foreign = {}

VARIABLES
  \* on the disk
  profile,   \* profile[a]: content of the file of the profile with the main actor a
  list,      \* the file profiles
  auth,      \* .auth_hash
  chain,     \* the approver of block 0
  blocks,    \* whether there is any block
  \* in memory
  status,    \* "up", or why the process ended
  loaded,    \* m_profiles
  current,   \* m_currentProfile
  started,   \* whether the server may start
  firstId,   \* m_firstId
  online,    \* whether a peer's blocks can arrive
  \* what the bounds count
  created, kills, restarts,
  \* with the user
  exported   \* the results of exportUser

disk == <<profile, list, auth, chain, blocks>>
memory == <<loaded, current, started, firstId, online>>
counts == <<created, kills, restarts, exported>>
vars == <<disk, status, memory, counts>>

None == [state |-> "none"]
Torn == [state |-> "torn"]
Profile(hash, actors) == [state |-> "saved", hash |-> hash, actors |-> actors]

Mains == {loaded[i].main : i \in DOMAIN loaded}

Up == status = "up"

\* qFatal, exit or a kill: what is in memory is gone.
Ended(why) == status' = why /\ UNCHANGED memory

-----------------------------------------------------------------------------
(* The first id *)

\* Mutant: a second first id takes the place of the first one.
ClashNever(ids) == FALSE

\* setFirstId, for one after the other: "Another FirstId".
Clash(ids) == Cardinality(ToSet(ids) \cup ({firstId} \ {NoId})) > 1

FirstIdAfter(ids) == IF ids = <<>> THEN firstId ELSE Last(ids)

\* getBlockZero: block 0 on the disk claims it.
BlockZero == IF chain = NoId THEN <<>> ELSE <<chain>>

-----------------------------------------------------------------------------
(* Profiles *)

\* A file that is empty, or opens with the hash.  A wrong password is passed over.
Tried(hash, a) == profile[a].state # "saved" \/ profile[a].hash = hash

\* Mutant: profiles are looked through from the last one.
LastTried(hash) == SelectLastInSeq(list, LAMBDA a : Tried(hash, a))

FirstTried(hash) == SelectInSeq(list, LAMBDA a : Tried(hash, a))

\* load goes through the list up to such a file: the process ends, or a profile is
\* found.
Found(hash) == list[FirstTried(hash)]
Ends(hash) == FirstTried(hash) # 0 /\ profile[Found(hash)].state # "saved"
Known(hash) == FirstTried(hash) # 0 /\ ~Ends(hash)

Login(hash) ==
  /\ Up
  /\ Len(loaded) < MaxLoaded
  /\ \/ /\ Ends(hash)
        /\ Ended("decrypt")
        /\ UNCHANGED <<disk, counts>>
     \/ /\ Known(hash)
        /\ LET a == Found(hash)
           IN /\ loaded' = Append(loaded, [main |-> a, hash |-> hash, actors |-> profile[a].actors])
              /\ current' = a
        /\ started' = TRUE
        /\ auth' = hash
        /\ UNCHANGED <<profile, list, chain, blocks, status, firstId, online, counts>>

New == created + 1

\* addToProfileList
Listed(a) == Append(list, a)

SavedProfile(hash) ==
  /\ profile' = [profile EXCEPT ![New] = Profile(hash, {New})]
  /\ list' = Listed(New)
  /\ auth' = hash
  /\ created' = New

InMemory(hash) ==
  /\ loaded' = Append(loaded, [main |-> New, hash |-> hash, actors |-> {New}])
  /\ current' = New
  /\ started' = TRUE

MayCreate == Up /\ created < MaxActors /\ Len(loaded) < MaxLoaded

\* createProfile
CreateProfile(hash) ==
  /\ MayCreate
  /\ SavedProfile(hash)
  /\ IF Clash(BlockZero)
       THEN Ended("another")
       ELSE /\ InMemory(hash)
            /\ firstId' = FirstIdAfter(BlockZero)
            /\ UNCHANGED <<status, online>>
  /\ UNCHANGED <<chain, blocks, kills, restarts, exported>>

\* createNewNetwork: the folder keystore/profile never exists, so it always
\* counts as empty.  Then createProfile, the claim, and block 0.
CreateNewNetwork(hash) ==
  LET claims == BlockZero \o <<New>>
  IN /\ MayCreate
     /\ SavedProfile(hash)
     /\ IF Clash(claims)
          THEN Ended("another") /\ UNCHANGED <<chain, blocks>>
          ELSE /\ InMemory(hash)
               /\ firstId' = New
               /\ chain' = IF blocks THEN chain ELSE New
               /\ blocks' = TRUE
               /\ UNCHANGED <<status, online>>
     /\ UNCHANGED <<kills, restarts, exported>>

\* Mutant: the last of equal profiles in memory gets the wallet.
ProfileOfLast(a) == SelectLastInSeq(loaded, LAMBDA p : p.main = a)

\* getProfile
ProfileOf(a) == SelectInSeq(loaded, LAMBDA p : p.main = a)

\* createWallet, for a profile or for the current one.
CreateWallet(a) ==
  /\ Up /\ created < MaxActors
  /\ a \in Mains
  /\ LET i == ProfileOf(a)
         actors == loaded[i].actors \cup {New}
     IN /\ loaded' = [loaded EXCEPT ![i].actors = actors]
        /\ profile' = [profile EXCEPT ![a] = Profile(loaded[i].hash, actors)]
  /\ created' = New
  /\ UNCHANGED <<list, auth, chain, blocks, status, current, started, firstId, online, kills, restarts, exported>>

\* currentProfile and mainActor, when nobody is logged in.
WithoutProfile ==
  /\ Up /\ current = NoId
  /\ Ended("noProfile")
  /\ UNCHANGED <<disk, counts>>

ChangeCurrentProfile(a) ==
  /\ Up
  /\ a \in Mains
  /\ current' = a
  /\ UNCHANGED <<disk, status, loaded, started, firstId, online, counts>>

Export(a, saved) == [main |-> a, profile |-> saved]

\* exportUser, of the current profile as memory has it.
ExportUser ==
  /\ Up /\ current # NoId
  /\ LET p == loaded[ProfileOf(current)]
     IN exported' = exported \cup {Export(current, Profile(p.hash, p.actors))}
  /\ Cardinality(exported') <= MaxExports
  /\ UNCHANGED <<disk, status, memory, created, kills, restarts>>

\* importUser, with the login of the export; another one changes nothing.  The
\* file is written whether or not there is one, memory is not looked at, and
\* the profile is listed again.
ImportUser(e) ==
  /\ Up /\ Len(list) < MaxListed
  /\ profile' = [profile EXCEPT ![e.main] = e.profile]
  /\ list' = Listed(e.main)
  /\ UNCHANGED <<auth, chain, blocks, status, memory, counts>>

\* logout ends the process.
Logout ==
  /\ Up
  /\ Ended("exit")
  /\ UNCHANGED <<disk, counts>>

-----------------------------------------------------------------------------
(* Blocks and peers *)

\* signBlock signs with the current wallet, which is the main actor.
Approver == current

\* The timer of makeBlock, when there is no block: block 0 is a dummy block.
\* Without a profile the process ends (WithoutProfile).
MakeBlock ==
  /\ Up /\ current # NoId /\ ~blocks
  /\ IF Clash(<<Approver>>)
       THEN Ended("another") /\ UNCHANGED disk
       ELSE /\ firstId' = Approver
            /\ chain' = Approver
            /\ blocks' = TRUE
            /\ UNCHANGED <<profile, list, auth, status, loaded, current, started, online>>
  /\ UNCHANGED counts

\* A peer with the first id, or none, has shaken hands; the node has dialed, or
\* its server has started.  newSocket asks for the main actor.
Connect(id, dialed) ==
  /\ Up /\ (dialed \/ started)
  /\ IF current = NoId
       THEN Ended("noProfile")
       ELSE /\ NoId \in {firstId, id} \/ firstId = id
            /\ firstId' = IF firstId = NoId THEN id ELSE firstId
            /\ online' = TRUE
            /\ UNCHANGED <<status, loaded, current, started>>
  /\ UNCHANGED <<disk, counts>>

\* addGenBlockToBlockchain, for the genesis block with index 0.
ReceiveBlockZero(id) ==
  /\ Up /\ online
  /\ IF Clash(<<id>>)
       THEN Ended("another") /\ UNCHANGED disk
       ELSE /\ firstId' = id
            /\ chain' = IF chain = NoId THEN id ELSE chain
            /\ blocks' = TRUE
            /\ UNCHANGED <<profile, list, auth, status, loaded, current, started, online>>
  /\ UNCHANGED counts

\* addBlockToBlockchain, for a block with a higher index.
ReceiveBlock ==
  /\ Up /\ online /\ ~blocks
  /\ blocks' = TRUE
  /\ UNCHANGED <<profile, list, auth, chain, status, memory, counts>>

-----------------------------------------------------------------------------
(* Kills and restarts *)

Killed ==
  /\ kills < MaxKills
  /\ kills' = kills + 1
  /\ Ended("killed")
  /\ UNCHANGED <<restarts, exported>>

\* The profile, the list and the hash are written one after the other, each
\* file emptied before it is written.
KillInCreateProfile(hash) ==
  /\ MayCreate
  /\ created' = New
  /\ \E saved \in {Torn, Profile(hash, {New})} : profile' = [profile EXCEPT ![New] = saved]
  /\ \/ UNCHANGED <<list, auth>>
     \/ /\ profile'[New] # Torn
        /\ \/ list' = <<>> /\ UNCHANGED auth
           \/ list' = Listed(New) /\ auth' = NoHash
  /\ Killed
  /\ UNCHANGED <<chain, blocks>>

KillInCreateWallet(a) ==
  /\ Up /\ created < MaxActors
  /\ a \in Mains
  /\ created' = New
  /\ profile' = [profile EXCEPT ![a] = Torn]
  /\ Killed
  /\ UNCHANGED <<list, auth, chain, blocks>>

KillInImportUser(e) ==
  /\ Up /\ Len(list) < MaxListed
  /\ \/ profile' = [profile EXCEPT ![e.main] = Torn] /\ UNCHANGED list
     \/ /\ profile' = [profile EXCEPT ![e.main] = e.profile]
        /\ list' \in {list, <<>>}
  /\ Killed
  /\ UNCHANGED <<auth, chain, blocks, created>>

\* After createProfile, before there is a block.
KillInCreateNewNetwork(hash) ==
  /\ MayCreate
  /\ SavedProfile(hash)
  /\ Killed
  /\ UNCHANGED <<chain, blocks>>

Restart ==
  /\ ~Up
  /\ restarts < MaxRestarts
  /\ restarts' = restarts + 1
  /\ status' = "up"
  /\ loaded' = <<>>
  /\ current' = NoId
  /\ started' = FALSE
  /\ firstId' = NoId
  /\ online' = FALSE
  /\ UNCHANGED <<disk, created, kills, exported>>

Init ==
  /\ profile = [a \in Ids |-> None]
  /\ list = <<>>
  /\ auth = NoHash
  /\ chain = NoId
  /\ blocks = FALSE
  /\ status = "up"
  /\ loaded = <<>>
  /\ current = NoId
  /\ started = FALSE
  /\ firstId = NoId
  /\ online = FALSE
  /\ created = 0 /\ kills = 0 /\ restarts = 0
  /\ exported = {}

Next ==
  \/ \E hash \in Hashes : \/ Login(hash) \/ CreateProfile(hash) \/ CreateNewNetwork(hash)
                          \/ KillInCreateProfile(hash) \/ KillInCreateNewNetwork(hash)
  \/ \E a \in Ids : CreateWallet(a) \/ ChangeCurrentProfile(a) \/ KillInCreateWallet(a)
  \/ \E e \in exported : ImportUser(e) \/ KillInImportUser(e)
  \/ ExportUser
  \/ \E id \in Foreign \cup {NoId}, dialed \in BOOLEAN : Connect(id, dialed)
  \/ \E id \in Foreign : ReceiveBlockZero(id)
  \/ WithoutProfile \/ Logout \/ MakeBlock \/ ReceiveBlock \/ Restart

\* The timer of makeBlock goes off every two seconds.
Fairness == WF_vars(MakeBlock)

Spec == Init /\ [][Next]_vars /\ Fairness

-----------------------------------------------------------------------------
(* Properties *)

Saved == {None, Torn} \cup [state : {"saved"}, hash : Hashes, actors : SUBSET Ids]

TypeOK ==
  /\ profile \in [Ids -> Saved]
  /\ list \in Seq(Ids) /\ \A a \in ToSet(list) : profile[a] # None
  /\ auth \in Hashes \cup {NoHash}
  /\ {chain, firstId} \subseteq Ids \cup Foreign \cup {NoId}
  /\ (chain # NoId) => blocks
  /\ status \in {"up", "decrypt", "another", "noProfile", "exit", "killed"}
  /\ current \in Ids \cup {NoId}
  /\ {blocks, started, online} \subseteq BOOLEAN
  /\ created \in 0 .. MaxActors
  /\ exported \subseteq [main : Ids, profile : Saved]

\* As long as the process runs, the current profile is one that is loaded, and
\* the first loaded copy of a profile, which every lookup by its id finds, has
\* what its file has: a wallet is known only to memory or only to the disk
\* only where an import has written the file.
MemoryIsDisk ==
  Up =>
    /\ (current = NoId) = (loaded = <<>>)
    /\ current # NoId => current \in Mains
    /\ \A i \in DOMAIN loaded :
         \/ \E j \in 1 .. i - 1 : loaded[j].main = loaded[i].main
         \/ profile[loaded[i].main] = Profile(loaded[i].hash, loaded[i].actors)
         \/ Export(loaded[i].main, profile[loaded[i].main]) \in exported

\* Whoever is logged in is found again by a login with the same hash, or that
\* login ends the process on the way.
LoginAgain == Up => \A i \in DOMAIN loaded : Known(loaded[i].hash) \/ Ends(loaded[i].hash)

\* Until the first restart, block 0 is the one of the first id.
FirstIdOfChain ==
  restarts = 0 /\ Up => NoId \in {firstId, chain} \/ firstId = chain

\* What is always true of the accounts of a node, whatever was called, received
\* or interrupted: the profiles in memory, on the disk and in the list fit
\* together, and so do the first id and block 0.
AccountsInv == TypeOK /\ MemoryIsDisk /\ LoginAgain /\ FirstIdOfChain

\* Only a kill can make a login find another profile than before, or none; and
\* only an import loses wallets of a saved profile, at once or when the next
\* wallet is saved from a memory that never saw the imported ones.
Shrinks(a) == /\ {profile[a].state, profile'[a].state} = {"saved"}
              /\ ~(profile[a].actors \subseteq profile'[a].actors)
OnlyKillsLose ==
  [][/\ \A hash \in Hashes :
          Known(hash) => (Known(hash)' /\ Found(hash)' = Found(hash)) \/ kills' > kills
     /\ \A a \in Ids :
          Shrinks(a) => {Export(a, profile[a]), Export(a, profile'[a])} \cap exported # {}]_vars

\* A node that took over the first id of another network and has no blocks gets
\* some from its peers, or ends: what it does on its own is to make a block 0.
JoinerNeedsBlocks ==
  Up /\ firstId \in Foreign /\ ~blocks ~> ~Up \/ (blocks /\ chain \in Foreign \cup {NoId})
=============================================================================
