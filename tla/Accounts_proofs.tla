--------------------------- MODULE Accounts_proofs ---------------------------
(***************************************************************************)
(* The profiles a node has in memory, in its files and in the list fit     *)
(* together, and the first id fits block 0, for any number of logins,      *)
(* actors, exports, imports, kills and restarts; and only a kill makes a   *)
(* login fail that worked, only an import loses wallets.                   *)
(***************************************************************************)
EXTENDS Accounts, FiniteSetTheorems, WellFoundedInduction, TLAPS

SavedProfiles == [state : {"saved"}, hash : Hashes, actors : SUBSET Ids]
LoadedProfiles == [main : Ids, hash : Hashes, actors : SUBSET Ids]
Exports == [main : Ids, profile : SavedProfiles]

ProfileTypes ==
  /\ profile \in [Ids -> {None, Torn} \cup SavedProfiles]
  /\ list \in Seq(Ids) /\ \A i \in DOMAIN list : profile[list[i]] # None
  /\ auth \in Hashes \cup {NoHash}
  /\ current \in Ids \cup {NoId}
  /\ created \in 0 .. MaxActors
  /\ loaded \in Seq(LoadedProfiles)
  /\ exported \subseteq Exports

\* The next actor is nowhere yet.
Numbered ==
  /\ \A a \in Ids : profile[a] # None => a <= created
  /\ \A i \in DOMAIN loaded : loaded[i].main <= created
  /\ \A e \in exported : e.main <= created

\* A profile keeps the hash of its login, in every copy there is of it.
Agree(h) ==
  /\ \A a \in Ids : profile[a].state = "saved" => profile[a].hash = h[a]
  /\ \A i \in DOMAIN loaded : loaded[i].hash = h[loaded[i].main]
  /\ \A e \in exported : e.profile.hash = h[e.main]

OneHash == \E h \in [Ids -> Hashes \cup {NoHash}] : Agree(h)

\* Whoever is logged in is in the list.
InList == Up => \A i \in DOMAIN loaded : \E j \in DOMAIN list : list[j] = loaded[i].main

\* The inductive invariant of the profiles.
ProfilesInv == ProfileTypes /\ Numbered /\ OneHash /\ MemoryIsDisk /\ InList

\* The inductive invariant of the first id.
ClaimsInv ==
  /\ {chain, firstId} \subseteq Ids \cup Foreign \cup {NoId}
  /\ chain # NoId => blocks
  /\ status \in {"up", "decrypt", "another", "noProfile", "exit", "killed"}
  /\ blocks \in BOOLEAN /\ started \in BOOLEAN /\ online \in BOOLEAN
  /\ restarts \in Nat /\ kills \in Nat
  /\ restarts = 0 /\ firstId = NoId => chain = NoId
  /\ FirstIdOfChain

-----------------------------------------------------------------------------
(* Records, and the first of a sequence *)

\* What a profile file is.
LEMMA Files ==
  /\ None.state = "none" /\ Torn.state = "torn" /\ None # Torn
  /\ \A h, s : /\ Profile(h, s).state = "saved" /\ Profile(h, s).hash = h /\ Profile(h, s).actors = s
               /\ Profile(h, s) # None /\ Profile(h, s) # Torn
  /\ \A h \in Hashes, s \in SUBSET Ids : Profile(h, s) \in SavedProfiles
  /\ \A p \in SavedProfiles : /\ p.state = "saved" /\ p = Profile(p.hash, p.actors) /\ p # None
                              /\ p.hash \in Hashes /\ p.actors \in SUBSET Ids
  /\ \A a, p : Export(a, p).main = a /\ Export(a, p).profile = p
  /\ \A a \in Ids, p \in SavedProfiles : Export(a, p) \in Exports
  /\ \A e \in Exports : e = Export(e.main, e.profile) /\ e.main \in Ids /\ e.profile \in SavedProfiles
<1>1. None.state = "none" /\ Torn.state = "torn"
  BY DEF None, Torn
<1>2. \A h, s : Profile(h, s).state = "saved" /\ Profile(h, s).hash = h /\ Profile(h, s).actors = s
  BY DEF Profile
<1>3. \A h \in Hashes, s \in SUBSET Ids : Profile(h, s) \in SavedProfiles
  BY DEF Profile, SavedProfiles
<1>4. \A p \in SavedProfiles : /\ p.state = "saved" /\ p = Profile(p.hash, p.actors)
                               /\ p.hash \in Hashes /\ p.actors \in SUBSET Ids
  BY DEF Profile, SavedProfiles
<1>5. \A a, p : Export(a, p).main = a /\ Export(a, p).profile = p
  BY DEF Export
<1>6. \A a \in Ids, p \in SavedProfiles : Export(a, p) \in Exports
  BY DEF Export, Exports
<1>7. \A e \in Exports : e = Export(e.main, e.profile) /\ e.main \in Ids /\ e.profile \in SavedProfiles
  BY DEF Export, Exports
<1> QED
  BY <1>1, <1>2, <1>3, <1>4, <1>5, <1>6, <1>7

\* A set of naturals that is not empty has a least member.
LEMMA LeastOf ==
  ASSUME NEW S \in SUBSET Nat, S # {}
  PROVE  Min(S) \in S /\ \A x \in S : Min(S) <= x
<1> DEFINE R == {ss \in Nat \X Nat : ss[1] < ss[2]}
<1>1. IsWellFoundedOn(R, Nat)
  BY NatLessThanWellFounded, Zenon DEF OpToRel
<1>2. PICK m \in S : \A x \in S : ~(<<x, m>> \in R)
  <2> HIDE DEF R
  <2> QED
    BY <1>1, WFMin
<1>3. \A x \in S : m <= x
  <2>1. ASSUME NEW x \in S
        PROVE  m <= x
    <3>1. x < m => <<x, m>> \in R
      OBVIOUS
    <3> QED
      BY <1>2, <3>1
  <2> QED
    BY <2>1
<1> QED
  BY <1>3 DEF Min

\* The first file of the list that load does not pass over.
FirstFacts(hash) ==
  \/ FirstTried(hash) = 0 /\ \A i \in DOMAIN list : ~Tried(hash, list[i])
  \/ /\ FirstTried(hash) \in DOMAIN list
     /\ Tried(hash, list[FirstTried(hash)])
     /\ \A i \in 1 .. FirstTried(hash) - 1 : ~Tried(hash, list[i])

LEMMA First == list \in Seq(Ids) => \A hash \in Hashes : FirstFacts(hash)
<1> SUFFICES ASSUME list \in Seq(Ids), NEW hash \in Hashes
             PROVE  FirstFacts(hash)
  OBVIOUS
<1> DEFINE I == {i \in 1 .. Len(list) : Tried(hash, list[i])}
<1>1. FirstTried(hash) = IF I # {} THEN Min(I) ELSE 0
  BY DEF FirstTried, SelectInSeq
<1>2. DOMAIN list = 1 .. Len(list) /\ Len(list) \in Nat
  OBVIOUS
<1>3. I \in SUBSET Nat
  OBVIOUS
<1>4. \A i \in DOMAIN list : Tried(hash, list[i]) => i \in I
  BY <1>2
<1>5. \A i \in I : i \in DOMAIN list /\ i \in Nat /\ i <= Len(list) /\ Tried(hash, list[i])
  BY <1>2
<1> HIDE DEF I
<1>6. CASE I = {}
  BY <1>1, <1>4, <1>6 DEF FirstFacts
<1>7. CASE I # {}
  <2>1. FirstTried(hash) \in I /\ \A x \in I : FirstTried(hash) <= x
    BY <1>1, <1>3, <1>7, LeastOf
  <2>2. \A i \in 1 .. FirstTried(hash) - 1 : ~Tried(hash, list[i])
    BY <1>2, <1>4, <1>5, <2>1
  <2> QED
    BY <1>5, <2>1, <2>2 DEF FirstFacts
<1> QED
  BY <1>6, <1>7

\* getProfile finds the first profile in memory with this id.
LEMMA FirstProfile ==
  ASSUME loaded \in Seq(LoadedProfiles), NEW a, a \in Mains
  PROVE  /\ ProfileOf(a) \in DOMAIN loaded /\ loaded[ProfileOf(a)].main = a
         /\ \A j \in DOMAIN loaded : j < ProfileOf(a) => loaded[j].main # a
<1> DEFINE I == {i \in 1 .. Len(loaded) : loaded[i].main = a}
<1>1. ProfileOf(a) = IF I # {} THEN Min(I) ELSE 0
  BY DEF ProfileOf, SelectInSeq
<1>2. DOMAIN loaded = 1 .. Len(loaded) /\ Len(loaded) \in Nat
  OBVIOUS
<1>3. I \in SUBSET Nat /\ I # {}
  BY <1>2 DEF Mains
<1>4. \A i \in DOMAIN loaded : loaded[i].main = a => i \in I
  BY <1>2
<1>5. \A i \in I : i \in DOMAIN loaded /\ i \in Nat /\ loaded[i].main = a
  BY <1>2
<1> HIDE DEF I
<1>6. ProfileOf(a) \in I /\ \A x \in I : ProfileOf(a) <= x
  BY <1>1, <1>3, LeastOf
<1> QED
  BY <1>2, <1>4, <1>5, <1>6

\* A sequence with one more member.
LEMMA Appended ==
  ASSUME NEW M, NEW s \in Seq(M), NEW x \in M
  PROVE  /\ Append(s, x) \in Seq(M) /\ Append(s, x) # <<>>
         /\ \A i \in DOMAIN s : i \in DOMAIN Append(s, x) /\ Append(s, x)[i] = s[i] /\ i < Len(s) + 1
         /\ Len(s) + 1 \in DOMAIN Append(s, x) /\ Append(s, x)[Len(s) + 1] = x
         /\ \A i \in DOMAIN Append(s, x) : i \in DOMAIN s \/ i = Len(s) + 1
  OBVIOUS

-----------------------------------------------------------------------------
(* The steps of the profiles *)

\* What is in memory of a profile is in its file, except behind a first copy of it
\* in memory, and where the file was imported.
Mirrored(i) ==
  \/ \E j \in 1 .. i - 1 : loaded[j].main = loaded[i].main
  \/ profile[loaded[i].main] = Profile(loaded[i].hash, loaded[i].actors)
  \/ Export(loaded[i].main, profile[loaded[i].main]) \in exported

\* A step that leaves the profiles alone, or only ends the process.
LEMMA ProfilesSame ==
  ASSUME ProfilesInv, UNCHANGED <<profile, list, auth, current, created, loaded, exported>>, Up' => Up
  PROVE  ProfilesInv'
<1>1. ProfileTypes' /\ Numbered'
  BY DEF ProfilesInv, ProfileTypes, Numbered
<1>2. OneHash'
  BY DEF ProfilesInv, OneHash, Agree
<1>3. MemoryIsDisk'
  BY DEF ProfilesInv, MemoryIsDisk, Mains
<1>4. InList'
  BY DEF ProfilesInv, InList
<1> QED
  BY <1>1, <1>2, <1>3, <1>4 DEF ProfilesInv

\* The same with another current profile that is loaded.
LEMMA CurrentKeeps ==
  ASSUME ProfilesInv, NEW a \in Ids, ChangeCurrentProfile(a)
  PROVE  ProfilesInv'
<1>1. /\ a \in Mains /\ current' = a /\ Up
      /\ UNCHANGED <<profile, list, auth, created, loaded, exported, status>>
  BY DEF ChangeCurrentProfile, disk, counts
<1>2. ProfileTypes' /\ Numbered'
  BY <1>1 DEF ProfilesInv, ProfileTypes, Numbered
<1>3. OneHash'
  BY <1>1 DEF ProfilesInv, OneHash, Agree
<1>4. MemoryIsDisk'
  <2>1. a # NoId /\ loaded # <<>>
    BY <1>1, AccountsAssumption DEF Mains
  <2> QED
    BY <1>1, <2>1 DEF ProfilesInv, MemoryIsDisk, Mains
<1>5. InList'
  BY <1>1 DEF ProfilesInv, InList, Up
<1> QED
  BY <1>2, <1>3, <1>4, <1>5 DEF ProfilesInv

\* What load finds.
LEMMA FoundFacts ==
  ASSUME ProfilesInv, NEW hash \in Hashes, Known(hash)
  PROVE  /\ FirstTried(hash) \in DOMAIN list /\ Found(hash) = list[FirstTried(hash)]
         /\ Found(hash) \in Ids /\ profile[Found(hash)] \in SavedProfiles
         /\ profile[Found(hash)].hash = hash
<1>1. list \in Seq(Ids) /\ profile \in [Ids -> {None, Torn} \cup SavedProfiles]
  BY DEF ProfilesInv, ProfileTypes
<1>2. FirstTried(hash) # 0 /\ profile[Found(hash)].state = "saved" /\ Found(hash) = list[FirstTried(hash)]
  BY DEF Known, Ends, Found
<1>3. FirstTried(hash) \in DOMAIN list /\ Tried(hash, list[FirstTried(hash)])
  BY <1>1, <1>2, First DEF FirstFacts
<1>4. Found(hash) \in Ids
  BY <1>1, <1>2, <1>3
<1>5. profile[Found(hash)] \in SavedProfiles
  BY <1>1, <1>2, <1>4, Files
<1> QED
  BY <1>2, <1>3, <1>4, <1>5 DEF Tried

LEMMA LoginKeeps ==
  ASSUME ProfilesInv, NEW hash \in Hashes, Login(hash)
  PROVE  ProfilesInv'
<1>1. CASE Ended("decrypt") /\ UNCHANGED <<disk, counts>>
  <2>1. ~Up' /\ UNCHANGED <<profile, list, auth, current, created, loaded, exported>>
    BY <1>1 DEF Ended, Up, disk, memory, counts
  <2> QED
    BY <2>1, ProfilesSame
<1>2. CASE ~(Ended("decrypt") /\ UNCHANGED <<disk, counts>>)
  <2> DEFINE a == Found(hash)
             p == [main |-> a, hash |-> hash, actors |-> profile[a].actors]
  <2>1. /\ Known(hash) /\ Up /\ loaded' = Append(loaded, p) /\ current' = a /\ auth' = hash
        /\ UNCHANGED <<profile, list, status, created, exported>>
    BY <1>2 DEF Login, counts
  <2>2. /\ FirstTried(hash) \in DOMAIN list /\ a = list[FirstTried(hash)] /\ a \in Ids
        /\ profile[a] \in SavedProfiles /\ profile[a].hash = hash
    BY <2>1, FoundFacts
  <2>3. /\ p.main = a /\ p.hash = hash /\ p.actors = profile[a].actors /\ p \in LoadedProfiles
        /\ profile[a] = Profile(p.hash, p.actors)
    BY <2>2, Files DEF LoadedProfiles
  <2> HIDE DEF a, p
  <2>4. loaded \in Seq(LoadedProfiles)
    BY DEF ProfilesInv, ProfileTypes
  <2>5. /\ loaded' \in Seq(LoadedProfiles) /\ loaded' # <<>>
        /\ \A i \in DOMAIN loaded : i \in DOMAIN loaded' /\ loaded'[i] = loaded[i]
        /\ Len(loaded) + 1 \in DOMAIN loaded' /\ loaded'[Len(loaded) + 1] = p
        /\ \A i \in DOMAIN loaded' : i \in DOMAIN loaded \/ loaded'[i] = p
    BY <2>1, <2>3, <2>4, Appended
  <2>6. ProfileTypes'
    BY <2>1, <2>2, <2>5 DEF ProfilesInv, ProfileTypes
  <2>7. Numbered'
    <3>1. a <= created
      BY <2>2, Files DEF ProfilesInv, Numbered
    <3> QED
      BY <2>1, <2>3, <2>5, <3>1 DEF ProfilesInv, Numbered
  <2>8. OneHash'
    <3>1. PICK h \in [Ids -> Hashes \cup {NoHash}] : Agree(h)
      BY DEF ProfilesInv, OneHash
    <3>2. hash = h[a]
      BY <2>2, <3>1, Files DEF Agree
    <3>3. Agree(h)'
      BY <2>1, <2>3, <2>5, <3>1, <3>2 DEF Agree
    <3> QED
      BY <3>3 DEF OneHash
  <2>9. MemoryIsDisk'
    <3>1. ASSUME NEW i \in DOMAIN loaded'
          PROVE  Mirrored(i)'
      <4>1. CASE i \in DOMAIN loaded
        <5>1. Mirrored(i) /\ loaded'[i] = loaded[i]
          BY <2>1, <2>5, <4>1 DEF ProfilesInv, MemoryIsDisk, Mirrored
        <5>2. \A j \in 1 .. i - 1 : loaded'[j] = loaded[j]
          <6>1. \A j \in 1 .. i - 1 : j \in DOMAIN loaded
            BY <2>4, <4>1
          <6> QED
            BY <2>5, <6>1
        <5> QED
          BY <2>1, <5>1, <5>2 DEF Mirrored
      <4>2. CASE loaded'[i] = p
        BY <2>1, <2>3, <4>2 DEF Mirrored
      <4> QED
        BY <2>5, <4>1, <4>2
    <3>2. a # NoId
      BY <2>2, AccountsAssumption
    <3>3. a \in Mains'
      BY <2>3, <2>5 DEF Mains
    <3> QED
      BY <2>1, <2>5, <3>1, <3>2, <3>3 DEF MemoryIsDisk, Mirrored
  <2>10. InList'
    BY <2>1, <2>2, <2>3, <2>5 DEF ProfilesInv, InList
  <2> QED
    BY <2>6, <2>7, <2>8, <2>9, <2>10 DEF ProfilesInv
<1> QED
  BY <1>1, <1>2

\* What is in memory and in exports.
LEMMA Members ==
  ASSUME ProfilesInv
  PROVE  /\ \A i \in DOMAIN loaded :
              loaded[i] \in LoadedProfiles /\ loaded[i].main \in Ids /\ loaded[i].hash \in Hashes
              /\ loaded[i].actors \in SUBSET Ids
         /\ \A e \in exported : e \in Exports /\ e.main \in Ids /\ e.profile \in SavedProfiles
<1>1. loaded \in Seq(LoadedProfiles) /\ exported \subseteq Exports
  BY DEF ProfilesInv, ProfileTypes
<1>2. \A M, q : q \in Seq(M) => \A i \in DOMAIN q : q[i] \in M
  OBVIOUS
<1>3. \A i \in DOMAIN loaded : loaded[i] \in LoadedProfiles
  BY <1>1, <1>2
<1>4. \A q \in LoadedProfiles : q.main \in Ids /\ q.hash \in Hashes /\ q.actors \in SUBSET Ids
  BY DEF LoadedProfiles
<1>5. \A e \in exported : e \in Exports /\ e.main \in Ids /\ e.profile \in SavedProfiles
  BY <1>1, Files
<1> QED
  BY <1>3, <1>4, <1>5

\* The number of a new actor.
LEMMA NewFacts ==
  ASSUME ProfilesInv, created < MaxActors
  PROVE  /\ New \in Ids /\ New = created + 1 /\ created < New /\ created \in Nat /\ profile[New] = None
         /\ \A i \in DOMAIN loaded : loaded[i].main # New
         /\ \A e \in exported : e.main # New
         /\ \A i \in DOMAIN list : list[i] # New
         /\ New \in 0 .. MaxActors
<1>1. created \in 0 .. MaxActors /\ MaxActors \in Nat
  BY AccountsAssumption DEF ProfilesInv, ProfileTypes
<1>2. New \in Ids /\ New = created + 1 /\ created < New /\ created \in Nat /\ New \in 0 .. MaxActors
  BY <1>1 DEF New, Ids
<1>3. \A a \in Ids : a <= created => a # New
  BY <1>2 DEF Ids
<1>4. profile[New] = None
  BY <1>2, <1>3 DEF ProfilesInv, Numbered
<1>5. \A i \in DOMAIN loaded : loaded[i].main \in Ids
  BY Members
<1>6. \A e \in exported : e.main \in Ids
  BY Members
<1>7. \A i \in DOMAIN loaded : loaded[i].main # New
  BY <1>3, <1>5 DEF ProfilesInv, Numbered
<1>8. \A e \in exported : e.main # New
  BY <1>3, <1>6 DEF ProfilesInv, Numbered
<1>9. \A i \in DOMAIN list : list[i] # New
  BY <1>4 DEF ProfilesInv, ProfileTypes
<1> QED
  BY <1>2, <1>4, <1>7, <1>8, <1>9

\* A file for an actor that is new changes nothing that is known of the others.
LEMMA NewFile ==
  ASSUME ProfilesInv, created < MaxActors, NEW hash \in Hashes,
         NEW saved \in {Torn, Profile(hash, {New})},
         profile' = [profile EXCEPT ![New] = saved], created' = New, exported' = exported, loaded' = loaded
  PROVE  /\ profile' \in [Ids -> {None, Torn} \cup SavedProfiles] /\ profile'[New] # None
         /\ \A a \in Ids : a # New => profile'[a] = profile[a]
         /\ profile'[New] = saved
         /\ Numbered'
         /\ \E h \in [Ids -> Hashes \cup {NoHash}] : h[New] = hash /\ Agree(h)'
<1>1. New \in Ids /\ created \in Nat /\ created < New
      /\ (\A i \in DOMAIN loaded : loaded[i].main # New) /\ (\A e \in exported : e.main # New)
  BY NewFacts
<1>2. saved \in {None, Torn} \cup SavedProfiles /\ saved # None
      /\ (saved.state = "saved" => saved.hash = hash)
  BY <1>1, Files
<1>3. profile \in [Ids -> {None, Torn} \cup SavedProfiles]
  BY DEF ProfilesInv, ProfileTypes
<1>4. /\ profile' \in [Ids -> {None, Torn} \cup SavedProfiles]
      /\ \A a \in Ids : a # New => profile'[a] = profile[a]
      /\ profile'[New] = saved
  BY <1>1, <1>2, <1>3
<1>5. (\A i \in DOMAIN loaded : loaded[i].main \in Ids) /\ (\A e \in exported : e.main \in Ids)
  BY Members
<1>6. \A a \in Ids : a <= created => a <= New
  BY <1>1 DEF Ids
<1>7. Numbered'
  <2>1. \A a \in Ids : profile'[a] # None => a <= created'
    <3>1. New <= New
      BY <1>1 DEF Ids
    <3> QED
      BY <1>4, <1>6, <3>1 DEF ProfilesInv, Numbered
  <2>2. \A i \in DOMAIN loaded : loaded[i].main <= created'
    BY <1>5, <1>6 DEF ProfilesInv, Numbered
  <2>3. \A e \in exported : e.main <= created'
    BY <1>5, <1>6 DEF ProfilesInv, Numbered
  <2> QED
    BY <2>1, <2>2, <2>3 DEF Numbered
<1>8. PICK h \in [Ids -> Hashes \cup {NoHash}] : Agree(h)
  BY DEF ProfilesInv, OneHash
<1>9. PICK g : g = [h EXCEPT ![New] = hash]
  OBVIOUS
<1>10. /\ g \in [Ids -> Hashes \cup {NoHash}] /\ g[New] = hash
       /\ \A a \in Ids : a # New => g[a] = h[a]
  BY <1>1, <1>8, <1>9
<1>11. Agree(g)'
  <2>1. \A a \in Ids : profile'[a].state = "saved" => profile'[a].hash = g[a]
    BY <1>2, <1>4, <1>8, <1>10 DEF Agree
  <2>2. \A i \in DOMAIN loaded : loaded[i].hash = g[loaded[i].main]
    BY <1>1, <1>5, <1>8, <1>10 DEF Agree
  <2>3. \A e \in exported : e.profile.hash = g[e.main]
    BY <1>1, <1>5, <1>8, <1>10 DEF Agree
  <2> QED
    BY <2>1, <2>2, <2>3 DEF Agree
<1> QED
  BY <1>2, <1>4, <1>7, <1>10, <1>11

\* createProfile and createNewNetwork, as far as they get: the profile, the list and
\* the hash are saved; then the process ends, or the profile is in memory too.
LEMMA CreateKeeps ==
  ASSUME ProfilesInv, NEW hash \in Hashes, MayCreate, SavedProfile(hash), exported' = exported,
         \/ UNCHANGED <<loaded, current>> /\ ~Up'
         \/ InMemory(hash) /\ status' = status
  PROVE  ProfilesInv'
<1> DEFINE p == [main |-> New, hash |-> hash, actors |-> {New}]
           file == Profile(hash, {New})
<1>1. /\ created < MaxActors /\ Up /\ created' = New /\ auth' = hash /\ list' = Append(list, New)
      /\ profile' = [profile EXCEPT ![New] = file]
  BY DEF MayCreate, SavedProfile, Listed
<1>2. /\ New \in Ids /\ profile[New] = None /\ created \in Nat /\ created < New /\ New \in 0 .. MaxActors
      /\ \A i \in DOMAIN loaded : loaded[i].main # New
      /\ \A i \in DOMAIN list : list[i] # New
  BY <1>1, NewFacts
<1>3. /\ profile \in [Ids -> {None, Torn} \cup SavedProfiles]
      /\ list \in Seq(Ids) /\ \A i \in DOMAIN list : profile[list[i]] # None
      /\ loaded \in Seq(LoadedProfiles)
  BY DEF ProfilesInv, ProfileTypes
<1>4. file \in SavedProfiles /\ file.state = "saved" /\ file.hash = hash /\ file # None
  BY <1>2, Files
<1>5. p \in LoadedProfiles /\ p.main = New /\ p.hash = hash /\ p.actors = {New}
  BY <1>2 DEF LoadedProfiles
<1> HIDE DEF p
<1>6. /\ profile' \in [Ids -> {None, Torn} \cup SavedProfiles]
      /\ profile'[New] = file /\ \A a \in Ids : a # New => profile'[a] = profile[a]
  BY <1>1, <1>2, <1>3, <1>4
<1>7. /\ list' \in Seq(Ids) /\ Len(list) + 1 \in DOMAIN list' /\ list'[Len(list) + 1] = New
      /\ \A i \in DOMAIN list : i \in DOMAIN list' /\ list'[i] = list[i]
      /\ \A i \in DOMAIN list' : i \in DOMAIN list \/ list'[i] = New
  BY <1>1, <1>2, <1>3, Appended
<1>8. \A i \in DOMAIN list' : profile'[list'[i]] # None
  <2>1. ASSUME NEW i \in DOMAIN list'
        PROVE  profile'[list'[i]] # None
    <3>1. CASE i \in DOMAIN list
      <4>1. list'[i] = list[i] /\ list[i] # New /\ profile[list[i]] # None
        BY <1>2, <1>3, <1>7, <3>1
      <4>2. list[i] \in Ids
        BY <1>3, <3>1
      <4> QED
        BY <1>6, <4>1, <4>2
    <3>2. CASE list'[i] = New
      BY <1>4, <1>6, <3>2
    <3> QED
      BY <1>7, <3>1, <3>2
  <2> QED
    BY <2>1
<1>9. (\A i \in DOMAIN loaded : loaded[i].main \in Ids) /\ (\A e \in exported : e.main \in Ids)
  BY Members
<1>10. \A a \in Ids : a <= created => a <= New
  BY <1>2 DEF Ids
<1>11. New <= New
  BY <1>2 DEF Ids
<1>12. (\A a \in Ids : profile'[a] # None => a <= created') /\ (\A e \in exported' : e.main <= created')
  BY <1>1, <1>6, <1>9, <1>10, <1>11 DEF ProfilesInv, Numbered
<1>13. /\ \A i \in DOMAIN loaded : loaded[i].main <= New
       /\ \A e \in exported : e.main # New
  BY <1>1, <1>9, <1>10, NewFacts DEF ProfilesInv, Numbered
<1>14. PICK h \in [Ids -> Hashes \cup {NoHash}] : Agree(h)
  BY DEF ProfilesInv, OneHash
<1>15. PICK g : g = [h EXCEPT ![New] = hash]
  OBVIOUS
<1>16. /\ g \in [Ids -> Hashes \cup {NoHash}] /\ g[New] = hash
       /\ \A a \in Ids : a # New => g[a] = h[a]
  BY <1>2, <1>14, <1>15
<1>17. /\ \A a \in Ids : profile'[a].state = "saved" => profile'[a].hash = g[a]
       /\ \A i \in DOMAIN loaded : loaded[i].hash = g[loaded[i].main]
       /\ \A e \in exported' : e.profile.hash = g[e.main]
  <2>1. \A a \in Ids : profile'[a].state = "saved" => profile'[a].hash = g[a]
    BY <1>4, <1>6, <1>14, <1>16 DEF Agree
  <2>2. \A i \in DOMAIN loaded : loaded[i].hash = g[loaded[i].main]
    BY <1>2, <1>9, <1>14, <1>16 DEF Agree
  <2>3. \A e \in exported' : e.profile.hash = g[e.main]
    BY <1>9, <1>13, <1>14, <1>16 DEF Agree
  <2> QED
    BY <2>1, <2>2, <2>3
<1>18. CASE UNCHANGED <<loaded, current>> /\ ~Up'
  <2>1. ProfileTypes'
    BY <1>1, <1>2, <1>6, <1>7, <1>8, <1>18 DEF ProfilesInv, ProfileTypes
  <2>2. Numbered'
    BY <1>1, <1>12, <1>13, <1>18 DEF Numbered
  <2>3. OneHash'
    BY <1>16, <1>17, <1>18 DEF OneHash, Agree
  <2> QED
    BY <1>18, <2>1, <2>2, <2>3 DEF ProfilesInv, MemoryIsDisk, InList
<1>19. CASE InMemory(hash) /\ status' = status
  <2>1. loaded' = Append(loaded, p) /\ current' = New
    BY <1>19 DEF InMemory, p
  <2>2. /\ loaded' \in Seq(LoadedProfiles) /\ loaded' # <<>>
        /\ \A i \in DOMAIN loaded : i \in DOMAIN loaded' /\ loaded'[i] = loaded[i]
        /\ Len(loaded) + 1 \in DOMAIN loaded' /\ loaded'[Len(loaded) + 1] = p
        /\ \A i \in DOMAIN loaded' : i \in DOMAIN loaded \/ loaded'[i] = p
    BY <1>3, <1>5, <2>1, Appended
  <2>3. ProfileTypes'
    BY <1>1, <1>2, <1>6, <1>7, <1>8, <2>1, <2>2 DEF ProfilesInv, ProfileTypes
  <2>4. Numbered'
    <3>1. \A i \in DOMAIN loaded' : loaded'[i].main <= created'
      BY <1>1, <1>5, <1>11, <1>13, <2>2
    <3> QED
      BY <1>12, <3>1 DEF Numbered
  <2>5. OneHash'
    <3>1. \A i \in DOMAIN loaded' : loaded'[i].hash = g[loaded'[i].main]
      BY <1>5, <1>16, <1>17, <2>2
    <3> QED
      BY <1>16, <1>17, <3>1 DEF OneHash, Agree
  <2>6. MemoryIsDisk'
    <3>1. ASSUME NEW i \in DOMAIN loaded'
          PROVE  Mirrored(i)'
      <4>1. CASE i \in DOMAIN loaded
        <5>1. Mirrored(i) /\ loaded'[i] = loaded[i] /\ loaded[i].main \in Ids /\ loaded[i].main # New
          BY <1>1, <1>2, <1>9, <2>2, <4>1 DEF ProfilesInv, MemoryIsDisk, Mirrored
        <5>2. profile'[loaded[i].main] = profile[loaded[i].main]
          BY <1>6, <5>1
        <5>3. \A j \in 1 .. i - 1 : loaded'[j] = loaded[j]
          <6>1. \A j \in 1 .. i - 1 : j \in DOMAIN loaded
            BY <1>3, <4>1
          <6> QED
            BY <2>2, <6>1
        <5> QED
          BY <5>1, <5>2, <5>3 DEF Mirrored
      <4>2. CASE loaded'[i] = p
        BY <1>5, <1>6, <4>2 DEF Mirrored
      <4> QED
        BY <2>2, <4>1, <4>2
    <3>2. New # NoId
      BY <1>2, AccountsAssumption
    <3>3. New \in Mains'
      BY <1>5, <2>2 DEF Mains
    <3> QED
      BY <2>1, <2>2, <3>1, <3>2, <3>3 DEF MemoryIsDisk, Mirrored
  <2>7. InList'
    BY <1>1, <1>5, <1>7, <2>2 DEF ProfilesInv, InList
  <2> QED
    BY <2>3, <2>4, <2>5, <2>6, <2>7 DEF ProfilesInv
<1> QED
  BY <1>18, <1>19

\* createWallet finds the first copy of the profile in memory, and saves that.
WalletSaved(a, i, actors) ==
  /\ Up /\ created < MaxActors /\ created' = New
  /\ i \in DOMAIN loaded /\ loaded[i].main = a
  /\ \A j \in DOMAIN loaded : j < i => loaded[j].main # a
  /\ actors \in SUBSET Ids /\ loaded[i].actors \subseteq actors
  /\ loaded' = [loaded EXCEPT ![i].actors = actors]
  /\ profile' = [profile EXCEPT ![a] = Profile(loaded[i].hash, actors)]
  /\ UNCHANGED <<list, auth, status, current, exported>>

LEMMA WalletFacts ==
  ASSUME ProfilesInv, NEW a \in Ids, CreateWallet(a)
  PROVE  \E i, actors : WalletSaved(a, i, actors)
<1>1. PICK i : i = ProfileOf(a)
  OBVIOUS
<1>2. PICK actors : actors = loaded[i].actors \cup {New}
  OBVIOUS
<1>3. /\ Up /\ created < MaxActors /\ created' = New /\ a \in Mains
      /\ loaded' = [loaded EXCEPT ![i].actors = actors]
      /\ profile' = [profile EXCEPT ![a] = Profile(loaded[i].hash, actors)]
      /\ UNCHANGED <<list, auth, status, current, exported>>
  BY <1>1, <1>2 DEF CreateWallet
<1>4. /\ i \in DOMAIN loaded /\ loaded[i].main = a
      /\ \A j \in DOMAIN loaded : j < i => loaded[j].main # a
  BY <1>1, <1>3, FirstProfile DEF ProfilesInv, ProfileTypes
<1>5. New \in Ids /\ loaded[i].actors \in SUBSET Ids
  BY <1>3, <1>4, NewFacts, Members
<1>6. actors \in SUBSET Ids /\ loaded[i].actors \subseteq actors
  BY <1>2, <1>5
<1>7. WalletSaved(a, i, actors)
  BY <1>3, <1>4, <1>6 DEF WalletSaved
<1> QED
  BY <1>7

LEMMA WalletKeeps ==
  ASSUME ProfilesInv, NEW a \in Ids, CreateWallet(a)
  PROVE  ProfilesInv'
<1>1. PICK i, actors : WalletSaved(a, i, actors)
  BY WalletFacts
<1> DEFINE file == Profile(loaded[i].hash, actors)
<1>3. /\ Up /\ created < MaxActors /\ created' = New
      /\ i \in DOMAIN loaded /\ loaded[i].main = a
      /\ \A j \in DOMAIN loaded : j < i => loaded[j].main # a
      /\ actors \in SUBSET Ids
      /\ loaded' = [loaded EXCEPT ![i].actors = actors]
      /\ profile' = [profile EXCEPT ![a] = file]
      /\ UNCHANGED <<list, auth, status, current, exported>>
  BY <1>1 DEF WalletSaved
<1>4. loaded[i].hash \in Hashes /\ \A j \in DOMAIN loaded : loaded[j] \in LoadedProfiles /\ loaded[j].main \in Ids
  BY <1>3, Members
<1>5. file \in SavedProfiles /\ file # None /\ file.state = "saved" /\ file.hash = loaded[i].hash
  BY <1>3, <1>4, Files
<1> HIDE DEF file
<1>6. /\ profile \in [Ids -> {None, Torn} \cup SavedProfiles]
      /\ loaded \in Seq(LoadedProfiles)
  BY DEF ProfilesInv, ProfileTypes
<1>7. /\ profile' \in [Ids -> {None, Torn} \cup SavedProfiles]
      /\ profile'[a] = file /\ \A b \in Ids : b # a => profile'[b] = profile[b]
  BY <1>3, <1>5, <1>6
<1>8. /\ DOMAIN loaded' = DOMAIN loaded
      /\ loaded'[i] = [loaded[i] EXCEPT !.actors = actors]
      /\ \A j \in DOMAIN loaded : j # i => loaded'[j] = loaded[j]
  BY <1>3
<1>9. /\ loaded'[i].main = a /\ loaded'[i].hash = loaded[i].hash /\ loaded'[i].actors = actors
      /\ loaded'[i] \in LoadedProfiles
  <2>1. \A q \in LoadedProfiles : LET r == [q EXCEPT !.actors = actors]
                                  IN /\ r.main = q.main /\ r.hash = q.hash /\ r.actors = actors
                                     /\ r \in LoadedProfiles
    BY <1>3 DEF LoadedProfiles
  <2> QED
    BY <1>3, <1>4, <1>8, <2>1
<1>10. \A j \in DOMAIN loaded : loaded'[j].main = loaded[j].main /\ loaded'[j].hash = loaded[j].hash
  BY <1>3, <1>8, <1>9
<1>11. loaded' \in Seq(LoadedProfiles)
  <2>1. DOMAIN loaded = 1 .. Len(loaded) /\ Len(loaded) \in Nat
    BY <1>6
  <2>2. \A j \in 1 .. Len(loaded) : loaded'[j] \in LoadedProfiles
    BY <1>4, <1>8, <1>9, <2>1
  <2>3. loaded' \in [1 .. Len(loaded) -> LoadedProfiles]
    BY <1>3, <1>8, <2>1, <2>2
  <2>4. \A M, n, q : n \in Nat /\ q \in [1 .. n -> M] => q \in Seq(M)
    OBVIOUS
  <2> QED
    BY <2>1, <2>3, <2>4
<1>12. New \in 0 .. MaxActors /\ created \in Nat /\ created < New /\ New \in Nat
  BY <1>3, NewFacts DEF Ids
<1>13. ProfileTypes'
  <2>1. \A k \in DOMAIN list : list[k] \in Ids /\ profile[list[k]] # None
    BY DEF ProfilesInv, ProfileTypes
  <2>2. \A k \in DOMAIN list : profile'[list[k]] # None
    BY <1>5, <1>7, <2>1
  <2> QED
    BY <1>3, <1>7, <1>11, <1>12, <2>2 DEF ProfilesInv, ProfileTypes
<1>14. Numbered'
  <2>1. \A b \in Ids : b <= created => b <= New
    BY <1>12 DEF Ids
  <2>2. a <= created
    BY <1>3 DEF ProfilesInv, Numbered
  <2>3. \A b \in Ids : profile'[b] # None => b <= New
    BY <1>7, <2>1, <2>2 DEF ProfilesInv, Numbered
  <2>4. \A j \in DOMAIN loaded : loaded[j].main <= New
    BY <1>4, <2>1 DEF ProfilesInv, Numbered
  <2>5. \A e \in exported : e.main <= New
    BY <2>1, Members DEF ProfilesInv, Numbered
  <2> QED
    BY <1>3, <1>8, <1>10, <2>3, <2>4, <2>5 DEF Numbered
<1>15. OneHash'
  <2>1. PICK h \in [Ids -> Hashes \cup {NoHash}] : Agree(h)
    BY DEF ProfilesInv, OneHash
  <2>2. file.hash = h[a]
    BY <1>3, <1>5, <2>1 DEF Agree
  <2>3. \A b \in Ids : profile'[b].state = "saved" => profile'[b].hash = h[b]
    BY <1>7, <2>1, <2>2 DEF Agree
  <2>4. \A j \in DOMAIN loaded' : loaded'[j].hash = h[loaded'[j].main]
    BY <1>8, <1>10, <2>1 DEF Agree
  <2> QED
    BY <1>3, <2>1, <2>3, <2>4 DEF OneHash, Agree
<1>16. MemoryIsDisk'
  <2>1. ASSUME NEW k \in DOMAIN loaded
        PROVE  Mirrored(k)'
    <3>1. DOMAIN loaded = 1 .. Len(loaded) /\ i \in Int /\ k \in Int
      BY <1>3, <1>6
    <3>2. CASE k = i
      BY <1>7, <1>9, <3>2 DEF Mirrored, file
    <3>3. CASE k # i /\ loaded[k].main = a
      <4>1. i \in 1 .. k - 1
        BY <1>3, <3>1, <3>3
      <4> QED
        BY <1>9, <1>10, <3>3, <4>1 DEF Mirrored
    <3>4. CASE k # i /\ loaded[k].main # a
      <4>1. loaded'[k] = loaded[k] /\ profile'[loaded[k].main] = profile[loaded[k].main]
        BY <1>4, <1>7, <1>8, <3>4
      <4>2. \A j \in 1 .. k - 1 : loaded'[j].main = loaded[j].main
        BY <1>10, <3>1
      <4>3. Mirrored(k)
        BY <1>3 DEF ProfilesInv, MemoryIsDisk, Mirrored
      <4>4. CASE \E j \in 1 .. k - 1 : loaded[j].main = loaded[k].main
        BY <4>1, <4>2, <4>4 DEF Mirrored
      <4>5. CASE profile[loaded[k].main] = Profile(loaded[k].hash, loaded[k].actors)
        BY <4>1, <4>5 DEF Mirrored
      <4>6. CASE Export(loaded[k].main, profile[loaded[k].main]) \in exported
        BY <1>3, <4>1, <4>6 DEF Mirrored
      <4> QED
        BY <4>3, <4>4, <4>5, <4>6 DEF Mirrored
    <3> QED
      BY <3>2, <3>3, <3>4
  <2>2. Mains' = Mains
    BY <1>8, <1>10 DEF Mains
  <2>3. loaded # <<>> /\ loaded' # <<>>
    BY <1>3, <1>8
  <2>4. current # NoId /\ current \in Mains
    BY <1>3, <2>3 DEF ProfilesInv, MemoryIsDisk
  <2> QED
    BY <1>3, <1>8, <2>1, <2>2, <2>3, <2>4 DEF MemoryIsDisk, Mirrored
<1>17. InList'
  BY <1>3, <1>8, <1>10 DEF ProfilesInv, InList
<1> QED
  BY <1>13, <1>14, <1>15, <1>16, <1>17 DEF ProfilesInv

\* An export: nothing else changes, and exports are only added.
LEMMA ExportKeeps ==
  ASSUME ProfilesInv, ExportUser
  PROVE  ProfilesInv'
<1>1. PICK i : i = ProfileOf(current)
  OBVIOUS
<1>2. PICK e : e = Export(current, Profile(loaded[i].hash, loaded[i].actors))
  OBVIOUS
<1>3. /\ Up /\ current # NoId /\ exported' = exported \cup {e}
      /\ UNCHANGED <<profile, list, auth, current, created, loaded, status>>
  BY <1>1, <1>2 DEF ExportUser, disk, memory
<1>4. current \in Ids /\ current \in Mains /\ loaded \in Seq(LoadedProfiles)
  BY <1>3 DEF ProfilesInv, ProfileTypes, MemoryIsDisk
<1>5. i \in DOMAIN loaded /\ loaded[i].main = current
  BY <1>1, <1>4, FirstProfile
<1>6. loaded[i].hash \in Hashes /\ loaded[i].actors \in SUBSET Ids
  BY <1>5, Members
<1>7. /\ e \in Exports /\ e.main = current /\ e.profile.hash = loaded[i].hash
  BY <1>2, <1>4, <1>6, Files
<1>8. ProfileTypes'
  BY <1>3, <1>7 DEF ProfilesInv, ProfileTypes
<1>9. Numbered'
  BY <1>3, <1>5, <1>7 DEF ProfilesInv, Numbered
<1>10. OneHash'
  <2>1. PICK h \in [Ids -> Hashes \cup {NoHash}] : Agree(h)
    BY DEF ProfilesInv, OneHash
  <2>2. e.profile.hash = h[e.main]
    BY <1>5, <1>7, <2>1 DEF Agree
  <2>3. Agree(h)'
    BY <1>3, <2>1, <2>2 DEF Agree
  <2> QED
    BY <2>3 DEF OneHash
<1>11. MemoryIsDisk'
  <2>1. ASSUME NEW k \in DOMAIN loaded
        PROVE  Mirrored(k)'
    BY <1>3 DEF ProfilesInv, MemoryIsDisk, Mirrored
  <2> QED
    BY <1>3, <2>1 DEF ProfilesInv, MemoryIsDisk, Mirrored, Mains, Up
<1>12. InList'
  BY <1>3 DEF ProfilesInv, InList, Up
<1> QED
  BY <1>8, <1>9, <1>10, <1>11, <1>12 DEF ProfilesInv

\* A file that is torn, or replaced by one of the same login: what depends on files
\* alone.
LEMMA FileKeeps ==
  ASSUME ProfilesInv, NEW a \in Ids, a <= created, NEW saved \in {Torn} \cup SavedProfiles,
         saved.state = "saved" => \E e \in exported : e.main = a /\ e.profile.hash = saved.hash,
         profile' = [profile EXCEPT ![a] = saved],
         list' \in {list, <<>>, Append(list, a)},
         created' \in created .. MaxActors,
         UNCHANGED <<auth, current, loaded, exported>>
  PROVE  ProfileTypes' /\ Numbered' /\ OneHash'
<1>1. profile \in [Ids -> {None, Torn} \cup SavedProfiles] /\ list \in Seq(Ids)
  BY DEF ProfilesInv, ProfileTypes
<1>2. saved # None
  BY Files
<1>3. /\ profile' \in [Ids -> {None, Torn} \cup SavedProfiles]
      /\ profile'[a] = saved /\ \A b \in Ids : b # a => profile'[b] = profile[b]
  BY <1>1
<1>8. created \in Nat /\ created' \in 0 .. MaxActors /\ created <= created' /\ created' \in Nat
  BY AccountsAssumption DEF ProfilesInv, ProfileTypes
<1>4. list' \in Seq(Ids) /\ \A k \in DOMAIN list' : list'[k] = a \/ \E j \in DOMAIN list : list'[k] = list[j]
  <2>1. CASE list' = list
    BY <1>1, <2>1
  <2>2. CASE list' = <<>>
    BY <2>2
  <2>3. CASE list' = Append(list, a)
    <3>1. /\ Append(list, a) \in Seq(Ids)
          /\ \A j \in DOMAIN list : Append(list, a)[j] = list[j]
          /\ Append(list, a)[Len(list) + 1] = a
          /\ \A j \in DOMAIN Append(list, a) : j \in DOMAIN list \/ j = Len(list) + 1
      BY <1>1, Appended
    <3> QED
      BY <2>3, <3>1
  <2> QED
    BY <2>1, <2>2, <2>3
<1>5. ProfileTypes'
  <2>1. \A j \in DOMAIN list : list[j] \in Ids /\ profile[list[j]] # None
    BY DEF ProfilesInv, ProfileTypes
  <2>2. \A k \in DOMAIN list' : profile'[list'[k]] # None
    BY <1>2, <1>3, <1>4, <2>1
  <2> QED
    BY <1>3, <1>4, <1>8, <2>2 DEF ProfilesInv, ProfileTypes
<1>6. Numbered'
  <2>1. \A b \in Ids : b <= created => b <= created'
    BY <1>8 DEF Ids
  <2>2. (\A i \in DOMAIN loaded : loaded[i].main \in Ids) /\ (\A e \in exported : e.main \in Ids)
    BY Members
  <2>3. \A b \in Ids : profile'[b] # None => b <= created'
    BY <1>3, <2>1 DEF ProfilesInv, Numbered
  <2>4. \A i \in DOMAIN loaded : loaded[i].main <= created'
    BY <2>1, <2>2 DEF ProfilesInv, Numbered
  <2>5. \A e \in exported : e.main <= created'
    BY <2>1, <2>2 DEF ProfilesInv, Numbered
  <2> QED
    BY <2>3, <2>4, <2>5 DEF Numbered
<1>7. OneHash'
  <2>1. PICK h \in [Ids -> Hashes \cup {NoHash}] : Agree(h)
    BY DEF ProfilesInv, OneHash
  <2>2. saved.state = "saved" => saved.hash = h[a]
    BY <2>1 DEF Agree
  <2>3. Agree(h)'
    BY <1>3, <2>1, <2>2 DEF Agree
  <2> QED
    BY <2>3 DEF OneHash
<1> QED
  BY <1>5, <1>6, <1>7

\* An import: what is in memory of the profile has its file from the export, or
\* is behind a copy that has.
LEMMA ImportKeeps ==
  ASSUME ProfilesInv, NEW e \in exported, ImportUser(e)
  PROVE  ProfilesInv'
<1>1. /\ Up /\ profile' = [profile EXCEPT ![e.main] = e.profile] /\ list' = Append(list, e.main)
      /\ UNCHANGED <<auth, current, created, loaded, exported, status>>
  BY DEF ImportUser, memory, counts, Listed
<1>2. e \in Exports /\ e.main \in Ids /\ e.profile \in SavedProfiles /\ e.main <= created
      /\ e = Export(e.main, e.profile)
  BY Members, Files DEF ProfilesInv, Numbered
<1>8. created' \in created .. MaxActors
  BY <1>1, AccountsAssumption DEF ProfilesInv, ProfileTypes
<1>3. ProfileTypes' /\ Numbered' /\ OneHash'
  BY <1>1, <1>2, <1>8, FileKeeps
<1>4. profile \in [Ids -> {None, Torn} \cup SavedProfiles] /\ list \in Seq(Ids)
  BY DEF ProfilesInv, ProfileTypes
<1>5. /\ profile'[e.main] = e.profile /\ \A b \in Ids : b # e.main => profile'[b] = profile[b]
  BY <1>1, <1>2, <1>4
<1>6. MemoryIsDisk'
  <2>1. ASSUME NEW k \in DOMAIN loaded
        PROVE  Mirrored(k)'
    <3>1. loaded[k].main \in Ids
      BY Members
    <3>2. CASE loaded[k].main = e.main
      <4>1. Export(loaded[k].main, profile'[loaded[k].main]) \in exported'
        BY <1>1, <1>2, <1>5, <3>2
      <4> QED
        BY <1>1, <4>1 DEF Mirrored
    <3>3. CASE loaded[k].main # e.main
      <4>1. Mirrored(k) /\ profile'[loaded[k].main] = profile[loaded[k].main]
        BY <1>1, <1>5, <3>1, <3>3 DEF ProfilesInv, MemoryIsDisk, Mirrored
      <4> QED
        BY <1>1, <4>1 DEF Mirrored
    <3> QED
      BY <3>2, <3>3
  <2> QED
    BY <1>1, <2>1 DEF ProfilesInv, MemoryIsDisk, Mirrored, Mains, Up
<1>7. InList'
  <2>1. \A j \in DOMAIN list : j \in DOMAIN list' /\ list'[j] = list[j]
    BY <1>1, <1>2, <1>4, Appended
  <2> QED
    BY <1>1, <2>1 DEF ProfilesInv, InList, Up
<1> QED
  BY <1>3, <1>6, <1>7 DEF ProfilesInv


\* A kill while a file that is there is written.
LEMMA FileKillKeeps ==
  ASSUME ProfilesInv, \/ \E a \in Ids : KillInCreateWallet(a)
                      \/ \E e \in exported : KillInImportUser(e)
  PROVE  ProfilesInv'
<1>1. ~Up' /\ UNCHANGED <<auth, current, loaded, exported>>
  BY DEF KillInCreateWallet, KillInImportUser, Killed, Ended, Up, memory
<1>2. Torn.state # "saved"
  BY Files
<1>3. ASSUME NEW a \in Ids, KillInCreateWallet(a)
      PROVE  ProfileTypes' /\ Numbered' /\ OneHash'
  <2>1. /\ a \in Mains /\ created < MaxActors /\ created' = New
        /\ profile' = [profile EXCEPT ![a] = Torn] /\ list' = list
    BY <1>3 DEF KillInCreateWallet
  <2>2. a <= created
    BY <2>1 DEF ProfilesInv, Numbered, Mains
  <2>3. created' \in created .. MaxActors
    BY <2>1, NewFacts
  <2> QED
    BY <1>1, <1>2, <2>1, <2>2, <2>3, FileKeeps
<1>4. ASSUME NEW e \in exported, KillInImportUser(e)
      PROVE  ProfileTypes' /\ Numbered' /\ OneHash'
  <2>1. /\ \/ profile' = [profile EXCEPT ![e.main] = Torn]
           \/ profile' = [profile EXCEPT ![e.main] = e.profile]
        /\ list' \in {list, <<>>} /\ created' = created
    BY <1>4 DEF KillInImportUser
  <2>2. e.main \in Ids /\ e.profile \in SavedProfiles /\ e.main <= created
    BY Members DEF ProfilesInv, Numbered
  <2>3. created' \in created .. MaxActors
    BY <2>1, AccountsAssumption DEF ProfilesInv, ProfileTypes
  <2>4. CASE profile' = [profile EXCEPT ![e.main] = Torn]
    BY <1>1, <1>2, <2>1, <2>2, <2>3, <2>4, FileKeeps
  <2>5. CASE profile' = [profile EXCEPT ![e.main] = e.profile]
    BY <1>1, <2>1, <2>2, <2>3, <2>5, FileKeeps
  <2> QED
    BY <2>1, <2>4, <2>5
<1>5. ProfileTypes' /\ Numbered' /\ OneHash'
  BY <1>3, <1>4
<1> QED
  BY <1>1, <1>5 DEF ProfilesInv, MemoryIsDisk, InList

\* A kill while a new profile is saved.
LEMMA NewKillKeeps ==
  ASSUME ProfilesInv, NEW hash \in Hashes, KillInCreateProfile(hash)
  PROVE  ProfilesInv'
<1>1. /\ ~Up' /\ UNCHANGED <<current, loaded, exported>> /\ created' = New /\ created < MaxActors
      /\ list' \in {list, <<>>, Append(list, New)} /\ auth' \in {auth, NoHash}
  BY DEF KillInCreateProfile, Killed, Ended, Up, memory, MayCreate, Listed
<1>2. PICK saved \in {Torn, Profile(hash, {New})} : profile' = [profile EXCEPT ![New] = saved]
  BY DEF KillInCreateProfile
<1>3. /\ profile' \in [Ids -> {None, Torn} \cup SavedProfiles] /\ profile'[New] # None
      /\ \A a \in Ids : a # New => profile'[a] = profile[a]
      /\ Numbered'
      /\ \E h \in [Ids -> Hashes \cup {NoHash}] : h[New] = hash /\ Agree(h)'
  BY <1>1, <1>2, NewFile
<1>4. New \in Ids /\ New \in 0 .. MaxActors
  BY <1>1, NewFacts
<1>5. list \in Seq(Ids) /\ \A j \in DOMAIN list : profile[list[j]] # None
  BY DEF ProfilesInv, ProfileTypes
<1>6. list' \in Seq(Ids) /\ \A k \in DOMAIN list' : list'[k] = New \/ \E j \in DOMAIN list : list'[k] = list[j]
  <2>1. CASE list' = list
    BY <1>5, <2>1
  <2>2. CASE list' = <<>>
    BY <2>2
  <2>3. CASE list' = Append(list, New)
    <3>1. /\ Append(list, New) \in Seq(Ids)
          /\ \A j \in DOMAIN list : Append(list, New)[j] = list[j]
          /\ Append(list, New)[Len(list) + 1] = New
          /\ \A j \in DOMAIN Append(list, New) : j \in DOMAIN list \/ j = Len(list) + 1
      BY <1>4, <1>5, Appended
    <3> QED
      BY <2>3, <3>1
  <2> QED
    BY <1>1, <2>1, <2>2, <2>3
<1>7. \A k \in DOMAIN list' : profile'[list'[k]] # None
  <2>1. \A j \in DOMAIN list : list[j] \in Ids
    BY <1>5
  <2>2. \A b \in Ids : profile[b] # None => profile'[b] # None
    BY <1>3
  <2> QED
    BY <1>3, <1>5, <1>6, <2>1, <2>2
<1>8. ProfileTypes'
  BY <1>1, <1>3, <1>4, <1>6, <1>7 DEF ProfilesInv, ProfileTypes
<1>9. OneHash'
  BY <1>3 DEF OneHash, Agree
<1> QED
  BY <1>1, <1>3, <1>8, <1>9 DEF ProfilesInv, MemoryIsDisk, InList

\* After a restart nothing is in memory.
LEMMA RestartKeeps ==
  ASSUME ProfilesInv, Restart
  PROVE  ProfilesInv'
<1>1. loaded' = <<>> /\ current' = NoId /\ UNCHANGED <<profile, list, auth, created, exported>>
  BY DEF Restart, disk
<1>2. loaded' \in Seq(LoadedProfiles) /\ DOMAIN loaded' = {}
  BY <1>1
<1>3. ProfileTypes'
  BY <1>1, <1>2 DEF ProfilesInv, ProfileTypes
<1>4. Numbered'
  BY <1>1, <1>2 DEF ProfilesInv, Numbered
<1>5. OneHash'
  BY <1>1, <1>2 DEF ProfilesInv, OneHash, Agree
<1>6. MemoryIsDisk' /\ InList'
  BY <1>1, <1>2 DEF MemoryIsDisk, InList
<1> QED
  BY <1>3, <1>4, <1>5, <1>6 DEF ProfilesInv

LEMMA InitProfiles == Init => ProfilesInv
<1> SUFFICES ASSUME Init
             PROVE  ProfilesInv
  OBVIOUS
<1>1. list = <<>> /\ loaded = <<>> /\ current = NoId /\ exported = {} /\ created = 0 /\ auth = NoHash
  BY DEF Init
<1>2. profile \in [Ids -> {None, Torn} \cup SavedProfiles] /\ \A a \in Ids : profile[a] = None
  BY DEF Init
<1>3. DOMAIN list = {} /\ DOMAIN loaded = {} /\ list \in Seq(Ids) /\ loaded \in Seq(LoadedProfiles)
  BY <1>1
<1>4. ProfileTypes
  BY <1>1, <1>2, <1>3, AccountsAssumption DEF ProfileTypes
<1>5. Numbered
  BY <1>1, <1>2, <1>3 DEF Numbered
<1>6. OneHash
  <2>1. PICK h : h = [a \in Ids |-> NoHash]
    OBVIOUS
  <2>2. h \in [Ids -> Hashes \cup {NoHash}]
    BY <2>1
  <2>3. Agree(h)
    BY <1>1, <1>2, <1>3, Files DEF Agree
  <2> QED
    BY <2>2, <2>3 DEF OneHash
<1>7. MemoryIsDisk /\ InList
  BY <1>1, <1>3 DEF MemoryIsDisk, InList
<1> QED
  BY <1>4, <1>5, <1>6, <1>7 DEF ProfilesInv

LEMMA NextProfiles == ProfilesInv /\ [Next]_vars => ProfilesInv'
<1> SUFFICES ASSUME ProfilesInv, [Next]_vars
             PROVE  ProfilesInv'
  OBVIOUS
<1>1. ASSUME NEW hash \in Hashes, CreateProfile(hash) \/ CreateNewNetwork(hash)
      PROVE  ProfilesInv'
  <2>1. /\ MayCreate /\ SavedProfile(hash) /\ exported' = exported
        /\ \/ Ended("another")
           \/ InMemory(hash) /\ status' = status
    BY <1>1 DEF CreateProfile, CreateNewNetwork
  <2>2. Ended("another") => UNCHANGED <<loaded, current>> /\ ~Up'
    BY DEF Ended, Up, memory
  <2> QED
    BY <2>1, <2>2, CreateKeeps
<1>2. ASSUME NEW hash \in Hashes, KillInCreateNewNetwork(hash)
      PROVE  ProfilesInv'
  <2>1. MayCreate /\ SavedProfile(hash) /\ exported' = exported /\ UNCHANGED <<loaded, current>> /\ ~Up'
    BY <1>2 DEF KillInCreateNewNetwork, Killed, Ended, Up, memory
  <2> QED
    BY <2>1, CreateKeeps
<1>3. CASE \/ \E id \in Foreign \cup {NoId}, dialed \in BOOLEAN : Connect(id, dialed)
           \/ \E id \in Foreign : ReceiveBlockZero(id)
           \/ WithoutProfile \/ Logout \/ MakeBlock \/ ReceiveBlock
           \/ UNCHANGED vars
  <2>1. UNCHANGED <<profile, list, auth, current, created, loaded, exported>>
    BY <1>3 DEF Connect, ReceiveBlockZero, WithoutProfile, Logout, MakeBlock, ReceiveBlock, Ended,
                disk, memory, counts, vars
  <2>2. Up \/ UNCHANGED status
    BY <1>3 DEF Connect, ReceiveBlockZero, WithoutProfile, Logout, MakeBlock, ReceiveBlock, vars
  <2> QED
    BY <2>1, <2>2, ProfilesSame DEF Up
<1> QED
  BY <1>1, <1>2, <1>3, LoginKeeps, NewKillKeeps, WalletKeeps, CurrentKeeps, FileKillKeeps, ImportKeeps,
     ExportKeeps, RestartKeeps DEF Next

-----------------------------------------------------------------------------
(* The steps of the first id *)

\* The ids that are claimed without a clash are one, and the first id is it.
LEMMA NoClash ==
  ASSUME NEW ids, IsFiniteSet(ToSet(ids)), ~Clash(ids)
  PROVE  \A x, y \in ToSet(ids) \cup ({firstId} \ {NoId}) : x = y
<1> DEFINE S == ToSet(ids) \cup ({firstId} \ {NoId})
<1>1. IsFiniteSet(S)
  <2>1. IsFiniteSet(ToSet(ids) \cup {firstId})
    BY FS_AddElement
  <2> QED
    BY <2>1, FS_Subset
<1>2. ASSUME NEW x \in S, NEW y \in S, x # y
      PROVE  FALSE
  <2>1. IsFiniteSet({x}) /\ Cardinality({x}) = 1
    BY FS_Singleton
  <2>2. Cardinality({x} \cup {y}) = 2
    BY <1>2, <2>1, FS_AddElement
  <2>3. Cardinality({x} \cup {y}) <= Cardinality(S)
    BY <1>1, FS_Subset
  <2>4. Cardinality(S) \in Nat
    BY <1>1, FS_CardinalityType
  <2> QED
    BY <2>2, <2>3, <2>4 DEF Clash
<1> QED
  BY <1>2

\* A single claim, and the two of a new network.
LEMMA OneClaim ==
  ASSUME NEW x, x # NoId
  PROVE  /\ ~Clash(<<x>>) => firstId \in {NoId, x}
         /\ FirstIdAfter(<<x>>) = x
<1>1. ToSet(<<x>>) = {x} /\ IsFiniteSet({x})
  BY FS_Singleton DEF ToSet
<1>2. FirstIdAfter(<<x>>) = x
  BY DEF FirstIdAfter, Last
<1> QED
  BY <1>1, <1>2, NoClash

LEMMA NetworkClaims ==
  ASSUME NEW x, x # NoId, ~Clash(BlockZero \o <<x>>)
  PROVE  chain \in {NoId, x}
<1>1. CASE chain # NoId
  <2>1. BlockZero \o <<x>> = Append(<<chain>>, x)
    <3>1. \A c : <<c>> \o <<x>> = Append(<<c>>, x)
      OBVIOUS
    <3> QED
      BY <1>1, <3>1 DEF BlockZero
  <2>2. ToSet(Append(<<chain>>, x)) = {chain} \cup {x}
    <3>1. ASSUME NEW c
          PROVE  ToSet(Append(<<c>>, x)) = {c} \cup {x}
      <4>1. <<c>> \in Seq({c, x}) /\ DOMAIN <<c>> = {1} /\ <<c>>[1] = c
        OBVIOUS
      <4> QED
        BY <4>1, Appended DEF ToSet
    <3> QED
      BY <3>1
  <2>3. IsFiniteSet({chain} \cup {x})
    BY FS_Singleton, FS_AddElement
  <2> QED
    BY <2>1, <2>2, <2>3, NoClash
<1> QED
  BY <1>1

\* The first id and block 0 do not meet the profiles, except for the main actor.
LEMMA ClaimsSame ==
  ASSUME ClaimsInv, UNCHANGED <<chain, blocks, started, online, firstId>>,
         status' \in {"up", "decrypt", "another", "noProfile", "exit", "killed"},
         started' \in BOOLEAN, Up' => Up, restarts' = restarts, kills' \in {kills, kills + 1}
  PROVE  ClaimsInv'
  BY DEF ClaimsInv, FirstIdOfChain

LEMMA NextClaims == ProfilesInv /\ ClaimsInv /\ [Next]_vars => ClaimsInv'
<1> SUFFICES ASSUME ProfilesInv, ClaimsInv, [Next]_vars
             PROVE  ClaimsInv'
  OBVIOUS
<1>1. current \in Ids \cup {NoId} /\ NoId \notin Ids \cup Foreign
  BY AccountsAssumption DEF ProfilesInv, ProfileTypes
<1>2. ASSUME NEW hash \in Hashes, CreateProfile(hash)
      PROVE  ClaimsInv'
  <2>1. UNCHANGED <<chain, blocks, kills, restarts, exported>>
    BY <1>2 DEF CreateProfile
  <2>2. CASE Ended("another")
    BY <2>1, <2>2, ClaimsSame DEF Ended, memory, ClaimsInv, Up
  <2>3. CASE ~Clash(BlockZero) /\ InMemory(hash) /\ firstId' = FirstIdAfter(BlockZero)
             /\ UNCHANGED <<status, online>>
    <3>1. chain = NoId => firstId' = firstId
      BY <2>3 DEF BlockZero, FirstIdAfter
    <3>2. chain # NoId => firstId' = chain
      BY <2>3, OneClaim DEF BlockZero
    <3> QED
      BY <2>1, <2>3, <3>1, <3>2 DEF InMemory, ClaimsInv, FirstIdOfChain, Up
  <2> QED
    BY <1>2, <2>2, <2>3 DEF CreateProfile
<1>3. ASSUME NEW hash \in Hashes, CreateNewNetwork(hash)
      PROVE  ClaimsInv'
  <2>1. UNCHANGED <<kills, restarts, exported>> /\ MayCreate
    BY <1>3 DEF CreateNewNetwork
  <2>2. New \in Ids
    BY <2>1, NewFacts DEF MayCreate
  <2>3. CASE Ended("another") /\ UNCHANGED <<chain, blocks>>
    BY <2>1, <2>3, ClaimsSame DEF Ended, memory, ClaimsInv, Up
  <2>4. CASE ~Clash(BlockZero \o <<New>>) /\ InMemory(hash) /\ firstId' = New
             /\ chain' = (IF blocks THEN chain ELSE New) /\ blocks' = TRUE /\ UNCHANGED <<status, online>>
    <3>1. chain \in {NoId, New}
      BY <1>1, <2>2, <2>4, NetworkClaims
    <3> QED
      BY <1>1, <2>1, <2>2, <2>4, <3>1 DEF InMemory, ClaimsInv, FirstIdOfChain, Up
  <2> QED
    BY <1>3, <2>3, <2>4 DEF CreateNewNetwork
<1>4. ASSUME MakeBlock
      PROVE  ClaimsInv'
  <2>1. /\ UNCHANGED <<kills, restarts>> /\ current # NoId /\ current \in Ids
    BY <1>1, <1>4 DEF MakeBlock, counts
  <2>2. CASE Ended("another") /\ UNCHANGED disk
    BY <2>1, <2>2, ClaimsSame DEF Ended, memory, disk, ClaimsInv, Up
  <2>3. CASE firstId' = current /\ chain' = current /\ blocks' = TRUE
             /\ UNCHANGED <<profile, list, auth, status, loaded, current, started, online>>
    BY <1>1, <2>1, <2>3 DEF ClaimsInv, FirstIdOfChain, Up
  <2> QED
    BY <1>4, <2>2, <2>3 DEF MakeBlock, Approver
<1>5. ASSUME NEW id \in Foreign \cup {NoId}, NEW dialed \in BOOLEAN, Connect(id, dialed)
      PROVE  ClaimsInv'
  <2>1. UNCHANGED <<chain, blocks, kills, restarts>> /\ Up
    BY <1>5 DEF Connect, disk, counts
  <2>2. CASE Ended("noProfile")
    BY <2>1, <2>2, ClaimsSame DEF Ended, memory, ClaimsInv, Up
  <2>3. CASE /\ NoId \in {firstId, id} \/ firstId = id
             /\ firstId' = (IF firstId = NoId THEN id ELSE firstId)
             /\ online' = TRUE /\ UNCHANGED <<status, loaded, current, started>>
    BY <2>1, <2>3 DEF ClaimsInv, FirstIdOfChain, Up
  <2> QED
    BY <1>5, <2>2, <2>3 DEF Connect
<1>6. ASSUME NEW id \in Foreign, ReceiveBlockZero(id)
      PROVE  ClaimsInv'
  <2>1. UNCHANGED <<kills, restarts>> /\ Up /\ id # NoId
    BY <1>1, <1>6 DEF ReceiveBlockZero, counts
  <2>2. CASE Ended("another") /\ UNCHANGED disk
    BY <2>1, <2>2, ClaimsSame DEF Ended, memory, disk, ClaimsInv, Up
  <2>3. CASE ~Clash(<<id>>) /\ firstId' = id /\ chain' = (IF chain = NoId THEN id ELSE chain)
             /\ blocks' = TRUE
             /\ UNCHANGED <<profile, list, auth, status, loaded, current, started, online>>
    <3>1. firstId \in {NoId, id}
      BY <2>1, <2>3, OneClaim
    <3> QED
      BY <2>1, <2>3, <3>1 DEF ClaimsInv, FirstIdOfChain, Up
  <2> QED
    BY <1>6, <2>2, <2>3 DEF ReceiveBlockZero
<1>7. CASE ReceiveBlock
  BY <1>7 DEF ReceiveBlock, memory, counts, ClaimsInv, FirstIdOfChain, Up
<1>8. CASE Restart
  <2>1. /\ UNCHANGED <<chain, blocks, kills>> /\ restarts' = restarts + 1 /\ status' = "up"
        /\ firstId' = NoId /\ started' = FALSE /\ online' = FALSE
    BY <1>8 DEF Restart, disk
  <2>2. restarts' \in Nat /\ restarts' # 0 /\ kills' \in Nat
    BY <2>1 DEF ClaimsInv
  <2>3. /\ {chain', firstId'} \subseteq Ids \cup Foreign \cup {NoId}
        /\ chain' # NoId => blocks'
        /\ blocks' \in BOOLEAN /\ started' \in BOOLEAN /\ online' \in BOOLEAN
    BY <2>1 DEF ClaimsInv
  <2> QED
    BY <2>1, <2>2, <2>3 DEF ClaimsInv, FirstIdOfChain
<1>9. ASSUME NEW hash \in Hashes, Login(hash)
      PROVE  ClaimsInv'
  <2>1. /\ UNCHANGED <<chain, blocks, firstId, online, kills, restarts>>
        /\ started' \in {started, TRUE} /\ (Up' => Up) /\ status' \in {status, "decrypt"}
    BY <1>9 DEF Login, Ended, disk, memory, counts, Up
  <2> QED
    BY <2>1 DEF ClaimsInv, FirstIdOfChain
<1>10. CASE \/ \E hash \in Hashes : KillInCreateProfile(hash) \/ KillInCreateNewNetwork(hash)
            \/ \E a \in Ids : KillInCreateWallet(a)
            \/ \E e \in exported : KillInImportUser(e)
  <2>1. Killed /\ UNCHANGED <<chain, blocks>>
    BY <1>10 DEF KillInCreateProfile, KillInCreateNewNetwork, KillInCreateWallet, KillInImportUser
  <2> QED
    BY <2>1, ClaimsSame DEF Killed, Ended, memory, ClaimsInv, Up
<1>11. CASE \/ \E a \in Ids : CreateWallet(a) \/ ChangeCurrentProfile(a)
            \/ \E e \in exported : ImportUser(e)
            \/ ExportUser \/ WithoutProfile \/ Logout \/ UNCHANGED vars
  <2>1. /\ UNCHANGED <<chain, blocks, started, online, firstId, kills, restarts>>
        /\ status' \in {status, "noProfile", "exit"} /\ (Up' => Up)
    BY <1>11 DEF CreateWallet, ChangeCurrentProfile, ImportUser, ExportUser, WithoutProfile, Logout,
                 Ended, disk, memory, counts, vars, Up
  <2> QED
    BY <2>1, ClaimsSame DEF ClaimsInv
<1> QED
  BY <1>2, <1>3, <1>4, <1>5, <1>6, <1>7, <1>8, <1>9, <1>10, <1>11 DEF Next

LEMMA InitClaims == Init => ClaimsInv
<1> SUFFICES ASSUME Init
             PROVE  ClaimsInv
  OBVIOUS
<1>1. /\ chain = NoId /\ firstId = NoId /\ status = "up" /\ restarts = 0 /\ kills = 0
      /\ blocks \in BOOLEAN /\ started \in BOOLEAN /\ online \in BOOLEAN
  BY DEF Init
<1> QED
  BY <1>1 DEF ClaimsInv, FirstIdOfChain

-----------------------------------------------------------------------------
(* The theorems *)

LEMMA AccountsHold == Spec => [](ProfilesInv /\ ClaimsInv)
<1>1. Init => ProfilesInv /\ ClaimsInv
  BY InitProfiles, InitClaims
<1>2. ProfilesInv /\ ClaimsInv /\ [Next]_vars => (ProfilesInv /\ ClaimsInv)'
  BY NextProfiles, NextClaims
<1> QED
  BY <1>1, <1>2, PTL DEF Spec

\* A login with the hash of a profile that is loaded comes to an end in the list.
LEMMA FoundAgain == ProfilesInv => LoginAgain
<1> SUFFICES ASSUME ProfilesInv, Up, NEW i \in DOMAIN loaded
             PROVE  Known(loaded[i].hash) \/ Ends(loaded[i].hash)
  BY DEF LoginAgain
<1>1. PICK j \in DOMAIN list : list[j] = loaded[i].main
  BY DEF ProfilesInv, InList
<1>2. PICK h \in [Ids -> Hashes \cup {NoHash}] : Agree(h)
  BY DEF ProfilesInv, OneHash
<1>3. loaded[i].main \in Ids /\ loaded[i].hash \in Hashes
  BY Members
<1>4. Tried(loaded[i].hash, list[j])
  <2>1. profile[list[j]].state = "saved" => profile[list[j]].hash = loaded[i].hash
    BY <1>1, <1>2, <1>3 DEF Agree
  <2> QED
    BY <2>1 DEF Tried
<1>5. list \in Seq(Ids)
  BY DEF ProfilesInv, ProfileTypes
<1>6. FirstFacts(loaded[i].hash)
  BY <1>3, <1>5, First
<1>7. FirstTried(loaded[i].hash) # 0
  <2>1. \A k \in DOMAIN list : k # 0
    BY <1>5
  <2> QED
    BY <1>1, <1>4, <1>6, <2>1 DEF FirstFacts
<1> QED
  BY <1>7 DEF Known

\* Whatever the user and the peers do, and wherever the process is killed: the
\* current profile is loaded and its file has what memory has, unless the file was
\* imported (createProfile, createWallet, importUser); whoever is logged in
\* is found again by a login with that hash (load); and until a restart the first
\* id is the one of block 0 (setFirstId).
THEOREM AccountsFit == Spec => []AccountsInv
<1>1. ProfilesInv /\ ClaimsInv => TypeOK
  <2> SUFFICES ASSUME ProfilesInv, ClaimsInv
               PROVE  TypeOK
    OBVIOUS
  <2>1. {None, Torn} \cup SavedProfiles = Saved
    BY DEF Saved, SavedProfiles
  <2>2. \A a \in ToSet(list) : profile[a] # None
    BY DEF ProfilesInv, ProfileTypes, ToSet
  <2>3. exported \subseteq [main : Ids, profile : Saved]
    <3>1. \A e \in Exports : e \in [main : Ids, profile : Saved]
      BY <2>1 DEF Exports
    <3> QED
      BY <3>1 DEF ProfilesInv, ProfileTypes
  <2> QED
    BY <2>1, <2>2, <2>3 DEF TypeOK, ProfilesInv, ProfileTypes, ClaimsInv
<1>2. ProfilesInv /\ ClaimsInv => MemoryIsDisk /\ LoginAgain /\ FirstIdOfChain
  BY FoundAgain DEF ProfilesInv, ClaimsInv
<1>3. ProfilesInv /\ ClaimsInv => AccountsInv
  BY <1>1, <1>2 DEF AccountsInv
<1> QED
  BY <1>3, AccountsHold, PTL

-----------------------------------------------------------------------------
(* What a step does to saved profiles *)

\* A saved profile stays saved, with its hash.
Stays(a) == profile[a].state = "saved" => profile'[a].state = "saved" /\ profile'[a].hash = profile[a].hash

\* The list keeps its beginning.
Continued == list' = list \/ \E x \in Ids : list' = Append(list, x)

\* Wallets are lost only where an export is.
ShrinkOK(a) == Shrinks(a) => {Export(a, profile[a]), Export(a, profile'[a])} \cap exported # {}

Step == /\ \A a \in Ids : ShrinkOK(a)
        /\ kills' = kills => (\A a \in Ids : Stays(a)) /\ Continued

LEMMA SameFiles ==
  ASSUME UNCHANGED <<profile, list>>
  PROVE  Step
<1>1. \A a \in Ids : Stays(a) /\ ShrinkOK(a)
  BY DEF Stays, ShrinkOK, Shrinks
<1> QED
  BY <1>1 DEF Step, Continued

\* One file is written.
LEMMA WrittenFile ==
  ASSUME ProfilesInv, NEW a \in Ids, NEW saved, profile' = [profile EXCEPT ![a] = saved]
  PROVE  profile'[a] = saved /\ \A b \in Ids : b # a => Stays(b) /\ ShrinkOK(b)
<1>1. profile \in [Ids -> {None, Torn} \cup SavedProfiles]
  BY DEF ProfilesInv, ProfileTypes
<1>2. profile'[a] = saved /\ \A b \in Ids : b # a => profile'[b] = profile[b]
  BY <1>1
<1> QED
  BY <1>2 DEF Stays, ShrinkOK, Shrinks

LEMMA NewFileStep ==
  ASSUME ProfilesInv, created < MaxActors, NEW saved, profile' = [profile EXCEPT ![New] = saved],
         kills' = kills => list' = Append(list, New)
  PROVE  Step
<1>1. New \in Ids /\ profile[New].state # "saved"
  BY NewFacts, Files
<1>2. Stays(New) /\ ShrinkOK(New)
  BY <1>1 DEF Stays, ShrinkOK, Shrinks
<1> QED
  BY <1>1, <1>2, WrittenFile DEF Step, Continued

LEMMA WalletStep ==
  ASSUME ProfilesInv, NEW a \in Ids, CreateWallet(a)
  PROVE  Step
<1>1. PICK i, actors : WalletSaved(a, i, actors)
  BY WalletFacts
<1>2. loaded[i].actors \subseteq actors
  BY <1>1 DEF WalletSaved
<1> DEFINE file == Profile(loaded[i].hash, actors)
<1>3. /\ Up /\ i \in DOMAIN loaded /\ loaded[i].main = a
      /\ \A j \in DOMAIN loaded : j < i => loaded[j].main # a
      /\ profile' = [profile EXCEPT ![a] = file] /\ list' = list
  BY <1>1 DEF WalletSaved
<1>4. file.state = "saved" /\ file.hash = loaded[i].hash /\ file.actors = actors
  BY Files
<1> HIDE DEF file
<1>5. profile'[a] = file /\ \A b \in Ids : b # a => Stays(b) /\ ShrinkOK(b)
  BY <1>3, WrittenFile
<1>6. Stays(a)
  <2>1. PICK h \in [Ids -> Hashes \cup {NoHash}] : Agree(h)
    BY DEF ProfilesInv, OneHash
  <2>2. profile[a].state = "saved" => profile[a].hash = loaded[i].hash
    BY <1>3, <2>1 DEF Agree
  <2> QED
    BY <1>4, <1>5, <2>2 DEF Stays
<1>7. ShrinkOK(a)
  <2>1. Mirrored(i)
    BY <1>3 DEF ProfilesInv, MemoryIsDisk, Mirrored
  <2>2. ~\E j \in 1 .. i - 1 : loaded[j].main = a
    <3>1. DOMAIN loaded = 1 .. Len(loaded) /\ Len(loaded) \in Nat
      BY DEF ProfilesInv, ProfileTypes
    <3>2. \A j \in 1 .. i - 1 : j \in DOMAIN loaded /\ j < i
      BY <1>3, <3>1
    <3> QED
      BY <1>3, <3>2
  <2>3. CASE profile[a] = Profile(loaded[i].hash, loaded[i].actors)
    <3>1. profile[a].actors = loaded[i].actors
      BY <2>3, Files
    <3> QED
      BY <1>2, <1>4, <1>5, <3>1 DEF ShrinkOK, Shrinks
  <2>4. CASE Export(a, profile[a]) \in exported
    BY <2>4 DEF ShrinkOK
  <2> QED
    BY <1>3, <2>1, <2>2, <2>3, <2>4 DEF Mirrored
<1> QED
  BY <1>3, <1>5, <1>6, <1>7 DEF Step, Continued

LEMMA ImportStep ==
  ASSUME ProfilesInv, NEW e \in exported, profile' = [profile EXCEPT ![e.main] = e.profile],
         kills' = kills => list' = Append(list, e.main)
  PROVE  Step
<1>1. e \in Exports /\ e.main \in Ids /\ e.profile \in SavedProfiles /\ e = Export(e.main, e.profile)
  BY Members, Files
<1>2. profile'[e.main] = e.profile /\ \A b \in Ids : b # e.main => Stays(b) /\ ShrinkOK(b)
  BY <1>1, WrittenFile
<1>3. Stays(e.main)
  <2>1. PICK h \in [Ids -> Hashes \cup {NoHash}] : Agree(h)
    BY DEF ProfilesInv, OneHash
  <2>2. profile[e.main].state = "saved" => profile[e.main].hash = e.profile.hash
    BY <1>1, <2>1 DEF Agree
  <2>3. e.profile.state = "saved"
    BY <1>1, Files
  <2> QED
    BY <1>2, <2>2, <2>3 DEF Stays
<1>4. ShrinkOK(e.main)
  BY <1>1, <1>2 DEF ShrinkOK
<1> QED
  BY <1>1, <1>2, <1>3, <1>4 DEF Step, Continued

LEMMA TornStep ==
  ASSUME ProfilesInv, NEW a \in Ids, profile' = [profile EXCEPT ![a] = Torn], kills' # kills
  PROVE  Step
<1>1. profile'[a] = Torn /\ \A b \in Ids : b # a => Stays(b) /\ ShrinkOK(b)
  BY WrittenFile
<1>2. ShrinkOK(a)
  BY <1>1, Files DEF ShrinkOK, Shrinks
<1> QED
  BY <1>1, <1>2 DEF Step

LEMMA NextStep == ProfilesInv /\ ClaimsInv /\ [Next]_vars => Step /\ kills' \in {kills, kills + 1}
<1> SUFFICES ASSUME ProfilesInv, ClaimsInv, [Next]_vars
             PROVE  Step /\ kills' \in {kills, kills + 1}
  OBVIOUS
<1>0. kills \in Nat /\ kills + 1 # kills
  BY DEF ClaimsInv
<1>1. ASSUME NEW hash \in Hashes, CreateProfile(hash) \/ CreateNewNetwork(hash)
      PROVE  Step /\ kills' = kills
  <2>1. /\ created < MaxActors /\ kills' = kills /\ list' = Append(list, New)
        /\ profile' = [profile EXCEPT ![New] = Profile(hash, {New})]
    BY <1>1 DEF CreateProfile, CreateNewNetwork, MayCreate, SavedProfile, Listed
  <2> QED
    BY <2>1, NewFileStep
<1>2. ASSUME NEW hash \in Hashes, KillInCreateProfile(hash) \/ KillInCreateNewNetwork(hash)
      PROVE  Step /\ kills' = kills + 1
  <2>1. /\ created < MaxActors /\ kills' = kills + 1
        /\ \E saved \in {Torn, Profile(hash, {New})} : profile' = [profile EXCEPT ![New] = saved]
    BY <1>2 DEF KillInCreateProfile, KillInCreateNewNetwork, MayCreate, SavedProfile, Killed
  <2> QED
    BY <1>0, <2>1, NewFileStep
<1>3. ASSUME NEW e \in exported, ImportUser(e)
      PROVE  Step /\ kills' = kills
  <2>1. /\ profile' = [profile EXCEPT ![e.main] = e.profile] /\ list' = Append(list, e.main)
        /\ kills' = kills
    BY <1>3 DEF ImportUser, Listed, counts
  <2> QED
    BY <2>1, ImportStep
<1>4. ASSUME NEW e \in exported, KillInImportUser(e)
      PROVE  Step /\ kills' = kills + 1
  <2>1. /\ kills' = kills + 1
        /\ \/ profile' = [profile EXCEPT ![e.main] = Torn]
           \/ profile' = [profile EXCEPT ![e.main] = e.profile]
    BY <1>4 DEF KillInImportUser, Killed
  <2>2. e.main \in Ids
    BY Members
  <2> QED
    BY <1>0, <2>1, <2>2, TornStep, ImportStep
<1>5. ASSUME NEW a \in Ids, KillInCreateWallet(a)
      PROVE  Step /\ kills' = kills + 1
  <2>1. kills' = kills + 1 /\ profile' = [profile EXCEPT ![a] = Torn]
    BY <1>5 DEF KillInCreateWallet, Killed
  <2> QED
    BY <1>0, <2>1, TornStep
<1>6. ASSUME NEW a \in Ids, CreateWallet(a)
      PROVE  Step /\ kills' = kills
  BY <1>6, WalletStep DEF CreateWallet
<1>7. CASE \/ \E hash \in Hashes : Login(hash)
           \/ \E a \in Ids : ChangeCurrentProfile(a)
           \/ \E id \in Foreign \cup {NoId}, dialed \in BOOLEAN : Connect(id, dialed)
           \/ \E id \in Foreign : ReceiveBlockZero(id)
           \/ ExportUser \/ WithoutProfile \/ Logout \/ MakeBlock \/ ReceiveBlock \/ Restart
           \/ UNCHANGED vars
  <2>1. UNCHANGED <<profile, list, kills>>
    BY <1>7 DEF Login, ChangeCurrentProfile, Connect, ReceiveBlockZero, ExportUser, WithoutProfile,
                Logout, MakeBlock, ReceiveBlock, Restart, disk, counts, vars
  <2> QED
    BY <2>1, SameFiles
<1> QED
  BY <1>1, <1>2, <1>3, <1>4, <1>5, <1>6, <1>7 DEF Next

\* The first file in the list that a login does not pass over stays the first.
LEMMA FirstLater == (list \in Seq(Ids))' => (\A hash \in Hashes : FirstFacts(hash))'
<1>1. (list \in Seq(Ids) => \A hash \in Hashes : FirstFacts(hash))'
  BY First, PTL
<1> QED
  BY <1>1

LEMMA StillFound ==
  ASSUME ProfilesInv, (list \in Seq(Ids))', \A a \in Ids : Stays(a), Continued,
         NEW hash \in Hashes, Known(hash)
  PROVE  Known(hash)' /\ Found(hash)' = Found(hash)
<1>1. PICK f : f = FirstTried(hash)
  OBVIOUS
<1>2. list \in Seq(Ids)
  BY DEF ProfilesInv, ProfileTypes
<1>3. /\ f \in DOMAIN list /\ Found(hash) = list[f] /\ list[f] \in Ids
      /\ profile[list[f]].state = "saved" /\ profile[list[f]].hash = hash
  BY <1>1, FoundFacts, Files
<1>4. f \in Nat /\ f # 0 /\ DOMAIN list = 1 .. Len(list) /\ Len(list) \in Nat
  BY <1>2, <1>3
<1>5. \A i \in 1 .. f - 1 : i \in DOMAIN list /\ ~Tried(hash, list[i])
  <2>1. \A i \in 1 .. f - 1 : i \in DOMAIN list
    BY <1>3, <1>4
  <2>2. FirstFacts(hash)
    BY <1>2, First
  <2> QED
    BY <1>1, <1>4, <2>1, <2>2 DEF FirstFacts
<1>6. \A i \in DOMAIN list : i \in DOMAIN list' /\ list'[i] = list[i]
  BY <1>2, Appended DEF Continued
<1>7. profile'[list[f]].state = "saved" /\ profile'[list[f]].hash = hash
  BY <1>3 DEF Stays
<1>8. f \in DOMAIN list' /\ list'[f] = list[f]
  BY <1>3, <1>6
<1>9. \A i \in 1 .. f - 1 : ~(profile'[list'[i]].state # "saved" \/ profile'[list'[i]].hash = hash)
  <2>1. ASSUME NEW i \in 1 .. f - 1
        PROVE  ~(profile'[list'[i]].state # "saved" \/ profile'[list'[i]].hash = hash)
    <3>1. list'[i] = list[i] /\ list[i] \in Ids
      BY <1>2, <1>5, <1>6
    <3>2. profile[list[i]].state = "saved" /\ profile[list[i]].hash # hash
      BY <1>5 DEF Tried
    <3> QED
      BY <3>1, <3>2 DEF Stays
  <2> QED
    BY <2>1
<1>10. PICK g : g = FirstTried(hash)'
  OBVIOUS
<1>11. \/ g = 0 /\ \A i \in DOMAIN list' :
                     ~(profile'[list'[i]].state # "saved" \/ profile'[list'[i]].hash = hash)
       \/ /\ g \in DOMAIN list'
          /\ profile'[list'[g]].state # "saved" \/ profile'[list'[g]].hash = hash
          /\ \A i \in 1 .. g - 1 :
               ~(profile'[list'[i]].state # "saved" \/ profile'[list'[i]].hash = hash)
  <2>1. FirstFacts(hash)'
    BY FirstLater
  <2> QED
    BY <1>10, <2>1 DEF FirstFacts, Tried
<1>12. DOMAIN list' \subseteq Nat \ {0}
  <2>1. \A q \in Seq(Ids) : DOMAIN q \subseteq Nat \ {0}
    OBVIOUS
  <2> QED
    BY <2>1
<1>13. g = f
  <2>1. g # 0 /\ g \in DOMAIN list' /\ g \in Nat
    BY <1>7, <1>8, <1>11, <1>12
  <2>2. ~(g < f)
    <3>1. g < f => g \in 1 .. f - 1
      BY <1>4, <2>1
    <3> QED
      BY <1>9, <1>11, <2>1, <3>1
  <2>3. ~(f < g)
    <3>1. f < g => f \in 1 .. g - 1
      BY <1>4, <2>1
    <3> QED
      BY <1>7, <1>8, <1>11, <2>1, <3>1
  <2> QED
    BY <1>4, <2>1, <2>2, <2>3
<1>14. Found(hash)' = list[f]
  BY <1>8, <1>10, <1>13 DEF Found
<1>15. Known(hash)'
  <2>1. profile'[Found(hash)'].state = "saved"
    BY <1>7, <1>14
  <2> QED
    BY <1>4, <1>10, <1>13, <2>1 DEF Known, Ends
<1> QED
  BY <1>3, <1>14, <1>15

\* Only a kill makes a login find another profile, or none (load goes through the
\* list in its order and an actor keeps its hash), and a saved profile loses wallets
\* only to an import or when memory never saw an imported file (createWallet).
THEOREM OnlyKillsTake == Spec => OnlyKillsLose
<1> DEFINE A == /\ \A hash \in Hashes :
                     Known(hash) => (Known(hash)' /\ Found(hash)' = Found(hash)) \/ kills' > kills
                /\ \A a \in Ids :
                     Shrinks(a) => {Export(a, profile[a]), Export(a, profile'[a])} \cap exported # {}
<1>1. ProfilesInv /\ ClaimsInv /\ [Next]_vars => A
  <2> SUFFICES ASSUME ProfilesInv, ClaimsInv, [Next]_vars
               PROVE  A
    OBVIOUS
  <2>1. Step /\ kills' \in {kills, kills + 1} /\ kills \in Nat
    BY NextStep DEF ClaimsInv
  <2>2. \A a \in Ids : Shrinks(a) => {Export(a, profile[a]), Export(a, profile'[a])} \cap exported # {}
    BY <2>1 DEF Step, ShrinkOK
  <2>3. (list \in Seq(Ids))'
    BY NextProfiles DEF ProfilesInv, ProfileTypes
  <2>4. ASSUME NEW hash \in Hashes, Known(hash)
        PROVE  (Known(hash)' /\ Found(hash)' = Found(hash)) \/ kills' > kills
    <3>1. CASE kills' = kills
      <4>1. (\A a \in Ids : Stays(a)) /\ Continued
        BY <2>1, <3>1 DEF Step
      <4> QED
        BY <2>3, <2>4, <4>1, StillFound
    <3>2. CASE kills' = kills + 1
      BY <2>1, <3>2
    <3> QED
      BY <2>1, <3>1, <3>2
  <2> QED
    BY <2>2, <2>4
<1>2. (ProfilesInv /\ ClaimsInv) /\ [Next]_vars => [A]_vars
  BY <1>1
<1>3. [](ProfilesInv /\ ClaimsInv) /\ [][Next]_vars => [][A]_vars
  BY <1>2, PTL
<1>4. ([][A]_vars) <=> OnlyKillsLose
  BY DEF OnlyKillsLose
<1> QED
  BY <1>3, <1>4, AccountsHold, PTL DEF Spec
=============================================================================
