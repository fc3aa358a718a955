-------------------------- MODULE Blockchain_proofs --------------------------
(***************************************************************************)
(* The chain of one node, for every SECTION_SIZE, every interval between   *)
(* genesis blocks and any number of transactions, kills and restarts.      *)
(***************************************************************************)
EXTENDS BlockchainLedger, BlockchainCrash, Search, BlockStore_proofs, SequenceTheorems

\* A store with some largest identifier.
Typed(s) == \E b \in Nat : StoreTypeOK(s, b)

\* What a kill can leave of a block this node made: one that has its signature is
\* complete.
BlockOK(b) ==
  /\ b = [type |-> b.type, txs |-> b.txs, prev |-> b.prev, hash |-> b.hash,
          signers |-> b.signers, rows |-> b.rows, prevGen |-> b.prevGen]
  /\ b.type \in FileTypes
  /\ b.signers \subseteq {Me}
  /\ b.type = "torn" => b.signers = {}
  /\ b.type = "data" /\ b.signers # {} => b.txs # <<>>

\* The genesis block below i.
Below(s, i) == Top({g \in Ids(s) : g < i /\ s.files[g].type = "genesis"})

Linked(s, i) ==
  /\ s.files[i].type # "torn" => s.files[i].prev = s.files[i - 1].hash
  /\ s.files[i].type = "genesis" => s.files[i].prevGen = s.files[Below(s, i)].hash

\* The files of s are a chain with the identifiers 0 .. k.  Only its last one may
\* be unreadable.
ChainOf(s, k) ==
  /\ Typed(s)
  /\ FilesInSections(s)
  /\ Ids(s) = 0 .. k
  /\ s.files[0] = Genesis0
  /\ \A i \in 0 .. k : BlockOK(s.files[i])
  /\ \A i \in 0 .. k - 1 : s.files[i].type # "torn"
  /\ \A i \in 1 .. k : Linked(s, i)

\* The range of the scans covers the chain, or block 0 only: a restart on an
\* empty top section.
Covered(s, k) == s.firstSavedId = 0 /\ s.lastSavedId = k
Stuck(s) == s.firstSavedId = 0 /\ s.lastSavedId = 0
Whole(s) == \E k \in Nat : ChainOf(s, k) /\ Covered(s, k)
Usable(s) == \E k \in Nat : ChainOf(s, k) /\ (Covered(s, k) \/ Stuck(s))

\* No real block of s is missing or different in t.
Keeps(s, t) ==
  \A i \in Ids(s) : s.files[i].type \in {"data", "genesis"} =>
    i \in Ids(t) /\ t.files[i] = s.files[i]

-----------------------------------------------------------------------------
(* Stores *)

LEMMA TypedMore ==
  ASSUME NEW s, NEW b \in Nat, StoreTypeOK(s, b), NEW c \in Nat, b <= c
  PROVE  StoreTypeOK(s, c)
<1>1. 0 .. b \subseteq 0 .. c /\ NoId .. b \subseteq NoId .. c
  BY DEF NoId
<1> QED
  BY <1>1 DEF StoreTypeOK

LEMMA InsertTyped ==
  ASSUME NEW s, Typed(s), FilesInSections(s), NEW id \in Nat, NEW blk, blk.type \in FileTypes
  PROVE  LET t == Insert(s, id, blk) IN
           /\ Typed(t) /\ FilesInSections(t)
           /\ Ids(t) = Ids(s) \cup {id}
           /\ t.files[id] = blk /\ \A i \in Ids(s) \ {id} : t.files[i] = s.files[i]
           /\ s.firstSavedId = 0 => t.firstSavedId = 0
           /\ id > s.lastSavedId => t.lastSavedId = id
<1> DEFINE t == Insert(s, id, blk)
<1>1. PICK b \in Nat : StoreTypeOK(s, b)
  BY DEF Typed
<1>2. PICK c \in Nat : b <= c /\ id <= c
  <2>1. b + id \in Nat /\ b <= b + id /\ id <= b + id
    OBVIOUS
  <2> QED
    BY <2>1
<1>3. StoreTypeOK(s, c) /\ id \in 0 .. c
  BY <1>1, <1>2, TypedMore
<1>4. StoreTypeOK(t, c) /\ FilesInSections(t)
  BY <1>3, InsertFacts
<1>5. /\ Ids(t) = Ids(s) \cup {id}
      /\ t.files[id] = blk /\ \A i \in Ids(s) \ {id} : t.files[i] = s.files[i]
      /\ s.firstSavedId = 0 => t.firstSavedId = 0
      /\ id > s.lastSavedId => t.lastSavedId = id
  BY DEF Insert, Ids, NoId
<1> QED
  BY <1>4, <1>5 DEF Typed

LEMMA TouchTyped ==
  ASSUME NEW s, Typed(s), FilesInSections(s), NEW c \in Nat, NEW S \in SUBSET (NoId .. c)
  PROVE  LET t == Touch(s, S) IN
           /\ Typed(t) /\ FilesInSections(t)
           /\ t.files = s.files /\ Ids(t) = Ids(s)
           /\ t.firstSavedId = s.firstSavedId /\ t.lastSavedId = s.lastSavedId
<1>1. PICK b \in Nat : StoreTypeOK(s, b)
  BY DEF Typed
<1>2. b + c \in Nat /\ b <= b + c /\ NoId .. c \subseteq NoId .. b + c
  BY DEF NoId
<1>3. StoreTypeOK(s, b + c) /\ S \in SUBSET (NoId .. b + c)
  BY <1>1, <1>2, TypedMore
<1> QED
  BY <1>2, <1>3, TouchFacts DEF Typed

\* A kill in the middle of add.
LEMMA OnDiskTyped ==
  ASSUME NEW s, Typed(s), FilesInSections(s), NEW id \in Nat, NEW part, part.type \in FileTypes
  PROVE  LET t == OnDisk(s, id, part) IN
           /\ Typed(t) /\ FilesInSections(t)
           /\ Ids(t) = Ids(s) \cup {id}
           /\ t.files[id] = part /\ \A i \in Ids(s) \ {id} : t.files[i] = s.files[i]
<1> DEFINE t == OnDisk(s, id, part)
           files == [i \in Ids(s) \cup {id} |-> IF i = id THEN part ELSE s.files[i]]
<1>1. PICK b \in Nat : StoreTypeOK(s, b)
  BY DEF Typed
<1>2. b + id \in Nat /\ id \in 0 .. b + id /\ StoreTypeOK(s, b + id)
  <2>1. b + id \in Nat /\ b <= b + id /\ id \in 0 .. b + id
    OBVIOUS
  <2> QED
    BY <1>1, <2>1, TypedMore
<1>3. t = [files |-> files, sections |-> s.sections \cup {Section(id)}, records |-> s.records,
           firstSavedId |-> s.firstSavedId, lastSavedId |-> s.lastSavedId]
  <2>1. s = [files |-> s.files, sections |-> s.sections, records |-> s.records,
             firstSavedId |-> s.firstSavedId, lastSavedId |-> s.lastSavedId]
    BY <1>1 DEF StoreTypeOK
  <2>2. t = [s EXCEPT !.files = files, !.sections = @ \cup {Section(id)}]
    BY DEF OnDisk
  <2> HIDE DEF t, files
  <2> QED
    BY <2>1, <2>2
<1> HIDE DEF t
<1>4. /\ Ids(t) = Ids(s) \cup {id}
      /\ t.files[id] = part /\ \A i \in Ids(s) \ {id} : t.files[i] = s.files[i]
  BY <1>3 DEF Ids
<1> HIDE DEF files
<1>5. Section(id) \in {Section(i) : i \in 0 .. b + id}
  BY <1>2
<1>6. StoreTypeOK(t, b + id)
  BY <1>2, <1>3, <1>4, <1>5 DEF StoreTypeOK
<1>7. FilesInSections(t)
  BY <1>3, <1>4 DEF FilesInSections
<1> QED
  BY <1>2, <1>4, <1>6, <1>7 DEF Typed, t

\* removeById above block 0 of a store whose range starts there.
LEMMA RemoveTyped ==
  ASSUME NEW s, Typed(s), FilesInSections(s), s.firstSavedId = 0, NEW id \in Nat
  PROVE  LET t == RemoveById(s, id) IN
           /\ Typed(t) /\ FilesInSections(t)
           /\ Ids(t) = Ids(s) \ {i \in Ids(s) : id <= i /\ i <= s.lastSavedId}
           /\ \A i \in Ids(t) : t.files[i] = s.files[i]
           /\ t.firstSavedId = 0 /\ t.lastSavedId = id - 1
<1> DEFINE gone == {i \in Ids(s) : id <= i /\ i <= s.lastSavedId}
           kept == Restrict(s.files, Ids(s) \ gone)
           touched == {Section(i) : i \in id .. s.lastSavedId}
           t == RemoveById(s, id)
<1>1. PICK b \in Nat : StoreTypeOK(s, b)
  BY DEF Typed
<1>2. StoreTypeOK(s, b + id) /\ b + id \in Nat /\ id \in 0 .. b + id
  <2>1. b + id \in Nat /\ b <= b + id /\ id \in 0 .. b + id
    OBVIOUS
  <2> QED
    BY <1>1, <2>1, TypedMore
<1>3. StoreTypeOK(t, b + id) /\ FilesInSections(t)
  BY <1>2, RemoveByIdFacts
<1>4. t = RemoveRange(s, id)
  BY DEF RemoveById
<1>5. s = [files |-> s.files, sections |-> s.sections, records |-> s.records,
           firstSavedId |-> s.firstSavedId, lastSavedId |-> s.lastSavedId]
  BY <1>1 DEF StoreTypeOK
<1>6. t = [s EXCEPT !.files = kept, !.sections = @ \cup touched,
                    !.records = @ - Cardinality(gone), !.lastSavedId = id - 1]
  BY <1>4 DEF RemoveRange
<1>7. DOMAIN kept = Ids(s) \ gone /\ \A i \in DOMAIN kept : kept[i] = s.files[i]
  BY DEF Restrict
<1> HIDE DEF t, kept, gone, touched
<1>8. t.files = kept /\ t.firstSavedId = 0 /\ t.lastSavedId = id - 1
  BY <1>5, <1>6
<1> QED
  BY <1>2, <1>3, <1>7, <1>8 DEF Typed, Ids, t, gone

-----------------------------------------------------------------------------
(* Chains *)

LEMMA TopFacts ==
  ASSUME NEW S \in SUBSET Nat, NEW k \in S, \A i \in S : i <= k
  PROVE  Top(S) = k
<1>1. S # {} /\ S \in SUBSET Int /\ k \in Int
  OBVIOUS
<1>2. Max(S) \in S /\ \A x \in S : x <= Max(S)
  BY <1>1, MaxInt
<1>3. Max(S) = k
  <2>1. Max(S) <= k /\ k <= Max(S) /\ Max(S) \in Nat
    BY <1>2
  <2> QED
    BY <2>1
<1> QED
  BY <1>1, <1>3 DEF Top

\* There is a genesis block below each other block.
LEMMA BelowFacts ==
  ASSUME NEW s, Ids(s) \subseteq Nat, 0 \in Ids(s), s.files[0].type = "genesis",
         NEW i \in Nat, i # 0
  PROVE  /\ Below(s, i) \in Ids(s) /\ Below(s, i) < i
         /\ s.files[Below(s, i)].type = "genesis"
         /\ \A g \in Ids(s) : g < i /\ s.files[g].type = "genesis" => g <= Below(s, i)
<1> DEFINE S == {g \in Ids(s) : g < i /\ s.files[g].type = "genesis"}
<1>1. S \in SUBSET Int /\ 0 \in S /\ i \in Int /\ \A x \in S : x <= i
  OBVIOUS
<1>2. Below(s, i) = Top(S)
  BY DEF Below
<1> HIDE DEF S
<1>3. Max(S) \in S /\ \A x \in S : x <= Max(S)
  BY <1>1, MaxInt
<1>4. Below(s, i) = Max(S)
  BY <1>1, <1>2 DEF Top
<1> QED
  BY <1>3, <1>4 DEF S

\* Files that stay make the same links.
LEMMA LinkedKept ==
  ASSUME NEW s, NEW t, NEW k \in Nat, NEW i \in 1 .. k, 0 .. k \subseteq Ids(s), 0 .. k \subseteq Ids(t),
         Ids(s) \subseteq Nat, Ids(t) \subseteq Nat,
         \A j \in 0 .. k : t.files[j] = s.files[j],
         s.files[0].type = "genesis",
         Linked(s, i)
  PROVE  Linked(t, i)
<1>1. {g \in Ids(s) : g < i /\ s.files[g].type = "genesis"}
        = {g \in Ids(t) : g < i /\ t.files[g].type = "genesis"}
  <2>1. \A g \in Nat : g < i => g \in 0 .. k
    OBVIOUS
  <2> QED
    BY <2>1
<1>2. Below(s, i) = Below(t, i)
  BY <1>1 DEF Below
<1>3. t.files[i] = s.files[i] /\ t.files[i - 1] = s.files[i - 1]
  OBVIOUS
<1>4. Below(s, i) \in 0 .. k
  BY BelowFacts
<1> QED
  BY <1>2, <1>3, <1>4 DEF Linked

LEMMA ChainFacts ==
  ASSUME NEW s, NEW k \in Nat, ChainOf(s, k)
  PROVE  /\ Ids(s) = 0 .. k /\ Ids(s) \subseteq Nat /\ 0 \in Ids(s)
         /\ s.files[0].type = "genesis" /\ s.files[0].type # "torn" /\ s.files[0].type # "dummy"
  BY DEF ChainOf, Genesis0, NewBlock

\* One more block on a chain.
LEMMA Extended ==
  ASSUME NEW s, NEW k \in Nat, ChainOf(s, k), s.files[k].type # "torn",
         NEW t, Typed(t), FilesInSections(t), Ids(t) = Ids(s) \cup {k + 1},
         \A i \in Ids(s) : t.files[i] = s.files[i],
         NEW b, t.files[k + 1] = b, BlockOK(b),
         b.type # "torn" => b.prev = s.files[k].hash,
         b.type = "genesis" => b.prevGen = s.files[Below(s, k + 1)].hash
  PROVE  ChainOf(t, k + 1) /\ Keeps(s, t)
<1>1. Ids(s) = 0 .. k /\ Ids(s) \subseteq Nat /\ 0 \in Ids(s) /\ s.files[0].type = "genesis"
  BY ChainFacts
<1>2. Ids(t) = 0 .. k + 1
  BY <1>1
<1>3. \A i \in 0 .. k + 1 : BlockOK(t.files[i])
  BY <1>1 DEF ChainOf
<1>4. \A i \in 0 .. k : t.files[i].type # "torn"
  BY <1>1 DEF ChainOf
<1>5. ASSUME NEW i \in 1 .. k
      PROVE  Linked(t, i)
  BY <1>1, <1>2, LinkedKept DEF ChainOf
<1>6. Linked(t, k + 1)
  <2>1. Below(s, k + 1) = Below(t, k + 1)
    <3>1. {g \in Ids(s) : g < k + 1 /\ s.files[g].type = "genesis"}
            = {g \in Ids(t) : g < k + 1 /\ t.files[g].type = "genesis"}
      BY <1>1, <1>2
    <3> QED
      BY <3>1 DEF Below
  <2>2. Below(s, k + 1) \in Ids(s)
    BY <1>1, BelowFacts
  <2>3. (k + 1) - 1 = k /\ k \in Ids(s)
    BY <1>1
  <2> QED
    BY <2>1, <2>2, <2>3 DEF Linked
<1>7. \A i \in 1 .. k + 1 : Linked(t, i)
  <2>1. \A i \in 1 .. k + 1 : i \in 1 .. k \/ i = k + 1
    OBVIOUS
  <2> QED
    BY <1>5, <1>6, <2>1
<1>8. t.files[0] = Genesis0 /\ Keeps(s, t)
  BY <1>1 DEF ChainOf, Keeps
<1>9. (k + 1) - 1 = k
  OBVIOUS
<1> QED
  BY <1>2, <1>3, <1>4, <1>7, <1>8, <1>9 DEF ChainOf

\* Some blocks off the end of a chain, or none.
LEMMA Shortened ==
  ASSUME NEW s, NEW k \in Nat, ChainOf(s, k), NEW d \in 0 .. k,
         NEW t, Typed(t), FilesInSections(t), Ids(t) = 0 .. d,
         \A i \in 0 .. d : t.files[i] = s.files[i]
  PROVE  ChainOf(t, d)
<1>1. Ids(s) = 0 .. k /\ Ids(s) \subseteq Nat /\ 0 \in Ids(s) /\ s.files[0].type = "genesis"
  BY ChainFacts
<1>2. 0 .. d \subseteq 0 .. k /\ 0 .. d - 1 \subseteq 0 .. k - 1 /\ 1 .. d \subseteq 1 .. k
  OBVIOUS
<1>3. ASSUME NEW i \in 1 .. d
      PROVE  Linked(t, i)
  BY <1>1, <1>2, LinkedKept DEF ChainOf
<1>4. \A i \in 0 .. d - 1 : t.files[i].type # "torn"
  BY <1>2 DEF ChainOf
<1> QED
  BY <1>2, <1>3, <1>4 DEF ChainOf

\* The constructor finds the lower end always, and the upper end unless the
\* highest directory is empty.
LEMMA ReloadedChain ==
  ASSUME NEW s, NEW k \in Nat, ChainOf(s, k)
  PROVE  LET t == Reload(s) IN
           /\ ChainOf(t, k) /\ t.files = s.files /\ Ids(t) = Ids(s)
           /\ Covered(t, k) \/ Stuck(t)
           /\ ~TopSectionEmpty(s) => Covered(t, k)
<1> DEFINE t == Reload(s)
<1>0. Ids(s) = 0 .. k /\ 0 \in Ids(s)
  BY ChainFacts
<1>1. PICK b \in Nat : StoreTypeOK(s, b)
  BY DEF ChainOf, Typed
<1>2. FilesInSections(s)
  BY DEF ChainOf
<1>3. StoreTypeOK(t, b) /\ FilesInSections(t) /\ Ids(t) = Ids(s)
  BY <1>1, <1>2, ReloadFacts
<1>4. t.files = s.files /\ t.firstSavedId = LoadFirstId(s) /\ t.lastSavedId = LoadLastId(s)
  <2> DEFINE c == Cardinality(s.sections) * Cardinality(s.sections)
  <2>1. s = [files |-> s.files, sections |-> s.sections, records |-> s.records,
             firstSavedId |-> s.firstSavedId, lastSavedId |-> s.lastSavedId]
    BY <1>1 DEF StoreTypeOK
  <2>2. t = [s EXCEPT !.records = c, !.firstSavedId = LoadFirstId(s),
                      !.lastSavedId = LoadLastId(s)]
    BY DEF Reload
  <2> HIDE DEF t, c
  <2> QED
    BY <2>1, <2>2
<1> HIDE DEF t
<1>5. t.firstSavedId = 0
  <2>1. LoadFirstId(s) \in 0 .. b /\ \A i \in Ids(s) : LoadFirstId(s) <= i
    BY <1>1, <1>2, LoadFirstIdFacts
  <2> QED
    BY <1>0, <1>4, <2>1
<1>6. t.lastSavedId \in 0 .. k
  <2>1. CASE s.sections = {} \/ InSection(s, Max(s.sections)) = {}
    BY <1>4, <2>1 DEF LoadLastId
  <2>2. CASE ~ (s.sections = {} \/ InSection(s, Max(s.sections)) = {})
    BY <1>0, <1>1, <1>4, <2>2, SectionExtrema DEF LoadLastId, InSection
  <2> QED
    BY <2>1, <2>2
<1>7. ~TopSectionEmpty(s) => t.lastSavedId = k
  <2>1. ~TopSectionEmpty(s) => k <= LoadLastId(s)
    BY <1>0, <1>1, <1>2, LoadLastIdFacts
  <2> QED
    BY <1>4, <1>6, <2>1
<1>8. TopSectionEmpty(s) => t.lastSavedId = 0
  BY <1>4 DEF TopSectionEmpty, LoadLastId
<1>9. ChainOf(t, k)
  <2>1. Typed(t) /\ k \in 0 .. k
    BY <1>3 DEF Typed
  <2> QED
    BY <1>0, <1>3, <1>4, <2>1, Shortened
<1> QED
  BY <1>3, <1>4, <1>5, <1>7, <1>8, <1>9 DEF Covered, Stuck, t

-----------------------------------------------------------------------------
(* The next block *)

\* b is the block that comes next on the chain s up to k.
Follows(s, k, b) ==
  /\ Index(b) = k + 1 /\ s.files[k].type # "torn"
  /\ b.prev = s.files[k].hash

\* The index of b is taken, by a block it can neither replace nor be merged with.
Harmless(s, b) ==
  /\ Index(b) \in Ids(s) /\ Index(b) \in Nat \ {0}
  /\ LET e == s.files[Index(b)]
     IN \/ e.type # b.type
        \/ e.signers = {}
        \/ b.prev = e.prev /\ (b.type = "data" => e.txs # <<>>)

LEMMA VisibleFacts ==
  ASSUME NEW s, NEW k \in Nat, ChainOf(s, k)
  PROVE  /\ Covered(s, k) /\ s.files[k].type # "torn" => Visible(s) = 0 .. k
         /\ Covered(s, k) /\ s.files[k].type = "torn" => k # 0 /\ Visible(s) = 0 .. k - 1
         /\ Stuck(s) => Visible(s) = {0}
<1>1. Ids(s) = 0 .. k /\ s.files[0].type # "torn"
  BY ChainFacts
<1>2. \A i \in 0 .. k - 1 : s.files[i].type # "torn"
  BY DEF ChainOf
<1>3. Covered(s, k) /\ s.files[k].type # "torn" => Visible(s) = 0 .. k
  <2>1. \A i \in 0 .. k : i \in 0 .. k - 1 \/ i = k
    OBVIOUS
  <2> QED
    BY <1>1, <1>2, <2>1 DEF Visible, Covered
<1>4. Covered(s, k) /\ s.files[k].type = "torn" => k # 0 /\ Visible(s) = 0 .. k - 1
  <2>1. \A i \in 0 .. k : i \in 0 .. k - 1 \/ i = k
    OBVIOUS
  <2> QED
    BY <1>1, <1>2, <2>1 DEF Visible, Covered
<1>5. Stuck(s) => Visible(s) = {0}
  BY <1>1 DEF Visible, Stuck
<1> QED
  BY <1>3, <1>4, <1>5

\* A set of identifiers from 0 on with a real block has a highest real one.
LEMMA RealTop ==
  ASSUME NEW s, NEW k \in Nat, NEW m \in 0 .. k, ChainOf(s, k), Visible(s) = 0 .. m
  PROVE  /\ LastBlockId(s) = m
         /\ LastRealId(s) \in 0 .. m /\ s.files[LastRealId(s)].type # "dummy"
         /\ \A i \in LastRealId(s) + 1 .. m : s.files[i].type = "dummy"
         /\ LastGenesisId(s) = Below(s, m + 1)
<1> DEFINE R == {i \in Visible(s) : s.files[i].type # "dummy"}
<1>1. Ids(s) = 0 .. k /\ s.files[0].type # "dummy" /\ s.files[0].type = "genesis"
  BY ChainFacts
<1>2. LastBlockId(s) = m
  <2>1. (0 .. m) \in SUBSET Nat /\ m \in 0 .. m /\ \A i \in 0 .. m : i <= m
    OBVIOUS
  <2> QED
    BY <2>1, TopFacts DEF LastBlockId
<1>3. R \in SUBSET Int /\ 0 \in R /\ m \in Int /\ \A x \in R : x <= m
  BY <1>1
<1>4. LastRealId(s) = Max(R)
  BY <1>3 DEF LastRealId, Top
<1>5. Max(R) \in R /\ \A x \in R : x <= Max(R)
  <2> HIDE DEF R
  <2> QED
    BY <1>3, MaxInt
<1>6. ASSUME NEW i \in LastRealId(s) + 1 .. m
      PROVE  s.files[i].type = "dummy"
  <2>1. i \in 0 .. m /\ ~ (i <= Max(R))
    BY <1>4, <1>5
  <2> QED
    BY <1>5, <2>1
<1>7. LastGenesisId(s) = Below(s, m + 1)
  <2>1. {i \in Visible(s) : s.files[i].type = "genesis"}
          = {g \in Ids(s) : g < m + 1 /\ s.files[g].type = "genesis"}
    BY <1>1
  <2> QED
    BY <2>1 DEF LastGenesisId, Below
<1> QED
  BY <1>2, <1>4, <1>5, <1>6, <1>7

LEMMA NewBlockFacts ==
  ASSUME NEW id, NEW type \in FileTypes \ {"torn"}, NEW txs, NEW prev
  PROVE  LET b == NewBlock(id, type, txs, prev, Me) IN
           /\ Index(b) = id /\ b.signers = {Me}
           /\ b.type = type /\ b.prev = prev /\ b.txs = txs
           /\ (type = "data" => txs # <<>>) => BlockOK(b)
  BY DEF NewBlock, BlockOK, Index, Hash

\* What makeBlock builds when nothing is pending.
LEMMA DummyBlockFacts ==
  ASSUME NEW s, NEW k \in Nat, ChainOf(s, k), Covered(s, k) \/ Stuck(s)
  PROVE  LET b == DummyBlock(s) IN
           /\ BlockOK(b) /\ b.type = "dummy" /\ b.signers = {Me}
           /\ (Follows(s, k, b) /\ Covered(s, k)) \/ Harmless(s, b)
           /\ Covered(s, k) /\ s.files[k].type # "torn" => Follows(s, k, b)
<1> DEFINE b == DummyBlock(s)
           l == LastBlockId(s)
<1>0. Ids(s) = 0 .. k
  BY ChainFacts
<1>1. /\ BlockOK(b) /\ b.type = "dummy" /\ b.signers = {Me}
      /\ Index(b) = NextIndex(s, l) /\ b.prev = PrevHash(s, l)
  <2>1. "dummy" \in FileTypes \ {"torn"} /\ "dummy" # "data"
    BY DEF FileTypes, ReadableTypes
  <2> DEFINE id == NextIndex(s, l)
             prev == PrevHash(s, l)
  <2>2. b = NewBlock(id, "dummy", <<>>, prev, Me)
    BY DEF DummyBlock
  <2> HIDE DEF b, id, prev
  <2>3. /\ Index(b) = id /\ b.signers = {Me} /\ b.type = "dummy" /\ b.prev = prev
        /\ BlockOK(b)
    BY <2>1, <2>2, NewBlockFacts
  <2> QED
    BY <2>3 DEF id, prev
<1>2. ASSUME NEW m \in 0 .. k, Visible(s) = 0 .. m
      PROVE  Index(b) = m + 1 /\ b.prev = s.files[m].hash
  <2>1. l = m
    BY <1>2, RealTop
  <2> QED
    BY <1>1, <1>2, <2>1 DEF NextIndex, PrevHash
<1> HIDE DEF b, l
<1>3. CASE Covered(s, k) /\ s.files[k].type # "torn"
  <2>1. Follows(s, k, b)
    BY <1>2, <1>3, VisibleFacts DEF Follows
  <2> QED
    BY <1>1, <1>3, <2>1 DEF b
<1>4. CASE Covered(s, k) /\ s.files[k].type = "torn"
  <2>1. k - 1 \in 0 .. k /\ Visible(s) = 0 .. k - 1
    BY <1>4, VisibleFacts
  <2>2. Index(b) = k /\ k # 0
    BY <1>2, <1>4, <2>1, VisibleFacts
  <2>3. Harmless(s, b)
    BY <1>0, <1>1, <1>4, <2>2 DEF Harmless
  <2> QED
    BY <1>1, <1>4, <2>3 DEF b
<1>5. CASE Stuck(s) /\ ~Covered(s, k)
  <2>1. k # 0
    BY <1>5 DEF Stuck, Covered
  <2>2. Visible(s) = 0 .. 0
    <3>1. 0 .. 0 = {0}
      OBVIOUS
    <3> QED
      BY <1>5, <3>1, VisibleFacts
  <2>3. Index(b) = 1 /\ b.prev = s.files[0].hash
    BY <1>2, <2>2
  <2>4. s.files[1].type # "torn" => s.files[1].prev = s.files[0].hash
    <3>1. 1 \in 1 .. k /\ 1 - 1 = 0
      BY <2>1
    <3> QED
      BY <3>1 DEF ChainOf, Linked
  <2>5. Harmless(s, b)
    BY <1>0, <1>1, <2>1, <2>3, <2>4 DEF Harmless
  <2> QED
    BY <1>1, <1>5, <2>5 DEF b
<1> QED
  BY <1>3, <1>4, <1>5

\* What makeBlock packs the pending transactions into, once the dummy blocks are
\* gone.
LEMMA DataBlockFacts ==
  ASSUME NEW s, NEW k \in Nat, ChainOf(s, k),
         \/ Covered(s, k) /\ s.files[k].type # "dummy"
         \/ Stuck(s)
  PROVE  LET b == DataBlock(s) IN
           /\ b.type = "data" /\ b.signers = {Me} /\ b.txs = pendingTxs
           /\ pendingTxs # <<>> => BlockOK(b)
           /\ (Follows(s, k, b) /\ Covered(s, k)) \/ Harmless(s, b)
           /\ Covered(s, k) /\ s.files[k].type # "torn" => Follows(s, k, b)
<1> DEFINE b == DataBlock(s)
           l == LastRealId(s)
<1>0. Ids(s) = 0 .. k
  BY ChainFacts
<1>1. /\ b.type = "data" /\ b.signers = {Me} /\ b.txs = pendingTxs
      /\ pendingTxs # <<>> => BlockOK(b)
      /\ Index(b) = NextIndex(s, l) /\ b.prev = PrevHash(s, l)
  <2>1. "data" \in FileTypes \ {"torn"}
    BY DEF FileTypes, ReadableTypes
  <2> QED
    BY <2>1, NewBlockFacts DEF DataBlock
<1>2. ASSUME NEW m \in 0 .. k, Visible(s) = 0 .. m
      PROVE  /\ Index(b) = l + 1 /\ b.prev = s.files[l].hash
             /\ l \in 0 .. m /\ s.files[l].type # "dummy"
             /\ \A i \in l + 1 .. m : s.files[i].type = "dummy"
  <2>1. /\ l \in 0 .. m /\ s.files[l].type # "dummy"
        /\ \A i \in l + 1 .. m : s.files[i].type = "dummy"
    BY <1>2, RealTop
  <2> HIDE DEF l
  <2> QED
    BY <1>1, <1>2, <2>1 DEF NextIndex, PrevHash
<1> HIDE DEF b, l
<1>3. CASE Covered(s, k) /\ s.files[k].type # "torn" /\ s.files[k].type # "dummy"
  <2>1. Visible(s) = 0 .. k /\ k \in 0 .. k
    BY <1>3, VisibleFacts
  <2>2. l = k
    <3>1. l \in 0 .. k /\ \A i \in l + 1 .. k : s.files[i].type = "dummy"
      BY <1>2, <2>1
    <3>2. ~ (k \in l + 1 .. k)
      BY <1>3, <3>1
    <3> QED
      BY <3>1, <3>2
  <2>3. Follows(s, k, b)
    BY <1>2, <1>3, <2>1, <2>2 DEF Follows
  <2> QED
    BY <1>1, <1>3, <2>3 DEF b
<1>4. CASE Covered(s, k) /\ s.files[k].type = "torn"
  <2>1. k - 1 \in 0 .. k /\ k # 0 /\ Visible(s) = 0 .. k - 1
    BY <1>4, VisibleFacts
  <2>2. /\ Index(b) = l + 1 /\ l \in 0 .. k - 1
        /\ \A i \in l + 1 .. k - 1 : s.files[i].type = "dummy"
    BY <1>2, <2>1
  <2>3. l + 1 \in 0 .. k /\ l + 1 # 0 /\ (l + 1 \in l + 1 .. k - 1 \/ l + 1 = k)
    BY <2>2
  <2>4. s.files[Index(b)].type # "data"
    BY <1>4, <2>2, <2>3
  <2>5. Harmless(s, b)
    BY <1>0, <1>1, <2>2, <2>3, <2>4 DEF Harmless
  <2> QED
    BY <1>1, <1>4, <2>5 DEF b
<1>5. CASE Stuck(s) /\ ~Covered(s, k)
  <2>1. k # 0
    BY <1>5 DEF Stuck, Covered
  <2>2. Visible(s) = 0 .. 0
    <3>1. 0 .. 0 = {0}
      OBVIOUS
    <3> QED
      BY <1>5, <3>1, VisibleFacts
  <2>3. Index(b) = 1 /\ b.prev = s.files[0].hash
    <3>1. l \in 0 .. 0 /\ Index(b) = l + 1 /\ b.prev = s.files[l].hash
      BY <1>2, <2>2
    <3> QED
      BY <3>1
  <2>4. s.files[1].type # "torn" => s.files[1].prev = s.files[0].hash
    <3>1. 1 \in 1 .. k /\ 1 - 1 = 0
      BY <2>1
    <3> QED
      BY <3>1 DEF ChainOf, Linked
  <2>5. 1 \in 0 .. k
    BY <2>1
  <2>6. s.files[1].type = "data" /\ s.files[1].signers # {} => s.files[1].txs # <<>>
    BY <2>5 DEF ChainOf, BlockOK
  <2>7. Harmless(s, b)
    BY <1>0, <1>1, <2>3, <2>4, <2>5, <2>6 DEF Harmless
  <2> QED
    BY <1>1, <1>5, <2>7 DEF b
<1>6. CASE Stuck(s) /\ Covered(s, k)
  <2>1. k = 0 /\ s.files[k].type # "torn" /\ s.files[k].type # "dummy"
    BY <1>6, ChainFacts DEF Stuck, Covered
  <2> QED
    BY <1>3, <1>6, <2>1
<1> QED
  BY <1>3, <1>4, <1>5, <1>6

\* removeDummyBlocks leaves a chain that ends in a real or an unreadable block.
LEMMA BareFacts ==
  ASSUME NEW s, NEW k \in Nat, ChainOf(s, k), Covered(s, k) \/ Stuck(s)
  PROVE  LET t == RemoveDummyBlocks(s) IN
           \E d \in 0 .. k :
             /\ ChainOf(t, d) /\ Keeps(s, t)
             /\ \A i \in 0 .. d : t.files[i] = s.files[i]
             /\ \A i \in d + 1 .. k : s.files[i].type = "dummy"
             /\ (Covered(t, d) /\ t.files[d].type # "dummy") \/ Stuck(t)
             /\ Covered(s, k) => Covered(t, d) /\ t.files[d].type # "dummy"
<1> DEFINE t == RemoveDummyBlocks(s)
           stop == DummyStop(s)
           seen == Touch(s, {stop})
<1>0. /\ Ids(s) = 0 .. k /\ s.files[0].type # "dummy"
      /\ Typed(s) /\ FilesInSections(s)
  BY ChainFacts DEF ChainOf
<1>1. PICK b \in Nat : StoreTypeOK(s, b)
  BY <1>0 DEF Typed
<1>2. s.firstSavedId = 0 /\ s.lastSavedId \in 0 .. k
  BY DEF Covered, Stuck
<1>3. /\ stop \in NoId .. s.lastSavedId
      /\ \A i \in stop + 1 .. s.lastSavedId : IsDummy(s, i)
  BY <1>1, DummyStopFacts
<1>4. stop \in 0 .. s.lastSavedId
  <2>1. stop # NoId
    <3>1. SUFFICES ASSUME stop = NoId
                   PROVE  FALSE
      OBVIOUS
    <3>2. 0 \in stop + 1 .. s.lastSavedId
      BY <1>2, <3>1 DEF NoId
    <3> QED
      BY <1>0, <1>3, <3>2 DEF IsDummy
  <2> QED
    BY <1>2, <1>3, <2>1 DEF NoId
<1> HIDE DEF stop
<1>5. /\ Typed(seen) /\ FilesInSections(seen)
      /\ seen.files = s.files /\ Ids(seen) = Ids(s)
      /\ seen.firstSavedId = s.firstSavedId /\ seen.lastSavedId = s.lastSavedId
  <2>1. {stop} \in SUBSET (NoId .. k)
    BY <1>2, <1>4 DEF NoId
  <2> QED
    BY <1>0, <2>1, TouchTyped
<1>6. CASE stop = s.lastSavedId
  <2>1. t = seen
    BY <1>6 DEF RemoveDummyBlocks, stop
  <2>2. k \in 0 .. k /\ ChainOf(t, k)
    BY <1>0, <1>5, <2>1, Shortened
  <2>3. Keeps(s, t)
    BY <1>5, <2>1 DEF Keeps
  <2>4. Covered(s, k) => Covered(t, k) /\ t.files[k].type # "dummy"
    <3>1. SUFFICES ASSUME Covered(s, k)
                   PROVE  Covered(t, k) /\ t.files[k].type # "dummy"
      OBVIOUS
    <3>2. DummyStop(s) = k
      BY <1>6, <3>1 DEF Covered, stop
    <3>3. ~IsDummy(s, k)
      <4> DEFINE S == {i \in NoId .. s.lastSavedId : ~IsDummy(s, i)}
      <4>1. S \in SUBSET Int /\ s.lastSavedId \in Int /\ \A x \in S : x <= s.lastSavedId
        BY <1>2 DEF NoId
      <4>2. 0 \in S
        BY <1>0, <1>2 DEF IsDummy, NoId
      <4>3. Max(S) \in S
        <5> HIDE DEF S
        <5> QED
          BY <4>1, <4>2, MaxInt
      <4> QED
        BY <3>2, <4>3 DEF DummyStop
    <3> QED
      BY <1>0, <1>5, <2>1, <3>1, <3>3 DEF Covered, IsDummy
  <2>5. Stuck(s) => Stuck(t)
    BY <1>5, <2>1 DEF Stuck
  <2>6. \A i \in k + 1 .. k : FALSE
    OBVIOUS
  <2>7. \A i \in 0 .. k : t.files[i] = s.files[i]
    BY <1>5, <2>1
  <2> QED
    BY <2>2, <2>3, <2>4, <2>5, <2>6, <2>7
<1>7. CASE stop # s.lastSavedId
  <2>1. s.lastSavedId = k
    BY <1>2, <1>4, <1>7 DEF Covered, Stuck
  <2>2. t = RemoveById(seen, stop + 1) /\ stop + 1 \in Nat
    BY <1>4, <1>7 DEF RemoveDummyBlocks, stop
  <2> HIDE DEF t, seen
  <2>3. /\ Typed(t) /\ FilesInSections(t)
        /\ Ids(t) = Ids(seen) \ {i \in Ids(seen) : stop + 1 <= i /\ i <= seen.lastSavedId}
        /\ \A i \in Ids(t) : t.files[i] = seen.files[i]
        /\ t.firstSavedId = 0 /\ t.lastSavedId = (stop + 1) - 1
    <3>1. seen.firstSavedId = 0
      BY <1>2, <1>5
    <3> DEFINE id == stop + 1
    <3>2. id \in Nat /\ t = RemoveById(seen, id)
      BY <2>2
    <3> HIDE DEF id
    <3>3. /\ Typed(t) /\ FilesInSections(t)
          /\ Ids(t) = Ids(seen) \ {i \in Ids(seen) : id <= i /\ i <= seen.lastSavedId}
          /\ \A i \in Ids(t) : t.files[i] = seen.files[i]
          /\ t.firstSavedId = 0 /\ t.lastSavedId = id - 1
      <4>1. Typed(seen) /\ FilesInSections(seen) /\ seen.firstSavedId = 0 /\ id \in Nat
        BY <1>5, <3>1, <3>2
      <4> HIDE DEF id
      <4> QED
        BY <3>2, <4>1, RemoveTyped
    <3> QED
      BY <3>3 DEF id
  <2>4. Ids(t) = 0 .. stop
    BY <1>0, <1>4, <1>5, <2>1, <2>3
  <2>5. stop \in 0 .. k /\ \A i \in 0 .. stop : t.files[i] = s.files[i]
    BY <1>4, <1>5, <2>1, <2>3, <2>4
  <2>6. ChainOf(t, stop)
    BY <2>3, <2>4, <2>5, Shortened
  <2>7. \A i \in stop + 1 .. k : s.files[i].type = "dummy"
    BY <1>3, <2>1 DEF IsDummy
  <2>8. Keeps(s, t)
    <3>1. \A i \in 0 .. k : i \in 0 .. stop \/ i \in stop + 1 .. k
      BY <2>5
    <3> QED
      BY <1>0, <2>4, <2>5, <2>7, <3>1 DEF Keeps
  <2>9. Covered(t, stop)
    BY <1>4, <2>3 DEF Covered
  <2>10. t.files[stop].type # "dummy"
    <3> DEFINE S == {i \in NoId .. s.lastSavedId : ~IsDummy(s, i)}
    <3>1. S \in SUBSET Int /\ s.lastSavedId \in Int /\ \A x \in S : x <= s.lastSavedId
      BY <1>2 DEF NoId
    <3>2. 0 \in S
      BY <1>0, <1>2 DEF IsDummy, NoId
    <3>3. Max(S) \in S
      <4> HIDE DEF S
      <4> QED
        BY <3>1, <3>2, MaxInt
    <3>4. ~IsDummy(s, stop)
      BY <3>3 DEF DummyStop, stop
    <3> QED
      BY <1>0, <2>5, <3>4 DEF IsDummy
  <2> QED
    BY <2>5, <2>6, <2>7, <2>8, <2>9, <2>10 DEF t
<1> QED
  BY <1>6, <1>7

-----------------------------------------------------------------------------
(* Nodes *)

IsNode(n) ==
  n = [store |-> n.store, ec |-> n.ec,
       blocksFromLastGenesis |-> n.blocksFromLastGenesis, up |-> n.up]

\* t has the files of s and the same range.
SameFiles(s, t) ==
  /\ Typed(t) /\ FilesInSections(t)
  /\ Ids(t) = Ids(s) /\ \A i \in Ids(s) : t.files[i] = s.files[i]
  /\ t.firstSavedId = s.firstSavedId /\ t.lastSavedId = s.lastSavedId

\* A process that goes on, and one that has aborted.
Up(n) == n.up = TRUE
Down(n) == n.up = FALSE

Unextractable(s) == \E i \in Ids(s) : ~CanExtract(s.files[i])

LEMMA SameChain ==
  ASSUME NEW s, NEW k \in Nat, ChainOf(s, k), NEW t, SameFiles(s, t)
  PROVE  ChainOf(t, k) /\ Keeps(s, t) /\ (Covered(s, k) => Covered(t, k)) /\ (Stuck(s) => Stuck(t))
<1>1. Ids(s) = 0 .. k /\ k \in 0 .. k
  BY ChainFacts
<1>2. ChainOf(t, k)
  BY <1>1, Shortened DEF SameFiles
<1> QED
  BY <1>2 DEF SameFiles, Keeps, Covered, Stuck

\* What an assignment to one field does to the others.
LEMMA WithStore ==
  ASSUME NEW n, IsNode(n), NEW s
  PROVE  LET m == [n EXCEPT !.store = s] IN
           /\ IsNode(m) /\ m.store = s /\ m.ec = n.ec
           /\ m.blocksFromLastGenesis = n.blocksFromLastGenesis /\ m.up = n.up
<1>1. n = [store |-> n.store, ec |-> n.ec,
           blocksFromLastGenesis |-> n.blocksFromLastGenesis, up |-> n.up]
  BY DEF IsNode
<1> DEFINE m == [n EXCEPT !.store = s]
<1>2. m = [store |-> s, ec |-> n.ec,
           blocksFromLastGenesis |-> n.blocksFromLastGenesis, up |-> n.up]
  BY <1>1
<1> HIDE DEF m
<1>3. /\ m.store = s /\ m.ec = n.ec
      /\ m.blocksFromLastGenesis = n.blocksFromLastGenesis /\ m.up = n.up
  BY <1>2
<1> QED
  BY <1>2, <1>3 DEF IsNode, m

LEMMA WithCount ==
  ASSUME NEW n, IsNode(n), NEW c
  PROVE  LET m == [n EXCEPT !.blocksFromLastGenesis = c] IN
           /\ IsNode(m) /\ m.store = n.store /\ m.ec = n.ec
           /\ m.blocksFromLastGenesis = c /\ m.up = n.up
<1>1. n = [store |-> n.store, ec |-> n.ec,
           blocksFromLastGenesis |-> n.blocksFromLastGenesis, up |-> n.up]
  BY DEF IsNode
<1> DEFINE m == [n EXCEPT !.blocksFromLastGenesis = c]
<1>2. m = [store |-> n.store, ec |-> n.ec, blocksFromLastGenesis |-> c, up |-> n.up]
  BY <1>1
<1> HIDE DEF m
<1>3. m.store = n.store /\ m.ec = n.ec /\ m.blocksFromLastGenesis = c /\ m.up = n.up
  BY <1>2
<1> QED
  BY <1>2, <1>3 DEF IsNode, m

LEMMA WithEc ==
  ASSUME NEW n, IsNode(n), NEW e
  PROVE  LET m == [n EXCEPT !.ec = e] IN
           /\ IsNode(m) /\ m.store = n.store /\ m.ec = e
           /\ m.blocksFromLastGenesis = n.blocksFromLastGenesis /\ m.up = n.up
<1>1. n = [store |-> n.store, ec |-> n.ec,
           blocksFromLastGenesis |-> n.blocksFromLastGenesis, up |-> n.up]
  BY DEF IsNode
<1> DEFINE m == [n EXCEPT !.ec = e]
<1>2. m = [store |-> n.store, ec |-> e,
           blocksFromLastGenesis |-> n.blocksFromLastGenesis, up |-> n.up]
  BY <1>1
<1> HIDE DEF m
<1>3. /\ m.store = n.store /\ m.ec = e /\ m.up = n.up
      /\ m.blocksFromLastGenesis = n.blocksFromLastGenesis
  BY <1>2
<1> QED
  BY <1>2, <1>3 DEF IsNode, m

LEMMA WithUp ==
  ASSUME NEW n, IsNode(n), NEW u
  PROVE  LET m == [n EXCEPT !.up = u] IN
           /\ IsNode(m) /\ m.store = n.store /\ m.ec = n.ec
           /\ m.blocksFromLastGenesis = n.blocksFromLastGenesis /\ m.up = u
<1>1. n = [store |-> n.store, ec |-> n.ec,
           blocksFromLastGenesis |-> n.blocksFromLastGenesis, up |-> n.up]
  BY DEF IsNode
<1> DEFINE m == [n EXCEPT !.up = u]
<1>2. m = [store |-> n.store, ec |-> n.ec,
           blocksFromLastGenesis |-> n.blocksFromLastGenesis, up |-> u]
  BY <1>1
<1> HIDE DEF m
<1>3. /\ m.store = n.store /\ m.ec = n.ec /\ m.up = u
      /\ m.blocksFromLastGenesis = n.blocksFromLastGenesis
  BY <1>2
<1> QED
  BY <1>2, <1>3 DEF IsNode, m

LEMMA AbortFacts ==
  ASSUME NEW n, IsNode(n)
  PROVE  /\ IsNode(Abort(n)) /\ Abort(n).store = n.store /\ Abort(n).ec = n.ec
         /\ Abort(n).blocksFromLastGenesis = n.blocksFromLastGenesis /\ Down(Abort(n))
<1>1. n = [store |-> n.store, ec |-> n.ec,
           blocksFromLastGenesis |-> n.blocksFromLastGenesis, up |-> n.up]
  BY DEF IsNode
<1> DEFINE down == FALSE
           m == [n EXCEPT !.up = down]
<1> HIDE DEF down
<1>2. m = [store |-> n.store, ec |-> n.ec,
           blocksFromLastGenesis |-> n.blocksFromLastGenesis, up |-> down]
  BY <1>1
<1> HIDE DEF m
<1>3. m.store = n.store /\ m.ec = n.ec /\ m.up = down
      /\ m.blocksFromLastGenesis = n.blocksFromLastGenesis
  BY <1>2
<1>4. IsNode(m)
  BY <1>2, <1>3 DEF IsNode
<1> QED
  BY <1>3, <1>4, Zenon DEF Abort, Down, m, down

\* The signature of this node on a block of its own is there already, or the
\* block has none.
LEMMA SignedAlready ==
  ASSUME NEW s, NEW k \in Nat, ChainOf(s, k), NEW b, b.signers = {Me}
  PROVE  SameFiles(s, SignCheckAdd(s, b)) /\ Excess(SignCheckAdd(s, b)) = Excess(s)
<1> DEFINE id == Index(b)
           e == s.files[id]
           e2 == [e EXCEPT !.signers = @ \cup b.signers]
           f == [s.files EXCEPT ![id] = e2]
           t == [s EXCEPT !.files = f]
<1>0. Typed(s) /\ FilesInSections(s) /\ Ids(s) = 0 .. k
  BY DEF ChainOf
<1>1. CASE ~ (id \in Ids(s) /\ ReadSigners(e) # {})
  <2>1. SignCheckAdd(s, b) = s
    BY <1>1 DEF SignCheckAdd
  <2> QED
    BY <1>0, <2>1 DEF SameFiles
<1>2. CASE id \in Ids(s) /\ ReadSigners(e) # {}
  <2>1. BlockOK(e)
    BY <1>0, <1>2 DEF ChainOf
  <2>2. e.signers = {Me}
    BY <1>2, <2>1 DEF ReadSigners, BlockOK
  <2>3. e = [type |-> e.type, txs |-> e.txs, prev |-> e.prev, hash |-> e.hash,
             signers |-> e.signers, rows |-> e.rows, prevGen |-> e.prevGen]
    BY <2>1 DEF BlockOK
  <2>4. e2 = e
    <3>1. e2 = [e EXCEPT !.signers = e.signers \cup b.signers]
      OBVIOUS
    <3>2. e.signers \cup b.signers = e.signers
      BY <2>2
    <3> HIDE DEF e, e2
    <3>3. e2 = [e EXCEPT !.signers = e.signers]
      BY <3>1, <3>2
    <3> QED
      BY <2>3, <3>3
  <2>5. PICK c \in Nat : StoreTypeOK(s, c)
    BY <1>0 DEF Typed
  <2>6. SignCheckAdd(s, b) = t
    BY <1>2 DEF SignCheckAdd
  <2>7. DOMAIN f = Ids(s) /\ \A i \in Ids(s) : f[i] = s.files[i]
    <3> HIDE DEF e2, id
    <3>1. e2 = s.files[id]
      BY <2>4
    <3> QED
      BY <3>1 DEF Ids
  <2> HIDE DEF f, e2
  <2>8. t = [files |-> f, sections |-> s.sections, records |-> s.records,
             firstSavedId |-> s.firstSavedId, lastSavedId |-> s.lastSavedId]
    <3>1. s = [files |-> s.files, sections |-> s.sections, records |-> s.records,
               firstSavedId |-> s.firstSavedId, lastSavedId |-> s.lastSavedId]
      BY <2>5 DEF StoreTypeOK
    <3> QED
      BY <3>1
  <2> HIDE DEF t
  <2>9. /\ t.files = f /\ Ids(t) = Ids(s) /\ t.sections = s.sections
        /\ t.firstSavedId = s.firstSavedId /\ t.lastSavedId = s.lastSavedId
        /\ t.records = s.records
    BY <2>7, <2>8 DEF Ids
  <2>10. StoreTypeOK(t, c)
    BY <2>5, <2>7, <2>8, <2>9 DEF StoreTypeOK
  <2>11. FilesInSections(t)
    BY <1>0, <2>9 DEF FilesInSections
  <2> QED
    BY <2>6, <2>7, <2>9, <2>10, <2>11 DEF SameFiles, Typed, Excess
<1> QED
  BY <1>1, <1>2

\* A block whose index is taken leaves the files as they are.
LEMMA TakenBlock ==
  ASSUME NEW n, IsNode(n), Up(n), NEW k \in Nat, ChainOf(n.store, k),
         NEW b, b.type \in {"dummy", "data"}, b.signers = {Me}, Harmless(n.store, b)
  PROVE  LET r == AddBlock(n, b) IN
           /\ SameFiles(n.store, r.store) /\ (Up(r) \/ (Down(r) /\ Unextractable(n.store)))
           /\ r.ec = n.ec /\ r.blocksFromLastGenesis = n.blocksFromLastGenesis
           /\ Excess(r.store) = Excess(n.store)
<1> DEFINE s == n.store
           id == Index(b)
           read == Touch(s, {id - 1, id})
           signed == SignCheckAdd(read, b)
           m == [n EXCEPT !.store = signed]
           e == s.files[id]
           r == AddBlock(n, b)
<1>0. Ids(s) = 0 .. k /\ id \in 1 .. k /\ Typed(s) /\ FilesInSections(s)
  BY ChainFacts DEF Harmless, ChainOf
<1>1. SameFiles(s, read) /\ Excess(read) = Excess(s)
  <2>1. {id - 1, id} \in SUBSET (NoId .. k)
    BY <1>0 DEF NoId
  <2> QED
    BY <1>0, <2>1, TouchTyped, TouchCounts DEF SameFiles, Typed
<1>2. SameFiles(s, signed) /\ Excess(signed) = Excess(s)
  <2>1. ChainOf(read, k)
    BY <1>1, SameChain
  <2>2. SameFiles(read, signed) /\ Excess(signed) = Excess(read)
    BY <2>1, SignedAlready
  <2> QED
    BY <1>1, <2>2 DEF SameFiles
<1> HIDE DEF read, signed
<1>3. /\ IsNode(m) /\ m.store = signed /\ m.ec = n.ec /\ Up(m)
      /\ m.blocksFromLastGenesis = n.blocksFromLastGenesis
  BY WithStore, Zenon DEF Up
<1>4. /\ IsNode(Abort(m)) /\ Abort(m).store = signed /\ Abort(m).ec = n.ec /\ Down(Abort(m))
      /\ Abort(m).blocksFromLastGenesis = n.blocksFromLastGenesis
      /\ m.store.files[id] = e
  <2>1. signed.files[id] = s.files[id]
    BY <1>0, <1>2 DEF SameFiles
  <2> HIDE DEF m
  <2> QED
    BY <1>3, <2>1, AbortFacts
<1>5. r = MergeBlockWithLocal(m, b)
  <2>1. id \in Ids(s)
    BY <1>0
  <2> QED
    BY <2>1 DEF AddBlock, read, signed
<1> HIDE DEF m, r
<1>6. CASE ~CanMergeBlocks(b, e)
  <2>1. r = m
    BY <1>4, <1>5, <1>6 DEF MergeBlockWithLocal
  <2> QED
    BY <1>2, <1>3, <2>1 DEF r
<1>7. CASE CanMergeBlocks(b, e)
  <2>1. e.type = b.type /\ e.signers # {}
    BY <1>7 DEF CanMergeBlocks, ReadSigners
  <2>2. b.prev = e.prev /\ (b.type = "data" => e.txs # <<>>)
    BY <2>1 DEF Harmless
  <2>3. CASE b.type = "dummy"
    <3>1. r = m
      BY <1>4, <1>5, <1>7, <2>1, <2>2, <2>3 DEF MergeBlockWithLocal, CanExtract
    <3> QED
      BY <1>2, <1>3, <3>1 DEF r
  <2>4. CASE b.type = "data"
    <3>1. ~CanExtract(e)
      BY <2>1, <2>2, <2>4 DEF CanExtract
    <3>2. r = Abort(m)
      BY <1>4, <1>5, <1>7, <2>2, <2>4, <3>1 DEF MergeBlockWithLocal
    <3>3. Unextractable(s)
      BY <1>0, <3>1 DEF Unextractable
    <3> QED
      BY <1>2, <1>4, <3>2, <3>3 DEF r
  <2> QED
    BY <2>3, <2>4
<1> QED
  BY <1>6, <1>7

\* The genesis block that comes next on a chain.
LEMMA NewGenesisFacts ==
  ASSUME NEW n, NEW k \in Nat, ChainOf(n.store, k), Covered(n.store, k),
         n.store.files[k].type # "torn"
  PROVE  LET g == NewGenesis(n) IN
           /\ BlockOK(g) /\ g.type = "genesis" /\ g.rows = StoredRows(n.ec) /\ Index(g) = k + 1
           /\ NextIndex(n.store, n.store.lastSavedId) = k + 1
           /\ g.prev = n.store.files[k].hash
           /\ g.prevGen = n.store.files[Below(n.store, k + 1)].hash
<1> DEFINE s == n.store
           prevGen == IF LastGenesisId(s) = NoId THEN NoHash ELSE s.files[LastGenesisId(s)].hash
           rows == StoredRows(n.ec)
           b == NewBlock(k + 1, "genesis", <<>>, s.files[k].hash, Me)
           g == NewGenesis(n)
<1>0. Ids(s) = 0 .. k /\ Ids(s) \subseteq Nat /\ 0 \in Ids(s) /\ s.files[0].type = "genesis"
  BY ChainFacts
<1>1. Visible(s) = 0 .. k /\ k \in 0 .. k
  BY VisibleFacts
<1>2. LastGenesisId(s) = Below(s, k + 1) /\ Below(s, k + 1) \in Nat
  BY <1>0, <1>1, RealTop, BelowFacts
<1>3. NextIndex(s, s.lastSavedId) = k + 1 /\ PrevHash(s, s.lastSavedId) = s.files[k].hash
  BY <1>1 DEF NextIndex, PrevHash, Covered
<1>4. prevGen = s.files[Below(s, k + 1)].hash
  BY <1>2 DEF NoId
<1>5. g = [b EXCEPT !.rows = rows, !.prevGen = prevGen]
  BY <1>3 DEF NewGenesis
<1>6. b = [type |-> "genesis", txs |-> <<>>, prev |-> s.files[k].hash,
           hash |-> Hash(k + 1, "genesis", <<>>), signers |-> {Me}, rows |-> NoRows, prevGen |-> NoHash]
  BY DEF NewBlock
<1> HIDE DEF b, prevGen, rows
<1>7. g = [type |-> "genesis", txs |-> <<>>, prev |-> s.files[k].hash,
           hash |-> Hash(k + 1, "genesis", <<>>), signers |-> {Me}, rows |-> rows, prevGen |-> prevGen]
  BY <1>5, <1>6
<1> HIDE DEF g
<1>8. /\ BlockOK(g) /\ g.type = "genesis" /\ g.rows = rows /\ g.prev = s.files[k].hash
      /\ g.prevGen = prevGen /\ g.hash = Hash(k + 1, "genesis", <<>>)
  BY <1>7 DEF BlockOK, FileTypes, ReadableTypes
<1>9. Index(g) = k + 1
  BY <1>8 DEF Index, Hash
<1> QED
  BY <1>3, <1>4, <1>8, <1>9 DEF g, rows

\* createGenesisBlock at the end of a chain puts a genesis block on it, unless it
\* cannot read the blocks since the last one.
LEMMA ConstructGenesisFacts ==
  ASSUME NEW n, IsNode(n), Up(n), NEW k \in Nat, ChainOf(n.store, k), Covered(n.store, k),
         n.store.files[k].type # "torn"
  PROVE  LET r == ConstructGenesis(n) IN
           /\ IsNode(r)
           /\ \/ /\ r.store = n.store /\ (Up(r) \/ (Down(r) /\ Unextractable(n.store)))
                 /\ r.ec = n.ec /\ r.blocksFromLastGenesis = n.blocksFromLastGenesis
                 /\ Up(r) => n.store.records = 0
              \/ /\ r.store = Insert(n.store, k + 1, NewGenesis(n))
                 /\ Up(r) /\ r.ec = NoRows /\ r.blocksFromLastGenesis = 0
                 /\ \A i \in Ids(n.store) : LastGenesisId(n.store) < i => CanExtract(n.store.files[i])
                 /\ CanExtract(n.store.files[k]) \/ n.store.files[k].type = "genesis"
<1> DEFINE s == n.store
           r == ConstructGenesis(n)
           g == NewGenesis(n)
           blocked == \E i \in GenesisWalk(s) : ~CanExtract(s.files[i])
<1>0. Ids(s) = 0 .. k
  BY ChainFacts
<1>1. NextIndex(s, s.lastSavedId) = k + 1 /\ k + 1 \notin Ids(s)
  BY <1>0, NewGenesisFacts
<1>2. CASE s.records = 0
  BY <1>2 DEF ConstructGenesis
<1>3. CASE s.records # 0 /\ blocked
  <2>1. r = Abort(n)
    BY <1>3 DEF ConstructGenesis
  <2>2. Unextractable(s)
    BY <1>3 DEF Unextractable, GenesisWalk, Visible
  <2>3. IsNode(r) /\ r.store = s /\ r.ec = n.ec /\ Down(r)
        /\ r.blocksFromLastGenesis = n.blocksFromLastGenesis
    BY <2>1, AbortFacts
  <2>4. ~Up(r)
    BY <2>3, Zenon DEF Up, Down
  <2> QED
    BY <2>2, <2>3, <2>4
<1>4. CASE s.records # 0 /\ ~blocked
  <2> DEFINE t == Insert(s, k + 1, g)
             stored == [n EXCEPT !.store = t]
             emptied == [stored EXCEPT !.ec = NoRows]
  <2>1. r = [n EXCEPT !.store = Insert(s, k + 1, g), !.ec = NoRows, !.blocksFromLastGenesis = 0]
    BY <1>1, <1>4 DEF ConstructGenesis
  <2> HIDE DEF g, t
  <2>2. r = [emptied EXCEPT !.blocksFromLastGenesis = 0]
    BY <2>1, Zenon DEF t
  <2>3. IsNode(stored) /\ stored.store = t /\ stored.up = n.up
    BY WithStore, Zenon
  <2> HIDE DEF stored
  <2>4. IsNode(emptied) /\ emptied.store = t /\ emptied.ec = NoRows /\ emptied.up = n.up
    <3>1. IsNode(stored)
      BY <2>3
    <3>2. IsNode(emptied) /\ emptied.store = stored.store
      BY <3>1, WithEc
    <3>3. emptied.ec = NoRows /\ emptied.up = stored.up
      BY <3>1, WithEc
    <3> QED
      BY <2>3, <3>2, <3>3
  <2> HIDE DEF emptied, r
  <2>5. IsNode(r) /\ r.store = t /\ r.ec = NoRows /\ Up(r) /\ r.blocksFromLastGenesis = 0
    BY <2>2, <2>4, WithCount, Zenon DEF Up
  <2>6. CanExtract(s.files[k]) \/ s.files[k].type = "genesis"
    <3>1. SUFFICES ASSUME s.files[k].type # "genesis"
                   PROVE  CanExtract(s.files[k])
      OBVIOUS
    <3>2. Visible(s) = 0 .. k /\ k \in 0 .. k
      BY VisibleFacts
    <3>3. LastGenesisId(s) = Below(s, k + 1)
      BY <3>2, RealTop
    <3>4. Below(s, k + 1) \in 0 .. k /\ s.files[Below(s, k + 1)].type = "genesis"
      BY ChainFacts, BelowFacts
    <3>5. Below(s, k + 1) < k
      BY <3>1, <3>4
    <3>6. k \in GenesisWalk(s)
      BY <3>2, <3>3, <3>5 DEF GenesisWalk
    <3> QED
      BY <1>4, <3>6
  <2>7. \A i \in Ids(s) : LastGenesisId(s) < i => CanExtract(s.files[i])
    <3>1. Visible(s) = Ids(s) /\ LastGenesisId(s) \in Nat
      <4>1. Visible(s) = 0 .. k /\ k \in 0 .. k
        BY VisibleFacts
      <4>2. LastGenesisId(s) = Below(s, k + 1) /\ Below(s, k + 1) \in Nat
        BY <4>1, ChainFacts, RealTop, BelowFacts
      <4> QED
        BY <1>0, <4>1, <4>2
    <3> QED
      BY <1>0, <1>4, <3>1 DEF GenesisWalk
  <2> QED
    BY <2>5, <2>6, <2>7 DEF r, t, g
<1> QED
  BY <1>2, <1>3, <1>4

\* Insert at the end of a chain.
LEMMA InsertNext ==
  ASSUME NEW s, NEW k \in Nat, ChainOf(s, k), Covered(s, k), s.files[k].type # "torn",
         NEW b, BlockOK(b), b.type # "torn" => b.prev = s.files[k].hash,
         b.type = "genesis" => b.prevGen = s.files[Below(s, k + 1)].hash
  PROVE  LET t == Insert(s, k + 1, b) IN
           /\ ChainOf(t, k + 1) /\ Covered(t, k + 1) /\ Keeps(s, t)
           /\ t.files[k + 1] = b /\ \A i \in 0 .. k : t.files[i] = s.files[i]
<1> DEFINE id == k + 1
           t == Insert(s, id, b)
<1>0. Ids(s) = 0 .. k /\ Typed(s) /\ FilesInSections(s) /\ id \in Nat /\ id \notin Ids(s)
  BY ChainFacts DEF ChainOf
<1>1. s.firstSavedId = 0 /\ id > s.lastSavedId /\ b.type \in FileTypes
  BY DEF Covered, BlockOK
<1> HIDE DEF id
<1>2. /\ Typed(t) /\ FilesInSections(t)
      /\ Ids(t) = Ids(s) \cup {id}
      /\ t.files[id] = b /\ \A i \in Ids(s) \ {id} : t.files[i] = s.files[i]
      /\ t.firstSavedId = 0 /\ t.lastSavedId = id
  <2>1. Typed(s) /\ FilesInSections(s) /\ id \in Nat /\ b.type \in FileTypes
    BY <1>0, <1>1
  <2>2. Typed(t) /\ FilesInSections(t) /\ Ids(t) = Ids(s) \cup {id}
    BY <2>1, InsertTyped
  <2>3. t.files[id] = b /\ \A i \in Ids(s) \ {id} : t.files[i] = s.files[i]
    BY <2>1, InsertTyped
  <2>4. t.firstSavedId = 0 /\ t.lastSavedId = id
    BY <1>1, <2>1, InsertTyped
  <2> QED
    BY <2>2, <2>3, <2>4
<1> HIDE DEF t
<1>3. \A i \in Ids(s) : t.files[i] = s.files[i]
  BY <1>0, <1>2
<1>4. ChainOf(t, k + 1) /\ Keeps(s, t)
  BY <1>2, <1>3, Extended DEF id
<1> QED
  BY <1>0, <1>2, <1>3, <1>4 DEF Covered, t, id

\* The end of addBlock: the block may be followed by a genesis block, and is when
\* it carries no transactions and the walk since the last one can be read.
LEMMA CountBlockFacts ==
  ASSUME NEW n, IsNode(n), Up(n), NEW k \in Nat, ChainOf(n.store, k), Covered(n.store, k),
         n.store.files[k].type # "torn"
  PROVE  LET r == CountBlock(n) IN
           /\ IsNode(r)
           /\ \/ /\ r.store = n.store /\ (Up(r) \/ (Down(r) /\ Unextractable(n.store)))
                 /\ r.ec = n.ec /\ r.blocksFromLastGenesis = n.blocksFromLastGenesis + 1
                 /\ Up(r) /\ r.blocksFromLastGenesis = GenesisEvery => n.store.records = 0
              \/ /\ \E m : /\ m.store = n.store /\ m.ec = n.ec
                          /\ r.store = Insert(n.store, k + 1, NewGenesis(m))
                 /\ Up(r) /\ r.ec = NoRows /\ r.blocksFromLastGenesis = 0
                 /\ \A i \in Ids(n.store) : LastGenesisId(n.store) < i => CanExtract(n.store.files[i])
                 /\ CanExtract(n.store.files[k]) \/ n.store.files[k].type = "genesis"
<1> DEFINE c == n.blocksFromLastGenesis + 1
           m == [n EXCEPT !.blocksFromLastGenesis = c]
           r == CountBlock(n)
<1>2. r = IF m.blocksFromLastGenesis = GenesisEvery THEN ConstructGenesis(m) ELSE m
  BY Zenon DEF CountBlock, Up
<1> HIDE DEF c, r
<1>4. IsNode(m) /\ m.store = n.store /\ m.ec = n.ec /\ Up(m) /\ m.blocksFromLastGenesis = c
  BY WithCount, Zenon DEF Up
<1> HIDE DEF m
<1>5. CASE m.blocksFromLastGenesis = GenesisEvery
  <2>1. r = ConstructGenesis(m)
    BY <1>2, <1>5
  <2>2. /\ IsNode(r)
        /\ \/ /\ r.store = m.store /\ (Up(r) \/ (Down(r) /\ Unextractable(m.store)))
              /\ r.ec = m.ec /\ r.blocksFromLastGenesis = m.blocksFromLastGenesis
              /\ Up(r) => m.store.records = 0
           \/ /\ r.store = Insert(m.store, k + 1, NewGenesis(m))
              /\ Up(r) /\ r.ec = NoRows /\ r.blocksFromLastGenesis = 0
              /\ \A i \in Ids(m.store) : LastGenesisId(m.store) < i => CanExtract(m.store.files[i])
              /\ CanExtract(m.store.files[k]) \/ m.store.files[k].type = "genesis"
    BY <1>4, <2>1, ConstructGenesisFacts
  <2> QED
    BY <1>4, <2>2, Zenon DEF r, c
<1>6. CASE m.blocksFromLastGenesis # GenesisEvery
  BY <1>2, <1>4, <1>6, Zenon DEF r, c
<1> QED
  BY <1>5, <1>6

LEMMA InsertExcess ==
  ASSUME NEW s, NEW k \in Nat, ChainOf(s, k), NEW b
  PROVE  Excess(Insert(s, k + 1, b)) = Excess(s)
<1>1. PICK c \in Nat : StoreTypeOK(s, c)
  BY DEF ChainOf, Typed
<1>2. c + k + 1 \in Nat /\ c <= c + k + 1 /\ k + 1 \in 0 .. c + k + 1
  OBVIOUS
<1>3. StoreTypeOK(s, c + k + 1) /\ k + 1 \notin Ids(s)
  BY <1>1, <1>2, TypedMore, ChainFacts
<1> QED
  BY <1>2, <1>3, InsertCounts

\* Storing the block that comes next: what addBlock does before it counts.
LEMMA FollowingStored ==
  ASSUME NEW n, IsNode(n), Up(n), NEW k \in Nat, ChainOf(n.store, k), Covered(n.store, k),
         NEW b, BlockOK(b), b.type \in {"dummy", "data"}, b.signers = {Me},
         b.type = "data" => b.txs # <<>>,
         Follows(n.store, k, b)
  PROVE  \E q :
           /\ AddBlock(n, b) = CountBlock(q)
           /\ IsNode(q) /\ Up(q) /\ ChainOf(q.store, k + 1) /\ Covered(q.store, k + 1)
           /\ q.store.files[k + 1] = b
           /\ \A i \in 0 .. k : q.store.files[i] = n.store.files[i]
           /\ q.ec = IF b.type = "data" THEN SaveTxInfoInEC(n.ec, b.txs) ELSE n.ec
           /\ q.blocksFromLastGenesis = n.blocksFromLastGenesis
           /\ Excess(q.store) = Excess(n.store)
<1> DEFINE s == n.store
           id == Index(b)
           read == Touch(s, {id - 1, id})
           signed == SignCheckAdd(read, b)
           m == [n EXCEPT !.store = signed]
           s1 == Insert(signed, id, b)
           ec1 == IF b.type = "data" THEN SaveTxInfoInEC(m.ec, b.txs) ELSE m.ec
           alive == b.type = "data" => b.txs # <<>>
           q == [m EXCEPT !.store = s1, !.ec = ec1, !.up = alive]
           r == AddBlock(n, b)
<1>0. Ids(s) = 0 .. k /\ id = k + 1 /\ Typed(s) /\ FilesInSections(s) /\ s.files[k].type # "torn"
      /\ b.prev = s.files[k].hash
  BY ChainFacts DEF Follows, ChainOf
<1>1. SameFiles(s, read) /\ Excess(read) = Excess(s)
  <2>1. {id - 1, id} \in SUBSET (NoId .. k + 1) /\ k + 1 \in Nat
    BY <1>0 DEF NoId
  <2> QED
    BY <1>0, <2>1, TouchTyped, TouchCounts DEF SameFiles, Typed
<1>2. SameFiles(s, signed) /\ Excess(signed) = Excess(s)
  <2>1. ChainOf(read, k)
    BY <1>1, SameChain
  <2>2. SameFiles(read, signed) /\ Excess(signed) = Excess(read)
    BY <2>1, SignedAlready
  <2> QED
    BY <1>1, <2>2 DEF SameFiles
<1>3. r = CountBlock(q)
  <2>1. id \notin Ids(s)
    BY <1>0
  <2>2. r = StoreBlock(m, b)
    BY <2>1 DEF AddBlock
  <2>3. m.store = signed
    BY WithStore
  <2> HIDE DEF m, signed, read
  <2> QED
    BY <2>2, <2>3 DEF StoreBlock
<1> HIDE DEF read, signed, r
<1>4. /\ IsNode(m) /\ m.store = signed /\ m.ec = n.ec
      /\ m.blocksFromLastGenesis = n.blocksFromLastGenesis
  BY WithStore
<1> HIDE DEF m
<1>5. ChainOf(signed, k) /\ Covered(signed, k) /\ Keeps(s, signed)
      /\ \A i \in 0 .. k : signed.files[i] = s.files[i]
  BY <1>0, <1>2, SameChain DEF SameFiles
<1>6. /\ ChainOf(s1, k + 1) /\ Covered(s1, k + 1)
      /\ s1.files[k + 1] = b /\ \A i \in 0 .. k : s1.files[i] = s.files[i]
  <2>1. signed.files[k].type # "torn" /\ b.prev = signed.files[k].hash /\ b.type # "genesis"
    BY <1>0, <1>5
  <2> QED
    BY <1>0, <1>5, <2>1, InsertNext
<1>7. Excess(s1) = Excess(s)
  BY <1>0, <1>2, <1>5, InsertExcess
<1> HIDE DEF s1, ec1
<1>8. /\ IsNode(q) /\ q.store = s1 /\ q.ec = ec1 /\ Up(q)
      /\ q.blocksFromLastGenesis = n.blocksFromLastGenesis
  <2> HIDE DEF alive
  <2> DEFINE g == [m EXCEPT !.store = s1]
             h == [g EXCEPT !.ec = ec1]
             c == n.blocksFromLastGenesis
  <2>1. q = [h EXCEPT !.up = alive]
    BY Zenon
  <2> HIDE DEF q, g
  <2>2. IsNode(g) /\ g.store = s1 /\ g.blocksFromLastGenesis = c
    BY <1>4, WithStore DEF g
  <2> HIDE DEF c
  <2>3. IsNode(h) /\ h.store = s1 /\ h.ec = ec1 /\ h.blocksFromLastGenesis = c
    <3>1. IsNode(h) /\ h.store = g.store /\ h.ec = ec1
      BY <2>2, WithEc
    <3>2. h.blocksFromLastGenesis = g.blocksFromLastGenesis
      BY <2>2, WithEc
    <3> QED
      BY <2>2, <3>1, <3>2
  <2> HIDE DEF h
  <2>4. IsNode(q) /\ q.store = s1 /\ q.ec = ec1 /\ q.up = alive /\ q.blocksFromLastGenesis = c
    <3>1. IsNode(q) /\ q.store = h.store /\ q.ec = h.ec /\ q.up = alive
      BY <2>1, <2>3, WithUp, Zenon
    <3>2. q.blocksFromLastGenesis = h.blocksFromLastGenesis
      BY <2>1, <2>3, WithUp, Zenon
    <3> QED
      BY <2>3, <3>1, <3>2
  <2>5. alive = TRUE
    BY DEF alive
  <2> QED
    BY <2>4, <2>5, Zenon DEF Up, c
<1>9. ec1 = IF b.type = "data" THEN SaveTxInfoInEC(n.ec, b.txs) ELSE n.ec
  BY <1>4 DEF ec1
<1> HIDE DEF q
<1> QED
  BY <1>3, <1>6, <1>7, <1>8, <1>9 DEF r

\* addBlock with the block that comes next.
LEMMA FollowingBlock ==
  ASSUME NEW n, IsNode(n), Up(n), NEW k \in Nat, ChainOf(n.store, k), Covered(n.store, k),
         NEW b, BlockOK(b), b.type \in {"dummy", "data"}, b.signers = {Me},
         b.type = "data" => b.txs # <<>>,
         Follows(n.store, k, b)
  PROVE  LET r == AddBlock(n, b) IN
           \E j \in {k + 1, k + 2} :
             /\ ChainOf(r.store, j) /\ Covered(r.store, j) /\ Keeps(n.store, r.store)
             /\ \A i \in 0 .. k : r.store.files[i] = n.store.files[i]
             /\ r.store.files[k + 1] = b
             /\ j = k + 2 => Up(r) /\ b.type = "dummy" /\ r.store.files[k + 2].type = "genesis"
             /\ Up(r) \/ (Down(r) /\ Unextractable(r.store))
             /\ j = k + 1 => r.ec = IF b.type = "data" THEN SaveTxInfoInEC(n.ec, b.txs) ELSE n.ec
             /\ j = k + 2 =>
                  /\ r.ec = NoRows /\ r.store.files[k + 2].rows = StoredRows(n.ec)
                  /\ \A i \in 0 .. k : Below(n.store, k + 1) < i => CanExtract(n.store.files[i])
<1> DEFINE s == n.store
           r == AddBlock(n, b)
<1>0. Ids(s) = 0 .. k /\ s.files[k].type # "torn"
  BY ChainFacts DEF Follows, ChainOf
<1>3. PICK q :
        /\ r = CountBlock(q)
        /\ IsNode(q) /\ Up(q) /\ ChainOf(q.store, k + 1) /\ Covered(q.store, k + 1)
        /\ q.store.files[k + 1] = b
        /\ \A i \in 0 .. k : q.store.files[i] = n.store.files[i]
        /\ q.ec = IF b.type = "data" THEN SaveTxInfoInEC(n.ec, b.txs) ELSE n.ec
  BY FollowingStored
<1> DEFINE s1 == q.store
           ec1 == q.ec
<1>4. ec1 = IF b.type = "data" THEN SaveTxInfoInEC(n.ec, b.txs) ELSE n.ec
  BY <1>3
<1>6. /\ ChainOf(s1, k + 1) /\ Covered(s1, k + 1)
      /\ s1.files[k + 1] = b /\ \A i \in 0 .. k : s1.files[i] = s.files[i]
  BY <1>3
<1>7. IsNode(q) /\ q.store = s1 /\ q.ec = ec1 /\ Up(q)
  BY <1>3
<1> HIDE DEF s1, ec1, r
<1>8. s1.files[k + 1].type # "torn" /\ k + 1 \in Nat /\ (k + 1) + 1 = k + 2
  BY <1>6
<1>9. \/ r.store = s1 /\ (Up(r) \/ (Down(r) /\ Unextractable(s1))) /\ r.ec = ec1
      \/ /\ \E h : h.store = s1 /\ h.ec = ec1 /\ r.store = Insert(s1, k + 2, NewGenesis(h))
         /\ Up(r) /\ r.ec = NoRows
         /\ \A i \in Ids(s1) : LastGenesisId(s1) < i => CanExtract(s1.files[i])
         /\ CanExtract(b) \/ b.type = "genesis"
  BY <1>3, <1>6, <1>7, <1>8, CountBlockFacts
<1>10. CASE r.store = s1 /\ (Up(r) \/ (Down(r) /\ Unextractable(s1))) /\ r.ec = ec1
  <2>1. Keeps(s, s1)
    BY <1>0, <1>6, ChainFacts DEF Keeps
  <2>2. k + 1 \in {k + 1, k + 2} /\ k + 1 # k + 2
    OBVIOUS
  <2> QED
    BY <1>4, <1>6, <1>10, <2>1, <2>2 DEF r
<1>11. CASE /\ \E h : h.store = s1 /\ h.ec = ec1 /\ r.store = Insert(s1, k + 2, NewGenesis(h))
            /\ Up(r) /\ r.ec = NoRows
            /\ \A i \in Ids(s1) : LastGenesisId(s1) < i => CanExtract(s1.files[i])
            /\ CanExtract(b) \/ b.type = "genesis"
  <2>1. PICK h : h.store = s1 /\ h.ec = ec1 /\ r.store = Insert(s1, k + 2, NewGenesis(h))
    BY <1>11
  <2> DEFINE g == NewGenesis(h)
  <2>2. /\ BlockOK(g) /\ g.type = "genesis" /\ g.prev = s1.files[k + 1].hash
        /\ g.rows = StoredRows(ec1)
        /\ g.prevGen = s1.files[Below(s1, k + 2)].hash
    <3>1. /\ k + 1 \in Nat /\ ChainOf(h.store, k + 1) /\ Covered(h.store, k + 1)
          /\ h.store.files[k + 1].type # "torn"
      BY <1>6, <1>8, <2>1
    <3>2. /\ BlockOK(g) /\ g.type = "genesis" /\ g.rows = StoredRows(h.ec)
          /\ g.prev = h.store.files[k + 1].hash
          /\ g.prevGen = h.store.files[Below(h.store, (k + 1) + 1)].hash
      BY <3>1, NewGenesisFacts
    <3>3. (k + 1) + 1 = k + 2
      OBVIOUS
    <3> HIDE DEF g
    <3> QED
      BY <2>1, <3>2, <3>3
  <2> HIDE DEF g
  <2>3. /\ ChainOf(r.store, k + 2) /\ Covered(r.store, k + 2)
        /\ r.store.files[k + 2] = g /\ \A i \in 0 .. k + 1 : r.store.files[i] = s1.files[i]
    BY <1>6, <1>8, <2>1, <2>2, InsertNext DEF g
  <2>4. b.type = "dummy"
    BY <1>11 DEF CanExtract
  <2>5. /\ \A i \in 0 .. k : r.store.files[i] = s.files[i]
        /\ r.store.files[k + 1] = b
    BY <1>6, <2>3
  <2>6. Keeps(s, r.store)
    <3>1. Ids(r.store) = 0 .. k + 2
      BY <2>3, ChainFacts
    <3> QED
      BY <1>0, <2>5, <3>1 DEF Keeps
  <2>7. \A i \in 0 .. k : Below(s, k + 1) < i => CanExtract(s.files[i])
    <3>1. LastGenesisId(s1) = Below(s, k + 1) /\ Ids(s1) = 0 .. k + 1
      <4>1. Visible(s1) = 0 .. k + 1 /\ k + 1 \in 0 .. k + 1 /\ Ids(s1) = 0 .. k + 1
        BY <1>6, <1>8, VisibleFacts, ChainFacts
      <4>2. LastGenesisId(s1) = Below(s1, k + 2)
        BY <1>6, <1>8, <4>1, RealTop
      <4>3. {j \in Ids(s1) : j < k + 2 /\ s1.files[j].type = "genesis"}
              = {j \in Ids(s) : j < k + 1 /\ s.files[j].type = "genesis"}
        BY <1>0, <1>6, <2>4, <4>1
      <4>4. Below(s1, k + 2) = Below(s, k + 1)
        BY <4>3, Zenon DEF Below
      <4> QED
        BY <4>1, <4>2, <4>4
    <3> QED
      BY <1>6, <1>11, <3>1
  <2>8. ec1 = n.ec
    BY <1>4, <2>4
  <2>9. (k + 2) # (k + 1) /\ k + 2 \in {k + 1, k + 2}
    OBVIOUS
  <2> QED
    BY <1>11, <2>2, <2>3, <2>4, <2>5, <2>6, <2>7, <2>8, <2>9 DEF r
<1> QED
  BY <1>9, <1>10, <1>11

LEMMA KeepsMore ==
  ASSUME NEW s, NEW t, NEW u, Keeps(s, t), Keeps(t, u)
  PROVE  Keeps(s, u)
  BY DEF Keeps

\* addBlock with a block makeBlock built.
LEMMA AddBlockFacts ==
  ASSUME NEW n, IsNode(n), Up(n), NEW k \in Nat, ChainOf(n.store, k),
         Covered(n.store, k) \/ Stuck(n.store),
         NEW b, BlockOK(b), b.type \in {"dummy", "data"}, b.signers = {Me},
         (Follows(n.store, k, b) /\ Covered(n.store, k)) \/ Harmless(n.store, b)
  PROVE  LET r == AddBlock(n, b) IN
           /\ Usable(r.store)
           /\ Covered(n.store, k) => Whole(r.store)
           /\ Keeps(n.store, r.store)
           /\ Up(r) \/ (Down(r) /\ Unextractable(r.store))
<1> DEFINE r == AddBlock(n, b)
<1>1. CASE Follows(n.store, k, b) /\ Covered(n.store, k)
  <2>1. b.type = "data" => b.txs # <<>>
    BY DEF BlockOK
  <2>2. PICK j \in {k + 1, k + 2} :
          /\ ChainOf(r.store, j) /\ Covered(r.store, j) /\ Keeps(n.store, r.store)
          /\ Up(r) \/ (Down(r) /\ Unextractable(r.store))
    <3>1. \E j \in {k + 1, k + 2} :
             /\ ChainOf(r.store, j) /\ Covered(r.store, j) /\ Keeps(n.store, r.store)
             /\ \A i \in 0 .. k : r.store.files[i] = n.store.files[i]
             /\ r.store.files[k + 1] = b
             /\ j = k + 2 => Up(r) /\ b.type = "dummy" /\ r.store.files[k + 2].type = "genesis"
             /\ Up(r) \/ (Down(r) /\ Unextractable(r.store))
      <4> HIDE DEF r
      <4> QED
        BY <1>1, <2>1, FollowingBlock DEF r
    <3> HIDE DEF r
    <3> QED
      BY <3>1
  <2> HIDE DEF r
  <2>3. j \in Nat
    OBVIOUS
  <2>4. Whole(r.store) /\ Usable(r.store)
    BY <2>2, <2>3 DEF Whole, Usable
  <2> QED
    BY <2>2, <2>3, <2>4, Zenon DEF r
<1>2. CASE Harmless(n.store, b)
  <2>1. SameFiles(n.store, r.store) /\ (Up(r) \/ (Down(r) /\ Unextractable(n.store)))
    BY <1>2, TakenBlock
  <2> HIDE DEF r
  <2>2. /\ ChainOf(r.store, k) /\ Keeps(n.store, r.store)
        /\ Covered(r.store, k) \/ Stuck(r.store)
        /\ Covered(n.store, k) => Covered(r.store, k)
    BY <2>1, SameChain
  <2>3. Unextractable(n.store) => Unextractable(r.store)
    BY <2>1 DEF SameFiles, Unextractable
  <2>4. Usable(r.store) /\ (Covered(n.store, k) => Whole(r.store))
    BY <2>2 DEF Whole, Usable
  <2> QED
    BY <2>1, <2>2, <2>3, <2>4, Zenon DEF r
<1> QED
  BY <1>1, <1>2

LEMMA NodeFacts ==
  /\ IsNode(Node) /\ Node.store = store /\ Node.ec = ec
  /\ Node.blocksFromLastGenesis = blocksFromLastGenesis /\ Node.up = running
<1> DEFINE up == running
<1>1. Node = [store |-> store, ec |-> ec, blocksFromLastGenesis |-> blocksFromLastGenesis, up |-> up]
  BY DEF Node
<1> HIDE DEF up
<1>2. /\ IsNode(Node) /\ Node.store = store /\ Node.ec = ec
      /\ Node.blocksFromLastGenesis = blocksFromLastGenesis /\ Node.up = up
  BY <1>1 DEF IsNode
<1> QED
  BY <1>2, Zenon DEF up

\* removeDummyBlocks keeps block 0.
LEMMA StopFacts ==
  ASSUME NEW s, NEW k \in Nat, ChainOf(s, k), Covered(s, k) \/ Stuck(s)
  PROVE  /\ s.firstSavedId = 0 /\ s.lastSavedId \in 0 .. k
         /\ Stuck(s) => s.lastSavedId = 0
         /\ DummyStop(s) \in 0 .. s.lastSavedId
         /\ \A i \in DummyStop(s) + 1 .. s.lastSavedId : s.files[i].type = "dummy"
<1> DEFINE stop == DummyStop(s)
<1>1. PICK b \in Nat : StoreTypeOK(s, b)
  BY DEF ChainOf, Typed
<1>2. s.firstSavedId = 0 /\ s.lastSavedId \in 0 .. k
  BY DEF Covered, Stuck
<1>3. /\ stop \in NoId .. s.lastSavedId
      /\ \A i \in stop + 1 .. s.lastSavedId : IsDummy(s, i)
  BY <1>1, DummyStopFacts
<1> HIDE DEF stop
<1>4. stop # NoId
  <2>1. SUFFICES ASSUME stop = NoId
                 PROVE  FALSE
    OBVIOUS
  <2>2. 0 \in stop + 1 .. s.lastSavedId
    BY <1>2, <2>1 DEF NoId
  <2> QED
    BY <1>3, <2>2, ChainFacts DEF IsDummy
<1>5. stop \in 0 .. s.lastSavedId
  BY <1>2, <1>3, <1>4 DEF NoId
<1> QED
  BY <1>2, <1>3, <1>5 DEF IsDummy, Stuck, stop

\* What a kill leaves of a block can stand where the block was to stand.
LEMMA PartFacts ==
  ASSUME NEW b, BlockOK(b), NEW part \in PartsOf(b)
  PROVE  /\ BlockOK(part) /\ part.type \in {b.type, "torn"}
         /\ part.type # "torn" => part.prev = b.prev /\ part.prevGen = b.prevGen
         /\ b.txs \in Seq(Txs) /\ part.type # "torn" => part.txs \in Seq(Txs)
<1>1. b = [type |-> b.type, txs |-> b.txs, prev |-> b.prev, hash |-> b.hash,
           signers |-> b.signers, rows |-> b.rows, prevGen |-> b.prevGen]
  BY DEF BlockOK
<1>2. CASE part = Torn
  <2> DEFINE t == NewBlock(0, "torn", <<>>, NoHash, Me)
  <2>1. t = [type |-> "torn", txs |-> <<>>, prev |-> NoHash, hash |-> Hash(0, "torn", <<>>),
             signers |-> {Me}, rows |-> NoRows, prevGen |-> NoHash]
    BY DEF NewBlock
  <2>2. Torn = [t EXCEPT !.signers = {}]
    BY DEF Torn
  <2> HIDE DEF t
  <2>3. Torn = [type |-> "torn", txs |-> <<>>, prev |-> NoHash, hash |-> Hash(0, "torn", <<>>),
                signers |-> {}, rows |-> NoRows, prevGen |-> NoHash]
    BY <2>1, <2>2
  <2>4. Torn.type = "torn" /\ BlockOK(Torn)
    BY <2>3 DEF BlockOK, FileTypes
  <2> QED
    BY <1>2, <2>4
<1>3. CASE part = b
  BY <1>3
<1>4. CASE \E k \in 0 .. Len(b.txs) : part = [b EXCEPT !.txs = SubSeq(@, 1, k), !.signers = {}]
  <2>1. PICK txs : /\ part = [b EXCEPT !.txs = txs, !.signers = {}]
                   /\ b.txs \in Seq(Txs) => txs \in Seq(Txs)
    <3>1. PICK k \in 0 .. Len(b.txs) : part = [b EXCEPT !.txs = SubSeq(@, 1, k), !.signers = {}]
      BY <1>4
    <3>2. part = [b EXCEPT !.txs = SubSeq(b.txs, 1, k), !.signers = {}]
      BY <3>1
    <3>3. b.txs \in Seq(Txs) => SubSeq(b.txs, 1, k) \in Seq(Txs)
      OBVIOUS
    <3> QED
      BY <3>2, <3>3
  <2>2. part = [type |-> b.type, txs |-> txs, prev |-> b.prev, hash |-> b.hash,
                signers |-> {}, rows |-> b.rows, prevGen |-> b.prevGen]
    BY <1>1, <2>1
  <2> QED
    BY <2>1, <2>2 DEF BlockOK
<1>5. CASE \E done \in SUBSET Accounts :
             part = [b EXCEPT !.rows = [a \in Accounts |-> IF a \in done THEN @[a] ELSE 0],
                              !.signers = {}]
  <2>1. PICK rows : part = [b EXCEPT !.rows = rows, !.signers = {}]
    <3>1. PICK done \in SUBSET Accounts :
             part = [b EXCEPT !.rows = [a \in Accounts |-> IF a \in done THEN @[a] ELSE 0],
                              !.signers = {}]
      BY <1>5
    <3>2. part = [b EXCEPT !.rows = [a \in Accounts |-> IF a \in done THEN b.rows[a] ELSE 0],
                           !.signers = {}]
      BY <3>1
    <3> QED
      BY <3>2
  <2>2. part = [type |-> b.type, txs |-> b.txs, prev |-> b.prev, hash |-> b.hash,
                signers |-> {}, rows |-> rows, prevGen |-> b.prevGen]
    BY <1>1, <2>1
  <2> QED
    BY <2>2 DEF BlockOK
<1> QED
  BY <1>2, <1>3, <1>4, <1>5 DEF PartsOf

\* A kill while the next block of a chain is written leaves a chain.
LEMMA KilledInAdd ==
  ASSUME NEW s, NEW k \in Nat, ChainOf(s, k), s.files[k].type # "torn",
         NEW b, BlockOK(b), Index(b) = k + 1, b.prev = s.files[k].hash,
         b.type = "genesis" => b.prevGen = s.files[Below(s, k + 1)].hash,
         NEW part \in PartsOf(b)
  PROVE  LET t == OnDisk(s, Index(b), part) IN ChainOf(t, k + 1) /\ Keeps(s, t)
<1> DEFINE id == k + 1
           t == OnDisk(s, id, part)
<1>1. /\ BlockOK(part) /\ part.type \in {b.type, "torn"} /\ part.type \in FileTypes
      /\ part.type # "torn" => part.prev = b.prev /\ part.prevGen = b.prevGen
  BY PartFacts DEF BlockOK
<1>2. Ids(s) = 0 .. k /\ Typed(s) /\ FilesInSections(s) /\ id \in Nat /\ id \notin Ids(s)
  BY ChainFacts DEF ChainOf
<1> HIDE DEF id
<1>3. /\ Typed(t) /\ FilesInSections(t)
      /\ Ids(t) = Ids(s) \cup {id}
      /\ t.files[id] = part /\ \A i \in Ids(s) \ {id} : t.files[i] = s.files[i]
  <2>1. part.type \in FileTypes /\ id \in Nat /\ Typed(s) /\ FilesInSections(s)
    BY <1>1, <1>2
  <2> HIDE DEF t
  <2>2. t = OnDisk(s, id, part)
    BY DEF t
  <2> QED
    BY <2>1, <2>2, OnDiskTyped
<1> HIDE DEF t
<1>4. \A i \in Ids(s) : t.files[i] = s.files[i]
  BY <1>2, <1>3
<1>5. part.type # "torn" => part.prev = s.files[k].hash
  BY <1>1
<1>6. part.type = "genesis" => part.prevGen = s.files[Below(s, k + 1)].hash
  BY <1>1
<1>7. ChainOf(t, k + 1) /\ Keeps(s, t)
  BY <1>1, <1>3, <1>4, <1>5, <1>6, Extended DEF id
<1> QED
  BY <1>7 DEF t, id

-----------------------------------------------------------------------------
(* Steps *)

\* The inductive invariant: the files are a chain, and while the process is up
\* its counters cover all of it, or block 0 only.
ChainInv ==
  /\ running \in BOOLEAN
  /\ \E k \in Nat : ChainOf(store, k)
  /\ running => Usable(store)

\* As long as no restart finds the highest directory empty, they cover all of it.
WholeInv == running => Whole(store)

LEMMA SameStore ==
  ASSUME ChainInv, store' = store, running' = running \/ running' = FALSE
  PROVE  ChainInv' /\ Keeps(store, store') /\ (WholeInv => WholeInv')
<1>1. running' \in BOOLEAN /\ (running' => running)
  <2>1. running \in BOOLEAN
    BY DEF ChainInv
  <2>2. CASE running' = running
    BY <2>1, <2>2, Zenon
  <2>3. CASE running' = FALSE
    BY <2>3
  <2> QED
    BY <2>2, <2>3
<1>2. \E k \in Nat : ChainOf(store', k)
  BY DEF ChainInv
<1>3. running' => Usable(store')
  BY <1>1 DEF ChainInv
<1> QED
  BY <1>1, <1>2, <1>3 DEF ChainInv, WholeInv, Keeps

\* The end of a process, with a chain on the disk.
LEMMA Ended ==
  ASSUME running' = FALSE, NEW k \in Nat, ChainOf(store', k)
  PROVE  ChainInv'
  BY DEF ChainInv

LEMMA KilledFacts ==
  ASSUME NEW disk, NEW e, Killed(disk, e)
  PROVE  store' = disk /\ ec' = e /\ running' = FALSE /\ running
<1> DEFINE g == [Node EXCEPT !.store = disk]
           h == [g EXCEPT !.ec = e]
           n == [h EXCEPT !.up = FALSE]
<1>1. running /\ Become(n)
  BY Zenon DEF Killed
<1>2. IsNode(g) /\ g.store = disk
  BY NodeFacts, WithStore
<1> HIDE DEF g
<1>3. IsNode(h) /\ h.store = disk /\ h.ec = e
  BY <1>2, WithEc
<1> HIDE DEF h
<1>4. n.store = disk /\ n.ec = e /\ n.up = FALSE
  BY <1>3, AbortFacts, Zenon DEF Abort, Down
<1> HIDE DEF n
<1> QED
  BY <1>1, <1>4, Zenon DEF Become

LEMMA AbortProcessFacts ==
  ASSUME AbortProcess
  PROVE  store' = store /\ ec' = ec /\ running' = FALSE /\ blocksFromLastGenesis' = 0
<1> DEFINE n == Abort(Node)
<1>1. n.store = store /\ n.ec = ec /\ n.up = FALSE
  BY NodeFacts, AbortFacts, Zenon DEF Down
<1>2. Become(n)
  BY DEF AbortProcess
<1> HIDE DEF n
<1> QED
  BY <1>1, <1>2, Zenon DEF Become

LEMMA MadeBlockFacts ==
  ASSUME NEW n, MadeBlock(n)
  PROVE  store' = n.store /\ ec' = n.ec /\ running' = n.up /\ pendingTxs' = <<>> /\ running
  BY Zenon DEF MadeBlock, Become

LEMMA BlockMade ==
  ASSUME NEW r, MadeBlock(r), Usable(r.store), Keeps(store, r.store),
         Whole(store) => Whole(r.store),
         Up(r) \/ (Down(r) /\ Unextractable(r.store))
  PROVE  /\ ChainInv' /\ Keeps(store, store')
         /\ Whole(store) => Whole(store')
         /\ running' = TRUE \/ Unextractable(store')
<1>1. store' = r.store /\ (running' = TRUE \/ (running' = FALSE /\ Unextractable(r.store)))
  BY MadeBlockFacts, Zenon DEF Up, Down
<1>2. running' \in BOOLEAN
  BY <1>1
<1>3. Usable(store') /\ \E k \in Nat : ChainOf(store', k)
  BY <1>1 DEF Usable
<1> QED
  BY <1>1, <1>2, <1>3 DEF ChainInv

LEMMA MakeDummyBlockKeeps ==
  ASSUME ChainInv, MakeDummyBlock
  PROVE  /\ ChainInv' /\ Keeps(store, store')
         /\ Whole(store) => Whole(store')
         /\ running' = TRUE \/ Unextractable(store')
<1> DEFINE b == DummyBlock(store)
           r == AddBlock(Node, b)
<1>1. MadeBlock(r)
  BY DEF MakeDummyBlock
<1>2. running = TRUE
  BY <1>1, MadeBlockFacts DEF ChainInv
<1>3. IsNode(Node) /\ Node.store = store /\ Up(Node)
  BY <1>2, NodeFacts, Zenon DEF Up
<1>4. ASSUME NEW k \in Nat, ChainOf(store, k), Covered(store, k) \/ Stuck(store)
      PROVE  /\ Usable(r.store)
             /\ Covered(store, k) => Whole(r.store)
             /\ Keeps(store, r.store)
             /\ Up(r) \/ (Down(r) /\ Unextractable(r.store))
  <2>1. /\ BlockOK(b) /\ b.type = "dummy" /\ b.signers = {Me}
        /\ (Follows(store, k, b) /\ Covered(store, k)) \/ Harmless(store, b)
    BY <1>4, DummyBlockFacts
  <2> HIDE DEF b
  <2> QED
    BY <1>3, <1>4, <2>1, AddBlockFacts
<1> HIDE DEF r
<1>5. PICK k \in Nat : ChainOf(store, k) /\ (Covered(store, k) \/ Stuck(store))
  BY <1>2 DEF ChainInv, Usable
<1>6. Whole(store) => Whole(r.store)
  BY <1>4 DEF Whole
<1> QED
  BY <1>1, <1>4, <1>5, <1>6, BlockMade

LEMMA PackPendingTxsKeeps ==
  ASSUME ChainInv, PackPendingTxs
  PROVE  /\ ChainInv' /\ Keeps(store, store')
         /\ Whole(store) => Whole(store')
         /\ running' = TRUE \/ Unextractable(store')
<1> DEFINE s == RemoveDummyBlocks(store)
           bare == [Node EXCEPT !.store = s]
           b == DataBlock(bare.store)
           r == AddBlock(bare, b)
<1>1. MadeBlock(r) /\ pendingTxs # <<>>
  <2>1. Node.store = store
    BY NodeFacts
  <2>2. [Node EXCEPT !.store = RemoveDummyBlocks(@)] = bare
    BY <2>1
  <2> HIDE DEF bare
  <2> QED
    BY <2>2, Zenon DEF PackPendingTxs
<1>2. running = TRUE
  BY <1>1, MadeBlockFacts DEF ChainInv
<1>3. IsNode(bare) /\ bare.store = s /\ Up(bare)
  BY <1>2, NodeFacts, WithStore, Zenon DEF Up
<1>4. ASSUME NEW k \in Nat, ChainOf(store, k), Covered(store, k) \/ Stuck(store)
      PROVE  /\ Usable(r.store)
             /\ Covered(store, k) => Whole(r.store)
             /\ Keeps(store, r.store)
             /\ Up(r) \/ (Down(r) /\ Unextractable(r.store))
  <2>1. PICK d \in 0 .. k :
          /\ ChainOf(s, d) /\ Keeps(store, s)
          /\ (Covered(s, d) /\ s.files[d].type # "dummy") \/ Stuck(s)
          /\ Covered(store, k) => Covered(s, d)
    BY <1>4, BareFacts
  <2> HIDE DEF s
  <2>2. /\ BlockOK(b) /\ b.type = "data" /\ b.signers = {Me}
        /\ (Follows(s, d, b) /\ Covered(s, d)) \/ Harmless(s, b)
    BY <1>1, <1>3, <2>1, DataBlockFacts
  <2> HIDE DEF b, bare
  <2>3. /\ Usable(r.store)
        /\ Covered(s, d) => Whole(r.store)
        /\ Keeps(s, r.store)
        /\ Up(r) \/ (Down(r) /\ Unextractable(r.store))
    BY <1>3, <2>1, <2>2, AddBlockFacts
  <2> HIDE DEF r
  <2>4. Keeps(store, r.store)
    BY <2>1, <2>3, KeepsMore
  <2> QED
    BY <2>1, <2>3, <2>4
<1> HIDE DEF r
<1>5. PICK k \in Nat : ChainOf(store, k) /\ (Covered(store, k) \/ Stuck(store))
  BY <1>2 DEF ChainInv, Usable
<1>6. Whole(store) => Whole(r.store)
  BY <1>4 DEF Whole
<1> QED
  BY <1>1, <1>4, <1>5, <1>6, BlockMade

LEMMA StartKeeps ==
  ASSUME ChainInv, Start
  PROVE  /\ ChainInv' /\ Keeps(store, store')
         /\ ~TopSectionEmpty(store) => Whole(store')
<1>1. PICK k \in Nat : ChainOf(store, k)
  BY DEF ChainInv
<1>2. store' = Reload(store)
  BY DEF Start
<1>3. /\ ChainOf(store', k) /\ store'.files = store.files /\ Ids(store') = Ids(store)
      /\ Covered(store', k) \/ Stuck(store')
      /\ ~TopSectionEmpty(store) => Covered(store', k)
  BY <1>1, <1>2, ReloadedChain
<1>4. Usable(store') /\ (~TopSectionEmpty(store) => Whole(store'))
  BY <1>3 DEF Usable, Whole
<1> QED
  BY <1>3, <1>4 DEF ChainInv, Keeps, Start

LEMMA CrashInDummyBlockKeeps ==
  ASSUME ChainInv, CrashInDummyBlock
  PROVE  ChainInv' /\ Keeps(store, store') /\ running' = FALSE
<1> DEFINE b == DummyBlock(store)
<1>1. PICK part \in PartsOf(b) : Killed(OnDisk(store, Index(b), part), ec)
  BY DEF CrashInDummyBlock
<1>2. running /\ running' = FALSE /\ store' = OnDisk(store, Index(b), part)
  BY <1>1, KilledFacts
<1>3. PICK k \in Nat : ChainOf(store, k) /\ (Covered(store, k) \/ Stuck(store))
  BY <1>2 DEF ChainInv, Usable
<1>4. /\ BlockOK(b) /\ b.type = "dummy"
      /\ (Follows(store, k, b) /\ Covered(store, k)) \/ Harmless(store, b)
  BY <1>3, DummyBlockFacts
<1>5. Index(b) \notin Ids(store)
  BY DEF CrashInDummyBlock
<1> HIDE DEF b
<1>6. Follows(store, k, b)
  BY <1>4, <1>5 DEF Harmless
<1>7. ChainOf(store', k + 1) /\ Keeps(store, store')
  BY <1>2, <1>3, <1>4, <1>6, KilledInAdd DEF Follows
<1>8. k + 1 \in Nat
  OBVIOUS
<1> QED
  BY <1>2, <1>7, <1>8 DEF ChainInv

LEMMA CrashInGenesisBlockKeeps ==
  ASSUME ChainInv, CrashInGenesisBlock
  PROVE  ChainInv' /\ Keeps(store, store') /\ running' = FALSE
<1> DEFINE b == DummyBlock(store)
           s == Insert(store, Index(b), b)
           stored == [Node EXCEPT !.store = s]
           gB == NewGenesis(stored)
<1>1. /\ Index(b) \notin Ids(store)
      /\ \/ Killed(stored.store, NoRows)
         \/ \E part \in PartsOf(gB) : Killed(OnDisk(stored.store, Index(gB), part), NoRows)
  <2>1. Node.store = store
    BY NodeFacts
  <2>2. [Node EXCEPT !.store = Insert(@, Index(b), b)] = stored
    BY <2>1
  <2> HIDE DEF stored
  <2> QED
    BY <2>2, Zenon DEF CrashInGenesisBlock
<1>2. stored.store = s
  BY NodeFacts, WithStore, Zenon
<1> HIDE DEF stored, gB
<1>3. /\ running /\ running' = FALSE
      /\ \/ store' = s
         \/ \E part \in PartsOf(gB) : store' = OnDisk(s, Index(gB), part)
  <2>1. CASE Killed(stored.store, NoRows)
    BY <1>2, <2>1, KilledFacts
  <2>2. CASE \E part \in PartsOf(gB) : Killed(OnDisk(stored.store, Index(gB), part), NoRows)
    <3>1. PICK part \in PartsOf(gB) : Killed(OnDisk(stored.store, Index(gB), part), NoRows)
      BY <2>2
    <3>2. running /\ running' = FALSE /\ store' = OnDisk(s, Index(gB), part)
      BY <1>2, <3>1, KilledFacts
    <3> QED
      BY <3>2
  <2> QED
    BY <1>1, <2>1, <2>2
<1>4. PICK k \in Nat : ChainOf(store, k) /\ (Covered(store, k) \/ Stuck(store))
  BY <1>3 DEF ChainInv, Usable
<1>5. /\ BlockOK(b) /\ b.type = "dummy"
      /\ (Follows(store, k, b) /\ Covered(store, k)) \/ Harmless(store, b)
  BY <1>4, DummyBlockFacts
<1> HIDE DEF b
<1>6. Follows(store, k, b) /\ Covered(store, k)
  BY <1>1, <1>5 DEF Harmless
<1>7. Index(b) = k + 1 /\ b.prev = store.files[k].hash /\ store.files[k].type # "torn"
  BY <1>6 DEF Follows
<1>8. /\ ChainOf(s, k + 1) /\ Covered(s, k + 1) /\ Keeps(store, s)
      /\ s.files[k + 1] = b
  BY <1>4, <1>5, <1>6, <1>7, InsertNext
<1> HIDE DEF s
<1> DEFINE j == k + 1
<1>9. j \in Nat /\ ChainOf(s, j) /\ Covered(s, j) /\ s.files[j].type # "torn"
  BY <1>5, <1>8
<1> HIDE DEF j
<1>10. CASE store' = s
  BY <1>3, <1>8, <1>9, <1>10 DEF ChainInv
<1>11. CASE \E part \in PartsOf(gB) : store' = OnDisk(s, Index(gB), part)
  <2>1. PICK part \in PartsOf(gB) : store' = OnDisk(s, Index(gB), part)
    BY <1>11
  <2>2. /\ BlockOK(gB) /\ gB.type = "genesis" /\ Index(gB) = j + 1
        /\ gB.prev = s.files[j].hash
        /\ gB.prevGen = s.files[Below(s, j + 1)].hash
    BY <1>2, <1>9, NewGenesisFacts DEF gB
  <2>3. ChainOf(store', j + 1) /\ Keeps(s, store')
    BY <1>9, <2>1, <2>2, KilledInAdd
  <2>4. Keeps(store, store') /\ j + 1 \in Nat
    BY <1>8, <1>9, <2>3, KeepsMore
  <2> QED
    BY <1>3, <2>3, <2>4 DEF ChainInv
<1> QED
  BY <1>3, <1>10, <1>11

LEMMA CrashInDataBlockKeeps ==
  ASSUME ChainInv, CrashInDataBlock
  PROVE  ChainInv' /\ Keeps(store, store') /\ running' = FALSE
<1> DEFINE s == RemoveDummyBlocks(store)
           b == DataBlock(s)
<1>1. pendingTxs # <<>>
  BY DEF CrashInDataBlock
<1>2. \/ \E i \in DummyStop(store) + 1 .. store.lastSavedId : Killed(RemoveById(store, i), ec)
      \/ /\ Index(b) \notin Ids(s)
         /\ \E part \in PartsOf(b) : \E e : Killed(OnDisk(s, Index(b), part), e)
  <2>1. b \in PartsOf(b)
    BY DEF PartsOf
  <2> HIDE DEF b, s
  <2> QED
    BY <2>1, Zenon DEF CrashInDataBlock, b, s
<1>3. /\ running /\ running' = FALSE
      /\ \/ \E i \in DummyStop(store) + 1 .. store.lastSavedId : store' = RemoveById(store, i)
         \/ /\ Index(b) \notin Ids(s)
            /\ \E part \in PartsOf(b) : store' = OnDisk(s, Index(b), part)
  <2> HIDE DEF b, s
  <2>1. CASE \E i \in DummyStop(store) + 1 .. store.lastSavedId : Killed(RemoveById(store, i), ec)
    <3>1. PICK i \in DummyStop(store) + 1 .. store.lastSavedId : Killed(RemoveById(store, i), ec)
      BY <2>1
    <3>2. running /\ running' = FALSE /\ store' = RemoveById(store, i)
      BY <3>1, KilledFacts
    <3> QED
      BY <3>2
  <2>2. CASE /\ Index(b) \notin Ids(s)
             /\ \E part \in PartsOf(b) : \E e : Killed(OnDisk(s, Index(b), part), e)
    <3>1. PICK part \in PartsOf(b) : \E e : Killed(OnDisk(s, Index(b), part), e)
      BY <2>2
    <3>2. running /\ running' = FALSE /\ store' = OnDisk(s, Index(b), part)
      BY <3>1, KilledFacts
    <3> QED
      BY <2>2, <3>2
  <2> QED
    BY <1>2, <2>1, <2>2
<1>4. PICK k \in Nat : ChainOf(store, k) /\ (Covered(store, k) \/ Stuck(store))
  BY <1>3 DEF ChainInv, Usable
<1>5. CASE \E i \in DummyStop(store) + 1 .. store.lastSavedId : store' = RemoveById(store, i)
  <2>1. PICK i \in DummyStop(store) + 1 .. store.lastSavedId : store' = RemoveById(store, i)
    BY <1>5
  <2>2. /\ store.firstSavedId = 0 /\ store.lastSavedId \in 0 .. k
        /\ Stuck(store) => store.lastSavedId = 0
        /\ DummyStop(store) \in 0 .. store.lastSavedId
        /\ \A g \in DummyStop(store) + 1 .. store.lastSavedId : store.files[g].type = "dummy"
    BY <1>4, StopFacts
  <2>3. store.lastSavedId = k /\ i \in 1 .. k
    BY <1>4, <2>1, <2>2 DEF Covered
  <2>4. Ids(store) = 0 .. k /\ Typed(store) /\ FilesInSections(store)
    BY <1>4, ChainFacts DEF ChainOf
  <2>5. /\ Typed(store') /\ FilesInSections(store')
        /\ Ids(store') = Ids(store) \ {g \in Ids(store) : i <= g /\ g <= store.lastSavedId}
        /\ \A g \in Ids(store') : store'.files[g] = store.files[g]
    <3> DEFINE t == RemoveById(store, i)
    <3>1. i \in Nat /\ Typed(store) /\ FilesInSections(store) /\ store.firstSavedId = 0
      BY <2>2, <2>3, <2>4
    <3>2. /\ Typed(t) /\ FilesInSections(t)
          /\ Ids(t) = Ids(store) \ {g \in Ids(store) : i <= g /\ g <= store.lastSavedId}
          /\ \A g \in Ids(t) : t.files[g] = store.files[g]
      BY <3>1, RemoveTyped
    <3>3. store' = t
      BY <2>1
    <3> HIDE DEF t
    <3> QED
      BY <3>2, <3>3
  <2>6. i - 1 \in 0 .. k /\ Ids(store') = 0 .. i - 1
    BY <2>3, <2>4, <2>5
  <2>7. ChainInv'
    <3> DEFINE d == i - 1
    <3>1. d \in 0 .. k /\ Ids(store') = 0 .. d /\ \A g \in 0 .. d : store'.files[g] = store.files[g]
      BY <2>5, <2>6
    <3> HIDE DEF d
    <3>2. ChainOf(store', d)
      BY <1>4, <2>5, <3>1, Shortened
    <3>3. d \in Nat
      BY <2>6 DEF d
    <3> QED
      BY <1>3, <3>2, <3>3, Ended
  <2>8. Keeps(store, store')
    <3>1. \A g \in 0 .. k : g \in 0 .. i - 1 \/ g \in DummyStop(store) + 1 .. store.lastSavedId
      BY <2>1, <2>2, <2>3
    <3> QED
      BY <2>2, <2>4, <2>5, <2>6, <3>1 DEF Keeps
  <2> QED
    BY <1>3, <2>7, <2>8
<1>6. CASE /\ Index(b) \notin Ids(s)
           /\ \E part \in PartsOf(b) : store' = OnDisk(s, Index(b), part)
  <2>1. PICK d \in 0 .. k :
          /\ ChainOf(s, d) /\ Keeps(store, s)
          /\ (Covered(s, d) /\ s.files[d].type # "dummy") \/ Stuck(s)
    BY <1>4, BareFacts
  <2> HIDE DEF s
  <2>2. /\ BlockOK(b) /\ b.type = "data"
        /\ (Follows(s, d, b) /\ Covered(s, d)) \/ Harmless(s, b)
    BY <1>1, <2>1, DataBlockFacts
  <2> HIDE DEF b
  <2>3. Follows(s, d, b)
    BY <1>6, <2>2 DEF Harmless
  <2>4. PICK part \in PartsOf(b) : store' = OnDisk(s, Index(b), part)
    BY <1>6
  <2>5. ChainOf(store', d + 1) /\ Keeps(s, store')
    BY <2>1, <2>2, <2>3, <2>4, KilledInAdd DEF Follows
  <2>6. Keeps(store, store') /\ d + 1 \in Nat
    BY <2>1, <2>5, KeepsMore
  <2> QED
    BY <1>3, <2>5, <2>6 DEF ChainInv
<1> QED
  BY <1>3, <1>5, <1>6

LEMMA ProveTransactionsKeeps ==
  ASSUME ProveTransactions
  PROVE  /\ store' = store /\ ec' = ec /\ (running' = running \/ running' = FALSE)
         /\ blocksFromLastGenesis' \in {blocksFromLastGenesis, 0}
<1> DEFINE lists == [pending |-> pendingTxs, received |-> receivedTxList]
<1>1. AbortProcess => store' = store /\ ec' = ec /\ running' = FALSE /\ blocksFromLastGenesis' = 0
  BY AbortProcessFacts
<1>2. UNCHANGED <<store, ec, blocksFromLastGenesis, running>> =>
        /\ store' = store /\ ec' = ec /\ running' = running
        /\ blocksFromLastGenesis' = blocksFromLastGenesis
  OBVIOUS
<1> QED
  BY <1>1, <1>2, Zenon DEF ProveTransactions

LEMMA NextKeeps ==
  ASSUME ChainInv, [Next]_vars
  PROVE  /\ ChainInv' /\ Keeps(store, store')
         /\ WholeInv /\ ~(Start /\ TopSectionEmpty(store)) => WholeInv'
<1>1. CASE MakeDummyBlock
  <2>1. running
    BY <1>1, MadeBlockFacts DEF MakeDummyBlock
  <2> QED
    BY <1>1, <2>1, MakeDummyBlockKeeps DEF WholeInv
<1>2. CASE PackPendingTxs
  <2>1. running
    BY <1>2, MadeBlockFacts DEF PackPendingTxs
  <2> QED
    BY <1>2, <2>1, PackPendingTxsKeeps DEF WholeInv
<1>3. CASE ProveTransactions
  BY <1>3, ProveTransactionsKeeps, SameStore
<1>4. ASSUME NEW tx, AddVerifiedTx(tx) \/ AddTransaction(tx) \/ CreateTransaction(tx)
      PROVE  ChainInv' /\ Keeps(store, store') /\ (WholeInv => WholeInv')
  <2>1. store' = store /\ (running' = running \/ running' = FALSE)
    BY <1>4, AbortProcessFacts DEF AddVerifiedTx, AddTransaction, CreateTransaction
  <2> QED
    BY <2>1, SameStore
<1>5. CASE Stop
  <2>1. store' = store /\ running' = FALSE
    BY <1>5, AbortProcessFacts DEF Stop
  <2> QED
    BY <2>1, SameStore
<1>6. CASE Start
  BY <1>6, StartKeeps DEF WholeInv
<1>7. CASE UNCHANGED vars
  BY <1>7, SameStore DEF vars
<1> QED
  BY <1>1, <1>2, <1>3, <1>4, <1>5, <1>6, <1>7 DEF Next, MakeBlock

LEMMA CrashNextKeeps ==
  ASSUME ChainInv, [CrashNext]_crashVars
  PROVE  /\ ChainInv' /\ Keeps(store, store')
         /\ WholeInv /\ ~(Start /\ TopSectionEmpty(store)) => WholeInv'
<1>1. CASE [Next]_vars
  BY <1>1, NextKeeps
<1>2. CASE CrashInMakeBlock
  BY <1>2, CrashInDummyBlockKeeps, CrashInGenesisBlockKeeps, CrashInDataBlockKeeps
     DEF CrashInMakeBlock, WholeInv
<1> QED
  BY <1>1, <1>2 DEF CrashNext, crashVars

LEMMA InitChain == Init => ChainInv /\ WholeInv
<1> SUFFICES ASSUME Init
             PROVE  ChainInv /\ WholeInv
  OBVIOUS
<1> DEFINE s == Insert(EmptyStore, 0, Genesis0)
<1>1. Typed(EmptyStore) /\ FilesInSections(EmptyStore)
  <2>1. 0 \in Nat /\ StoreTypeOK(EmptyStore, 0) /\ Ids(EmptyStore) = {}
    BY EmptyStoreFacts
  <2> QED
    BY <2>1 DEF Typed, FilesInSections
<1>2. "genesis" \in FileTypes \ {"torn"} /\ "genesis" # "data"
  BY DEF FileTypes, ReadableTypes
<1>3. BlockOK(Genesis0) /\ Genesis0.type = "genesis"
  BY <1>2, NewBlockFacts DEF Genesis0, NewBlock, BlockOK
<1>4. Ids(EmptyStore) = {} /\ EmptyStore.firstSavedId = 0 /\ EmptyStore.lastSavedId = 0
  BY EmptyStoreFacts DEF EmptyStore
<1>5. /\ Typed(s) /\ FilesInSections(s) /\ Ids(s) = {0}
      /\ s.files[0] = Genesis0 /\ s.firstSavedId = 0 /\ s.lastSavedId = 0
  <2>1. Genesis0.type \in FileTypes /\ 0 \in Nat
    BY <1>2, <1>3
  <2>2. /\ Typed(s) /\ FilesInSections(s) /\ Ids(s) = Ids(EmptyStore) \cup {0}
        /\ s.files[0] = Genesis0 /\ s.firstSavedId = 0
    BY <1>1, <1>4, <2>1, InsertTyped
  <2>3. s.lastSavedId = 0
    BY <1>4 DEF Insert
  <2> QED
    BY <1>4, <2>2, <2>3
<1> HIDE DEF s
<1>6. ChainOf(s, 0) /\ Covered(s, 0)
  <2>1. 0 .. 0 = {0} /\ 0 .. 0 - 1 = {} /\ 1 .. 0 = {} /\ 0 \in 0 .. 0
    OBVIOUS
  <2> QED
    BY <1>3, <1>5, <2>1 DEF ChainOf, Covered
<1> QED
  BY <1>6 DEF Init, ChainInv, WholeInv, Usable, Whole, s

LEMMA ChainInvLinks == ChainInv => ChainLinked
<1> SUFFICES ASSUME ChainInv
             PROVE  ChainLinked
  OBVIOUS
<1>1. PICK k \in Nat : ChainOf(store, k)
  BY DEF ChainInv
<1>2. Ids(store) = 0 .. k
  BY <1>1, ChainFacts
<1>3. Max(Ids(store)) = k
  <2>1. (0 .. k) \in SUBSET Nat /\ k \in 0 .. k /\ \A i \in 0 .. k : i <= k
    OBVIOUS
  <2>2. Top(0 .. k) = k /\ 0 .. k # {}
    BY <2>1, TopFacts
  <2> QED
    BY <1>2, <2>2 DEF Top
<1>4. ASSUME NEW i \in Ids(store) \ {0}
      PROVE  Linked(store, i)
  BY <1>1, <1>2 DEF ChainOf
<1>5. \A i \in Ids(store) : GenesisBelow(i) = Below(store, i)
  BY DEF GenesisBelow, Below
<1> QED
  BY <1>2, <1>3, <1>4, <1>5 DEF ChainLinked, Linked

LEMMA MakeBlockStep ==
  ASSUME ChainInv, MakeBlock, ~running'
  PROVE  \E i \in Ids(store') : ~CanExtract(store'.files[i])
  BY MakeDummyBlockKeeps, PackPendingTxsKeeps DEF MakeBlock, Unextractable

-----------------------------------------------------------------------------
(* Pending transactions *)

\* No restart finds the highest directory empty: the node never starts between
\* the removal of the dummy blocks of a new directory and the block that goes
\* into it.  (After such a start the range covers block 0 only, each index is
\* taken, and what is pending is dropped.)
StartsOnFiles == [][Start => ~TopSectionEmpty(store)]_vars

LEMMA WholeTaken ==
  ASSUME NEW k \in Nat, ChainOf(store, k), Covered(store, k), store.files[k].type # "torn"
  PROVE  /\ Follows(store, k, DummyBlock(store))
         /\ \E d \in 0 .. k :
              LET s == RemoveDummyBlocks(store) IN
                /\ ChainOf(s, d) /\ Covered(s, d)
                /\ \A i \in 0 .. d : s.files[i] = store.files[i]
                /\ \A i \in d + 1 .. k : store.files[i].type = "dummy"
                /\ Follows(s, d, DataBlock(s))
<1> DEFINE s == RemoveDummyBlocks(store)
           b == DataBlock(s)
<1>1. Follows(store, k, DummyBlock(store))
  BY DummyBlockFacts
<1>2. PICK d \in 0 .. k :
        /\ ChainOf(s, d) /\ Covered(s, d) /\ s.files[d].type # "dummy"
        /\ \A i \in 0 .. d : s.files[i] = store.files[i]
        /\ \A i \in d + 1 .. k : store.files[i].type = "dummy"
  BY BareFacts
<1> HIDE DEF s
<1>3. s.files[d].type # "torn"
  <2>1. d \in 0 .. k - 1 \/ d = k
    OBVIOUS
  <2>2. store.files[d].type # "torn"
    BY <2>1 DEF ChainOf
  <2> QED
    BY <1>2, <2>2
<1>4. Follows(s, d, b)
  BY <1>2, <1>3, DataBlockFacts
<1> HIDE DEF b
<1> QED
  BY <1>1, <1>2, <1>4 DEF s, b

LEMMA WholeFree ==
  ASSUME ChainInv, WholeInv
  PROVE  TakenOnlyIfTorn
<1> SUFFICES ASSUME running, TornIds = {}
             PROVE  /\ Index(DummyBlock(store)) \notin Ids(store)
                    /\ Index(DataBlock(RemoveDummyBlocks(store))) \notin Ids(RemoveDummyBlocks(store))
  BY DEF TakenOnlyIfTorn
<1>1. PICK k \in Nat : ChainOf(store, k) /\ Covered(store, k)
  BY DEF WholeInv, Whole
<1>2. Ids(store) = 0 .. k /\ store.files[k].type # "torn"
  BY <1>1, ChainFacts DEF TornIds
<1>3. Index(DummyBlock(store)) \notin Ids(store)
  BY <1>1, <1>2, WholeTaken DEF Follows
<1> DEFINE s == RemoveDummyBlocks(store)
           b == DataBlock(s)
<1>4. PICK d \in 0 .. k : ChainOf(s, d) /\ Follows(s, d, b)
  BY <1>1, <1>2, WholeTaken
<1> HIDE DEF s, b
<1>5. Index(b) \notin Ids(s)
  BY <1>4, ChainFacts DEF Follows
<1> QED
  BY <1>3, <1>5 DEF s, b

LEMMA AppendRange ==
  ASSUME NEW seq \in Seq(Txs), NEW tx \in Txs
  PROVE  /\ Append(seq, tx) \in Seq(Txs)
         /\ Range(Append(seq, tx)) = Range(seq) \cup {tx}
<1> DEFINE more == Append(seq, tx)
<1>1. /\ more \in Seq(Txs) /\ Len(more) = Len(seq) + 1 /\ more[Len(seq) + 1] = tx
      /\ \A i \in 1 .. Len(seq) : more[i] = seq[i]
  OBVIOUS
<1> HIDE DEF more
<1>2. Range(more) = Range(seq) \cup {tx}
  BY <1>1 DEF Range
<1> QED
  BY <1>1, <1>2 DEF more

LEMMA RemoveFirstTyped ==
  ASSUME NEW S, NEW s \in Seq(S), NEW e
  PROVE  RemoveFirst(s, e) \in Seq(S) /\ Len(RemoveFirst(s, e)) <= Len(s)
<1>1. CASE ~ (\E i \in 1 .. Len(s) : s[i] = e)
  BY <1>1 DEF RemoveFirst
<1>2. CASE \E i \in 1 .. Len(s) : s[i] = e
  <2> DEFINE I == {i \in 1 .. Len(s) : s[i] = e}
  <2>1. I \in SUBSET Nat /\ I # {}
    BY <1>2
  <2>2. Min(I) \in I
    <3> HIDE DEF I
    <3> QED
      BY <2>1, MinNat
  <2>3. RemoveFirst(s, e) = RemoveAt(s, Min(I))
    BY <1>2, <2>1 DEF RemoveFirst, SelectInSeq
  <2>4. PICK m \in 1 .. Len(s) : RemoveFirst(s, e) = RemoveAt(s, m)
    BY <2>2, <2>3
  <2>5. /\ SubSeq(s, 1, m - 1) \in Seq(S) /\ Len(SubSeq(s, 1, m - 1)) = m - 1
        /\ SubSeq(s, m + 1, Len(s)) \in Seq(S) /\ Len(SubSeq(s, m + 1, Len(s))) = Len(s) - m
    BY SubSeqProperties
  <2> HIDE DEF I
  <2>6. RemoveAt(s, m) \in Seq(S) /\ Len(RemoveAt(s, m)) = (m - 1) + (Len(s) - m)
    <3> DEFINE u == SubSeq(s, 1, m - 1)
               v == SubSeq(s, m + 1, Len(s))
    <3>1. RemoveAt(s, m) = u \o v
      BY DEF RemoveAt
    <3> HIDE DEF u, v
    <3>2. u \in Seq(S) /\ v \in Seq(S) /\ Len(u) = m - 1 /\ Len(v) = Len(s) - m
      BY <2>5 DEF u, v
    <3>3. u \o v \in Seq(S) /\ Len(u \o v) = Len(u) + Len(v)
      BY <3>2, ConcatProperties
    <3> QED
      BY <3>1, <3>2, <3>3
  <2> QED
    BY <2>4, <2>6
<1> QED
  BY <1>1, <1>2

\* The lists pending and received are those proveTx makes of p and r: nothing is
\* pending that was not, no transaction is added to the other list.
ProvesTo(p, r, tx, o, pending, received) ==
  /\ Proved([pending |-> p, received |-> r], tx, o) = [pending |-> pending, received |-> received]
  /\ Range(pending) = Range(p)
  /\ Len(received) <= Len(r)

LEMMA ProvedFacts ==
  ASSUME NEW p \in Seq(Txs), NEW r \in Seq(Txs), NEW tx \in Txs, NEW o \in ProveOutcomes(tx),
         o # "abort"
  PROVE  \E pending, received \in Seq(Txs) : ProvesTo(p, r, tx, o, pending, received)
<1> DEFINE lists == [pending |-> p, received |-> r]
           q == RemoveFirst(r, tx)
           more == AddProved(p, tx)
<1>1. o \in {"keep", "reject", "approve"}
  BY ChainAssumption DEF ProveOutcomes, TxKinds
<1>2. q \in Seq(Txs) /\ Len(q) <= Len(r)
  BY RemoveFirstTyped
<1>3. more \in Seq(Txs) /\ Range(more) = Range(p)
  <2>1. CASE tx \in Range(p)
    <3>1. more = Append(p, tx)
      BY <2>1 DEF AddProved
    <3>2. more \in Seq(Txs) /\ Range(more) = Range(p) \cup {tx}
      BY <3>1, AppendRange
    <3> QED
      BY <2>1, <3>2
  <2>2. CASE tx \notin Range(p)
    BY <2>2 DEF AddProved
  <2> QED
    BY <2>1, <2>2
<1>4. lists.pending = p /\ lists.received = r
  OBVIOUS
<1>5. CASE o = "keep"
  BY <1>5 DEF Proved, ProvesTo
<1>6. CASE o = "reject"
  <2>1. Proved(lists, tx, o) = [lists EXCEPT !.received = q]
    BY <1>4, <1>6 DEF Proved
  <2> HIDE DEF q
  <2>2. Proved(lists, tx, o) = [pending |-> p, received |-> q]
    BY <2>1
  <2> QED
    BY <1>2, <2>2 DEF ProvesTo
<1>7. CASE o = "approve"
  <2>1. Proved(lists, tx, o) = [pending |-> more, received |-> q]
    BY <1>4, <1>7 DEF Proved
  <2> HIDE DEF q, more
  <2> QED
    BY <1>2, <1>3, <2>1 DEF ProvesTo
<1> QED
  BY <1>1, <1>5, <1>6, <1>7

\* Both lists hold transactions, the second one no more than it may.
ListsOK ==
  /\ pendingTxs \in Seq(Txs)
  /\ receivedTxList \in Seq(Txs) /\ Len(receivedTxList) <= MaxReceived

LEMMA NoneListed == <<>> \in Seq(Txs) /\ Len(<<>>) <= MaxReceived
  BY ChainAssumption

\* What a handler that makes no block may do to the chain and to what is pending.
Quiet ==
  /\ store' = store /\ running' = running
  /\ Range(pendingTxs') = Range(pendingTxs)
Dies ==
  /\ running /\ running' = FALSE
  /\ store' = store /\ pendingTxs' = <<>>

LEMMA AbortDies ==
  ASSUME running, AbortProcess
  PROVE  Dies /\ ListsOK'
<1>1. store' = store /\ running' = FALSE
  BY AbortProcessFacts
<1>2. pendingTxs' = <<>> /\ receivedTxList' = <<>>
  BY Zenon DEF AbortProcess, ListsLost
<1> QED
  BY <1>1, <1>2, NoneListed, Zenon DEF Dies, ListsOK

LEMMA ProveTransactionsFacts ==
  ASSUME ListsOK, ProveTransactions
  PROVE  (Quiet \/ Dies) /\ ListsOK'
<1> DEFINE lists == [pending |-> pendingTxs, received |-> receivedTxList]
           Set(l) == /\ pendingTxs' = l.pending
                     /\ receivedTxList' = l.received
                     /\ UNCHANGED <<store, ec, blocksFromLastGenesis, running>>
<1>1. running /\ receivedTxList # <<>> /\ receivedTxList[1] \in Txs
  BY DEF ProveTransactions, ListsOK
<1>2. ASSUME AbortProcess
      PROVE  Dies /\ ListsOK'
  BY <1>1, <1>2, AbortDies
<1>3. ASSUME NEW p \in Seq(Txs), NEW r \in Seq(Txs), Range(p) = Range(pendingTxs),
             Len(r) <= Len(receivedTxList), Set([pending |-> p, received |-> r])
      PROVE  Quiet /\ ListsOK'
  <2>1. Len(r) \in Nat /\ Len(receivedTxList) \in Nat /\ MaxReceived \in Nat
    BY ChainAssumption DEF ListsOK
  <2> QED
    BY <1>3, <2>1 DEF Quiet, ListsOK
<1> HIDE DEF Set
<1>4. PICK o \in ProveOutcomes(receivedTxList[1]) :
        LET one == Proved(lists, receivedTxList[1], o)
        IN \/ AbortProcess
           \/ o # "abort" /\ Set(one)
           \/ /\ o # "abort" /\ Len(receivedTxList) = 2
              /\ \E p \in ProveOutcomes(receivedTxList[2]) :
                   p # "abort" /\ Set(Proved(one, receivedTxList[2], p))
  <2> HIDE DEF lists
  <2> QED
    BY Zenon DEF ProveTransactions, lists, Set
<1>5. CASE AbortProcess
  BY <1>2, <1>5
<1>6. CASE o # "abort" /\ ~AbortProcess
  <2>4. pendingTxs \in Seq(Txs) /\ receivedTxList \in Seq(Txs) /\ o # "abort"
    BY <1>6 DEF ListsOK
  <2>5. PICK pending, received \in Seq(Txs) :
          ProvesTo(pendingTxs, receivedTxList, receivedTxList[1], o, pending, received)
    BY <1>1, <2>4, ProvedFacts
  <2>1. /\ Proved(lists, receivedTxList[1], o) = [pending |-> pending, received |-> received]
        /\ Range(pending) = Range(pendingTxs) /\ Len(received) <= Len(receivedTxList)
    BY <2>5 DEF ProvesTo
  <2> DEFINE one == [pending |-> pending, received |-> received]
  <2>2. CASE Set(one)
    BY <1>3, <2>1, <2>2
  <2>3. CASE /\ Len(receivedTxList) = 2
             /\ \E p \in ProveOutcomes(receivedTxList[2]) :
                  p # "abort" /\ Set(Proved(one, receivedTxList[2], p))
    <3>1. PICK p \in ProveOutcomes(receivedTxList[2]) :
            p # "abort" /\ Set(Proved(one, receivedTxList[2], p))
      BY <2>3
    <3>2. receivedTxList[2] \in Txs
      <4>1. receivedTxList \in Seq(Txs) /\ Len(receivedTxList) = 2
        BY <2>3 DEF ListsOK
      <4> QED
        BY <4>1
    <3>6. PICK q, r \in Seq(Txs) : ProvesTo(pending, received, receivedTxList[2], p, q, r)
      BY <3>1, <3>2, ProvedFacts
    <3>3. /\ Proved(one, receivedTxList[2], p) = [pending |-> q, received |-> r]
          /\ Range(q) = Range(pending) /\ Len(r) <= Len(received)
      BY <3>6 DEF ProvesTo
    <3>5. Len(received) \in Nat /\ Len(r) \in Nat /\ Len(receivedTxList) \in Nat
      BY DEF ListsOK
    <3>4. /\ Set([pending |-> q, received |-> r]) /\ Range(q) = Range(pendingTxs)
          /\ Len(r) <= Len(receivedTxList)
      BY <2>1, <3>1, <3>3, <3>5
    <3> QED
      BY <1>3, <3>4
  <2> QED
    BY <1>4, <1>6, <2>1, <2>2, <2>3
<1> QED
  BY <1>4, <1>5, <1>6

\* What makeBlock does to the files, when it does not meet an unreadable one.
LEMMA DummyStored ==
  ASSUME ChainInv, WholeInv, TornIds = {}, MakeDummyBlock
  PROVE  \E k \in Nat :
           /\ Ids(store) = 0 .. k /\ \A i \in 0 .. k : store'.files[i] = store.files[i]
           /\ store'.files[k + 1].type = "dummy"
           /\ \/ Ids(store') = 0 .. k + 1
              \/ /\ Ids(store') = 0 .. k + 2 /\ running' = TRUE
                 /\ store'.files[k + 2].type = "genesis"
<1> DEFINE b == DummyBlock(store)
           r == AddBlock(Node, b)
<1>1. MadeBlock(r)
  BY DEF MakeDummyBlock
<1>2. running = TRUE
  BY <1>1, MadeBlockFacts DEF ChainInv
<1>3. IsNode(Node) /\ Node.store = store /\ Up(Node)
  BY <1>2, NodeFacts, Zenon DEF Up
<1>4. PICK k \in Nat : ChainOf(store, k) /\ Covered(store, k)
  BY <1>2 DEF WholeInv, Whole
<1>5. Ids(store) = 0 .. k /\ store.files[k].type # "torn"
  BY <1>4, ChainFacts DEF TornIds
<1>6. BlockOK(b) /\ b.type = "dummy" /\ b.signers = {Me} /\ Follows(store, k, b)
  BY <1>4, <1>5, DummyBlockFacts
<1> HIDE DEF b
<1>7. PICK j \in {k + 1, k + 2} :
        /\ ChainOf(r.store, j) /\ Covered(r.store, j) /\ Keeps(store, r.store)
        /\ \A i \in 0 .. k : r.store.files[i] = store.files[i]
        /\ r.store.files[k + 1] = b
        /\ j = k + 2 => Up(r) /\ b.type = "dummy" /\ r.store.files[k + 2].type = "genesis"
        /\ Up(r) \/ (Down(r) /\ Unextractable(r.store))
  <2>1. b.type \in {"dummy", "data"} /\ (b.type = "data" => b.txs # <<>>)
    BY <1>6
  <2> QED
    BY <1>3, <1>4, <1>6, <2>1, FollowingBlock
<1> HIDE DEF r
<1>8. store' = r.store /\ (Up(r) => running' = TRUE)
  BY <1>1, MadeBlockFacts, Zenon DEF Up
<1>9. Ids(r.store) = 0 .. j
  BY <1>7, ChainFacts
<1>10. CASE j = k + 1
  BY <1>5, <1>6, <1>7, <1>8, <1>9, <1>10
<1>11. CASE j = k + 2
  BY <1>5, <1>6, <1>7, <1>8, <1>9, <1>11
<1> QED
  BY <1>10, <1>11

LEMMA DataStored ==
  ASSUME ChainInv, WholeInv, TornIds = {}, PackPendingTxs
  PROVE  \E k \in Nat : \E d \in 0 .. k :
           /\ Ids(store) = 0 .. k /\ Ids(store') = 0 .. d + 1
           /\ \A i \in 0 .. d : store'.files[i] = store.files[i]
           /\ \A i \in d + 1 .. k : store.files[i].type = "dummy"
           /\ store'.files[d + 1].type = "data" /\ store'.files[d + 1].txs = pendingTxs
<1> DEFINE s == RemoveDummyBlocks(store)
           bare == [Node EXCEPT !.store = s]
           b == DataBlock(bare.store)
           r == AddBlock(bare, b)
<1>1. MadeBlock(r) /\ pendingTxs # <<>>
  <2>1. Node.store = store
    BY NodeFacts
  <2>2. [Node EXCEPT !.store = RemoveDummyBlocks(@)] = bare
    BY <2>1
  <2> HIDE DEF bare
  <2> QED
    BY <2>2, Zenon DEF PackPendingTxs
<1>2. running = TRUE
  BY <1>1, MadeBlockFacts DEF ChainInv
<1>3. IsNode(bare) /\ bare.store = s /\ Up(bare)
  BY <1>2, NodeFacts, WithStore, Zenon DEF Up
<1>4. PICK k \in Nat : ChainOf(store, k) /\ Covered(store, k)
  BY <1>2 DEF WholeInv, Whole
<1>5. Ids(store) = 0 .. k /\ store.files[k].type # "torn"
  BY <1>4, ChainFacts DEF TornIds
<1>6. PICK d \in 0 .. k :
        /\ ChainOf(s, d) /\ Covered(s, d)
        /\ \A i \in 0 .. d : s.files[i] = store.files[i]
        /\ \A i \in d + 1 .. k : store.files[i].type = "dummy"
        /\ Follows(s, d, DataBlock(s))
  BY <1>4, <1>5, WholeTaken
<1> HIDE DEF s
<1>7. /\ b.type = "data" /\ b.signers = {Me} /\ b.txs = pendingTxs
      /\ BlockOK(b) /\ Follows(s, d, b)
  <2>1. BlockOK(b) /\ b.type = "data" /\ b.signers = {Me} /\ b.txs = pendingTxs
    <3>1. b = NewBlock(NextIndex(s, LastRealId(s)), "data", pendingTxs, PrevHash(s, LastRealId(s)), Me)
      BY <1>3 DEF DataBlock
    <3>2. "data" \in FileTypes \ {"torn"}
      BY DEF FileTypes, ReadableTypes
    <3> HIDE DEF b
    <3> QED
      BY <1>1, <3>1, <3>2, NewBlockFacts
  <2> QED
    BY <1>3, <1>6, <2>1
<1> HIDE DEF b, bare
<1>8. PICK j \in {d + 1, d + 2} :
        /\ ChainOf(r.store, j) /\ Covered(r.store, j) /\ Keeps(s, r.store)
        /\ \A i \in 0 .. d : r.store.files[i] = s.files[i]
        /\ r.store.files[d + 1] = b
        /\ j = d + 2 => Up(r) /\ b.type = "dummy" /\ r.store.files[d + 2].type = "genesis"
        /\ Up(r) \/ (Down(r) /\ Unextractable(r.store))
  <2>1. b.type \in {"dummy", "data"} /\ (b.type = "data" => b.txs # <<>>)
    BY <1>1, <1>7
  <2> QED
    BY <1>3, <1>6, <1>7, <2>1, FollowingBlock
<1> HIDE DEF r
<1>9. store' = r.store
  BY <1>1, MadeBlockFacts
<1>10. Ids(r.store) = 0 .. j /\ j = d + 1
  BY <1>7, <1>8, ChainFacts
<1> QED
  BY <1>5, <1>6, <1>7, <1>8, <1>9, <1>10

LEMMA KilledLists ==
  ASSUME CrashInMakeBlock
  PROVE  running' = FALSE /\ ListsOK'
<1>1. PICK disk, e : Killed(disk, e)
  <2>1. CASE CrashInDummyBlock
    BY <2>1, Zenon DEF CrashInDummyBlock
  <2>2. CASE CrashInGenesisBlock
    BY <2>2, Zenon DEF CrashInGenesisBlock
  <2>3. CASE CrashInDataBlock
    BY <2>3, Zenon DEF CrashInDataBlock
  <2> QED
    BY <2>1, <2>2, <2>3 DEF CrashInMakeBlock
<1>2. running' = FALSE
  BY <1>1, KilledFacts
<1>3. pendingTxs' = <<>> /\ receivedTxList' = <<>>
  BY <1>1, Zenon DEF Killed, ListsLost
<1> QED
  BY <1>2, <1>3, NoneListed, Zenon DEF ListsOK

\* The actions that make no block: they hand a transaction in, leave the pending
\* ones as they are, or end the process.
LEMMA OtherSteps ==
  ASSUME ListsOK,
         \/ ProveTransactions
         \/ \E tx \in Verified : AddVerifiedTx(tx)
         \/ \E tx \in Txs : AddTransaction(tx) \/ CreateTransaction(tx)
         \/ Stop
         \/ UNCHANGED vars
  PROVE  /\ ListsOK'
         /\ \/ Quiet
            \/ Dies
            \/ \E tx \in Verified : AddVerifiedTx(tx) /\ Range(pendingTxs') = Range(pendingTxs) \cup {tx}
<1>1. CASE ProveTransactions
  BY <1>1, ProveTransactionsFacts
<1>2. ASSUME NEW tx \in Verified, AddVerifiedTx(tx)
      PROVE  ListsOK' /\ Range(pendingTxs') = Range(pendingTxs) \cup {tx}
  <2>1. /\ tx \in Txs /\ pendingTxs \in Seq(Txs)
        /\ receivedTxList' \in Seq(Txs) /\ Len(receivedTxList') <= MaxReceived
    BY <1>2, ChainAssumption DEF ListsOK, AddVerifiedTx
  <2>2. pendingTxs' = Append(pendingTxs, tx)
    BY <1>2 DEF AddVerifiedTx
  <2>3. pendingTxs' \in Seq(Txs) /\ Range(pendingTxs') = Range(pendingTxs) \cup {tx}
    BY <2>1, <2>2, AppendRange
  <2> QED
    BY <2>1, <2>3 DEF ListsOK
<1>3. ASSUME NEW tx \in Txs, AddTransaction(tx)
      PROVE  Quiet /\ ListsOK'
  <2>1. receivedTxList \in Seq(Txs) /\ Len(receivedTxList) < MaxReceived
    BY <1>3 DEF AddTransaction, ListsOK
  <2>2. receivedTxList' = Append(receivedTxList, tx)
    BY <1>3 DEF AddTransaction
  <2>3. receivedTxList' \in Seq(Txs) /\ Len(receivedTxList') <= MaxReceived
    <3>1. Len(Append(receivedTxList, tx)) = Len(receivedTxList) + 1 /\ Len(receivedTxList) \in Nat
      BY <2>1
    <3> QED
      BY <2>1, <2>2, <3>1, ChainAssumption, AppendRange
  <2> QED
    BY <1>3, <2>3 DEF AddTransaction, Quiet, ListsOK
<1>4. ASSUME running, AbortProcess
      PROVE  Dies /\ ListsOK'
  BY <1>4, AbortDies
<1>5. ASSUME NEW tx \in Txs, CreateTransaction(tx)
      PROVE  (Quiet \/ Dies) /\ ListsOK'
  BY <1>3, <1>4, <1>5 DEF CreateTransaction
<1>6. CASE Stop
  BY <1>4, <1>6 DEF Stop
<1>7. CASE UNCHANGED vars
  BY <1>7 DEF vars, Quiet, ListsOK
<1> QED
  BY <1>1, <1>2, <1>3, <1>5, <1>6, <1>7

LEMMA ListsStep ==
  ASSUME ListsOK, Next \/ CrashInMakeBlock \/ UNCHANGED vars
  PROVE  ListsOK'
<1>1. CASE MakeBlock
  <2>1. pendingTxs' = <<>> /\ (receivedTxList' = receivedTxList \/ receivedTxList' = <<>>)
    BY <1>1, Zenon DEF MakeBlock, MakeDummyBlock, PackPendingTxs, MadeBlock
  <2>2. receivedTxList \in Seq(Txs) /\ Len(receivedTxList) <= MaxReceived
    BY DEF ListsOK
  <2> QED
    BY <2>1, <2>2, NoneListed, Zenon DEF ListsOK
<1>2. CASE Start
  BY <1>2 DEF Start, ListsOK
<1>3. CASE CrashInMakeBlock
  BY <1>3, KilledLists
<1> QED
  BY <1>1, <1>2, <1>3, OtherSteps DEF Next

LEMMA PackedStep ==
  ASSUME ChainInv, WholeInv, ListsOK, [CrashNext]_crashVars,
         NEW tx \in Range(pendingTxs), TornIds = {}, running'
  PROVE  tx \in Range(pendingTxs') \/ InBlock(store', tx)
<1>1. CASE MakeDummyBlock
  <2>1. pendingTxs = <<>>
    BY <1>1 DEF MakeDummyBlock
  <2> QED
    BY <2>1 DEF Range
<1>2. CASE PackPendingTxs
  <2>1. PICK d \in Nat :
          /\ Ids(store') = 0 .. d + 1
          /\ store'.files[d + 1].type = "data" /\ store'.files[d + 1].txs = pendingTxs
    <3>1. PICK k \in Nat : \E d \in 0 .. k :
            /\ Ids(store') = 0 .. d + 1
            /\ store'.files[d + 1].type = "data" /\ store'.files[d + 1].txs = pendingTxs
      BY <1>2, DataStored
    <3> QED
      BY <3>1
  <2> QED
    BY <2>1 DEF InBlock
<1>3. CASE Start
  BY <1>3 DEF Start
<1>4. CASE CrashInMakeBlock
  BY <1>4, KilledLists
<1>5. CASE Quiet \/ Dies \/ Range(pendingTxs) \subseteq Range(pendingTxs')
  BY <1>5 DEF Quiet, Dies
<1> QED
  BY <1>1, <1>2, <1>3, <1>4, <1>5, OtherSteps DEF CrashNext, Next, MakeBlock, crashVars

-----------------------------------------------------------------------------
(* The ledger *)

\* The element of S that has k elements of S up to and including it.
Rank(S, i) == Cardinality({j \in S : j <= i})
Nth(S, k) == CHOOSE i \in S : Rank(S, i) = k

LEMMA RankFacts ==
  ASSUME NEW S \in SUBSET Nat, IsFiniteSet(S), NEW i \in S
  PROVE  /\ Rank(S, i) \in 1 .. Cardinality(S)
         /\ \A j \in S : i < j => Rank(S, i) < Rank(S, j)
<1> DEFINE UpTo(n) == {j \in S : j <= n}
<1>1. ASSUME NEW n \in S
      PROVE  /\ IsFiniteSet(UpTo(n)) /\ Rank(S, n) = Cardinality(UpTo(n))
             /\ Rank(S, n) \in Nat /\ 1 <= Rank(S, n) /\ Rank(S, n) <= Cardinality(S)
             /\ IsFiniteSet(UpTo(n) \ {n}) /\ Cardinality(UpTo(n) \ {n}) = Rank(S, n) - 1
             /\ Cardinality(UpTo(n) \ {n}) \in Nat
  <2>1. UpTo(n) \in SUBSET S /\ n \in UpTo(n) /\ Rank(S, n) = Cardinality(UpTo(n))
    BY DEF Rank
  <2> HIDE DEF UpTo
  <2>2. IsFiniteSet(UpTo(n)) /\ Cardinality(UpTo(n)) <= Cardinality(S)
    BY <2>1, FS_Subset
  <2>3. IsFiniteSet(UpTo(n) \ {n}) /\ Cardinality(UpTo(n) \ {n}) = Cardinality(UpTo(n)) - 1
    BY <2>1, <2>2, FS_RemoveElement
  <2>4. Cardinality(UpTo(n)) \in Nat /\ Cardinality(UpTo(n) \ {n}) \in Nat
    BY <2>2, <2>3, FS_CardinalityType
  <2>5. 1 <= Cardinality(UpTo(n))
    BY <2>3, <2>4
  <2> QED
    BY <2>1, <2>2, <2>3, <2>4, <2>5
<1>2. Cardinality(S) \in Nat
  BY FS_CardinalityType
<1>3. Rank(S, i) \in 1 .. Cardinality(S)
  <2>1. Rank(S, i) \in Nat /\ 1 <= Rank(S, i) /\ Rank(S, i) <= Cardinality(S)
    BY <1>1
  <2> QED
    BY <1>2, <2>1
<1>4. ASSUME NEW j \in S, i < j
      PROVE  Rank(S, i) < Rank(S, j)
  <2>1. UpTo(i) \in SUBSET (UpTo(j) \ {j})
    <3> SUFFICES ASSUME NEW x \in UpTo(i)
                 PROVE  x \in UpTo(j) \ {j}
      OBVIOUS
    <3>1. x \in S /\ x \in Nat /\ i \in Nat /\ j \in Nat /\ x <= i
      BY <1>4
    <3>2. x <= j /\ x # j
      BY <1>4, <3>1
    <3> QED
      BY <3>1, <3>2
  <2> HIDE DEF UpTo
  <2>2. Cardinality(UpTo(i)) <= Cardinality(UpTo(j) \ {j})
    BY <1>1, <1>4, <2>1, FS_Subset
  <2>3. /\ Cardinality(UpTo(i)) = Rank(S, i) /\ Rank(S, i) \in Nat
        /\ Cardinality(UpTo(j) \ {j}) = Rank(S, j) - 1 /\ Rank(S, j) \in Nat
    BY <1>1, <1>4
  <2> QED
    BY <2>2, <2>3
<1> QED
  BY <1>3, <1>4

\* Ranks identify the elements.
LEMMA NthFacts ==
  ASSUME NEW S \in SUBSET Nat, IsFiniteSet(S)
  PROVE  /\ \A k \in 1 .. Cardinality(S) : Nth(S, k) \in S /\ Rank(S, Nth(S, k)) = k
         /\ \A i \in S : Nth(S, Rank(S, i)) = i
<1> DEFINE n == Cardinality(S)
           f == [i \in S |-> Rank(S, i)]
<1>1. n \in Nat /\ IsFiniteSet(1 .. n) /\ Cardinality(1 .. n) = n
  BY FS_CardinalityType, FS_Interval
<1>2. \A i, j \in S : Rank(S, i) = Rank(S, j) => i = j
  <2> SUFFICES ASSUME NEW i \in S, NEW j \in S, i < j
               PROVE  Rank(S, i) # Rank(S, j)
    OBVIOUS
  <2>1. Rank(S, i) < Rank(S, j) /\ Rank(S, i) \in Nat
    BY RankFacts
  <2> QED
    BY <2>1
<1>3. f \in Injection(S, 1 .. n)
  <2>1. f \in [S -> 1 .. n]
    BY RankFacts
  <2>2. \A i, j \in S : f[i] = f[j] => i = j
    BY <1>2
  <2> HIDE DEF f, n
  <2> QED
    BY <2>1, <2>2 DEF Injection, IsInjective
<1>4. f \in Surjection(S, 1 .. n)
  <2> HIDE DEF f
  <2> QED
    BY <1>1, <1>3, FS_Injection
<1>5. \A k \in 1 .. n : \E i \in S : Rank(S, i) = k
  BY <1>4 DEF Surjection
<1>6. \A k \in 1 .. n : Nth(S, k) \in S /\ Rank(S, Nth(S, k)) = k
  BY <1>5 DEF Nth
<1>7. \A i \in S : Rank(S, i) \in 1 .. n
  BY RankFacts
<1> QED
  BY <1>2, <1>6, <1>7

\* One more element on top.
LEMMA NthMore ==
  ASSUME NEW S \in SUBSET Nat, IsFiniteSet(S), NEW m \in Nat, \A i \in S : i < m
  PROVE  LET T == S \cup {m} IN
           /\ IsFiniteSet(T) /\ Cardinality(T) = Cardinality(S) + 1
           /\ Nth(T, Cardinality(S) + 1) = m
           /\ \A k \in 1 .. Cardinality(S) : Nth(T, k) = Nth(S, k)
<1> DEFINE T == S \cup {m}
<1>1. m \notin S /\ T \in SUBSET Nat
  OBVIOUS
<1>2. IsFiniteSet(T) /\ Cardinality(T) = Cardinality(S) + 1
  BY <1>1, FS_AddElement
<1>3. Rank(T, m) = Cardinality(S) + 1
  <2>1. \A j \in T : j \in Nat /\ j <= m
    OBVIOUS
  <2> HIDE DEF T
  <2>2. {j \in T : j <= m} = T
    BY <2>1
  <2> QED
    BY <1>2, <2>2 DEF Rank
<1>4. \A i \in S : Rank(T, i) = Rank(S, i)
  <2> SUFFICES ASSUME NEW i \in S
               PROVE  Rank(T, i) = Rank(S, i)
    OBVIOUS
  <2>1. {j \in T : j <= i} = {j \in S : j <= i}
    OBVIOUS
  <2> HIDE DEF T
  <2> QED
    BY <2>1 DEF Rank
<1>5. m \in T /\ S \in SUBSET T
  OBVIOUS
<1> HIDE DEF T
<1>6. Nth(T, Cardinality(S) + 1) = m
  BY <1>1, <1>2, <1>3, <1>5, NthFacts
<1>7. \A k \in 1 .. Cardinality(S) : Nth(T, k) = Nth(S, k)
  <2> SUFFICES ASSUME NEW k \in 1 .. Cardinality(S)
               PROVE  Nth(T, k) = Nth(S, k)
    OBVIOUS
  <2>1. Nth(S, k) \in S /\ Rank(S, Nth(S, k)) = k
    BY NthFacts
  <2>2. Nth(T, Rank(T, Nth(S, k))) = Nth(S, k)
    BY <1>1, <1>2, <1>5, <2>1, NthFacts
  <2> QED
    BY <1>4, <2>1, <2>2
<1> QED
  BY <1>2, <1>6, <1>7 DEF T

\* The log of a store.
Real(s) == {i \in Ids(s) : s.files[i].type \in {"data", "genesis"}}
LogOf(s) == [k \in 1 .. Cardinality(Real(s)) |-> Entry(s.files[Nth(Real(s), k)])]

LEMMA LogIs == Log = LogOf(store)
<1>1. RealIds = Real(store)
  BY DEF RealIds, Real
<1>2. \A k : RealId(k) = Nth(Real(store), k)
  BY DEF RealId, Nth, Rank, Real, RealIds
<1> QED
  BY <1>1, <1>2 DEF Log, LogOf

LEMMA LogSame ==
  ASSUME NEW s, NEW t, Real(s) \in SUBSET Nat, IsFiniteSet(Real(s)), Real(t) = Real(s),
         \A i \in Real(s) : t.files[i] = s.files[i]
  PROVE  LogOf(t) = LogOf(s)
<1>1. \A k \in 1 .. Cardinality(Real(s)) : Nth(Real(s), k) \in Real(s)
  BY NthFacts
<1>2. \A k \in 1 .. Cardinality(Real(s)) :
        Entry(t.files[Nth(Real(t), k)]) = Entry(s.files[Nth(Real(s), k)])
  BY <1>1
<1>3. 1 .. Cardinality(Real(t)) = 1 .. Cardinality(Real(s))
  OBVIOUS
<1> QED
  BY <1>2, <1>3 DEF LogOf

LEMMA LogMore ==
  ASSUME NEW s, NEW t, Real(s) \in SUBSET Nat, IsFiniteSet(Real(s)),
         NEW m \in Nat, \A i \in Real(s) : i < m, Real(t) = Real(s) \cup {m},
         \A i \in Real(s) : t.files[i] = s.files[i]
  PROVE  LogOf(t) = Append(LogOf(s), Entry(t.files[m]))
<1> DEFINE n == Cardinality(Real(s))
<1>1. n \in Nat
  BY FS_CardinalityType
<1>2. /\ Cardinality(Real(t)) = n + 1 /\ Nth(Real(t), n + 1) = m
      /\ \A k \in 1 .. n : Nth(Real(t), k) = Nth(Real(s), k)
  BY NthMore
<1>3. \A k \in 1 .. n : Nth(Real(s), k) \in Real(s)
  BY NthFacts
<1>4. LogOf(s) = [k \in 1 .. n |-> Entry(s.files[Nth(Real(s), k)])]
  BY DEF LogOf
<1>5. LogOf(t) = [k \in 1 .. n + 1 |-> Entry(t.files[Nth(Real(t), k)])]
  BY <1>2 DEF LogOf
<1> HIDE DEF n
<1>6. \A k \in 1 .. n : Entry(t.files[Nth(Real(t), k)]) = Entry(s.files[Nth(Real(s), k)])
  BY <1>2, <1>3
<1>7. Entry(t.files[Nth(Real(t), n + 1)]) = Entry(t.files[m])
  BY <1>2
<1> DEFINE e(k) == Entry(s.files[Nth(Real(s), k)])
           f(k) == Entry(t.files[Nth(Real(t), k)])
<1>8. [k \in 1 .. n + 1 |-> f(k)] = Append([k \in 1 .. n |-> e(k)], f(n + 1))
  <2>1. \A k \in 1 .. n : e(k) = f(k)
    BY <1>6
  <2> DEFINE old == [k \in 1 .. n |-> e(k)]
             V == {e(k) : k \in 1 .. n} \cup {f(n + 1)}
  <2> HIDE DEF e, f
  <2>2. old \in Seq(V) /\ Len(old) = n /\ f(n + 1) \in V
    BY <1>1
  <2>3. \A k \in 1 .. n : old[k] = f(k)
    BY <2>1
  <2> HIDE DEF old, V
  <2> DEFINE more == Append(old, f(n + 1))
  <2>4. /\ more \in Seq(V) /\ Len(more) = n + 1 /\ more[n + 1] = f(n + 1)
        /\ \A k \in 1 .. n : more[k] = old[k]
    BY <1>1, <2>2
  <2> HIDE DEF more
  <2>5. more = [k \in 1 .. n + 1 |-> more[k]]
    BY <1>1, <2>4
  <2>6. \A k \in 1 .. n + 1 : more[k] = f(k)
    BY <1>1, <2>3, <2>4
  <2> QED
    BY <2>5, <2>6 DEF more, old
<1> QED
  BY <1>4, <1>5, <1>7, <1>8

\* What is real in a chain, and that the log is that of the files.
LEMMA RealFinite ==
  ASSUME ChainInv
  PROVE  Real(store) \in SUBSET Nat /\ IsFiniteSet(Real(store))
<1>1. PICK k \in Nat : ChainOf(store, k)
  BY DEF ChainInv
<1>2. Real(store) \in SUBSET (0 .. k) /\ IsFiniteSet(0 .. k)
  BY <1>1, ChainFacts, FS_Interval DEF Real
<1> QED
  BY <1>2, FS_Subset

LEMMA LogIsNow == Log = LogOf(store) /\ Log' = LogOf(store')
<1>1. Log = LogOf(store)
  BY LogIs
<1>2. (Log = LogOf(store))'
  BY LogIs, PTL
<1> QED
  BY <1>1, <1>2

LEMMA DummyToLedger ==
  ASSUME ChainInv, WholeInv, TornIds = {}, MakeDummyBlock
  PROVE  TornIds' = {} /\ (L!Fail \/ L!AddCheckpoint \/ UNCHANGED L!vars)
<1>1. PICK k \in Nat :
        /\ Ids(store) = 0 .. k /\ \A i \in 0 .. k : store'.files[i] = store.files[i]
        /\ store'.files[k + 1].type = "dummy"
        /\ \/ Ids(store') = 0 .. k + 1
           \/ /\ Ids(store') = 0 .. k + 2 /\ running' = TRUE
              /\ store'.files[k + 2].type = "genesis"
  BY DummyStored
<1>2. pendingTxs = <<>> /\ pendingTxs' = <<>> /\ running
  BY Zenon DEF MakeDummyBlock, MadeBlock
<1>3. running = TRUE /\ running' \in BOOLEAN
  <2>1. [Next]_vars
    BY DEF Next, MakeBlock
  <2>2. ChainInv'
    BY <2>1, NextKeeps
  <2> QED
    BY <1>2, <2>2 DEF ChainInv
<1>4. Range(pendingTxs) = {} /\ Range(pendingTxs') = {}
  BY <1>2 DEF Range
<1>5. Real(store) \in SUBSET Nat /\ IsFiniteSet(Real(store)) /\ Real(store) \in SUBSET (0 .. k)
  BY <1>1, RealFinite DEF Real
<1>6. Log = LogOf(store) /\ Log' = LogOf(store')
  BY LogIsNow
<1>7. CASE Ids(store') = 0 .. k + 1
  <2>1. \A i \in 0 .. k + 1 : i \in 0 .. k \/ i = k + 1
    OBVIOUS
  <2>2. Real(store') = Real(store) /\ TornIds' = {}
    BY <1>1, <1>7, <2>1 DEF Real, TornIds
  <2>3. Log' = Log
    BY <1>1, <1>5, <1>6, <2>2, LogSame
  <2> QED
    BY <1>2, <1>3, <1>4, <2>2, <2>3 DEF L!Fail, L!vars
<1>8. CASE /\ Ids(store') = 0 .. k + 2 /\ running' = TRUE
           /\ store'.files[k + 2].type = "genesis"
  <2>1. \A i \in 0 .. k + 2 : i \in 0 .. k \/ i = k + 1 \/ i = k + 2
    OBVIOUS
  <2>2. Real(store') = Real(store) \cup {k + 2} /\ TornIds' = {}
    BY <1>1, <1>8, <2>1 DEF Real, TornIds
  <2>3. \A i \in Real(store) : i < k + 2
    BY <1>5
  <2>4. LogOf(store') = Append(LogOf(store), Entry(store'.files[k + 2]))
    BY <1>1, <1>5, <2>2, <2>3, LogMore
  <2>5. Log' = Append(Log, Checkpoint)
    BY <1>6, <1>8, <2>4 DEF Entry
  <2> QED
    BY <1>2, <1>3, <1>4, <1>8, <2>2, <2>5 DEF L!AddCheckpoint
<1> QED
  BY <1>1, <1>7, <1>8

LEMMA PackToLedger ==
  ASSUME ChainInv, WholeInv, ListsOK, TornIds = {}, PackPendingTxs
  PROVE  TornIds' = {} /\ L!Commit
<1>1. PICK k \in Nat : \E d \in 0 .. k :
        /\ Ids(store) = 0 .. k /\ Ids(store') = 0 .. d + 1
        /\ \A i \in 0 .. d : store'.files[i] = store.files[i]
        /\ \A i \in d + 1 .. k : store.files[i].type = "dummy"
        /\ store'.files[d + 1].type = "data" /\ store'.files[d + 1].txs = pendingTxs
  BY DataStored
<1>2. PICK d \in 0 .. k :
        /\ Ids(store) = 0 .. k /\ Ids(store') = 0 .. d + 1
        /\ \A i \in 0 .. d : store'.files[i] = store.files[i]
        /\ \A i \in d + 1 .. k : store.files[i].type = "dummy"
        /\ store'.files[d + 1].type = "data" /\ store'.files[d + 1].txs = pendingTxs
  BY <1>1
<1>3. pendingTxs # <<>> /\ pendingTxs' = <<>> /\ running
  BY Zenon DEF PackPendingTxs, MadeBlock
<1>4. running' \in BOOLEAN
  <2>1. [Next]_vars
    BY DEF Next, MakeBlock
  <2>2. ChainInv'
    BY <2>1, NextKeeps
  <2> QED
    BY <2>2 DEF ChainInv
<1>5. Range(pendingTxs) # {} /\ Range(pendingTxs') = {}
  <2>1. pendingTxs[1] \in Range(pendingTxs)
    BY <1>3 DEF Range, ListsOK
  <2> QED
    BY <1>3, <2>1 DEF Range
<1>6. \A i \in 0 .. k : i \in 0 .. d \/ i \in d + 1 .. k
  OBVIOUS
<1>7. Real(store) \in SUBSET Nat /\ IsFiniteSet(Real(store)) /\ Real(store) \in SUBSET (0 .. d)
  BY <1>2, <1>6, RealFinite DEF Real
<1>8. Real(store') = Real(store) \cup {d + 1} /\ TornIds' = {}
  <2>1. \A i \in 0 .. d + 1 : i \in 0 .. d \/ i = d + 1
    OBVIOUS
  <2>2. 0 .. d \subseteq 0 .. k /\ 0 .. d \subseteq 0 .. d + 1 /\ d + 1 \in 0 .. d + 1
    OBVIOUS
  <2> QED
    BY <1>2, <1>7, <2>1, <2>2 DEF Real, TornIds
<1>9. LogOf(store') = Append(LogOf(store), Entry(store'.files[d + 1]))
  <2>1. d + 1 \in Nat /\ \A i \in Real(store) : i < d + 1 /\ i \in 0 .. d
    BY <1>7
  <2> QED
    BY <1>2, <1>7, <1>8, <2>1, LogMore
<1>10. Log' = Append(Log, Range(pendingTxs))
  <2>1. Log = LogOf(store) /\ Log' = LogOf(store')
    BY LogIsNow
  <2> QED
    BY <1>2, <1>9, <2>1 DEF Entry
<1> QED
  BY <1>3, <1>4, <1>5, <1>8, <1>10 DEF L!Commit

LEMMA StartToLedger ==
  ASSUME ChainInv, TornIds = {}, Start
  PROVE  TornIds' = {} /\ L!Recover
<1>1. PICK k \in Nat : ChainOf(store, k)
  BY DEF ChainInv
<1>2. store' = Reload(store) /\ ~running /\ running' = TRUE /\ pendingTxs' = pendingTxs
  BY DEF Start
<1>3. store'.files = store.files /\ Ids(store') = Ids(store)
  BY <1>1, <1>2, ReloadedChain
<1>4. Real(store') = Real(store) /\ TornIds' = {}
  BY <1>3 DEF Real, TornIds
<1>5. LogOf(store') = LogOf(store)
  BY <1>3, <1>4, RealFinite, LogSame
<1>6. Log' = Log
  BY <1>5, LogIsNow
<1> QED
  BY <1>2, <1>4, <1>6 DEF L!Recover

LEMMA ToLedger ==
  ASSUME ChainInv, WholeInv, ListsOK, TornIds = {}, [Next]_vars
  PROVE  TornIds' = {} /\ [L!Next]_(L!vars)
<1>1. CASE MakeDummyBlock
  BY <1>1, DummyToLedger DEF L!Next
<1>2. CASE PackPendingTxs
  BY <1>2, PackToLedger DEF L!Next
<1>3. CASE Start
  BY <1>3, StartToLedger DEF L!Next
<1>4. ASSUME store' = store
      PROVE  TornIds' = {} /\ Log' = Log
  BY <1>4 DEF TornIds, Log, RealId, RealIds
<1>5. CASE Quiet
  <2>1. store' = store /\ running' = running /\ Range(pendingTxs') = Range(pendingTxs)
    BY <1>5 DEF Quiet
  <2> QED
    BY <1>4, <2>1 DEF L!vars
<1>6. CASE Dies
  <2>1. store' = store /\ running /\ running' = FALSE /\ Range(pendingTxs') = {}
    BY <1>6 DEF Dies, Range
  <2> QED
    BY <1>4, <2>1 DEF L!Next, L!Fail
<1>7. ASSUME NEW tx \in Verified, AddVerifiedTx(tx), Range(pendingTxs') = Range(pendingTxs) \cup {tx}
      PROVE  TornIds' = {} /\ L!Next
  <2>1. store' = store /\ running /\ running' = running /\ tx \in Txs
    BY <1>7, ChainAssumption DEF AddVerifiedTx
  <2>2. L!Accept(tx)
    BY <1>4, <1>7, <2>1 DEF L!Accept
  <2> QED
    BY <1>4, <2>1, <2>2 DEF L!Next
<1> QED
  BY <1>1, <1>2, <1>3, <1>5, <1>6, <1>7, OtherSteps DEF Next, MakeBlock

LEMMA InitToLedger == Init => TornIds = {} /\ ListsOK /\ L!Init
<1> SUFFICES ASSUME Init
             PROVE  TornIds = {} /\ ListsOK /\ L!Init
  OBVIOUS
<1>1. Ids(store) = {0} /\ store.files[0] = Genesis0
  BY DEF Init, Insert, EmptyStore, Ids
<1>2. Genesis0.type = "genesis"
  BY DEF Genesis0, NewBlock
<1>3. Real(store) = {0} /\ TornIds = {}
  BY <1>1, <1>2 DEF Real, TornIds
<1>4. IsFiniteSet({0}) /\ Cardinality({0}) = 1
  BY FS_Singleton
<1>5. Nth({0}, 1) = 0
  BY <1>4, NthFacts
<1>6. LogOf(store) = <<Checkpoint>>
  <2>1. LogOf(store) = [k \in 1 .. 1 |-> Entry(store.files[Nth({0}, k)])]
    BY <1>3, <1>4 DEF LogOf
  <2>2. \A k \in 1 .. 1 : Entry(store.files[Nth({0}, k)]) = Checkpoint
    BY <1>1, <1>2, <1>5 DEF Entry
  <2> QED
    BY <2>1, <2>2
<1>7. running = TRUE /\ Range(pendingTxs) = {} /\ ListsOK
  <2>1. ListsOK
    BY NoneListed DEF Init, ListsOK
  <2> QED
    BY <2>1 DEF Init, Range
<1> QED
  BY <1>3, <1>6, <1>7, LogIs DEF L!Init

-----------------------------------------------------------------------------
(* The balance table *)

\* A sum over a function is one over its domain.
LEMMA SumOver ==
  ASSUME NEW S, IsFiniteSet(S), NEW f, NEW T, T = S, \A i \in S : f[i] \in Int
  PROVE  /\ SumFunction([i \in T |-> f[i]]) = SumFunctionOnSet(f, S)
         /\ SumFunctionOnSet(f, S) \in Int
<1> DEFINE g == [i \in T |-> f[i]]
<1>1. DOMAIN g = S /\ \A i \in S : f[i] \in Int /\ g[i] = f[i]
  OBVIOUS
<1> HIDE DEF g
<1>2. SumFunction(g) = SumFunctionOnSet(g, S)
  BY <1>1 DEF SumFunction
<1>3. SumFunctionOnSet(g, S) = SumFunctionOnSet(f, S)
  BY <1>1, SumSame
<1>4. SumFunctionOnSet(f, S) \in Int
  BY SumFacts
<1> QED
  BY <1>2, <1>3, <1>4 DEF g

\* What the transactions of S move.
LEMMA AmountsFacts ==
  ASSUME NEW txs \in Seq(Txs), NEW S \in SUBSET (1 .. Len(txs))
  PROVE  /\ IsFiniteSet(S)
         /\ SumFunction([i \in S |-> Amount[txs[i]]]) \in Int
         /\ SumFunction([i \in S |-> Amount[txs[i]]])
              = SumFunctionOnSet([i \in 1 .. Len(txs) |-> Amount[txs[i]]], S)
<1> DEFINE w == [i \in 1 .. Len(txs) |-> Amount[txs[i]]]
           v == [i \in S |-> Amount[txs[i]]]
<1>1. IsFiniteSet(S)
  <2>1. Len(txs) \in Nat
    OBVIOUS
  <2>2. IsFiniteSet(1 .. Len(txs))
    BY <2>1, FS_Interval
  <2> QED
    BY <2>2, FS_Subset
<1>2. \A i \in S : w[i] \in Int
  BY ChainAssumption
<1>3. v = [i \in S |-> w[i]]
  OBVIOUS
<1> HIDE DEF w
<1>4. SumFunction([i \in S |-> w[i]]) = SumFunctionOnSet(w, S) /\ SumFunctionOnSet(w, S) \in Int
  BY <1>1, <1>2, SumOver
<1>5. SumFunction(v) = SumFunctionOnSet(w, S)
  BY <1>3, <1>4, Zenon
<1> QED
  BY <1>1, <1>4, <1>5 DEF w

\* Updates change a balance by what they would make of an empty table.
LEMMA SaveHalvesFacts ==
  ASSUME NEW e \in [Accounts -> Int], NEW txs \in Seq(Txs), NEW k
  PROVE  /\ SaveHalves(e, txs, k) \in [Accounts -> Int]
         /\ SaveHalves(NoRows, txs, k) \in [Accounts -> Int]
         /\ \A a \in Accounts : SaveHalves(e, txs, k)[a] = e[a] + SaveHalves(NoRows, txs, k)[a]
<1> DEFINE In(a) == SumFunction([i \in {i \in 1 .. Len(txs) : Receiver[txs[i]] = a /\ 2 * i <= k} |->
                                  Amount[txs[i]]])
           Out(a) == SumFunction([i \in {i \in 1 .. Len(txs) : Sender[txs[i]] = a /\ 2 * i - 1 <= k} |->
                                  Amount[txs[i]]])
<1>1. \A a \in Accounts : In(a) \in Int /\ Out(a) \in Int
  <2> TAKE a \in Accounts
  <2> DEFINE S == {i \in 1 .. Len(txs) : Receiver[txs[i]] = a /\ 2 * i <= k}
             T == {i \in 1 .. Len(txs) : Sender[txs[i]] = a /\ 2 * i - 1 <= k}
  <2>1. S \in SUBSET (1 .. Len(txs)) /\ T \in SUBSET (1 .. Len(txs))
    OBVIOUS
  <2> HIDE DEF S, T
  <2>2. SumFunction([i \in S |-> Amount[txs[i]]]) \in Int /\ SumFunction([i \in T |-> Amount[txs[i]]]) \in Int
    BY <2>1, AmountsFacts
  <2> QED
    BY <2>2 DEF S, T
<1>2. \A f : SaveHalves(f, txs, k) = [a \in Accounts |-> f[a] + In(a) - Out(a)]
  BY DEF SaveHalves
<1> HIDE DEF In, Out
<1>3. NoRows = [a \in Accounts |-> 0]
  BY DEF NoRows
<1>4. SaveHalves(e, txs, k) = [a \in Accounts |-> e[a] + In(a) - Out(a)]
  BY <1>2
<1>5. SaveHalves(NoRows, txs, k) = [a \in Accounts |-> 0 + In(a) - Out(a)]
  BY <1>2, <1>3
<1>6. \A a \in Accounts : e[a] + In(a) - Out(a) = e[a] + (0 + In(a) - Out(a))
  BY <1>1
<1> QED
  BY <1>1, <1>4, <1>5, <1>6

\* No update, no change.
LEMMA NoHalves ==
  ASSUME NEW e \in [Accounts -> Int], NEW txs \in Seq(Txs)
  PROVE  SaveHalves(e, txs, 0) = e
<1>1. ASSUME NEW a \in Accounts
      PROVE  SaveHalves(e, txs, 0)[a] = e[a]
  <2>1. {i \in 1 .. Len(txs) : Receiver[txs[i]] = a /\ 2 * i <= 0} = {}
    OBVIOUS
  <2>2. {i \in 1 .. Len(txs) : Sender[txs[i]] = a /\ 2 * i - 1 <= 0} = {}
    OBVIOUS
  <2>3. SumFunction([i \in {} |-> Amount[txs[i]]]) = 0
    <3>1. DOMAIN [i \in {} |-> Amount[txs[i]]] = {}
      OBVIOUS
    <3> QED
      BY <3>1, SumEmpty DEF SumFunction
  <2>4. SaveHalves(e, txs, 0)[a]
          = e[a] + SumFunction([i \in {} |-> Amount[txs[i]]]) - SumFunction([i \in {} |-> Amount[txs[i]]])
    BY <2>1, <2>2, Zenon DEF SaveHalves
  <2> QED
    BY <2>3, <2>4
<1>2. SaveHalves(e, txs, 0) \in [Accounts -> Int]
  BY SaveHalvesFacts
<1> QED
  BY <1>1, <1>2

\* A table that holds no more than what one account owes another.
Conserving(e) == e \in [Accounts -> Int] /\ SumFunctionOnSet(e, Accounts) = 0

LEMMA NoRowsConserve == Conserving(NoRows)
<1>1. NoRows \in [Accounts -> Int] /\ \A a \in Accounts : NoRows[a] = 0
  BY DEF NoRows
<1> HIDE DEF NoRows
<1>2. SumFunctionOnSet(NoRows, Accounts) = 0
  BY <1>1, ChainAssumption, SumOfZeros
<1> QED
  BY <1>1, <1>2 DEF Conserving

\* What saveTxInfoInEC takes from the senders it gives to the receivers.
LEMMA SaveConserves ==
  ASSUME NEW e, Conserving(e), NEW txs \in Seq(Txs)
  PROVE  Conserving(SaveTxInfoInEC(e, txs))
<1> DEFINE I == 1 .. Len(txs)
           w == [i \in I |-> Amount[txs[i]]]
           to == [i \in I |-> Receiver[txs[i]]]
           from == [i \in I |-> Sender[txs[i]]]
           credit == [a \in Accounts |-> SumFunctionOnSet(w, {i \in I : to[i] = a})]
           debit == [a \in Accounts |-> SumFunctionOnSet(w, {i \in I : from[i] = a})]
           paid == [a \in Accounts |-> e[a] + credit[a]]
           r == SaveTxInfoInEC(e, txs)
<1>1. e \in [Accounts -> Int] /\ IsFiniteSet(Accounts)
  BY ChainAssumption DEF Conserving
<1>2. r \in [Accounts -> Int]
  BY <1>1, SaveHalvesFacts DEF SaveTxInfoInEC
<1>3. Len(txs) \in Nat
  OBVIOUS
<1>4. IsFiniteSet(I)
  BY <1>3, FS_Interval
<1>5. \A i \in I : to[i] \in Accounts /\ from[i] \in Accounts /\ w[i] \in Int
  BY ChainAssumption
<1>6. ASSUME NEW a \in Accounts
      PROVE  /\ r[a] = e[a] + credit[a] - debit[a]
             /\ credit[a] \in Int /\ debit[a] \in Int
  <2> DEFINE C == {i \in I : to[i] = a}
             D == {i \in I : from[i] = a}
  <2>1. /\ {i \in I : Receiver[txs[i]] = a /\ 2 * i <= Halves(txs)} = C
        /\ {i \in I : Sender[txs[i]] = a /\ 2 * i - 1 <= Halves(txs)} = D
    BY <1>3 DEF Halves
  <2>2. r[a] = e[a] + SumFunction([i \in C |-> Amount[txs[i]]]) - SumFunction([i \in D |-> Amount[txs[i]]])
    BY <2>1, Zenon DEF SaveTxInfoInEC, SaveHalves
  <2>3. C \in SUBSET I /\ D \in SUBSET I
    OBVIOUS
  <2> HIDE DEF C, D
  <2>4. /\ SumFunction([i \in C |-> Amount[txs[i]]]) = SumFunctionOnSet(w, C)
        /\ SumFunction([i \in C |-> Amount[txs[i]]]) \in Int
        /\ SumFunction([i \in D |-> Amount[txs[i]]]) = SumFunctionOnSet(w, D)
        /\ SumFunction([i \in D |-> Amount[txs[i]]]) \in Int
    BY <2>3, AmountsFacts
  <2>5. credit[a] = SumFunctionOnSet(w, C) /\ debit[a] = SumFunctionOnSet(w, D)
    BY DEF C, D
  <2> HIDE DEF credit, debit, w, r
  <2> QED
    BY <2>2, <2>4, <2>5
<1>7. /\ SumFunctionOnSet(credit, Accounts) = SumFunctionOnSet(w, I)
      /\ SumFunctionOnSet(debit, Accounts) = SumFunctionOnSet(w, I)
  <2> HIDE DEF w, I
  <2>1. to \in [I -> Accounts] /\ from \in [I -> Accounts]
    BY <1>5
  <2>2. \A i \in I : w[i] \in Int
    BY <1>5
  <2> DEFINE given == [a \in Accounts |-> {i \in I : to[i] = a}]
             taken == [a \in Accounts |-> {i \in I : from[i] = a}]
  <2>10. IsFiniteSet(Accounts)
    BY <1>1
  <2>3. given \in [Accounts -> SUBSET I] /\ taken \in [Accounts -> SUBSET I]
    OBVIOUS
  <2>4. \A a \in Accounts : \A i \in I : i \in given[a] <=> to[i] = a
    OBVIOUS
  <2>5. \A a \in Accounts : \A i \in I : i \in taken[a] <=> from[i] = a
    OBVIOUS
  <2>6. \A a \in Accounts : credit[a] = SumFunctionOnSet(w, given[a])
    OBVIOUS
  <2>7. \A a \in Accounts : debit[a] = SumFunctionOnSet(w, taken[a])
    OBVIOUS
  <2> HIDE DEF credit, debit, given, taken, to, from
  <2>8. SumFunctionOnSet(credit, Accounts) = SumFunctionOnSet(w, I)
    <3>1. to \in [I -> Accounts]
      BY <2>1
    <3>2. given \in [Accounts -> SUBSET I]
      BY <2>3
    <3> QED
      BY <1>4, <2>2, <2>4, <2>6, <2>10, <3>1, <3>2, SumByGroups, SMTT(60)
  <2>9. SumFunctionOnSet(debit, Accounts) = SumFunctionOnSet(w, I)
    <3>1. from \in [I -> Accounts]
      BY <2>1
    <3>2. taken \in [Accounts -> SUBSET I]
      BY <2>3
    <3> QED
      BY <1>4, <2>2, <2>5, <2>7, <2>10, <3>1, <3>2, SumByGroups, SMTT(60)
  <2> QED
    BY <2>8, <2>9
<1> HIDE DEF credit, debit, r, w, I
<1>8. /\ \A a \in Accounts : e[a] \in Int /\ credit[a] \in Int /\ paid[a] = e[a] + credit[a]
      /\ \A a \in Accounts : r[a] \in Int /\ debit[a] \in Int /\ paid[a] = r[a] + debit[a]
  BY <1>1, <1>2, <1>6
<1> HIDE DEF paid
<1>9. /\ SumFunctionOnSet(paid, Accounts) = SumFunctionOnSet(e, Accounts) + SumFunctionOnSet(credit, Accounts)
      /\ SumFunctionOnSet(paid, Accounts) = SumFunctionOnSet(r, Accounts) + SumFunctionOnSet(debit, Accounts)
  <2>1. \A a \in Accounts : e[a] \in Int /\ credit[a] \in Int /\ paid[a] = e[a] + credit[a]
    BY <1>8
  <2>2. \A a \in Accounts : r[a] \in Int /\ debit[a] \in Int /\ paid[a] = r[a] + debit[a]
    BY <1>8
  <2>3. SumFunctionOnSet(paid, Accounts) = SumFunctionOnSet(e, Accounts) + SumFunctionOnSet(credit, Accounts)
    BY <1>1, <2>1, SumPlus
  <2>4. SumFunctionOnSet(paid, Accounts) = SumFunctionOnSet(r, Accounts) + SumFunctionOnSet(debit, Accounts)
    BY <1>1, <2>2, SumPlus
  <2> QED
    BY <2>3, <2>4
<1>10. SumFunctionOnSet(r, Accounts) \in Int /\ SumFunctionOnSet(credit, Accounts) \in Int
  BY <1>1, <1>8, SumFacts
<1>11. SumFunctionOnSet(r, Accounts) = 0
  BY <1>7, <1>9, <1>10 DEF Conserving
<1> QED
  BY <1>2, <1>11 DEF Conserving, r

-----------------------------------------------------------------------------
(* A chain a peer writes to *)

\* A block a node can have: its genesis rows are none.
IsBlock(b) == b \in StoredBlocks /\ b.rows = NoRows

\* A process whose balances are in order.
Sound(n) == IsNode(n) /\ n.blocksFromLastGenesis \in Nat /\ Conserving(n.ec)

LEMMA BlockShape ==
  ASSUME NEW b, IsBlock(b)
  PROVE  /\ b = [type |-> b.type, txs |-> b.txs, prev |-> b.prev, hash |-> b.hash,
                 signers |-> b.signers, rows |-> b.rows, prevGen |-> b.prevGen]
         /\ b.type \in FileTypes /\ b.txs \in Seq(Txs) /\ b.prev \in Hashes /\ b.hash \in Hashes
         /\ b.signers \in SUBSET {Me, Peer} /\ b.rows \in [Accounts -> Int] /\ b.prevGen \in Hashes
         /\ b.rows = NoRows
  BY DEF IsBlock, StoredBlocks

LEMMA HashTyped ==
  ASSUME NEW id \in Int, NEW type, NEW txs \in Seq(Txs)
  PROVE  Hash(id, type, txs) \in Hashes
  BY DEF Hash, Hashes

LEMMA NoHashTyped == NoHash \in Hashes /\ ZeroHash \in Hashes
<1>1. <<>> \in Seq(Txs)
  OBVIOUS
<1> QED
  BY <1>1 DEF Hashes, NoHash, ZeroHash

\* What a store keeps whatever the peer sends: block 0, and a range that starts
\* there.
Based(s) ==
  /\ Typed(s) /\ FilesInSections(s)
  /\ s.firstSavedId = 0 /\ s.lastSavedId \in Nat
  /\ 0 \in Ids(s) /\ s.files[0] = Genesis0
  /\ \A i \in Ids(s) : IsBlock(s.files[i]) /\ Index(s.files[i]) = i

\* What a call makes of a store that has it.
Remains(s, t) == Based(t) /\ (WithinRange(s) => WithinRange(t))

\* No genesis block and no data block with transactions of s is missing from t or
\* has other contents there.
Holds(s, t) ==
  \A i \in Ids(s) : Substantial(s.files[i]) =>
    i \in Ids(t) /\ Content(t.files[i]) = Content(s.files[i])

LEMMA HoldsMore ==
  ASSUME NEW s, NEW t, NEW u, Holds(s, t), Holds(t, u)
  PROVE  Holds(s, u)
<1> SUFFICES ASSUME NEW i \in Ids(s), Substantial(s.files[i])
             PROVE  i \in Ids(u) /\ Content(u.files[i]) = Content(s.files[i])
  BY DEF Holds
<1>1. i \in Ids(t) /\ Content(t.files[i]) = Content(s.files[i])
  BY DEF Holds
<1>2. Substantial(t.files[i])
  BY <1>1 DEF Content, Substantial
<1> QED
  BY <1>1, <1>2 DEF Holds

LEMMA RemainsMore ==
  ASSUME NEW s, NEW t, NEW u, Remains(s, t), Remains(t, u)
  PROVE  Remains(s, u)
  BY DEF Remains

LEMMA BasedFacts ==
  ASSUME NEW s, Based(s)
  PROVE  /\ Ids(s) \subseteq Nat /\ Remains(s, s) /\ Holds(s, s)
         /\ 0 \in Visible(s) /\ s.files[0].type = "genesis"
<1>1. PICK b \in Nat : StoreTypeOK(s, b)
  BY DEF Based, Typed
<1>2. Ids(s) \subseteq Nat
  BY <1>1 DEF StoreTypeOK
<1>3. s.files[0].type = "genesis"
  BY DEF Based, Genesis0, NewBlock
<1>4. 0 \in Visible(s)
  BY <1>3 DEF Based, Visible
<1> QED
  BY <1>2, <1>3, <1>4 DEF Remains, Holds

\* A table that adds up to zero has no row, or more than one.
LEMMA NothingStored ==
  ASSUME NEW e, Conserving(e)
  PROVE  StoredRows(e) = NoRows
<1> SUFFICES ASSUME Cardinality({a \in Accounts : e[a] # 0}) = 1
             PROVE  FALSE
  BY DEF StoredRows
<1> DEFINE S == {a \in Accounts : e[a] # 0}
<1>1. IsFiniteSet(S)
  BY ChainAssumption, FS_Subset
<1>2. PICK a : S = {a}
  BY <1>1, FS_Singleton
<1>3. a \in Accounts /\ e[a] # 0 /\ e[a] \in Int /\ \A c \in Accounts \ {a} : e[c] = 0
  BY <1>2 DEF Conserving
<1>4. SumFunctionOnSet(e, Accounts \ {a}) = 0
  BY <1>3, ChainAssumption, FS_Subset, SumOfZeros
<1>5. SumFunctionOnSet(e, Accounts) = SumFunctionOnSet(e, Accounts \ {a}) + e[a]
  <2>1. \A c \in Accounts : e[c] \in Int
    BY DEF Conserving
  <2>2. SumFunctionOnSet(e, Accounts) = e[a] + SumFunctionOnSet(e, Accounts \ {a})
    BY <1>3, <2>1, ChainAssumption, SumRemove
  <2> QED
    BY <1>3, <1>4, <2>2
<1> QED
  BY <1>3, <1>4, <1>5 DEF Conserving

\* The identifier a new block gets is not 0.
LEMMA TopOfVisible ==
  ASSUME NEW s, Based(s), NEW S \in SUBSET Visible(s), 0 \in S
  PROVE  Top(S) \in S /\ Top(S) \in Nat /\ \A i \in S : i <= Top(S)
<1>1. PICK b \in Nat : StoreTypeOK(s, b)
  BY DEF Based, Typed
<1>2. S \in SUBSET (0 .. b)
  BY <1>1 DEF Visible, StoreTypeOK
<1>3. S \in SUBSET Int /\ S # {} /\ b \in Int /\ \A x \in S : x <= b
  BY <1>2
<1>4. Max(S) \in S /\ \A x \in S : x <= Max(S)
  BY <1>3, MaxInt
<1>5. Top(S) = Max(S)
  BY <1>3 DEF Top
<1>6. \A i \in S : i \in Nat
  BY <1>2
<1> QED
  BY <1>4, <1>5, <1>6

LEMMA NextIndexFacts ==
  ASSUME NEW s, Based(s)
  PROVE  /\ NextIndex(s, LastBlockId(s)) \in Nat \ {0}
         /\ NextIndex(s, LastRealId(s)) \in Nat \ {0}
         /\ \A l : NextIndex(s, l) \in Nat
         /\ LastBlockId(s) \in Visible(s) /\ \A i \in Visible(s) : i <= LastBlockId(s)
<1>1. 0 \in Visible(s) /\ s.files[0].type = "genesis" /\ Visible(s) \subseteq Nat
  BY BasedFacts DEF Visible
<1>2. \A l : NextIndex(s, l) \in Nat
  BY <1>1 DEF NextIndex
<1>3. LastBlockId(s) \in Visible(s) /\ \A i \in Visible(s) : i <= LastBlockId(s)
  BY <1>1, TopOfVisible DEF LastBlockId
<1>4. LastRealId(s) \in Visible(s)
  <2> DEFINE S == {i \in Visible(s) : s.files[i].type # "dummy"}
  <2>1. S \in SUBSET Visible(s) /\ 0 \in S /\ LastRealId(s) = Top(S)
    BY <1>1 DEF LastRealId
  <2> HIDE DEF S
  <2>2. Top(S) \in S
    BY <2>1, TopOfVisible
  <2> QED
    BY <2>1, <2>2
<1>5. \A l \in Visible(s) : NextIndex(s, l) \in Nat \ {0}
  BY <1>1 DEF NextIndex
<1> QED
  BY <1>2, <1>3, <1>4, <1>5

LEMMA TouchBased ==
  ASSUME NEW s, Based(s), NEW c \in Nat, NEW S \in SUBSET (NoId .. c)
  PROVE  LET t == Touch(s, S) IN
           Remains(s, t) /\ Holds(s, t) /\ t.files = s.files /\ Ids(t) = Ids(s)
<1> DEFINE t == Touch(s, S)
<1>1. /\ Typed(t) /\ FilesInSections(t)
      /\ t.files = s.files /\ Ids(t) = Ids(s)
      /\ t.firstSavedId = s.firstSavedId /\ t.lastSavedId = s.lastSavedId
  BY TouchTyped DEF Based
<1> HIDE DEF t
<1>2. Based(t)
  BY <1>1 DEF Based
<1>3. WithinRange(s) => WithinRange(t)
  BY <1>1 DEF WithinRange
<1>4. Holds(s, t)
  BY <1>1 DEF Holds
<1> QED
  BY <1>1, <1>2, <1>3, <1>4 DEF Remains, t

LEMMA InsertBased ==
  ASSUME NEW s, Based(s), NEW id \in Nat \ {0}, NEW b, b.type \in FileTypes, IsBlock(b),
         Index(b) = id
  PROVE  LET t == Insert(s, id, b) IN
           Remains(s, t) /\ (id \notin Ids(s) => Holds(s, t))
<1> DEFINE t == Insert(s, id, b)
<1>1. /\ Typed(t) /\ FilesInSections(t)
      /\ Ids(t) = Ids(s) \cup {id}
      /\ t.files[id] = b /\ \A i \in Ids(s) \ {id} : t.files[i] = s.files[i]
      /\ t.firstSavedId = 0
  BY InsertTyped DEF Based
<1>2. t.lastSavedId = IF id > s.lastSavedId THEN id ELSE s.lastSavedId
  BY DEF Insert
<1> HIDE DEF t
<1>3. t.lastSavedId \in Nat /\ s.lastSavedId <= t.lastSavedId /\ id <= t.lastSavedId
  BY <1>2 DEF Based
<1>4. 0 \in Ids(s) \ {id} /\ Ids(s) \subseteq Nat
  BY BasedFacts DEF Based
<1>5. Based(t)
  BY <1>1, <1>3, <1>4 DEF Based
<1>6. WithinRange(s) => WithinRange(t)
  <2> SUFFICES ASSUME WithinRange(s), NEW i \in Ids(t)
               PROVE  t.firstSavedId <= i /\ i <= t.lastSavedId
    BY DEF WithinRange
  <2>1. CASE i = id
    BY <1>1, <1>3, <2>1
  <2>2. CASE i \in Ids(s)
    <3>1. i \in Nat /\ i <= s.lastSavedId /\ s.lastSavedId \in Nat
      BY <1>4, <2>2 DEF WithinRange, Based
    <3> QED
      BY <1>1, <1>3, <3>1
  <2> QED
    BY <1>1, <2>1, <2>2
<1>7. id \notin Ids(s) => Holds(s, t)
  BY <1>1 DEF Holds
<1> QED
  BY <1>5, <1>6, <1>7 DEF Remains, t

LEMMA RemoveBased ==
  ASSUME NEW s, Based(s), NEW id \in Nat \ {0}
  PROVE  LET t == RemoveById(s, id) IN
           /\ Remains(s, t)
           /\ Ids(t) = Ids(s) \ {i \in Ids(s) : id <= i /\ i <= s.lastSavedId}
           /\ \A i \in Ids(t) : t.files[i] = s.files[i]
<1> DEFINE t == RemoveById(s, id)
<1>1. /\ Typed(t) /\ FilesInSections(t)
      /\ Ids(t) = Ids(s) \ {i \in Ids(s) : id <= i /\ i <= s.lastSavedId}
      /\ \A i \in Ids(t) : t.files[i] = s.files[i]
      /\ t.firstSavedId = 0 /\ t.lastSavedId = id - 1
  BY RemoveTyped DEF Based
<1> HIDE DEF t
<1>2. Ids(s) \subseteq Nat /\ 0 \in Ids(s) /\ ~(id <= 0)
  BY BasedFacts DEF Based
<1>3. Based(t)
  BY <1>1, <1>2 DEF Based
<1>4. WithinRange(s) => WithinRange(t)
  <2> SUFFICES ASSUME WithinRange(s), NEW i \in Ids(t)
               PROVE  0 <= i /\ i <= id - 1
    BY <1>1 DEF WithinRange
  <2>1. i \in Ids(s) /\ i \in Nat /\ ~(id <= i /\ i <= s.lastSavedId)
    BY <1>1, <1>2
  <2>2. i <= s.lastSavedId
    BY <2>1 DEF WithinRange
  <2> QED
    BY <2>1, <2>2
<1> QED
  BY <1>1, <1>3, <1>4 DEF Remains, t

\* Signatures are no content.
LEMMA SignBased ==
  ASSUME NEW s, Based(s), NEW b, IsBlock(b), Index(b) # 0
  PROVE  LET t == SignCheckAdd(s, b) IN
           /\ Remains(s, t) /\ Holds(s, t) /\ Ids(t) = Ids(s)
           /\ \A i \in Ids(s) : Content(t.files[i]) = Content(s.files[i])
           /\ t.lastSavedId = s.lastSavedId
<1> DEFINE id == Index(b)
           e == s.files[id]
           signers == e.signers \cup b.signers
           e2 == [e EXCEPT !.signers = signers]
           f == [s.files EXCEPT ![id] = e2]
           t == [s EXCEPT !.files = f]
<1>1. CASE ~ (id \in Ids(s) /\ ReadSigners(e) # {})
  <2>1. SignCheckAdd(s, b) = s
    BY <1>1 DEF SignCheckAdd
  <2> QED
    BY <2>1, BasedFacts
<1>2. CASE id \in Ids(s) /\ ReadSigners(e) # {}
  <2>1. e = [type |-> e.type, txs |-> e.txs, prev |-> e.prev, hash |-> e.hash,
             signers |-> e.signers, rows |-> e.rows, prevGen |-> e.prevGen]
    BY <1>2, BlockShape DEF Based
  <2>14. signers \in SUBSET {Me, Peer}
    BY <1>2, BlockShape DEF Based
  <2>15. IsBlock(e)
    BY <1>2 DEF Based
  <2>2. SignCheckAdd(s, b) = t
    BY <1>2 DEF SignCheckAdd
  <2> HIDE DEF e, signers
  <2>3. e2 = [type |-> e.type, txs |-> e.txs, prev |-> e.prev, hash |-> e.hash,
              signers |-> signers, rows |-> e.rows, prevGen |-> e.prevGen]
    BY <2>1
  <2> HIDE DEF e2
  <2>4. IsBlock(e2) /\ Content(e2) = Content(e) /\ e2.type = e.type /\ Index(e2) = Index(e)
    <3>1. IsBlock(e2)
      BY <2>3, <2>14, <2>15, BlockShape DEF IsBlock, StoredBlocks
    <3> QED
      BY <2>3, <3>1 DEF Content, Index
  <2>5. DOMAIN f = Ids(s) /\ f[id] = e2 /\ \A i \in Ids(s) \ {id} : f[i] = s.files[i]
    BY <1>2 DEF Ids
  <2> HIDE DEF f, id
  <2>6. PICK c \in Nat : StoreTypeOK(s, c)
    BY DEF Based, Typed
  <2>7. t = [files |-> f, sections |-> s.sections, records |-> s.records,
             firstSavedId |-> s.firstSavedId, lastSavedId |-> s.lastSavedId]
    <3>1. s = [files |-> s.files, sections |-> s.sections, records |-> s.records,
               firstSavedId |-> s.firstSavedId, lastSavedId |-> s.lastSavedId]
      BY <2>6 DEF StoreTypeOK
    <3> QED
      BY <3>1
  <2> HIDE DEF t
  <2>8. /\ t.files = f /\ Ids(t) = Ids(s) /\ t.sections = s.sections
        /\ t.firstSavedId = s.firstSavedId /\ t.lastSavedId = s.lastSavedId
    BY <2>5, <2>7 DEF Ids
  <2>9. \A i \in Ids(s) : /\ t.files[i].type = s.files[i].type /\ IsBlock(t.files[i])
                          /\ Index(t.files[i]) = i
                          /\ Content(t.files[i]) = Content(s.files[i])
    <3> SUFFICES ASSUME NEW i \in Ids(s)
                 PROVE  /\ t.files[i].type = s.files[i].type /\ IsBlock(t.files[i])
                        /\ Index(t.files[i]) = i
                        /\ Content(t.files[i]) = Content(s.files[i])
      OBVIOUS
    <3>1. CASE i = id
      <4>1. Index(e) = i
        BY <3>1 DEF Based, e
      <4> QED
        BY <2>4, <2>5, <2>8, <3>1, <4>1 DEF e
    <3>2. CASE i # id
      <4>1. t.files[i] = s.files[i]
        BY <2>5, <2>8, <3>2
      <4> QED
        BY <4>1 DEF Based
    <3> QED
      BY <3>1, <3>2
  <2>10. StoreTypeOK(t, c)
    BY <2>6, <2>7, <2>8, <2>9 DEF StoreTypeOK
  <2>11. t.files[0] = Genesis0
    <3>1. 0 \in Ids(s) \ {id} /\ s.files[0] = Genesis0
      BY DEF Based, id
    <3> QED
      BY <2>5, <2>8, <3>1
  <2>12. Based(t)
    BY <2>8, <2>9, <2>10, <2>11 DEF Based, Typed, FilesInSections
  <2>13. Holds(s, t) /\ (WithinRange(s) => WithinRange(t))
    BY <2>8, <2>9 DEF Holds, WithinRange
  <2> QED
    BY <2>2, <2>8, <2>9, <2>12, <2>13 DEF Remains
<1> QED
  BY <1>1, <1>2

-----------------------------------------------------------------------------
(* Calls, on any store that has block 0 *)

Alive(n) == Up(n) \/ Down(n)

LEMMA PrevHashTyped ==
  ASSUME NEW s, Based(s), NEW id
  PROVE  PrevHash(s, id) \in Hashes
<1>1. ZeroHash \in Hashes
  BY NoHashTyped
<1>2. id \in Visible(s) => s.files[id].hash \in Hashes
  BY BlockShape DEF Based, Visible
<1> QED
  BY <1>1, <1>2 DEF PrevHash

LEMMA NewIsBlock ==
  ASSUME NEW id \in Int, NEW type \in FileTypes, NEW txs \in Seq(Txs), NEW prev \in Hashes,
         NEW signer \in {Me, Peer}
  PROVE  LET b == NewBlock(id, type, txs, prev, signer) IN
           IsBlock(b) /\ Index(b) = id /\ b.type = type /\ b.txs = txs
<1> DEFINE b == NewBlock(id, type, txs, prev, signer)
           hash == Hash(id, type, txs)
           rows == NoRows
           none == NoHash
<1>1. hash \in Hashes /\ none \in Hashes /\ hash.id = id
  <2>1. hash.id = id
    BY DEF Hash
  <2> QED
    BY <2>1, HashTyped, NoHashTyped
<1>2. rows \in [Accounts -> Int]
  BY DEF NoRows
<1>3. b = [type |-> type, txs |-> txs, prev |-> prev, hash |-> hash,
           signers |-> {signer}, rows |-> rows, prevGen |-> none]
  BY DEF NewBlock
<1> HIDE DEF b, hash, rows, none
<1>4. IsBlock(b)
  BY <1>1, <1>2, <1>3 DEF IsBlock, StoredBlocks, rows
<1> QED
  BY <1>1, <1>3, <1>4 DEF Index, b

LEMMA GenesisIsBlock ==
  ASSUME NEW n, Based(n.store), Conserving(n.ec)
  PROVE  LET g == NewGenesis(n) IN
           /\ IsBlock(g) /\ g.type = "genesis"
           /\ Index(g) = NextIndex(n.store, n.store.lastSavedId)
<1> DEFINE s == n.store
           last == LastGenesisId(s)
           prevGen == IF last = NoId THEN NoHash ELSE s.files[last].hash
           rows == StoredRows(n.ec)
           id == NextIndex(s, s.lastSavedId)
           prev == PrevHash(s, s.lastSavedId)
           hash == Hash(id, "genesis", <<>>)
           b == NewBlock(id, "genesis", <<>>, prev, Me)
           g == NewGenesis(n)
<1>1. g = [b EXCEPT !.rows = rows, !.prevGen = prevGen]
  BY DEF NewGenesis
<1>2. prevGen \in Hashes
  <2> DEFINE S == {i \in Visible(s) : s.files[i].type = "genesis"}
  <2>1. S \in SUBSET Visible(s) /\ 0 \in S /\ last = Top(S)
    BY BasedFacts DEF LastGenesisId
  <2> HIDE DEF S
  <2>2. last \in Visible(s)
    BY <2>1, TopOfVisible
  <2>3. s.files[last].hash \in Hashes
    BY <2>2, BlockShape DEF Based, Visible
  <2> HIDE DEF last
  <2> QED
    BY <2>3, NoHashTyped
<1>3. rows \in [Accounts -> Int] /\ rows = NoRows
  BY NothingStored DEF NoRows
<1>4. prev \in Hashes
  BY PrevHashTyped
<1>5. id \in Int /\ <<>> \in Seq(Txs) /\ "genesis" \in FileTypes
  <2>1. id \in Nat
    BY NextIndexFacts
  <2> QED
    BY <2>1 DEF FileTypes, ReadableTypes
<1>6. hash \in Hashes /\ hash.id = id
  <2>1. hash.id = id
    BY DEF Hash
  <2> QED
    BY <1>5, <2>1, HashTyped
<1> HIDE DEF id, prev, prevGen, rows
<1>7. b = [type |-> "genesis", txs |-> <<>>, prev |-> prev, hash |-> hash,
           signers |-> {Me}, rows |-> NoRows, prevGen |-> NoHash]
  BY DEF NewBlock
<1> HIDE DEF b, hash
<1>8. g = [type |-> "genesis", txs |-> <<>>, prev |-> prev, hash |-> hash,
           signers |-> {Me}, rows |-> rows, prevGen |-> prevGen]
  BY <1>1, <1>7
<1> HIDE DEF g
<1>9. IsBlock(g) /\ g.type = "genesis" /\ Index(g) = id
  BY <1>2, <1>3, <1>4, <1>5, <1>6, <1>8 DEF IsBlock, StoredBlocks, Index
<1> QED
  BY <1>9 DEF g, id

LEMMA GenesisBased ==
  ASSUME NEW n, Sound(n), Up(n), Based(n.store)
  PROVE  LET r == ConstructGenesis(n) IN
           Sound(r) /\ Remains(n.store, r.store) /\ Holds(n.store, r.store) /\ Alive(r)
<1> DEFINE s == n.store
           r == ConstructGenesis(n)
           g == NewGenesis(n)
           id == NextIndex(s, s.lastSavedId)
           blocked == \E i \in GenesisWalk(s) : ~CanExtract(s.files[i])
<1>1. Remains(s, s) /\ Holds(s, s) /\ id \in Nat /\ 0 \in Ids(s)
  BY BasedFacts, NextIndexFacts DEF Based
<1>6. /\ IsNode(n) /\ n.blocksFromLastGenesis \in Nat /\ Conserving(n.ec)
      /\ n.ec \in [Accounts -> Int] /\ Conserving(NoRows)
  BY NoRowsConserve DEF Sound, Conserving
<1>2. CASE s.records = 0
  <2>1. r = n
    BY <1>2 DEF ConstructGenesis
  <2> QED
    BY <1>1, <2>1 DEF Alive
<1>3. CASE s.records # 0 /\ blocked
  <2>1. r = Abort(n)
    BY <1>3 DEF ConstructGenesis
  <2> QED
    BY <1>1, <1>6, <2>1, AbortFacts DEF Alive, Sound
<1>4. CASE s.records # 0 /\ ~blocked /\ id \in Ids(s)
  <2>1. r = [n EXCEPT !.ec = NoRows]
    BY <1>4 DEF ConstructGenesis
  <2> HIDE DEF r
  <2>3. n.up = TRUE
    BY Zenon DEF Up
  <2>4. /\ IsNode(r) /\ r.store = s /\ r.ec = NoRows
        /\ r.blocksFromLastGenesis = n.blocksFromLastGenesis /\ r.up = n.up
    BY <1>6, <2>1, WithEc, Zenon
  <2>2. /\ IsNode(r) /\ r.store = s /\ r.ec = NoRows
        /\ r.blocksFromLastGenesis = n.blocksFromLastGenesis /\ Up(r)
    BY <2>3, <2>4, Zenon DEF Up
  <2> QED
    BY <1>1, <1>6, <2>2 DEF Alive, Sound, r
<1>5. CASE s.records # 0 /\ ~blocked /\ id \notin Ids(s)
  <2> DEFINE t == Insert(s, id, g)
             stored == [n EXCEPT !.store = t]
             emptied == [stored EXCEPT !.ec = NoRows]
  <2>1. r = [n EXCEPT !.store = Insert(s, id, g), !.ec = NoRows, !.blocksFromLastGenesis = 0]
    BY <1>5 DEF ConstructGenesis
  <2> HIDE DEF g, t, id
  <2>2. r = [emptied EXCEPT !.blocksFromLastGenesis = 0]
    BY <2>1, Zenon DEF t
  <2>3. IsNode(stored) /\ stored.store = t /\ stored.up = n.up
    BY <1>6, WithStore, Zenon
  <2> HIDE DEF stored
  <2>4. IsNode(emptied) /\ emptied.store = t /\ emptied.ec = NoRows /\ emptied.up = n.up
    <3>1. IsNode(stored)
      BY <2>3
    <3>2. IsNode(emptied) /\ emptied.store = stored.store
      BY <3>1, WithEc
    <3>3. emptied.ec = NoRows /\ emptied.up = stored.up
      BY <3>1, WithEc
    <3> QED
      BY <2>3, <3>2, <3>3
  <2> HIDE DEF emptied, r
  <2>5. /\ IsNode(r) /\ r.store = t /\ r.ec = NoRows /\ r.blocksFromLastGenesis = 0 /\ Up(r)
    BY <2>2, <2>4, WithCount, Zenon DEF Up
  <2>9. Sound(r)
    BY <1>6, <2>5 DEF Sound
  <2>6. IsBlock(g) /\ g.type \in FileTypes /\ Index(g) = id
    BY <1>6, GenesisIsBlock DEF g, id, FileTypes, ReadableTypes
  <2>7. id \in Nat \ {0} /\ id \notin Ids(s)
    BY <1>1, <1>5 DEF id
  <2>8. Remains(s, t) /\ Holds(s, t)
    BY <2>6, <2>7, InsertBased DEF t
  <2> QED
    BY <2>5, <2>8, <2>9 DEF Alive, r
<1> QED
  BY <1>2, <1>3, <1>4, <1>5

LEMMA CountBased ==
  ASSUME NEW n, Sound(n), Alive(n), Based(n.store)
  PROVE  LET r == CountBlock(n) IN
           Sound(r) /\ Remains(n.store, r.store) /\ Holds(n.store, r.store) /\ Alive(r)
<1> DEFINE c == n.blocksFromLastGenesis + 1
           m == [n EXCEPT !.blocksFromLastGenesis = c]
           r == CountBlock(n)
<1>1. CASE Down(n)
  <2>1. r = n
    BY <1>1, Zenon DEF CountBlock, Down
  <2> QED
    BY <1>1, <2>1, BasedFacts DEF Alive
<1>2. CASE Up(n)
  <2>1. r = IF m.blocksFromLastGenesis = GenesisEvery THEN ConstructGenesis(m) ELSE m
    BY <1>2, Zenon DEF CountBlock, Up
  <2> HIDE DEF c, r
  <2>6. IsNode(n)
    BY DEF Sound
  <2>7. /\ IsNode(m) /\ m.store = n.store /\ m.ec = n.ec /\ m.blocksFromLastGenesis = c /\ Up(m)
    BY <1>2, <2>6, WithCount, Zenon DEF Up
  <2> HIDE DEF m
  <2>2. Sound(m) /\ m.store = n.store /\ Up(m)
    BY <2>7 DEF Sound, c
  <2>3. LET q == ConstructGenesis(m) IN
          Sound(q) /\ Remains(m.store, q.store) /\ Holds(m.store, q.store) /\ Alive(q)
    BY <2>2, GenesisBased
  <2>4. Sound(m) /\ Remains(m.store, m.store) /\ Holds(m.store, m.store) /\ Alive(m)
    BY <2>2, BasedFacts DEF Alive
  <2>5. Sound(r) /\ Remains(m.store, r.store) /\ Holds(m.store, r.store) /\ Alive(r)
    BY <2>1, <2>3, <2>4
  <2> QED
    BY <2>2, <2>5 DEF r
<1> QED
  BY <1>1, <1>2 DEF Alive

LEMMA StoreBased ==
  ASSUME NEW n, Sound(n), Based(n.store), NEW b, IsBlock(b), Index(b) \in Nat \ {0}
  PROVE  LET r == StoreBlock(n, b) IN
           /\ Remains(n.store, r.store) /\ Alive(r)
           /\ Index(b) \notin Ids(n.store) => Holds(n.store, r.store)
           /\ Sound(r)
<1> DEFINE id == Index(b)
           s1 == Insert(n.store, id, b)
           ec1 == IF b.type = "data" THEN SaveTxInfoInEC(n.ec, b.txs) ELSE n.ec
           alive == b.type = "data" => b.txs # <<>>
           q == [n EXCEPT !.store = s1, !.ec = ec1, !.up = alive]
           r == StoreBlock(n, b)
<1>1. r = CountBlock(q)
  BY DEF StoreBlock
<1>2. Remains(n.store, s1) /\ (id \notin Ids(n.store) => Holds(n.store, s1))
  BY BlockShape, InsertBased
<1>5. Conserving(ec1)
  BY BlockShape, SaveConserves DEF Sound
<1>6. IsNode(n)
  BY DEF Sound
<1> HIDE DEF r, s1, ec1
<1>3. Sound(q) /\ q.store = s1 /\ Alive(q)
  <2> HIDE DEF alive
  <2> DEFINE g == [n EXCEPT !.store = s1]
             h == [g EXCEPT !.ec = ec1]
  <2>1. q = [h EXCEPT !.up = alive]
    BY Zenon
  <2> HIDE DEF q, g
  <2>2. IsNode(g) /\ g.store = s1 /\ g.blocksFromLastGenesis = n.blocksFromLastGenesis
    BY <1>6, WithStore DEF g
  <2>3. /\ IsNode(h) /\ h.store = s1 /\ h.ec = ec1
        /\ h.blocksFromLastGenesis = n.blocksFromLastGenesis
    BY <2>2, WithEc
  <2> HIDE DEF h
  <2>4. /\ IsNode(q) /\ q.store = s1 /\ q.ec = ec1
        /\ q.blocksFromLastGenesis = n.blocksFromLastGenesis /\ q.up = alive
    BY <2>1, <2>3, WithUp, Zenon
  <2>6. Sound(q)
    BY <1>5, <2>4 DEF Sound
  <2>5. alive = TRUE \/ alive = FALSE
    BY DEF alive
  <2> QED
    BY <2>4, <2>5, <2>6, Zenon DEF Alive, Up, Down
<1> HIDE DEF q
<1>4. Sound(r) /\ Remains(s1, r.store) /\ Holds(s1, r.store) /\ Alive(r)
  BY <1>1, <1>2, <1>3, CountBased DEF Remains
<1> QED
  BY <1>2, <1>4, RemainsMore, HoldsMore DEF r

\* The merged block takes the place of one without transactions, and the last one
\* that can be read.
LEMMA ReplaceBased ==
  ASSUME NEW n, Sound(n), Based(n.store), NEW b, IsBlock(b), Index(b) \in Nat \ {0}
  PROVE  LET r == ReplaceByMerged(n, b) IN
           /\ Sound(r) /\ Alive(r) /\ Remains(n.store, r.store)
           /\ Index(b) = LastBlockId(n.store) /\ ~Substantial(n.store.files[Index(b)]) =>
                Holds(n.store, r.store)
<1> DEFINE s == n.store
           id == Index(b)
           t == RemoveById(s, id)
           m == [n EXCEPT !.store = t]
           txs == b.txs \o b.txs
           prev == PrevHash(s, id - 1)
           c == NewBlock(id, "data", txs, prev, Me)
           r == ReplaceByMerged(n, b)
<1>1. r = StoreBlock(m, c)
  BY DEF ReplaceByMerged
<1>2. IsBlock(c) /\ Index(c) = id /\ c.type = "data" /\ "data" \in FileTypes
  <2>1. txs \in Seq(Txs)
    <3>1. b.txs \in Seq(Txs)
      BY BlockShape
    <3> QED
      BY <3>1
  <2>2. prev \in Hashes /\ id \in Int /\ "data" \in FileTypes
    BY PrevHashTyped DEF FileTypes, ReadableTypes
  <2> HIDE DEF txs, prev, id
  <2> QED
    BY <2>1, <2>2, NewIsBlock
<1>3. /\ Remains(s, t)
      /\ Ids(t) = Ids(s) \ {i \in Ids(s) : id <= i /\ i <= s.lastSavedId}
      /\ \A i \in Ids(t) : t.files[i] = s.files[i]
  BY RemoveBased
<1> HIDE DEF t, c, r
<1>8. IsNode(n) /\ n.blocksFromLastGenesis \in Nat /\ Conserving(n.ec)
  BY DEF Sound
<1>9. /\ IsNode(m) /\ m.store = t /\ m.ec = n.ec
      /\ m.blocksFromLastGenesis = n.blocksFromLastGenesis
  BY <1>8, WithStore
<1> HIDE DEF m
<1>4. Sound(m) /\ m.store = t
  BY <1>8, <1>9 DEF Sound
<1>5. /\ Remains(t, r.store) /\ Alive(r) /\ Sound(r)
      /\ id \notin Ids(t) => Holds(t, r.store)
  BY <1>1, <1>2, <1>3, <1>4, StoreBased DEF Remains
<1>6. Remains(s, r.store)
  BY <1>3, <1>5, RemainsMore
<1>7. ASSUME id = LastBlockId(s), ~Substantial(s.files[id])
      PROVE  Holds(s, r.store)
  <2>1. id \in Visible(s) /\ \A i \in Visible(s) : i <= id
    BY <1>7, NextIndexFacts
  <2>2. id \notin Ids(t)
    BY <1>3, <2>1 DEF Visible
  <2>3. Holds(s, t)
    <3> SUFFICES ASSUME NEW i \in Ids(s), Substantial(s.files[i])
                 PROVE  i \in Ids(t)
      BY <1>3 DEF Holds
    <3>1. i \in Nat /\ s.firstSavedId = 0 /\ s.files[i].type # "torn"
      BY BasedFacts DEF Substantial, Based
    <3>2. SUFFICES ASSUME id <= i, i <= s.lastSavedId
                   PROVE  FALSE
      BY <1>3
    <3>3. i \in Visible(s)
      BY <3>1, <3>2 DEF Visible
    <3>4. i = id
      BY <2>1, <3>1, <3>2, <3>3
    <3> QED
      BY <1>7, <3>4
  <2> QED
    BY <1>5, <2>2, <2>3, HoldsMore
<1> QED
  BY <1>5, <1>6, <1>7 DEF r

LEMMA MergeBased ==
  ASSUME NEW n, Sound(n), Up(n), Based(n.store),
         NEW b, IsBlock(b), b.type \in {"dummy", "data"}, Index(b) \in Nat \ {0}
  PROVE  LET r == MergeBlockWithLocal(n, b) IN
           Sound(r) /\ Remains(n.store, r.store) /\ (Down(r) \/ (Up(r) /\ Holds(n.store, r.store)))
<1> DEFINE s == n.store
           id == Index(b)
           e == s.files[id]
           merged == ReplaceByMerged(n, b)
           r == MergeBlockWithLocal(n, b)
<1>1. /\ Sound(merged) /\ Alive(merged) /\ Remains(s, merged.store)
      /\ id = LastBlockId(s) /\ ~Substantial(e) => Holds(s, merged.store)
  BY ReplaceBased
<1> HIDE DEF merged
<1>2. \/ r = n \/ r = Abort(n) \/ r = Abort(merged)
      \/ /\ r = CountBlock(merged)
         /\ id = LastBlockId(s) /\ CanMergeBlocks(b, e) /\ CanExtract(e)
  <2>1. CASE ~CanMergeBlocks(b, e)
    BY <2>1 DEF MergeBlockWithLocal
  <2>2. CASE CanMergeBlocks(b, e) /\ b.prev = e.prev /\ b.type = "dummy"
    BY <2>2 DEF MergeBlockWithLocal
  <2>3. CASE CanMergeBlocks(b, e) /\ b.prev = e.prev /\ ~CanExtract(e) /\ b.type # "dummy"
    BY <2>3 DEF MergeBlockWithLocal
  <2>4. CASE /\ CanMergeBlocks(b, e)
             /\ ~(b.prev = e.prev /\ b.type = "dummy")
             /\ ~(b.prev = e.prev /\ ~CanExtract(e))
    <3>1. r = IF ~ (id - 1 \in Visible(s)) THEN n
              ELSE IF ~CanExtract(e) THEN Abort(n)
              ELSE IF ~merged.up \/ id # LastBlockId(s) THEN Abort(merged)
              ELSE CountBlock(merged)
      BY <2>4 DEF MergeBlockWithLocal, merged
    <3> HIDE DEF r
    <3> QED
      BY <2>4, <3>1, Zenon
  <2> QED
    BY <2>1, <2>2, <2>3, <2>4
<1> HIDE DEF r
<1>3. CASE r = n
  BY <1>3, BasedFacts DEF r
<1>4. CASE r = Abort(n)
  BY <1>4, BasedFacts, AbortFacts DEF r, Sound
<1>5. CASE r = Abort(merged)
  BY <1>1, <1>5, AbortFacts DEF r, Sound
<1>6. CASE /\ r = CountBlock(merged)
           /\ id = LastBlockId(s) /\ CanMergeBlocks(b, e) /\ CanExtract(e)
  <2>1. e.type = b.type
    BY <1>6 DEF CanMergeBlocks
  <2>2. ~Substantial(e)
    BY <1>6, <2>1 DEF Substantial, CanExtract
  <2>3. Sound(r) /\ Remains(merged.store, r.store) /\ Holds(merged.store, r.store) /\ Alive(r)
    BY <1>1, <1>6, CountBased DEF Remains
  <2> QED
    BY <1>1, <1>6, <2>2, <2>3, RemainsMore, HoldsMore DEF Alive, r
<1> QED
  BY <1>2, <1>3, <1>4, <1>5, <1>6

\* addBlock, with a block of this node or of the peer.
LEMMA AddBased ==
  ASSUME NEW n, Sound(n), Up(n), Based(n.store),
         NEW b, IsBlock(b), b.type \in {"dummy", "data"}, Index(b) \in Nat \ {0}
  PROVE  LET r == AddBlock(n, b) IN
           Sound(r) /\ Remains(n.store, r.store) /\ (Down(r) \/ (Up(r) /\ Holds(n.store, r.store)))
<1> DEFINE s == n.store
           id == Index(b)
           read == Touch(s, {id - 1, id})
           signed == SignCheckAdd(read, b)
           m == [n EXCEPT !.store = signed]
           r == AddBlock(n, b)
<1>1. Remains(s, read) /\ Holds(s, read) /\ Ids(read) = Ids(s)
  <2>1. {id - 1, id} \in SUBSET (NoId .. id)
    BY DEF NoId
  <2> QED
    BY <2>1, TouchBased
<1> HIDE DEF read
<1>2. Remains(read, signed) /\ Holds(read, signed) /\ Ids(signed) = Ids(read)
  BY <1>1, SignBased DEF Remains
<1> HIDE DEF signed
<1>3. Remains(s, signed) /\ Holds(s, signed) /\ Ids(signed) = Ids(s)
  BY <1>1, <1>2, RemainsMore, HoldsMore
<1>4. r = IF id \in Ids(s) THEN MergeBlockWithLocal(m, b) ELSE StoreBlock(m, b)
  BY DEF AddBlock, signed, read
<1>7. IsNode(n) /\ n.blocksFromLastGenesis \in Nat /\ Conserving(n.ec)
  BY DEF Sound
<1>8. /\ IsNode(m) /\ m.store = signed /\ m.ec = n.ec
      /\ m.blocksFromLastGenesis = n.blocksFromLastGenesis /\ Up(m)
  BY <1>7, WithStore, Zenon DEF Up
<1> HIDE DEF m, r
<1>5. Sound(m) /\ m.store = signed /\ Up(m)
  BY <1>7, <1>8 DEF Sound
<1>6. Sound(r) /\ Remains(signed, r.store) /\ (Down(r) \/ (Up(r) /\ Holds(signed, r.store)))
  <2>1. CASE id \in Ids(s)
    BY <1>3, <1>4, <1>5, <2>1, MergeBased DEF Remains
  <2>2. CASE id \notin Ids(s)
    BY <1>3, <1>4, <1>5, <2>2, StoreBased DEF Remains, Alive
  <2> QED
    BY <2>1, <2>2
<1> QED
  BY <1>3, <1>6, RemainsMore, HoldsMore DEF r

-----------------------------------------------------------------------------
(* Handlers, with the messages of a peer *)

\* The invariant, and what a step does to it.
PeerBase ==
  running \in BOOLEAN /\ Based(store) /\ blocksFromLastGenesis \in Nat /\ Conserving(ec)

Moves ==
  /\ PeerBase'
  /\ Holds(store, store') \/ ~running'
  /\ StoredWithinRange => StoredWithinRange'

LEMMA BareBased ==
  ASSUME NEW s, Based(s)
  PROVE  LET t == RemoveDummyBlocks(s) IN Remains(s, t) /\ Holds(s, t)
<1> DEFINE stop == DummyStop(s)
           seen == Touch(s, {stop})
           t == RemoveDummyBlocks(s)
<1>1. PICK c \in Nat : StoreTypeOK(s, c)
  BY DEF Based, Typed
<1>2. /\ stop \in NoId .. s.lastSavedId
      /\ \A i \in stop + 1 .. s.lastSavedId : IsDummy(s, i)
  BY <1>1, DummyStopFacts
<1>3. stop \in Nat /\ stop <= s.lastSavedId /\ s.lastSavedId \in Nat
  <2>1. s.lastSavedId \in Nat
    BY DEF Based
  <2>2. SUFFICES stop # NoId
    BY <1>2, <2>1 DEF NoId
  <2>3. SUFFICES ASSUME stop = NoId
                 PROVE  FALSE
    OBVIOUS
  <2>4. 0 \in stop + 1 .. s.lastSavedId
    BY <2>1, <2>3 DEF NoId
  <2> QED
    BY <1>2, <2>4, BasedFacts DEF IsDummy
<1>4. t = IF stop = s.lastSavedId THEN seen ELSE RemoveById(seen, stop + 1)
  BY DEF RemoveDummyBlocks
<1>5. /\ Remains(s, seen) /\ Holds(s, seen) /\ seen.files = s.files /\ Ids(seen) = Ids(s)
      /\ seen.lastSavedId = s.lastSavedId
  <2> HIDE DEF stop
  <2>1. {stop} \in SUBSET (NoId .. stop)
    BY <1>3 DEF NoId
  <2>2. Remains(s, seen) /\ Holds(s, seen) /\ seen.files = s.files /\ Ids(seen) = Ids(s)
    BY <1>3, <2>1, TouchBased
  <2>3. seen.lastSavedId = s.lastSavedId
    BY <1>3, <2>1, TouchTyped DEF Based
  <2> QED
    BY <2>2, <2>3
<1> HIDE DEF seen, t, stop
<1>6. CASE stop = s.lastSavedId
  BY <1>4, <1>5, <1>6 DEF t
<1>7. CASE stop # s.lastSavedId
  <2> DEFINE id == stop + 1
             u == RemoveById(seen, id)
  <2>1. id \in Nat \ {0}
    BY <1>3
  <2> HIDE DEF id
  <2>2. /\ Remains(seen, u)
        /\ Ids(u) = Ids(seen) \ {i \in Ids(seen) : id <= i /\ i <= seen.lastSavedId}
        /\ \A i \in Ids(u) : u.files[i] = seen.files[i]
    BY <1>5, <2>1, RemoveBased DEF Remains
  <2> HIDE DEF u
  <2>3. Holds(s, u)
    <3> SUFFICES ASSUME NEW i \in Ids(s), Substantial(s.files[i])
                 PROVE  i \in Ids(u) /\ Content(u.files[i]) = Content(s.files[i])
      BY DEF Holds
    <3>1. i \in Nat /\ s.files[i].type # "dummy"
      BY BasedFacts DEF Substantial
    <3>2. ~ (id <= i /\ i <= s.lastSavedId)
      <4>1. SUFFICES ASSUME id <= i, i <= s.lastSavedId
                     PROVE  FALSE
        OBVIOUS
      <4>2. i \in stop + 1 .. s.lastSavedId
        BY <1>3, <3>1, <4>1 DEF id
      <4> QED
        BY <1>2, <3>1, <4>2 DEF IsDummy
    <3>3. i \in Ids(u)
      BY <1>5, <2>2, <3>2
    <3> QED
      BY <1>5, <2>2, <3>3
  <2>4. Remains(s, u)
    BY <1>5, <2>2, RemainsMore
  <2> QED
    BY <1>4, <1>7, <2>3, <2>4 DEF t, u, id
<1> QED
  BY <1>6, <1>7

\* A handler that ends with r.
LEMMA HandlerMoves ==
  ASSUME running, NEW r, Sound(r), Remains(store, r.store),
         Down(r) \/ (Up(r) /\ Holds(store, r.store)), Become(r)
  PROVE  Moves
<1>1. /\ store' = r.store /\ running' = r.up /\ ec' = r.ec
      /\ blocksFromLastGenesis' \in {r.blocksFromLastGenesis, 0}
  BY Zenon DEF Become
<1>4. Conserving(ec') /\ blocksFromLastGenesis' \in Nat
  BY <1>1 DEF Sound
<1>2. running' = FALSE \/ (running' = TRUE /\ Holds(store, store'))
  BY <1>1, Zenon DEF Down, Up
<1>3. Based(store') /\ (WithinRange(store) => WithinRange(store'))
  BY <1>1 DEF Remains
<1> QED
  BY <1>2, <1>3, <1>4 DEF Moves, PeerBase, StoredWithinRange

\* A step that leaves the files alone.
LEMMA SameMoves ==
  ASSUME PeerBase, store' = store, ec' = ec, running' = running \/ (running' = FALSE),
         blocksFromLastGenesis' \in {blocksFromLastGenesis, 0}
  PROVE  Moves
<1>1. running' \in BOOLEAN /\ (running' => running)
  <2>1. running \in BOOLEAN
    BY DEF PeerBase
  <2>2. CASE running' = running
    BY <2>1, <2>2
  <2>3. CASE running' = FALSE
    BY <2>3
  <2> QED
    BY <2>2, <2>3
<1>2. Conserving(ec') /\ blocksFromLastGenesis' \in Nat
  BY DEF PeerBase
<1> QED
  BY <1>1, <1>2, BasedFacts DEF Moves, PeerBase, StoredWithinRange

LEMMA NodeUp ==
  ASSUME PeerBase, running
  PROVE  Sound(Node) /\ Node.store = store /\ Up(Node) /\ Based(store)
<1>1. running = TRUE
  BY DEF PeerBase
<1> QED
  BY <1>1, NodeFacts, Zenon DEF Up, PeerBase, Sound

LEMMA MakeDummyMoves ==
  ASSUME PeerBase, MakeDummyBlock
  PROVE  Moves
<1> DEFINE id == NextIndex(store, LastBlockId(store))
           prev == PrevHash(store, LastBlockId(store))
           b == DummyBlock(store)
           r == AddBlock(Node, b)
<1>1. running /\ Become(r)
  BY Zenon DEF MakeDummyBlock, MadeBlock
<1>2. Sound(Node) /\ Node.store = store /\ Up(Node) /\ Based(store)
  BY <1>1, NodeUp
<1>3. IsBlock(b) /\ b.type \in {"dummy", "data"} /\ Index(b) \in Nat \ {0}
  <2> DEFINE none == <<>>
             type == "dummy"
  <2>1. b = NewBlock(id, type, none, prev, Me)
    BY DEF DummyBlock
  <2>2. id \in Nat \ {0} /\ prev \in Hashes
    BY <1>2, NextIndexFacts, PrevHashTyped
  <2>3. none \in Seq(Txs) /\ type \in FileTypes /\ type \in {"dummy", "data"}
    BY DEF FileTypes, ReadableTypes
  <2> HIDE DEF b, id, prev, none, type
  <2> QED
    BY <2>1, <2>2, <2>3, NewIsBlock
<1> HIDE DEF b
<1>4. Sound(r) /\ Remains(store, r.store) /\ (Down(r) \/ (Up(r) /\ Holds(store, r.store)))
  BY <1>2, <1>3, AddBased
<1> HIDE DEF r
<1> QED
  BY <1>1, <1>4, HandlerMoves

LEMMA PackMoves ==
  ASSUME PeerBase, ListsOK, PackPendingTxs
  PROVE  Moves
<1> DEFINE s == RemoveDummyBlocks(store)
           bare == [Node EXCEPT !.store = s]
           id == NextIndex(bare.store, LastRealId(bare.store))
           prev == PrevHash(bare.store, LastRealId(bare.store))
           b == DataBlock(bare.store)
           r == AddBlock(bare, b)
<1>1. running /\ Become(r)
  <2>1. Node.store = store
    BY NodeFacts
  <2>2. [Node EXCEPT !.store = RemoveDummyBlocks(@)] = bare
    BY <2>1
  <2> HIDE DEF bare
  <2> QED
    BY <2>2, Zenon DEF PackPendingTxs, MadeBlock
<1>2. Sound(Node) /\ Node.store = store /\ Up(Node) /\ Based(store)
  BY <1>1, NodeUp
<1>9. IsNode(Node) /\ Node.blocksFromLastGenesis \in Nat /\ Conserving(Node.ec)
  BY <1>2 DEF Sound
<1>10. /\ IsNode(bare) /\ bare.store = s /\ bare.ec = Node.ec
       /\ bare.blocksFromLastGenesis = Node.blocksFromLastGenesis /\ Up(bare)
  BY <1>2, <1>9, WithStore, Zenon DEF Up
<1>3. Sound(bare) /\ bare.store = s /\ Up(bare)
  BY <1>9, <1>10, Zenon DEF Sound
<1>4. Remains(store, s) /\ Holds(store, s)
  BY <1>2, BareBased
<1>5. Based(bare.store)
  BY <1>3, <1>4 DEF Remains
<1> HIDE DEF s, bare
<1>6. IsBlock(b) /\ b.type \in {"dummy", "data"} /\ Index(b) \in Nat \ {0}
  <2>1. b = NewBlock(id, "data", pendingTxs, prev, Me)
    BY DEF DataBlock
  <2>2. id \in Nat \ {0} /\ prev \in Hashes
    BY <1>5, NextIndexFacts, PrevHashTyped
  <2>3. pendingTxs \in Seq(Txs) /\ "data" \in FileTypes
    BY DEF FileTypes, ReadableTypes, ListsOK
  <2> HIDE DEF b, id, prev
  <2> QED
    BY <2>1, <2>2, <2>3, NewIsBlock
<1> HIDE DEF b
<1>7. Sound(r) /\ Remains(s, r.store) /\ (Down(r) \/ (Up(r) /\ Holds(s, r.store)))
  BY <1>3, <1>5, <1>6, AddBased
<1> HIDE DEF r
<1>8. Sound(r) /\ Remains(store, r.store) /\ (Down(r) \/ (Up(r) /\ Holds(store, r.store)))
  BY <1>4, <1>7, RemainsMore, HoldsMore
<1> QED
  BY <1>1, <1>8, HandlerMoves

LEMMA ReceiveBlockMoves ==
  ASSUME PeerBase, NEW b, IsBlock(b), b.type \in {"dummy", "data"}, Index(b) \in Nat \ {0},
         ReceiveBlock(b)
  PROVE  Moves
<1> DEFINE r == AddBlock(Node, b)
<1>1. running /\ Become(r)
  BY Zenon DEF ReceiveBlock, Received
<1>2. Sound(Node) /\ Node.store = store /\ Up(Node) /\ Based(store)
  BY <1>1, NodeUp
<1>3. Sound(r) /\ Remains(store, r.store) /\ (Down(r) \/ (Up(r) /\ Holds(store, r.store)))
  BY <1>2, AddBased
<1> HIDE DEF r
<1> QED
  BY <1>1, <1>3, HandlerMoves

LEMMA ReceiveGenesisMoves ==
  ASSUME PeerBase, NEW b, IsBlock(b), b.type = "genesis", Index(b) \in Nat \ {0},
         ReceiveGenesis(b)
  PROVE  Moves
<1> DEFINE s == Touch(store, {Index(b)})
           inserted == Insert(s, Index(b), b)
           signed == SignCheckAdd(s, b)
           r == CASE Index(b) \notin Ids(s) -> [Node EXCEPT !.store = inserted]
                  [] Index(b) \in Ids(s) /\ s.files[Index(b)].type = "torn" -> Abort(Node)
                  [] OTHER -> [Node EXCEPT !.store = signed]
<1>1. running /\ Become(r)
  BY Zenon DEF ReceiveGenesis, Received
<1>2. Sound(Node) /\ Node.store = store /\ Up(Node) /\ Based(store)
  BY <1>1, NodeUp
<1>3. Remains(store, s) /\ Holds(store, s) /\ Based(s)
  <2>1. {Index(b)} \in SUBSET (NoId .. Index(b))
    BY DEF NoId
  <2> QED
    BY <1>2, <2>1, TouchBased DEF Remains
<1> HIDE DEF s
<1>4. /\ Remains(s, inserted) /\ (Index(b) \notin Ids(s) => Holds(s, inserted))
      /\ Remains(s, signed) /\ Holds(s, signed)
  <2>1. b.type \in FileTypes
    BY DEF FileTypes, ReadableTypes
  <2> QED
    BY <1>3, <2>1, InsertBased, SignBased
<1> HIDE DEF inserted, signed
<1>7. IsNode(Node) /\ Node.blocksFromLastGenesis \in Nat /\ Conserving(Node.ec)
  BY <1>2 DEF Sound
<1>5. ASSUME NEW t
      PROVE  LET m == [Node EXCEPT !.store = t] IN m.store = t /\ Up(m) /\ Sound(m)
  <2> DEFINE m == [Node EXCEPT !.store = t]
  <2>1. /\ IsNode(m) /\ m.store = t /\ m.ec = Node.ec
        /\ m.blocksFromLastGenesis = Node.blocksFromLastGenesis /\ Up(m)
    BY <1>2, <1>7, WithStore, Zenon DEF Up
  <2> HIDE DEF m
  <2> QED
    BY <1>7, <2>1, Zenon DEF Sound, m
<1>6. Sound(r) /\ Remains(store, r.store) /\ (Down(r) \/ (Up(r) /\ Holds(store, r.store)))
  <2>1. CASE Index(b) \notin Ids(s)
    <3>1. r = [Node EXCEPT !.store = inserted]
      BY <2>1
    <3> HIDE DEF r
    <3>2. r.store = inserted /\ Up(r) /\ Sound(r)
      BY <1>5, <3>1
    <3> QED
      BY <1>3, <1>4, <2>1, <3>2, RemainsMore, HoldsMore
  <2>2. CASE Index(b) \in Ids(s) /\ s.files[Index(b)].type = "torn"
    <3>1. r = Abort(Node)
      BY <2>2
    <3> HIDE DEF r
    <3>2. r.store = store /\ Down(r) /\ Sound(r)
      BY <1>2, <1>7, <3>1, AbortFacts DEF Sound
    <3> QED
      BY <1>2, <3>2, BasedFacts
  <2>3. CASE Index(b) \in Ids(s) /\ s.files[Index(b)].type # "torn"
    <3>1. r = [Node EXCEPT !.store = signed]
      BY <2>3
    <3> HIDE DEF r
    <3>2. r.store = signed /\ Up(r) /\ Sound(r)
      BY <1>5, <3>1
    <3> QED
      BY <1>3, <1>4, <3>2, RemainsMore, HoldsMore
  <2> QED
    BY <2>1, <2>2, <2>3
<1> HIDE DEF r
<1> QED
  BY <1>1, <1>6, HandlerMoves

LEMMA StartMoves ==
  ASSUME PeerBase, Start
  PROVE  /\ PeerBase' /\ Holds(store, store')
         /\ ~TopSectionEmpty(store) => StoredWithinRange'
<1>1. store' = Reload(store) /\ running' = TRUE
  BY DEF Start
<1>2. PICK c \in Nat : StoreTypeOK(store, c)
  BY DEF PeerBase, Based, Typed
<1>3. FilesInSections(store) /\ 0 \in Ids(store) /\ store.files[0] = Genesis0
      /\ \A i \in Ids(store) : IsBlock(store.files[i]) /\ Index(store.files[i]) = i
  BY DEF PeerBase, Based
<1> DEFINE t == Reload(store)
<1>4. /\ StoreTypeOK(t, c) /\ FilesInSections(t) /\ Ids(t) = Ids(store)
      /\ ~TopSectionEmpty(store) => WithinRange(t)
  BY <1>2, <1>3, ReloadFacts
<1>5. t.files = store.files /\ t.firstSavedId = LoadFirstId(store) /\ t.lastSavedId = LoadLastId(store)
  <2> DEFINE n == Cardinality(store.sections) * Cardinality(store.sections)
  <2>1. store = [files |-> store.files, sections |-> store.sections, records |-> store.records,
                 firstSavedId |-> store.firstSavedId, lastSavedId |-> store.lastSavedId]
    BY <1>2 DEF StoreTypeOK
  <2>2. t = [store EXCEPT !.records = n, !.firstSavedId = LoadFirstId(store),
                          !.lastSavedId = LoadLastId(store)]
    BY DEF Reload
  <2> HIDE DEF t, n
  <2> QED
    BY <2>1, <2>2
<1> HIDE DEF t
<1>6. LoadFirstId(store) = 0
  <2>1. LoadFirstId(store) \in 0 .. c /\ \A i \in Ids(store) : LoadFirstId(store) <= i
    BY <1>2, <1>3, LoadFirstIdFacts
  <2> QED
    BY <1>3, <2>1
<1>7. LoadLastId(store) \in Nat
  BY <1>2, <1>3, LoadLastIdFacts
<1>8. Based(t)
  BY <1>3, <1>4, <1>5, <1>6, <1>7 DEF Based, Typed
<1>9. Holds(store, t)
  BY <1>4, <1>5 DEF Holds
<1> QED
  BY <1>1, <1>4, <1>8, <1>9 DEF t, PeerBase, StoredWithinRange, Start

LEMMA PeerStep ==
  ASSUME PeerBase, ListsOK, [PeerNext]_vars
  PROVE  /\ PeerBase'
         /\ Holds(store, store') \/ ~running'
         /\ StoredWithinRange /\ ~(Start /\ TopSectionEmpty(store)) => StoredWithinRange'
<1>1. CASE MakeBlock
  BY <1>1, MakeDummyMoves, PackMoves DEF MakeBlock, Moves
<1>2. CASE ProveTransactions
  BY <1>2, ProveTransactionsKeeps, SameMoves DEF Moves
<1>3. ASSUME NEW tx \in Txs, AddTransaction(tx) \/ CreateTransaction(tx)
      PROVE  Moves
  BY <1>3, AbortProcessFacts, SameMoves DEF AddTransaction, CreateTransaction
<1>4. ASSUME NEW tx \in Verified, AddVerifiedTx(tx)
      PROVE  Moves
  BY <1>4, SameMoves DEF AddVerifiedTx
<1>5. CASE Stop
  BY <1>5, AbortProcessFacts, SameMoves DEF Stop, Moves
<1>6. CASE Start
  BY <1>6, StartMoves
<1>7. CASE UNCHANGED vars
  BY <1>7, SameMoves DEF vars, Moves
<1>8. ASSUME NEW type \in PeerTypes, NEW b \in PeerBlocks(type),
             IF type = "genesis" THEN ReceiveGenesis(b) ELSE ReceiveBlock(b)
      PROVE  Moves
  <2>1. type \in {"data", "dummy", "genesis"}
    BY PeerAssumption DEF ReadableTypes
  <2>2. PICK id \in 1 .. MaxPeerIndex,
               txs \in IF type = "data" THEN {<<tx>> : tx \in Txs} ELSE {<<>>},
               prev \in {NoHash} \cup {PrevHash(store, i - 1) : i \in 1 .. MaxPeerIndex} :
          b = NewBlock(id, type, txs, prev, Peer)
    BY DEF PeerBlocks
  <2>5. prev \in Hashes
    BY NoHashTyped, PrevHashTyped DEF PeerBase
  <2>6. txs \in Seq(Txs)
    <3>1. \A tx \in Txs : <<tx>> \in Seq(Txs)
      OBVIOUS
    <3>2. <<>> \in Seq(Txs)
      OBVIOUS
    <3> QED
      BY <3>1, <3>2, Zenon
  <2>7. type \in FileTypes /\ id \in Int
    BY <2>1, PeerAssumption DEF FileTypes, ReadableTypes
  <2>3. IsBlock(b) /\ b.type = type /\ Index(b) = id
    BY <2>2, <2>5, <2>6, <2>7, NewIsBlock
  <2>4. id \in Nat \ {0}
    BY PeerAssumption
  <2> QED
    BY <1>8, <2>1, <2>3, <2>4, ReceiveGenesisMoves, ReceiveBlockMoves
<1> QED
  BY <1>1, <1>2, <1>3, <1>4, <1>5, <1>6, <1>7, <1>8 DEF PeerNext, Next, Moves

LEMMA InitBased == Init => PeerBase /\ StoredWithinRange
<1> SUFFICES ASSUME Init
             PROVE  PeerBase /\ StoredWithinRange
  OBVIOUS
<1>1. PICK k \in Nat : ChainOf(store, k) /\ Covered(store, k)
  BY InitChain DEF WholeInv, Whole, Init
<1>2. store.firstSavedId = 0 /\ store.lastSavedId = k /\ Ids(store) = 0 .. k
  BY <1>1, ChainFacts DEF Covered
<1>3. \A i \in Ids(store) : IsBlock(store.files[i]) /\ Index(store.files[i]) = i
  <2>1. IsBlock(Genesis0) /\ Index(Genesis0) = 0
    <3> DEFINE none == <<>>
               type == "genesis"
    <3>1. ZeroHash \in Hashes /\ none \in Seq(Txs) /\ type \in FileTypes
      BY NoHashTyped DEF FileTypes, ReadableTypes
    <3>2. Genesis0 = NewBlock(0, type, none, ZeroHash, Me)
      BY DEF Genesis0
    <3> HIDE DEF none, type
    <3> QED
      BY <3>1, <3>2, NewIsBlock
  <2>2. \A i \in Ids(store) : store.files[i] = Genesis0 /\ i = 0
    BY DEF Init, Insert, EmptyStore, Ids
  <2> QED
    BY <2>1, <2>2
<1>4. Based(store)
  BY <1>1, <1>2, <1>3 DEF Based, ChainOf
<1>5. WithinRange(store)
  BY <1>2 DEF WithinRange
<1> QED
  BY <1>4, <1>5, NoRowsConserve DEF PeerBase, StoredWithinRange, Init

\* The lists, when a handler of a message ends.
LEMMA PeerListsStep ==
  ASSUME ListsOK, [PeerNext]_vars
  PROVE  ListsOK'
<1>1. CASE Next \/ UNCHANGED vars
  BY <1>1, ListsStep
<1>2. ASSUME NEW n, Received(n)
      PROVE  ListsOK'
  <2>1. \/ pendingTxs' = pendingTxs /\ receivedTxList' = receivedTxList
        \/ pendingTxs' = <<>> /\ receivedTxList' = <<>>
    BY <1>2 DEF Received, ListsLost
  <2> QED
    BY <2>1, NoneListed, Zenon DEF ListsOK
<1> QED
  BY <1>1, <1>2, Zenon DEF PeerNext, ReceiveGenesis, ReceiveBlock

-----------------------------------------------------------------------------
(* Genesis blocks on time *)

\* No restart comes out with the right number of blocks by chance: the constructor
\* counts the sections, so it is right about block 0 alone, and otherwise only when
\* the chain happens to be the square of that number long.  The counter starts
\* again at 0 then, whatever lies above the last genesis block.
StartsMiscounted == [][Start => (Counted(store') => Ids(store') = {0})]_vars

\* The blocks above the last genesis block of chain s up to k are counted by c, if
\* the blocks themselves are.
TimelyAt(s, k, c) ==
  Excess(s) = 0 => Covered(s, k) /\ c < GenesisEvery /\ k - Below(s, k + 1) <= c
Timely(s, c) == c \in Nat /\ \A k \in Nat : ChainOf(s, k) => TimelyAt(s, k, c)

\* The inductive invariant: a run that once counted the blocks wrong never gets
\* them right again, because each handler changes records by the files it writes
\* and removes.
TimeInv == IF running THEN Timely(store, blocksFromLastGenesis) ELSE blocksFromLastGenesis = 0

LEMMA TimelyIs ==
  ASSUME NEW s, NEW k \in Nat, ChainOf(s, k), NEW c \in Nat, TimelyAt(s, k, c)
  PROVE  Timely(s, c)
<1>1. ASSUME NEW j \in Nat, ChainOf(s, j)
      PROVE  j = k
  <2>1. 0 .. j = 0 .. k
    BY <1>1, ChainFacts
  <2> QED
    BY <2>1
<1> QED
  BY <1>1 DEF Timely

LEMMA ExcessOfChain ==
  ASSUME NEW s, NEW k \in Nat, ChainOf(s, k)
  PROVE  Excess(s) = s.records - (k + 1) /\ s.records \in Int /\ Cardinality(Ids(s)) = k + 1
<1>1. Ids(s) = 0 .. k
  BY ChainFacts
<1>2. Cardinality(0 .. k) = k + 1
  BY FS_Interval
<1>3. s.records \in Int
  BY DEF ChainOf, Typed, StoreTypeOK
<1> QED
  BY <1>1, <1>2, <1>3 DEF Excess

\* The last genesis block of two chains that agree up to d and have none above.
LEMMA BelowSame ==
  ASSUME NEW s, NEW k \in Nat, ChainOf(s, k), NEW t, NEW j \in Nat, ChainOf(t, j),
         NEW d \in 0 .. k, d <= j,
         \A i \in 0 .. d : t.files[i] = s.files[i],
         \A i \in d + 1 .. k : s.files[i].type # "genesis",
         \A i \in d + 1 .. j : t.files[i].type # "genesis"
  PROVE  Below(t, j + 1) = Below(s, k + 1) /\ Below(s, k + 1) \in 0 .. d
<1>1. Ids(s) = 0 .. k /\ Ids(t) = 0 .. j
  BY ChainFacts
<1>2. {g \in Ids(s) : g < k + 1 /\ s.files[g].type = "genesis"}
        = {g \in 0 .. d : s.files[g].type = "genesis"}
  <2>1. \A g \in 0 .. k : g < k + 1 /\ (g \in 0 .. d \/ g \in d + 1 .. k)
    OBVIOUS
  <2>2. \A g \in 0 .. d : g \in 0 .. k
    OBVIOUS
  <2> QED
    BY <1>1, <2>1, <2>2
<1>3. {g \in Ids(t) : g < j + 1 /\ t.files[g].type = "genesis"}
        = {g \in 0 .. d : s.files[g].type = "genesis"}
  <2>1. \A g \in 0 .. j : g < j + 1 /\ (g \in 0 .. d \/ g \in d + 1 .. j)
    OBVIOUS
  <2>2. \A g \in 0 .. d : g \in 0 .. j
    OBVIOUS
  <2> QED
    BY <1>1, <2>1, <2>2
<1>4. Below(t, j + 1) = Below(s, k + 1)
  BY <1>2, <1>3, Zenon DEF Below
<1>5. Below(s, k + 1) \in Ids(s) /\ s.files[Below(s, k + 1)].type = "genesis"
  BY ChainFacts, BelowFacts
<1>6. Below(s, k + 1) \in 0 .. d \/ Below(s, k + 1) \in d + 1 .. k
  BY <1>1, <1>5
<1> QED
  BY <1>4, <1>5, <1>6

\* addBlock with the block that comes next counts it, and starts to count again
\* with each genesis block.
LEMMA FollowingTimely ==
  ASSUME NEW n, IsNode(n), Up(n), NEW k \in Nat, ChainOf(n.store, k), Covered(n.store, k),
         NEW b, BlockOK(b), b.type \in {"dummy", "data"}, b.signers = {Me},
         b.type = "data" => b.txs # <<>>,
         Follows(n.store, k, b),
         Timely(n.store, n.blocksFromLastGenesis), Up(AddBlock(n, b))
  PROVE  LET r == AddBlock(n, b) IN Timely(r.store, r.blocksFromLastGenesis)
<1> DEFINE s == n.store
           r == AddBlock(n, b)
           c == n.blocksFromLastGenesis
<1>1. PICK q :
        /\ r = CountBlock(q)
        /\ IsNode(q) /\ Up(q) /\ ChainOf(q.store, k + 1) /\ Covered(q.store, k + 1)
        /\ q.store.files[k + 1] = b
        /\ \A i \in 0 .. k : q.store.files[i] = s.files[i]
        /\ q.blocksFromLastGenesis = c
        /\ Excess(q.store) = Excess(s)
  BY FollowingStored
<1> DEFINE t == q.store
<1>2. k + 1 \in Nat /\ (k + 1) + 1 = k + 2 /\ t.files[k + 1].type # "torn"
  BY <1>1
<1>3. c \in Nat /\ TimelyAt(s, k, c)
  BY DEF Timely
<1> HIDE DEF t, r
<1>4. \/ /\ r.store = t /\ r.blocksFromLastGenesis = c + 1
         /\ r.blocksFromLastGenesis = GenesisEvery => t.records = 0
      \/ /\ \E m : /\ m.store = t /\ r.store = Insert(t, k + 2, NewGenesis(m))
         /\ r.blocksFromLastGenesis = 0
  <2>1. ChainOf(t, k + 1) /\ Covered(t, k + 1) /\ t.files[k + 1].type # "torn"
    BY <1>1, <1>2 DEF t
  <2>2. Up(r)
    BY DEF r
  <2> QED
    BY <1>1, <1>2, <2>1, <2>2, CountBlockFacts DEF t
<1>5. CASE /\ r.store = t /\ r.blocksFromLastGenesis = c + 1
           /\ r.blocksFromLastGenesis = GenesisEvery => t.records = 0
  <2>1. ChainOf(t, k + 1) /\ Covered(t, k + 1) /\ Excess(t) = Excess(s)
    BY <1>1 DEF t
  <2>2. Below(t, (k + 1) + 1) = Below(s, k + 1) /\ Below(s, k + 1) \in 0 .. k
    <3>1. \A i \in k + 1 .. k : s.files[i].type # "genesis"
      OBVIOUS
    <3>2. \A i \in k + 1 .. k + 1 : t.files[i].type # "genesis"
      BY <1>1 DEF t
    <3>3. k \in 0 .. k /\ k <= k + 1 /\ \A i \in 0 .. k : t.files[i] = s.files[i]
      BY <1>1 DEF t
    <3> QED
      BY <1>2, <2>1, <3>1, <3>2, <3>3, BelowSame
  <2>3. TimelyAt(t, k + 1, c + 1)
    <3>1. SUFFICES ASSUME Excess(t) = 0
                   PROVE  /\ Covered(t, k + 1) /\ c + 1 < GenesisEvery
                          /\ (k + 1) - Below(t, (k + 1) + 1) <= c + 1
      BY DEF TimelyAt
    <3>2. c < GenesisEvery /\ k - Below(s, k + 1) <= c
      BY <1>3, <2>1, <3>1 DEF TimelyAt
    <3>3. t.records # 0
      BY <1>2, <2>1, <3>1, ExcessOfChain
    <3>4. GenesisEvery \in Nat
      BY ChainAssumption
    <3> QED
      BY <1>3, <1>5, <2>1, <2>2, <3>2, <3>3, <3>4
  <2> QED
    BY <1>2, <1>3, <1>5, <2>1, <2>3, TimelyIs DEF r
<1>6. CASE /\ \E m : /\ m.store = t /\ r.store = Insert(t, k + 2, NewGenesis(m))
           /\ r.blocksFromLastGenesis = 0
  <2>1. PICK m : m.store = t /\ r.store = Insert(t, k + 2, NewGenesis(m))
    BY <1>6
  <2> DEFINE g == NewGenesis(m)
             u == r.store
  <2>2. ChainOf(t, k + 1) /\ Covered(t, k + 1) /\ t.files[k + 1].type # "torn"
    BY <1>1, <1>2 DEF t
  <2>3. /\ BlockOK(g) /\ g.type = "genesis" /\ g.prev = t.files[k + 1].hash
        /\ g.prevGen = t.files[Below(t, (k + 1) + 1)].hash
    BY <1>2, <2>1, <2>2, NewGenesisFacts
  <2> HIDE DEF g
  <2>4. u = Insert(t, (k + 1) + 1, g)
    BY <1>2, <2>1 DEF g
  <2> HIDE DEF u
  <2>5. /\ ChainOf(u, (k + 1) + 1) /\ Covered(u, (k + 1) + 1)
        /\ u.files[(k + 1) + 1] = g
    BY <1>2, <2>2, <2>3, <2>4, InsertNext
  <2>6. Below(u, (k + 2) + 1) = k + 2
    <3>1. /\ Ids(u) = 0 .. k + 2 /\ Ids(u) \subseteq Nat /\ 0 \in Ids(u)
          /\ u.files[0].type = "genesis"
      BY <1>2, <2>5, ChainFacts
    <3>2. k + 2 \in Ids(u) /\ k + 2 < (k + 2) + 1 /\ u.files[k + 2].type = "genesis"
          /\ (k + 2) + 1 \in Nat /\ (k + 2) + 1 # 0
      BY <1>2, <2>3, <2>5, <3>1
    <3>3. k + 2 <= Below(u, (k + 2) + 1) /\ Below(u, (k + 2) + 1) \in Ids(u)
      BY <3>1, <3>2, BelowFacts
    <3> QED
      BY <3>1, <3>3
  <2>7. TimelyAt(u, k + 2, 0)
    BY <1>2, <2>5, <2>6, ChainAssumption DEF TimelyAt
  <2>8. ChainOf(u, k + 2) /\ k + 2 \in Nat /\ 0 \in Nat
    BY <1>2, <2>5
  <2>9. Timely(u, 0)
    BY <2>7, <2>8, TimelyIs
  <2> QED
    BY <1>6, <2>9 DEF r, u
<1> QED
  BY <1>4, <1>5, <1>6

\* So does addBlock with any block makeBlock builds.
LEMMA AddBlockTimely ==
  ASSUME NEW n, IsNode(n), Up(n), NEW k \in Nat, ChainOf(n.store, k),
         NEW b, BlockOK(b), b.type \in {"dummy", "data"}, b.signers = {Me},
         (Follows(n.store, k, b) /\ Covered(n.store, k)) \/ Harmless(n.store, b),
         Timely(n.store, n.blocksFromLastGenesis), Up(AddBlock(n, b))
  PROVE  LET r == AddBlock(n, b) IN Timely(r.store, r.blocksFromLastGenesis)
<1> DEFINE s == n.store
           r == AddBlock(n, b)
           c == n.blocksFromLastGenesis
<1>1. CASE Follows(s, k, b) /\ Covered(s, k)
  <2>1. b.type = "data" => b.txs # <<>>
    BY DEF BlockOK
  <2> QED
    BY <1>1, <2>1, FollowingTimely
<1>2. CASE Harmless(s, b)
  <2>1. SameFiles(s, r.store) /\ r.blocksFromLastGenesis = c /\ Excess(r.store) = Excess(s)
    BY <1>2, TakenBlock
  <2> DEFINE t == r.store
  <2> HIDE DEF r
  <2>2. ChainOf(t, k) /\ (Covered(s, k) => Covered(t, k))
    BY <2>1, SameChain
  <2>3. Below(t, k + 1) = Below(s, k + 1)
    <3>1. Ids(t) = Ids(s) /\ \A i \in Ids(s) : t.files[i] = s.files[i]
      BY <2>1 DEF SameFiles
    <3>2. {g \in Ids(s) : g < k + 1 /\ s.files[g].type = "genesis"}
            = {g \in Ids(t) : g < k + 1 /\ t.files[g].type = "genesis"}
      BY <3>1
    <3> QED
      BY <3>2, Zenon DEF Below
  <2>4. c \in Nat /\ TimelyAt(s, k, c)
    BY DEF Timely
  <2>5. TimelyAt(t, k, c)
    BY <2>1, <2>2, <2>3, <2>4 DEF TimelyAt
  <2> QED
    BY <2>1, <2>2, <2>4, <2>5, TimelyIs DEF r
<1> QED
  BY <1>1, <1>2

\* removeDummyBlocks removes no genesis block.
LEMMA BareTimely ==
  ASSUME NEW s, NEW k \in Nat, ChainOf(s, k), Covered(s, k) \/ Stuck(s), NEW c, Timely(s, c)
  PROVE  Timely(RemoveDummyBlocks(s), c)
<1> DEFINE t == RemoveDummyBlocks(s)
<1>1. PICK d \in 0 .. k :
        /\ ChainOf(t, d)
        /\ \A i \in 0 .. d : t.files[i] = s.files[i]
        /\ \A i \in d + 1 .. k : s.files[i].type = "dummy"
        /\ Covered(s, k) => Covered(t, d)
  BY BareFacts
<1>2. Excess(t) = Excess(s)
  <2>1. PICK b \in Nat : StoreTypeOK(s, b)
    BY DEF ChainOf, Typed
  <2>2. s.firstSavedId = 0
    BY DEF Covered, Stuck
  <2> QED
    BY <2>1, <2>2, RemoveDummyBlocksCounts
<1> HIDE DEF t
<1>3. Below(t, d + 1) = Below(s, k + 1) /\ Below(s, k + 1) \in 0 .. d
  <2>1. d \in Nat /\ d <= d /\ \A i \in d + 1 .. d : t.files[i].type # "genesis"
    OBVIOUS
  <2>2. \A i \in d + 1 .. k : s.files[i].type # "genesis"
    BY <1>1
  <2> QED
    BY <1>1, <2>1, <2>2, BelowSame
<1>4. c \in Nat /\ TimelyAt(s, k, c)
  BY DEF Timely
<1>5. TimelyAt(t, d, c)
  <2>1. SUFFICES ASSUME Excess(t) = 0
                 PROVE  Covered(t, d) /\ c < GenesisEvery /\ d - Below(t, d + 1) <= c
    BY DEF TimelyAt
  <2>2. Covered(s, k) /\ c < GenesisEvery /\ k - Below(s, k + 1) <= c
    BY <1>2, <1>4, <2>1 DEF TimelyAt
  <2> QED
    BY <1>1, <1>3, <1>4, <2>2
<1>6. d \in Nat
  OBVIOUS
<1> QED
  BY <1>1, <1>4, <1>5, <1>6, TimelyIs DEF t

LEMMA BecomeTimely ==
  ASSUME NEW r, MadeBlock(r), Up(r) \/ Down(r),
         Up(r) => Timely(r.store, r.blocksFromLastGenesis)
  PROVE  TimeInv'
<1>1. CASE Up(r)
  <2>1. store' = r.store /\ running' = TRUE /\ blocksFromLastGenesis' = r.blocksFromLastGenesis
    BY <1>1, Zenon DEF MadeBlock, Become, Up
  <2> QED
    BY <1>1, <2>1 DEF TimeInv
<1>2. CASE Down(r)
  <2>1. running' = FALSE /\ blocksFromLastGenesis' = 0
    BY <1>2, Zenon DEF MadeBlock, Become, Down
  <2> QED
    BY <2>1 DEF TimeInv
<1> QED
  BY <1>1, <1>2

LEMMA MakeDummyBlockTimely ==
  ASSUME ChainInv, TimeInv, MakeDummyBlock
  PROVE  TimeInv'
<1> DEFINE b == DummyBlock(store)
           r == AddBlock(Node, b)
<1>1. MadeBlock(r)
  BY DEF MakeDummyBlock
<1>2. running = TRUE
  BY <1>1, MadeBlockFacts DEF ChainInv
<1>3. /\ IsNode(Node) /\ Node.store = store /\ Up(Node)
      /\ Node.blocksFromLastGenesis = blocksFromLastGenesis
  BY <1>2, NodeFacts, Zenon DEF Up
<1>4. PICK k \in Nat : ChainOf(store, k) /\ (Covered(store, k) \/ Stuck(store))
  BY <1>2 DEF ChainInv, Usable
<1>5. /\ BlockOK(b) /\ b.type \in {"dummy", "data"} /\ b.signers = {Me}
      /\ (Follows(store, k, b) /\ Covered(store, k)) \/ Harmless(store, b)
  BY <1>4, DummyBlockFacts
<1> HIDE DEF b
<1>6. Timely(store, blocksFromLastGenesis)
  BY <1>2 DEF TimeInv
<1>7. Up(r) => Timely(r.store, r.blocksFromLastGenesis)
  BY <1>3, <1>4, <1>5, <1>6, AddBlockTimely
<1>8. Up(r) \/ Down(r)
  BY <1>3, <1>4, <1>5, AddBlockFacts
<1> HIDE DEF r
<1> QED
  BY <1>1, <1>7, <1>8, BecomeTimely

LEMMA PackPendingTxsTimely ==
  ASSUME ChainInv, TimeInv, PackPendingTxs
  PROVE  TimeInv'
<1> DEFINE s == RemoveDummyBlocks(store)
           bare == [Node EXCEPT !.store = s]
           b == DataBlock(bare.store)
           r == AddBlock(bare, b)
<1>1. MadeBlock(r) /\ pendingTxs # <<>>
  <2>1. Node.store = store
    BY NodeFacts
  <2>2. [Node EXCEPT !.store = RemoveDummyBlocks(@)] = bare
    BY <2>1
  <2> HIDE DEF bare
  <2> QED
    BY <2>2, Zenon DEF PackPendingTxs
<1>2. running = TRUE
  BY <1>1, MadeBlockFacts DEF ChainInv
<1>3. /\ IsNode(bare) /\ bare.store = s /\ Up(bare)
      /\ bare.blocksFromLastGenesis = blocksFromLastGenesis
  <2>1. IsNode(Node) /\ Node.up = TRUE /\ Node.blocksFromLastGenesis = blocksFromLastGenesis
    BY <1>2, NodeFacts, Zenon
  <2>2. IsNode(bare) /\ bare.store = s /\ bare.up = Node.up
    BY <2>1, WithStore, Zenon
  <2>3. bare.blocksFromLastGenesis = Node.blocksFromLastGenesis
    BY <2>1, WithStore, Zenon
  <2> HIDE DEF bare
  <2> QED
    BY <2>1, <2>2, <2>3, Zenon DEF Up
<1>4. PICK k \in Nat : ChainOf(store, k) /\ (Covered(store, k) \/ Stuck(store))
  BY <1>2 DEF ChainInv, Usable
<1>5. PICK d \in 0 .. k :
        /\ ChainOf(s, d)
        /\ (Covered(s, d) /\ s.files[d].type # "dummy") \/ Stuck(s)
  BY <1>4, BareFacts
<1>6. Timely(s, blocksFromLastGenesis)
  <2>1. Timely(store, blocksFromLastGenesis)
    BY <1>2 DEF TimeInv
  <2> QED
    BY <1>4, <2>1, BareTimely
<1> HIDE DEF s
<1>7. /\ BlockOK(b) /\ b.type \in {"dummy", "data"} /\ b.signers = {Me}
      /\ (Follows(s, d, b) /\ Covered(s, d)) \/ Harmless(s, b)
  BY <1>1, <1>3, <1>5, DataBlockFacts
<1> HIDE DEF b, bare
<1>8. Up(r) => Timely(r.store, r.blocksFromLastGenesis)
  BY <1>3, <1>5, <1>6, <1>7, AddBlockTimely
<1>9. Up(r) \/ Down(r)
  <2>1. Covered(s, d) \/ Stuck(s)
    BY <1>5
  <2> QED
    BY <1>3, <1>5, <1>7, <2>1, AddBlockFacts
<1> HIDE DEF r
<1> QED
  BY <1>1, <1>8, <1>9, BecomeTimely

LEMMA StartTimely ==
  ASSUME ChainInv, TimeInv, Start, Counted(store') => Ids(store') = {0}
  PROVE  TimeInv'
<1>1. /\ store' = Reload(store) /\ running' = TRUE
      /\ blocksFromLastGenesis' = 0
  BY DEF Start, TimeInv
<1>2. PICK k \in Nat : ChainOf(store, k)
  BY DEF ChainInv
<1> DEFINE t == Reload(store)
<1>3. ChainOf(t, k) /\ (Covered(t, k) \/ Stuck(t))
  BY <1>2, ReloadedChain
<1> HIDE DEF t
<1>4. TimelyAt(t, k, 0)
  <2>1. SUFFICES ASSUME Excess(t) = 0
                 PROVE  Covered(t, k) /\ 0 < GenesisEvery /\ k - Below(t, k + 1) <= 0
    BY DEF TimelyAt
  <2>2. Counted(t)
    BY <1>3, <2>1, ExcessOfChain DEF Counted
  <2>3. k = 0
    <3>1. 0 .. k = {0}
      BY <1>1, <1>3, <2>2, ChainFacts DEF t
    <3> QED
      BY <3>1
  <2>4. Below(t, 1) = 0
    <3>1. Ids(t) = 0 .. k /\ Ids(t) \subseteq Nat /\ 0 \in Ids(t) /\ t.files[0].type = "genesis"
      BY <1>3, ChainFacts
    <3>2. Below(t, 1) \in Ids(t)
      BY <3>1, BelowFacts
    <3> QED
      BY <2>3, <3>1, <3>2
  <2> QED
    BY <1>3, <2>3, <2>4, ChainAssumption DEF Covered, Stuck
<1>5. Timely(t, 0)
  BY <1>3, <1>4, TimelyIs
<1> QED
  BY <1>1, <1>5 DEF TimeInv, t

LEMMA SameTimely ==
  ASSUME ChainInv, TimeInv,
         \/ running' = FALSE /\ blocksFromLastGenesis' = 0
         \/ /\ store' = store /\ running' = running
            /\ blocksFromLastGenesis' = blocksFromLastGenesis
  PROVE  TimeInv'
<1>1. CASE running' = FALSE /\ blocksFromLastGenesis' = 0
  BY <1>1 DEF TimeInv
<1>2. CASE /\ store' = store /\ running' = running
           /\ blocksFromLastGenesis' = blocksFromLastGenesis
  <2>1. CASE running
    BY <1>2, <2>1, Zenon DEF TimeInv
  <2>2. CASE ~running
    BY <1>2, <2>2, Zenon DEF TimeInv
  <2> QED
    BY <2>1, <2>2
<1> QED
  BY <1>1, <1>2

LEMMA TimeStep ==
  ASSUME ChainInv, TimeInv, [Next]_vars,
         [Start => (Counted(store') => Ids(store') = {0})]_vars
  PROVE  TimeInv'
<1> DEFINE Still == \/ running' = FALSE /\ blocksFromLastGenesis' = 0
                    \/ /\ store' = store /\ running' = running
                       /\ blocksFromLastGenesis' = blocksFromLastGenesis
<1>1. CASE MakeDummyBlock
  BY <1>1, MakeDummyBlockTimely
<1>2. CASE PackPendingTxs
  BY <1>2, PackPendingTxsTimely
<1>3. CASE ProveTransactions
  <2>1. AbortProcess => Still
    BY AbortProcessFacts
  <2>2. UNCHANGED <<store, ec, blocksFromLastGenesis, running>> => Still
    OBVIOUS
  <2> HIDE DEF Still
  <2>3. Still
    BY <1>3, <2>1, <2>2, Zenon DEF ProveTransactions
  <2> QED
    BY <2>3, SameTimely DEF Still
<1>4. ASSUME NEW tx, AddVerifiedTx(tx) \/ AddTransaction(tx) \/ CreateTransaction(tx)
      PROVE  TimeInv'
  <2>1. Still
    BY <1>4, AbortProcessFacts DEF AddVerifiedTx, AddTransaction, CreateTransaction
  <2> QED
    BY <2>1, SameTimely
<1>5. CASE Stop
  BY <1>5, AbortProcessFacts, SameTimely DEF Stop
<1>6. CASE Start
  <2>1. CASE UNCHANGED vars
    BY <2>1, SameTimely DEF vars
  <2>2. CASE ~UNCHANGED vars
    <3>1. Counted(store') => Ids(store') = {0}
      BY <1>6, <2>2
    <3> QED
      BY <1>6, <3>1, StartTimely
  <2> QED
    BY <2>1, <2>2
<1>7. CASE UNCHANGED vars
  BY <1>7, SameTimely DEF vars
<1> QED
  BY <1>1, <1>2, <1>3, <1>4, <1>5, <1>6, <1>7 DEF Next, MakeBlock

LEMMA InitTimely == Init => TimeInv
<1> SUFFICES ASSUME Init
             PROVE  TimeInv
  OBVIOUS
<1>1. running = TRUE /\ blocksFromLastGenesis = 0 /\ store = Insert(EmptyStore, 0, Genesis0)
  BY DEF Init
<1>2. PICK k \in Nat : ChainOf(store, k)
  BY InitChain DEF ChainInv
<1>3. Ids(store) = {0} /\ store.firstSavedId = 0 /\ store.lastSavedId = 0
  BY <1>1 DEF Insert, EmptyStore, Ids
<1>4. k = 0
  <2>1. 0 .. k = {0}
    BY <1>2, <1>3, ChainFacts
  <2> QED
    BY <2>1
<1>5. Below(store, 1) = 0
  <2>1. Below(store, 1) \in Ids(store)
    BY <1>2, ChainFacts, BelowFacts
  <2> QED
    BY <1>3, <2>1
<1>6. TimelyAt(store, 0, 0)
  BY <1>3, <1>5, ChainAssumption DEF TimelyAt, Covered
<1> QED
  BY <1>1, <1>2, <1>4, <1>6, TimelyIs DEF TimeInv

LEMMA TimeIsRight ==
  ASSUME ChainInv, TimeInv
  PROVE  GenesisOnTime
<1> SUFFICES ASSUME running, store.records = Cardinality(Ids(store))
             PROVE  /\ blocksFromLastGenesis < GenesisEvery
                    /\ Max(Ids(store)) - Top(GenesisIds) <= blocksFromLastGenesis
  BY DEF GenesisOnTime
<1>1. PICK k \in Nat : ChainOf(store, k)
  BY DEF ChainInv
<1>2. Excess(store) = 0
  BY <1>1, ExcessOfChain
<1>3. blocksFromLastGenesis < GenesisEvery /\ k - Below(store, k + 1) <= blocksFromLastGenesis
  BY <1>1, <1>2 DEF TimeInv, Timely, TimelyAt
<1>4. Ids(store) = 0 .. k
  BY <1>1, ChainFacts
<1>5. Max(Ids(store)) = k
  <2>1. (0 .. k) \in SUBSET Nat /\ k \in 0 .. k /\ \A i \in 0 .. k : i <= k
    OBVIOUS
  <2>2. Top(0 .. k) = k /\ 0 .. k # {}
    BY <2>1, TopFacts
  <2> QED
    BY <1>4, <2>2 DEF Top
<1>6. Top(GenesisIds) = Below(store, k + 1)
  <2>1. GenesisIds = {g \in Ids(store) : g < k + 1 /\ store.files[g].type = "genesis"}
    BY <1>4 DEF GenesisIds
  <2> QED
    BY <2>1, Zenon DEF Below
<1> QED
  BY <1>3, <1>5, <1>6

\* A chain within one section is miscounted by a restart unless it is block 0.
LEMMA OneSectionMiscounts ==
  ASSUME ChainInv, Start, store.sections \subseteq {0}
  PROVE  Counted(store') => Ids(store') = {0}
<1>1. PICK k \in Nat : ChainOf(store, k)
  BY DEF ChainInv
<1>2. store' = Reload(store)
  BY DEF Start
<1>3. ChainOf(store', k)
  BY <1>1, <1>2, ReloadedChain
<1>4. store.sections = {0}
  <2>1. Section(0) \in store.sections
    BY <1>1, ChainFacts DEF ChainOf, FilesInSections
  <2> QED
    BY <2>1
<1>5. store'.records = 1
  <2>1. Cardinality({0}) = 1
    BY FS_Singleton
  <2>2. store = [files |-> store.files, sections |-> store.sections, records |-> store.records,
                 firstSavedId |-> store.firstSavedId, lastSavedId |-> store.lastSavedId]
    BY <1>1 DEF ChainOf, Typed, StoreTypeOK
  <2> DEFINE c == Cardinality(store.sections) * Cardinality(store.sections)
             f == LoadFirstId(store)
             l == LoadLastId(store)
  <2>3. store' = [store EXCEPT !.records = c, !.firstSavedId = f, !.lastSavedId = l]
    BY <1>2 DEF Reload
  <2> HIDE DEF c, f, l
  <2>4. store'.records = c
    BY <2>2, <2>3
  <2> QED
    BY <1>4, <2>1, <2>4 DEF c
<1>6. Counted(store') => k = 0
  BY <1>3, <1>5, ExcessOfChain DEF Counted
<1> QED
  BY <1>3, <1>6, ChainFacts

-----------------------------------------------------------------------------
(* Theorems *)

LEMMA ChainInvHolds == Spec => []ChainInv
<1>1. Init => ChainInv
  BY InitChain
<1>2. ChainInv /\ [Next]_vars => ChainInv'
  BY NextKeeps
<1> QED
  BY <1>1, <1>2, PTL DEF Spec

LEMMA CrashChainInvHolds == CrashSpec => []ChainInv
<1>1. CrashInit => ChainInv
  BY InitChain DEF CrashInit
<1>2. ChainInv /\ [CrashNext]_crashVars => ChainInv'
  BY CrashNextKeeps
<1> QED
  BY <1>1, <1>2, PTL DEF CrashSpec

\* Whatever the timers, the transactions and the restarts do, and wherever a kill
\* hits makeBlock, the files on the disk are a chain.
THEOREM ChainIsLinked == CrashSpec => []ChainLinked
<1>1. ChainInv => ChainLinked
  BY ChainInvLinks
<1> QED
  BY <1>1, CrashChainInvHolds, PTL

\* No handler, kill or restart drops or changes a data or genesis block.
THEOREM RealBlocksStay == CrashSpec => RealBlocksKept
<1>1. ChainInv /\ [CrashNext]_crashVars =>
        [\A i \in Ids(store) : store.files[i].type \in {"data", "genesis"} =>
           i \in Ids(store') /\ store'.files[i] = store.files[i]]_vars
  BY CrashNextKeeps DEF Keeps
<1> QED
  BY <1>1, CrashChainInvHolds, PTL DEF CrashSpec, RealBlocksKept

\* makeBlock ends the process only when there is a data block with transactions
\* on the disk, of which none can be read back.
THEOREM OnlyReadingBackAborts == Spec => MakeBlockAborts
<1>1. ChainInv /\ [Next]_vars =>
        [MakeBlock /\ ~running' => \E i \in Ids(store') : ~CanExtract(store'.files[i])]_vars
  BY MakeBlockStep
<1> QED
  BY <1>1, ChainInvHolds, PTL DEF Spec, MakeBlockAborts

\* addBlock makes a genesis block before its counter reaches
\* CONSTRUCT_GENESIS_EVERY_BLOCKS, and never leaves more blocks above the last one
\* than it has counted, while records is right, for a node no restart of which gets
\* records right by chance.
THEOREM GenesisInTime == Spec /\ StartsMiscounted => []GenesisOnTime
<1> DEFINE Inv == ChainInv /\ TimeInv
           Miscounted == [Start => (Counted(store') => Ids(store') = {0})]_vars
<1>1. Init => Inv
  BY InitChain, InitTimely
<1>2. Inv /\ [Next]_vars /\ Miscounted => Inv'
  BY NextKeeps, TimeStep
<1>3. Inv => GenesisOnTime
  BY TimeIsRight
<1> HIDE DEF Inv
<1> QED
  BY <1>1, <1>2, <1>3, PTL DEF Spec, StartsMiscounted

\* In particular, so does addBlock on a chain that has not left its first section.
THEOREM GenesisInFirstSection ==
  Spec /\ [](store.sections \subseteq {0}) => []GenesisOnTime
<1> DEFINE Low == store.sections \subseteq {0}
<1>1. ChainInv /\ Low /\ [Next]_vars => [Start => (Counted(store') => Ids(store') = {0})]_vars
  BY OneSectionMiscounts
<1> HIDE DEF Low
<1>2. Spec /\ []Low => StartsMiscounted
  BY <1>1, ChainInvHolds, PTL DEF Spec, StartsMiscounted
<1>3. Spec /\ []Low => []GenesisOnTime
  BY <1>2, GenesisInTime, PTL
<1> QED
  BY <1>3 DEF Low

LEMMA StartIsAStep ==
  ASSUME [Start => ~TopSectionEmpty(store)]_vars
  PROVE  ~(Start /\ TopSectionEmpty(store))
<1> SUFFICES ASSUME Start, TopSectionEmpty(store)
             PROVE  FALSE
  OBVIOUS
<1>1. UNCHANGED vars
  OBVIOUS
<1> QED
  BY <1>1 DEF vars, Start

LEMMA WholeHolds == CrashSpec /\ StartsOnFiles => [](ChainInv /\ WholeInv /\ ListsOK)
<1> DEFINE Inv == ChainInv /\ WholeInv /\ ListsOK
           OnFiles == [Start => ~TopSectionEmpty(store)]_vars
<1>1. CrashInit => Inv
  BY InitChain, InitToLedger DEF CrashInit
<1>2. Inv /\ [CrashNext]_crashVars /\ OnFiles => Inv'
  <2> SUFFICES ASSUME Inv, [CrashNext]_crashVars, OnFiles
               PROVE  Inv'
    OBVIOUS
  <2>1. ~(Start /\ TopSectionEmpty(store))
    BY StartIsAStep
  <2> QED
    BY <2>1, CrashNextKeeps, ListsStep DEF CrashNext, crashVars
<1> HIDE DEF Inv
<1>3. CrashSpec /\ StartsOnFiles => []Inv
  BY <1>1, <1>2, PTL DEF CrashSpec, StartsOnFiles
<1> QED
  BY <1>3, PTL DEF Inv

\* The index makeBlock takes for the next block is free, unless a file cannot be
\* read, wherever the kills hit, for a node that never restarts on an empty
\* highest directory.
THEOREM TakenIsTorn == CrashSpec /\ StartsOnFiles => []TakenOnlyIfTorn
<1>1. ChainInv /\ WholeInv => TakenOnlyIfTorn
  BY WholeFree
<1> QED
  BY <1>1, WholeHolds, PTL

\* A transaction leaves pendingTxs into a block, or with the process, or because
\* of an unreadable file, for a node that never restarts on an empty highest
\* directory.
THEOREM PendingIsPacked == CrashSpec /\ StartsOnFiles => PendingTxIsPacked
<1>1. ChainInv /\ WholeInv /\ ListsOK /\ [CrashNext]_crashVars =>
        [\A tx \in Range(pendingTxs) :
           \/ tx \in Range(pendingTxs') \/ InBlock(store', tx)
           \/ ~running' \/ TornIds # {}]_vars
  BY PackedStep
<1> QED
  BY <1>1, WholeHolds, PTL DEF CrashSpec, PendingTxIsPacked

LEMMA WholeSpec == Spec /\ StartsOnFiles => [](ChainInv /\ WholeInv /\ ListsOK /\ TornIds = {})
<1> DEFINE Inv == ChainInv /\ WholeInv /\ ListsOK /\ TornIds = {}
           OnFiles == [Start => ~TopSectionEmpty(store)]_vars
<1>1. Init => Inv
  BY InitChain, InitToLedger
<1>2. Inv /\ [Next]_vars /\ OnFiles => Inv'
  <2> SUFFICES ASSUME Inv, [Next]_vars, OnFiles
               PROVE  Inv'
    OBVIOUS
  <2>1. ~(Start /\ TopSectionEmpty(store))
    BY StartIsAStep
  <2>2. ListsOK'
    BY ListsStep
  <2> QED
    BY <2>1, <2>2, NextKeeps, ToLedger
<1> HIDE DEF Inv
<1>3. Spec /\ StartsOnFiles => []Inv
  BY <1>1, <1>2, PTL DEF Spec, StartsOnFiles
<1> QED
  BY <1>3, PTL DEF Inv

\* The chain is a log that only grows: as long as handlers run to their end and no
\* restart finds the highest directory empty, each step of the node is a step of
\* Ledger or none.  (That what waits is committed at last is left to TLC.)
THEOREM ImplementsLedger == Spec /\ StartsOnFiles => L!Init /\ [][L!Next]_(L!vars)
<1>1. Init => L!Init
  BY InitToLedger
<1>2. ChainInv /\ WholeInv /\ ListsOK /\ TornIds = {} /\ [Next]_vars => [L!Next]_(L!vars)
  BY ToLedger
<1> QED
  BY <1>1, <1>2, WholeSpec, PTL DEF Spec

LEMMA PeerBaseHolds == PeerSpec => [](PeerBase /\ ListsOK)
<1>1. Init => PeerBase /\ ListsOK
  BY InitBased, InitToLedger
<1>2. PeerBase /\ ListsOK /\ [PeerNext]_vars => (PeerBase /\ ListsOK)'
  BY PeerStep, PeerListsStep
<1> QED
  BY <1>1, <1>2, PTL DEF PeerSpec

\* Whatever blocks a peer sends, in whatever order, the node keeps the block it
\* starts from.
THEOREM BlockZeroStays == PeerSpec => []BlockZeroKept
<1>1. PeerBase => BlockZeroKept
  BY DEF PeerBase, Based, BlockZeroKept
<1> QED
  BY <1>1, PeerBaseHolds, PTL

\* A received block that makes the node drop or replace a genesis block or a data
\* block with transactions ends the process in the same handler.
THEOREM LossIsFatal == PeerSpec => LossAborts
<1>1. PeerBase /\ ListsOK /\ [PeerNext]_vars =>
        [\A i \in Ids(store) : Substantial(store.files[i]) =>
           \/ i \in Ids(store') /\ Content(store'.files[i]) = Content(store.files[i])
           \/ ~running']_vars
  BY PeerStep DEF Holds
<1> QED
  BY <1>1, PeerBaseHolds, PTL DEF PeerSpec, LossAborts

\* The counters of the index cover the files while the process is up, also when
\* the blocks are those of a peer, for a node that never restarts on an empty
\* highest directory.
THEOREM PeerBlocksCovered == PeerSpec /\ StartsOnFiles => []StoredWithinRange
<1> DEFINE Inv == PeerBase /\ ListsOK /\ StoredWithinRange
           OnFiles == [Start => ~TopSectionEmpty(store)]_vars
<1>1. Init => Inv
  BY InitBased, InitToLedger
<1>2. Inv /\ [PeerNext]_vars /\ OnFiles => Inv'
  BY StartIsAStep, PeerStep, PeerListsStep
<1> HIDE DEF Inv
<1>3. PeerSpec /\ StartsOnFiles => []Inv
  BY <1>1, <1>2, PTL DEF PeerSpec, StartsOnFiles
<1> QED
  BY <1>3, PTL DEF Inv

\* cacheEC makes no coin and loses none: whatever blocks are stored, merged,
\* replaced or dropped, what its accounts own adds up to zero.
THEOREM CoinsStay == PeerSpec => []CoinsConserved
<1>1. PeerBase => CoinsConserved
  BY DEF PeerBase, Conserving, CoinsConserved
<1> QED
  BY <1>1, PeerBaseHolds, PTL

LEMMA PeerTypesHold ==
  ASSUME PeerBase, ListsOK
  PROVE  TypeOK
<1>1. PICK c \in Nat : StoreTypeOK(store, c)
  BY DEF PeerBase, Based, Typed
<1>2. Ids(store) \subseteq Nat /\ store.records \in Int
  BY <1>1 DEF StoreTypeOK
<1>3. store.sections \subseteq Nat
  <2>1. \A i \in 0 .. c : Section(i) \in Nat
    BY SectionSizeAssumption DEF Section
  <2>2. store.sections \subseteq {Section(i) : i \in 0 .. c}
    BY <1>1 DEF StoreTypeOK
  <2> QED
    BY <2>1, <2>2
<1>4. store.firstSavedId \in Nat /\ store.lastSavedId \in Int
  BY DEF PeerBase, Based
<1>5. \A i \in Ids(store) : store.files[i] \in StoredBlocks
  BY DEF PeerBase, Based, IsBlock
<1>6. ec \in [Accounts -> Int] /\ blocksFromLastGenesis \in Nat /\ running \in BOOLEAN
  BY DEF PeerBase, Conserving
<1> QED
  BY <1>2, <1>3, <1>4, <1>5, <1>6 DEF TypeOK, ListsOK

\* The invariant of the node that hears a peer: types, a range that covers the
\* files, block 0, balances that add up to zero; for a node that never restarts on
\* an empty highest directory.
THEOREM PeerRight == PeerSpec /\ StartsOnFiles => []PeerInv
<1>1. PeerBase /\ ListsOK => TypeOK
  BY PeerTypesHold
<1>2. TypeOK /\ StoredWithinRange /\ BlockZeroKept /\ CoinsConserved => PeerInv
  BY DEF PeerInv
<1> QED
  BY <1>1, <1>2, PeerBaseHolds, PeerBlocksCovered, BlockZeroStays, CoinsStay, PTL

-----------------------------------------------------------------------------
(* What a step does to the data and genesis blocks and to the table *)

DataOf(s) == {i \in Ids(s) : s.files[i].type = "data"}
GenesisOf(s) == {i \in Ids(s) : s.files[i].type = "genesis"}
RealOf(s) == DataOf(s) \cup GenesisOf(s)

\* t has the data and genesis blocks of s, and one more of them, with identifier
\* d above all of them.
SameReal(s, t) == \A i \in RealOf(s) : t.files[i] = s.files[i]
Alike(s, t) == DataOf(t) = DataOf(s) /\ GenesisOf(t) = GenesisOf(s) /\ SameReal(s, t)
OneMoreData(s, t, d) ==
  /\ DataOf(t) = DataOf(s) \cup {d} /\ GenesisOf(t) = GenesisOf(s) /\ SameReal(s, t)
  /\ \A i \in RealOf(s) : i < d
OneMoreGenesis(s, t, d) ==
  /\ DataOf(t) = DataOf(s) /\ GenesisOf(t) = GenesisOf(s) \cup {d} /\ SameReal(s, t)
  /\ \A i \in RealOf(s) : i < d

\* The three things that happen to blocks and table e: nothing, a data block whose
\* transactions go into the table, and a genesis block, which takes the table over
\* when nothing above the last one moves coins.
Booked(s, e, t, f, txs) ==
  \/ Alike(s, t) /\ f = e
  \/ \E d \in Nat : /\ OneMoreData(s, t, d) /\ t.files[d].txs = txs /\ txs # <<>>
                    /\ f = SaveTxInfoInEC(e, txs)
  \/ \E d \in Nat : /\ OneMoreGenesis(s, t, d) /\ t.files[d].rows = StoredRows(e)
                    /\ f = NoRows
                    /\ \A i \in DataOf(s) :
                         (\A g \in GenesisOf(s) : g < i) => s.files[i].txs = <<>>

\* So do two steps of which the first changes no real block.
LEMMA BookedMore ==
  ASSUME NEW s, NEW t, NEW u, NEW e, NEW f, NEW txs, Alike(s, t), Booked(t, e, u, f, txs)
  PROVE  Booked(s, e, u, f, txs)
<1>1. /\ DataOf(t) = DataOf(s) /\ GenesisOf(t) = GenesisOf(s) /\ RealOf(t) = RealOf(s)
      /\ \A i \in RealOf(s) : t.files[i] = s.files[i]
  BY DEF Alike, SameReal, RealOf
<1>2. SameReal(t, u) => SameReal(s, u)
  BY <1>1 DEF SameReal
<1>3. CASE Alike(t, u) /\ f = e
  BY <1>1, <1>2, <1>3 DEF Alike, Booked
<1>4. ASSUME NEW d \in Nat, OneMoreData(t, u, d)
      PROVE  OneMoreData(s, u, d)
  BY <1>1, <1>2, <1>4 DEF OneMoreData
<1>5. ASSUME NEW d \in Nat, OneMoreGenesis(t, u, d)
      PROVE  OneMoreGenesis(s, u, d)
  BY <1>1, <1>2, <1>5 DEF OneMoreGenesis
<1>6. \A i \in DataOf(s) : t.files[i].txs = s.files[i].txs
  BY <1>1 DEF RealOf
<1> QED
  BY <1>1, <1>3, <1>4, <1>5, <1>6, Zenon DEF Booked

\* addBlock with a block makeBlock built.
LEMMA AddBlockBooks ==
  ASSUME NEW n, IsNode(n), Up(n), NEW k \in Nat, ChainOf(n.store, k),
         NEW b, BlockOK(b), b.type \in {"dummy", "data"}, b.signers = {Me},
         (Follows(n.store, k, b) /\ Covered(n.store, k)) \/ Harmless(n.store, b)
  PROVE  LET r == AddBlock(n, b) IN Booked(n.store, n.ec, r.store, r.ec, b.txs)
<1> DEFINE s == n.store
           r == AddBlock(n, b)
           t == r.store
<1>0. Ids(s) = 0 .. k
  BY ChainFacts
<1>1. CASE Follows(n.store, k, b) /\ Covered(n.store, k)
  <2>1. b.type = "data" => b.txs # <<>>
    BY DEF BlockOK
  <2>2. PICK j \in {k + 1, k + 2} :
          /\ ChainOf(t, j)
          /\ \A i \in 0 .. k : t.files[i] = s.files[i]
          /\ t.files[k + 1] = b
          /\ j = k + 2 => b.type = "dummy" /\ t.files[k + 2].type = "genesis"
          /\ j = k + 1 => r.ec = IF b.type = "data" THEN SaveTxInfoInEC(n.ec, b.txs) ELSE n.ec
          /\ j = k + 2 =>
               /\ r.ec = NoRows /\ t.files[k + 2].rows = StoredRows(n.ec)
               /\ \A i \in 0 .. k : Below(s, k + 1) < i => CanExtract(s.files[i])
    <3>1. \E j \in {k + 1, k + 2} :
             /\ ChainOf(r.store, j) /\ Covered(r.store, j) /\ Keeps(n.store, r.store)
             /\ \A i \in 0 .. k : r.store.files[i] = n.store.files[i]
             /\ r.store.files[k + 1] = b
             /\ j = k + 2 => Up(r) /\ b.type = "dummy" /\ r.store.files[k + 2].type = "genesis"
             /\ Up(r) \/ (Down(r) /\ Unextractable(r.store))
             /\ j = k + 1 => r.ec = IF b.type = "data" THEN SaveTxInfoInEC(n.ec, b.txs) ELSE n.ec
             /\ j = k + 2 =>
                  /\ r.ec = NoRows /\ r.store.files[k + 2].rows = StoredRows(n.ec)
                  /\ \A i \in 0 .. k : Below(n.store, k + 1) < i => CanExtract(n.store.files[i])
      BY <1>1, <2>1, FollowingBlock
    <3> HIDE DEF r
    <3> QED
      BY <3>1
  <2> HIDE DEF r
  <2>3. Ids(t) = 0 .. j
    BY <2>2, ChainFacts
  <2>4. RealOf(s) \subseteq 0 .. k /\ SameReal(s, t)
    BY <1>0, <2>2 DEF RealOf, DataOf, GenesisOf, SameReal
  <2>5. CASE j = k + 1 /\ b.type = "dummy"
    <3>1. Ids(t) = Ids(s) \cup {k + 1} /\ t.files[k + 1].type = "dummy"
      BY <1>0, <2>2, <2>3, <2>5
    <3>2. DataOf(t) = DataOf(s) /\ GenesisOf(t) = GenesisOf(s)
      BY <1>0, <2>2, <3>1 DEF DataOf, GenesisOf
    <3>3. r.ec = n.ec
      BY <2>2, <2>5
    <3> QED
      BY <2>4, <3>2, <3>3 DEF Booked, Alike, r
  <2>6. CASE j = k + 1 /\ b.type = "data"
    <3>1. Ids(t) = Ids(s) \cup {k + 1} /\ t.files[k + 1].type = "data" /\ k + 1 \notin Ids(s)
      BY <1>0, <2>2, <2>3, <2>6
    <3>2. DataOf(t) = DataOf(s) \cup {k + 1} /\ GenesisOf(t) = GenesisOf(s)
      BY <1>0, <2>2, <3>1 DEF DataOf, GenesisOf
    <3>3. \A i \in RealOf(s) : i < k + 1
      BY <2>4
    <3>4. r.ec = SaveTxInfoInEC(n.ec, b.txs) /\ t.files[k + 1].txs = b.txs /\ b.txs # <<>>
      BY <2>1, <2>2, <2>6
    <3>5. OneMoreData(s, t, k + 1) /\ k + 1 \in Nat
      BY <2>4, <3>2, <3>3 DEF OneMoreData
    <3> QED
      BY <3>4, <3>5, Zenon DEF Booked, r
  <2>7. CASE j = k + 2
    <3>1. /\ Ids(t) = Ids(s) \cup {k + 1, k + 2} /\ t.files[k + 2].type = "genesis"
          /\ t.files[k + 1].type = "dummy"
      BY <1>0, <2>2, <2>3, <2>7
    <3>2. DataOf(t) = DataOf(s) /\ GenesisOf(t) = GenesisOf(s) \cup {k + 2}
      BY <1>0, <2>2, <3>1 DEF DataOf, GenesisOf
    <3>3. \A i \in RealOf(s) : i < k + 2
      BY <2>4
    <3>4. OneMoreGenesis(s, t, k + 2) /\ k + 2 \in Nat
      BY <2>4, <3>2, <3>3 DEF OneMoreGenesis
    <3>5. Below(s, k + 1) \in GenesisOf(s)
      <4>1. Below(s, k + 1) \in 0 .. k /\ s.files[Below(s, k + 1)].type = "genesis"
        BY ChainFacts, BelowFacts
      <4> QED
        BY <1>0, <4>1 DEF GenesisOf
    <3>6. \A i \in DataOf(s) : (\A g \in GenesisOf(s) : g < i) => s.files[i].txs = <<>>
      <4>1. \A i \in DataOf(s) : i \in 0 .. k /\ s.files[i].type = "data"
        BY <1>0 DEF DataOf
      <4> QED
        BY <2>2, <2>7, <3>5, <4>1 DEF CanExtract
    <3> QED
      BY <2>2, <2>7, <3>4, <3>6, Zenon DEF Booked, r
  <2> QED
    BY <2>5, <2>6, <2>7
<1>2. CASE Harmless(n.store, b)
  <2>1. SameFiles(s, t) /\ r.ec = n.ec
    BY <1>2, TakenBlock
  <2> HIDE DEF r
  <2>2. Alike(s, t)
    BY <2>1 DEF SameFiles, Alike, SameReal, RealOf, DataOf, GenesisOf
  <2> QED
    BY <2>1, <2>2 DEF Booked, r
<1> QED
  BY <1>1, <1>2

LEMMA NothingBooked ==
  ASSUME store' = store, ec' = ec
  PROVE  Booked(store, ec, store', ec', pendingTxs)
  BY DEF Booked, Alike, SameReal

LEMMA MakeDummyBlockBooks ==
  ASSUME ChainInv, MakeDummyBlock
  PROVE  Booked(store, ec, store', ec', pendingTxs)
<1> DEFINE b == DummyBlock(store)
           r == AddBlock(Node, b)
<1>1. MadeBlock(r) /\ pendingTxs = <<>>
  BY DEF MakeDummyBlock
<1>2. running = TRUE
  BY <1>1, MadeBlockFacts DEF ChainInv
<1>3. IsNode(Node) /\ Node.store = store /\ Node.ec = ec /\ Up(Node)
  BY <1>2, NodeFacts, Zenon DEF Up
<1>4. PICK k \in Nat : ChainOf(store, k) /\ (Covered(store, k) \/ Stuck(store))
  BY <1>2 DEF ChainInv, Usable
<1>5. /\ BlockOK(b) /\ b.type = "dummy" /\ b.signers = {Me}
      /\ (Follows(store, k, b) /\ Covered(store, k)) \/ Harmless(store, b)
  BY <1>4, DummyBlockFacts
<1>6. b.txs = pendingTxs
  BY <1>1 DEF DummyBlock, NewBlock
<1> HIDE DEF b
<1>7. Booked(store, ec, r.store, r.ec, pendingTxs)
  BY <1>3, <1>4, <1>5, <1>6, AddBlockBooks
<1>8. store' = r.store /\ ec' = r.ec
  BY <1>1, MadeBlockFacts, Zenon
<1> HIDE DEF r
<1> QED
  BY <1>7, <1>8

\* removeDummyBlocks removes no other block.
LEMMA BareAlike ==
  ASSUME NEW s, NEW k \in Nat, ChainOf(s, k), NEW t, NEW d \in 0 .. k, ChainOf(t, d),
         \A i \in 0 .. d : t.files[i] = s.files[i],
         \A i \in d + 1 .. k : s.files[i].type = "dummy"
  PROVE  Alike(s, t)
<1>1. Ids(s) = 0 .. k /\ Ids(t) = 0 .. d /\ d \in Nat
  BY ChainFacts
<1>2. \A i \in Ids(s) : i \in Ids(t) \/ s.files[i].type = "dummy"
  BY <1>1
<1>3. \A i \in Ids(t) : i \in Ids(s) /\ t.files[i] = s.files[i]
  BY <1>1
<1> QED
  BY <1>2, <1>3 DEF Alike, SameReal, RealOf, DataOf, GenesisOf

LEMMA PackPendingTxsBooks ==
  ASSUME ChainInv, PackPendingTxs
  PROVE  Booked(store, ec, store', ec', pendingTxs)
<1> DEFINE s == RemoveDummyBlocks(store)
           bare == [Node EXCEPT !.store = s]
           b == DataBlock(bare.store)
           r == AddBlock(bare, b)
<1>1. MadeBlock(r) /\ pendingTxs # <<>>
  <2>1. Node.store = store
    BY NodeFacts
  <2>2. [Node EXCEPT !.store = RemoveDummyBlocks(@)] = bare
    BY <2>1
  <2> HIDE DEF bare
  <2> QED
    BY <2>2, Zenon DEF PackPendingTxs
<1>2. running = TRUE
  BY <1>1, MadeBlockFacts DEF ChainInv
<1>3. IsNode(bare) /\ bare.store = s /\ bare.ec = ec /\ Up(bare)
  BY <1>2, NodeFacts, WithStore, Zenon DEF Up
<1>4. PICK k \in Nat : ChainOf(store, k) /\ (Covered(store, k) \/ Stuck(store))
  BY <1>2 DEF ChainInv, Usable
<1>5. PICK d \in 0 .. k :
        /\ ChainOf(s, d) /\ Alike(store, s)
        /\ (Covered(s, d) /\ s.files[d].type # "dummy") \/ Stuck(s)
  <2>1. PICK d \in 0 .. k :
          /\ ChainOf(s, d)
          /\ \A i \in 0 .. d : s.files[i] = store.files[i]
          /\ \A i \in d + 1 .. k : store.files[i].type = "dummy"
          /\ (Covered(s, d) /\ s.files[d].type # "dummy") \/ Stuck(s)
    BY <1>4, BareFacts
  <2> HIDE DEF s
  <2> QED
    BY <1>4, <2>1, BareAlike
<1> HIDE DEF s
<1>6. /\ BlockOK(b) /\ b.type = "data" /\ b.signers = {Me} /\ b.txs = pendingTxs
      /\ (Follows(s, d, b) /\ Covered(s, d)) \/ Harmless(s, b)
  BY <1>1, <1>3, <1>5, DataBlockFacts
<1> HIDE DEF b, bare
<1>7. Booked(s, ec, r.store, r.ec, pendingTxs)
  BY <1>3, <1>5, <1>6, AddBlockBooks
<1>8. store' = r.store /\ ec' = r.ec
  BY <1>1, MadeBlockFacts, Zenon
<1> HIDE DEF r
<1> QED
  BY <1>5, <1>7, <1>8, BookedMore

\* Each step of the node without kills is one of the three.
LEMMA NextBooks ==
  ASSUME ChainInv, [Next]_vars
  PROVE  Booked(store, ec, store', ec', pendingTxs)
<1>1. CASE MakeBlock
  BY <1>1, MakeDummyBlockBooks, PackPendingTxsBooks DEF MakeBlock
<1>2. CASE ProveTransactions
  BY <1>2, ProveTransactionsKeeps, NothingBooked
<1>3. ASSUME NEW tx, AddVerifiedTx(tx) \/ AddTransaction(tx) \/ CreateTransaction(tx)
      PROVE  store' = store /\ ec' = ec
  BY <1>3, AbortProcessFacts DEF AddVerifiedTx, AddTransaction, CreateTransaction
<1>4. CASE Stop
  BY <1>4, AbortProcessFacts, NothingBooked DEF Stop
<1>5. CASE Start
  <2>1. PICK k \in Nat : ChainOf(store, k)
    BY DEF ChainInv
  <2>2. store' = Reload(store) /\ ec' = ec
    BY <1>5 DEF Start
  <2>3. store'.files = store.files /\ Ids(store') = Ids(store)
    BY <2>1, <2>2, ReloadedChain
  <2> QED
    BY <2>2, <2>3 DEF Booked, Alike, SameReal, DataOf, GenesisOf
<1>6. CASE UNCHANGED vars
  BY <1>6, NothingBooked DEF vars
<1> QED
  BY <1>1, <1>2, <1>3, <1>4, <1>5, <1>6, NothingBooked DEF Next

-----------------------------------------------------------------------------
(* Balances *)

NetOf(s, a) == SumFunction([i \in DataOf(s) |-> SaveTxInfoInEC(NoRows, s.files[i].txs)[a]])

\* The inductive invariant: no genesis block stands above a data block, none has
\* rows, and the table is what the data blocks did.
TableInv ==
  /\ ec \in [Accounts -> Int]
  /\ \A i \in DataOf(store) : store.files[i].txs \in Seq(Txs) /\ store.files[i].txs # <<>>
  /\ \A g \in GenesisOf(store) : store.files[g].rows = NoRows
  /\ \A i \in DataOf(store), g \in GenesisOf(store) : g < i
  /\ \A a \in Accounts : ec[a] = NetOf(store, a)

\* What the transactions txs do to an account.
LEMMA MovesTyped ==
  ASSUME NEW txs \in Seq(Txs), NEW a \in Accounts
  PROVE  SaveTxInfoInEC(NoRows, txs)[a] \in Int
<1>1. NoRows \in [Accounts -> Int]
  BY DEF NoRows
<1>2. SaveHalves(NoRows, txs, Halves(txs)) \in [Accounts -> Int]
  BY <1>1, SaveHalvesFacts
<1> QED
  BY <1>2 DEF SaveTxInfoInEC

\* Without data blocks nothing has moved.
LEMMA NetNothing ==
  ASSUME NEW s, DataOf(s) = {}, NEW a
  PROVE  NetOf(s, a) = 0
<1> DEFINE f == [i \in DataOf(s) |-> SaveTxInfoInEC(NoRows, s.files[i].txs)[a]]
<1>1. DOMAIN f = {}
  OBVIOUS
<1> HIDE DEF f
<1>2. SumFunction(f) = 0
  BY <1>1, SumEmpty DEF SumFunction
<1> QED
  BY <1>2 DEF NetOf, f

\* The same data blocks do the same.
LEMMA NetSame ==
  ASSUME NEW s, NEW t, DataOf(t) = DataOf(s), SameReal(s, t), NEW a
  PROVE  NetOf(t, a) = NetOf(s, a)
<1>1. \A i \in DataOf(s) : t.files[i] = s.files[i]
  BY DEF SameReal, RealOf
<1> QED
  BY <1>1 DEF NetOf

\* The terms of g, and one more.
LEMMA SumGrown ==
  ASSUME NEW S, IsFiniteSet(S), NEW d, d \notin S, NEW f, NEW g,
         \A i \in S \cup {d} : f[i] \in Int, \A i \in S : g[i] = f[i]
  PROVE  SumFunctionOnSet(f, S \cup {d}) = SumFunctionOnSet(g, S) + f[d]
<1>1. SumFunctionOnSet(f, S \cup {d}) = f[d] + SumFunctionOnSet(f, S)
  BY SumAdd
<1>2. \A i \in S : f[i] \in Int
  OBVIOUS
<1>3. SumFunctionOnSet(g, S) = SumFunctionOnSet(f, S) /\ SumFunctionOnSet(f, S) \in Int
  BY <1>2, SumSame, SumFacts
<1>4. f[d] \in Int
  OBVIOUS
<1> QED
  BY <1>1, <1>3, <1>4

\* A new data block does what its transactions do.
LEMMA NetMore ==
  ASSUME NEW s, IsFiniteSet(DataOf(s)), \A i \in DataOf(s) : s.files[i].txs \in Seq(Txs),
         NEW t, NEW d, OneMoreData(s, t, d), t.files[d].txs \in Seq(Txs), d \notin DataOf(s),
         NEW a \in Accounts
  PROVE  /\ NetOf(t, a) = NetOf(s, a) + SaveTxInfoInEC(NoRows, t.files[d].txs)[a]
         /\ NetOf(s, a) \in Int
<1> DEFINE S == DataOf(s)
           f == [i \in DataOf(t) |-> SaveTxInfoInEC(NoRows, t.files[i].txs)[a]]
           g == [i \in S |-> SaveTxInfoInEC(NoRows, s.files[i].txs)[a]]
<1>1. DataOf(t) = S \cup {d} /\ \A i \in S : t.files[i] = s.files[i]
  BY DEF OneMoreData, SameReal, RealOf
<1>2. \A i \in DataOf(t) : t.files[i].txs \in Seq(Txs)
  BY <1>1
<1>3. \A i \in S \cup {d} : f[i] \in Int
  BY <1>1, <1>2, MovesTyped
<1>4. \A i \in S : g[i] = f[i]
  BY <1>1
<1>5. DOMAIN f = S \cup {d} /\ DOMAIN g = S /\ f[d] = SaveTxInfoInEC(NoRows, t.files[d].txs)[a]
  BY <1>1
<1>6. IsFiniteSet(S) /\ d \notin S
  OBVIOUS
<1> HIDE DEF f, g, S
<1>7. SumFunctionOnSet(f, S \cup {d}) = SumFunctionOnSet(g, S) + f[d]
  BY <1>3, <1>4, <1>6, SumGrown
<1>9. SumFunctionOnSet(g, S) \in Int
  <2>1. \A i \in S : g[i] \in Int
    BY <1>3, <1>4
  <2> QED
    BY <2>1, <1>6, SumFacts
<1>8. NetOf(t, a) = SumFunction(f) /\ NetOf(s, a) = SumFunction(g)
  BY DEF NetOf, f, g, S
<1> QED
  BY <1>5, <1>7, <1>8, <1>9 DEF SumFunction

\* The real blocks of a chain are finitely many, and block 0 is a genesis block.
LEMMA RealOfChain ==
  ASSUME ChainInv
  PROVE  /\ IsFiniteSet(DataOf(store)) /\ IsFiniteSet(GenesisOf(store))
         /\ DataOf(store) \subseteq Nat /\ GenesisOf(store) \subseteq Nat
         /\ 0 \in GenesisOf(store)
<1>1. PICK k \in Nat : ChainOf(store, k)
  BY DEF ChainInv
<1>2. Ids(store) = 0 .. k /\ 0 \in Ids(store) /\ store.files[0].type = "genesis"
  BY <1>1, ChainFacts
<1>3. IsFiniteSet(0 .. k)
  BY FS_Interval
<1>4. DataOf(store) \in SUBSET (0 .. k) /\ GenesisOf(store) \in SUBSET (0 .. k)
  BY <1>2 DEF DataOf, GenesisOf
<1>5. 0 \in GenesisOf(store)
  BY <1>2 DEF GenesisOf
<1> QED
  BY <1>3, <1>4, <1>5, FS_Subset

\* TableInv is inductive.
LEMMA TableStep ==
  ASSUME ChainInv, ListsOK, TableInv, [Next]_vars
  PROVE  TableInv'
<1>0. Booked(store, ec, store', ec', pendingTxs)
  BY NextBooks
<1>1. ec \in [Accounts -> Int] /\ pendingTxs \in Seq(Txs) /\ RealOf(store) = DataOf(store) \cup GenesisOf(store)
  BY DEF TableInv, ListsOK, RealOf
<1>2. CASE Alike(store, store') /\ ec' = ec
  <2>1. \A a : NetOf(store', a) = NetOf(store, a)
    BY <1>2, NetSame DEF Alike
  <2>2. /\ DataOf(store') = DataOf(store) /\ GenesisOf(store') = GenesisOf(store)
        /\ \A i \in DataOf(store) \cup GenesisOf(store) : store'.files[i] = store.files[i]
    BY <1>1, <1>2 DEF Alike, SameReal
  <2> QED
    BY <1>2, <2>1, <2>2 DEF TableInv
<1>3. ASSUME NEW d \in Nat, OneMoreData(store, store', d),
             store'.files[d].txs = pendingTxs, pendingTxs # <<>>,
             ec' = SaveTxInfoInEC(ec, pendingTxs)
      PROVE  TableInv'
  <2>1. /\ DataOf(store') = DataOf(store) \cup {d} /\ GenesisOf(store') = GenesisOf(store)
        /\ \A i \in DataOf(store) \cup GenesisOf(store) : store'.files[i] = store.files[i] /\ i < d
    BY <1>1, <1>3 DEF OneMoreData, SameReal
  <2>2. d \notin DataOf(store)
    BY <2>1
  <2>3. ec' \in [Accounts -> Int]
        /\ \A a \in Accounts : ec'[a] = ec[a] + SaveTxInfoInEC(NoRows, pendingTxs)[a]
    BY <1>1, <1>3, SaveHalvesFacts DEF SaveTxInfoInEC
  <2>4. \A a \in Accounts : ec'[a] = NetOf(store', a)
    <3> TAKE a \in Accounts
    <3>1. NetOf(store', a) = NetOf(store, a) + SaveTxInfoInEC(NoRows, pendingTxs)[a]
      <4>1. \A i \in DataOf(store) : store.files[i].txs \in Seq(Txs)
        BY DEF TableInv
      <4> QED
        BY <1>1, <1>3, <2>2, <4>1, RealOfChain, NetMore
    <3> QED
      BY <2>3, <3>1 DEF TableInv
  <2>5. \A i \in DataOf(store') : store'.files[i].txs \in Seq(Txs) /\ store'.files[i].txs # <<>>
    BY <1>1, <1>3, <2>1 DEF TableInv
  <2>6. \A g \in GenesisOf(store') : store'.files[g].rows = NoRows
    BY <2>1 DEF TableInv
  <2>7. \A i \in DataOf(store'), g \in GenesisOf(store') : g < i
    BY <2>1 DEF TableInv
  <2> QED
    BY <2>3, <2>4, <2>5, <2>6, <2>7 DEF TableInv
<1>4. ASSUME NEW d \in Nat, OneMoreGenesis(store, store', d),
             store'.files[d].rows = StoredRows(ec), ec' = NoRows,
             \A i \in DataOf(store) :
               (\A g \in GenesisOf(store) : g < i) => store.files[i].txs = <<>>
      PROVE  TableInv'
  <2>1. DataOf(store) = {}
    BY <1>4 DEF TableInv
  <2>2. /\ DataOf(store') = {} /\ GenesisOf(store') = GenesisOf(store) \cup {d}
        /\ \A i \in GenesisOf(store) : store'.files[i] = store.files[i]
    BY <1>1, <1>4, <2>1 DEF OneMoreGenesis, SameReal
  <2>3. ec = NoRows
    <3>1. \A a \in Accounts : ec[a] = 0
      BY <2>1, NetNothing DEF TableInv
    <3> QED
      BY <1>1, <3>1 DEF NoRows
  <2>4. StoredRows(ec) = NoRows
    BY <2>3, Zenon DEF StoredRows
  <2>5. ec' \in [Accounts -> Int] /\ \A a \in Accounts : ec'[a] = 0
    BY <1>4 DEF NoRows
  <2>6. \A a : NetOf(store', a) = 0
    BY <2>2, NetNothing
  <2>7. \A g \in GenesisOf(store') : store'.files[g].rows = NoRows
    BY <1>4, <2>2, <2>4 DEF TableInv
  <2> QED
    BY <2>2, <2>5, <2>6, <2>7 DEF TableInv
<1> QED
  BY <1>0, <1>2, <1>3, <1>4, Zenon DEF Booked

LEMMA InitTable == Init => TableInv
<1> SUFFICES ASSUME Init
             PROVE  TableInv
  OBVIOUS
<1>1. Ids(store) = {0} /\ store.files[0] = Genesis0
  <2>1. PICK k \in Nat : ChainOf(store, k) /\ Covered(store, k)
    BY InitChain DEF WholeInv, Whole, Init
  <2>2. store.lastSavedId = 0
    BY DEF Init, Insert, EmptyStore
  <2>3. k = 0 /\ 0 .. 0 = {0}
    BY <2>1, <2>2 DEF Covered
  <2>4. Ids(store) = 0 .. k
    BY <2>1, ChainFacts
  <2> QED
    BY <2>1, <2>3, <2>4 DEF ChainOf
<1>2. Genesis0.type = "genesis" /\ Genesis0.rows = NoRows
  BY DEF Genesis0, NewBlock
<1>3. DataOf(store) = {} /\ GenesisOf(store) = {0}
  BY <1>1, <1>2 DEF DataOf, GenesisOf
<1>4. ec \in [Accounts -> Int] /\ \A a \in Accounts : ec[a] = 0
  BY DEF Init, NoRows
<1>5. \A a : NetOf(store, a) = 0
  BY <1>3, NetNothing
<1> QED
  BY <1>1, <1>2, <1>3, <1>4, <1>5 DEF TableInv

\* The table with the rows of the genesis blocks is what the data blocks did.
LEMMA TableAccounts ==
  ASSUME ChainInv, TableInv
  PROVE  BalancesAccounted
<1> SUFFICES ASSUME NEW a \in Accounts
             PROVE  /\ ec[a] = Net(a, {i \in DataIds : i > Top(GenesisIds)})
                    /\ ec[a] + SumFunction([i \in GenesisIds |-> store.files[i].rows[a]])
                         = Net(a, DataIds)
  BY DEF BalancesAccounted
<1>1. DataIds = DataOf(store) /\ GenesisIds = GenesisOf(store)
  BY DEF DataIds, GenesisIds, DataOf, GenesisOf
<1>2. Top(GenesisIds) \in GenesisIds
  <2>1. GenesisIds \in SUBSET Nat /\ IsFiniteSet(GenesisIds) /\ GenesisIds # {}
    BY <1>1, RealOfChain
  <2>2. PICK k \in Nat : ChainOf(store, k)
    BY DEF ChainInv
  <2>3. GenesisIds \in SUBSET Int /\ k \in Int /\ \A x \in GenesisIds : x <= k
    BY <2>2, <2>1, ChainFacts DEF GenesisIds
  <2>4. Max(GenesisIds) \in GenesisIds
    BY <2>1, <2>3, MaxInt
  <2> QED
    BY <2>1, <2>4 DEF Top
<1>3. {i \in DataIds : i > Top(GenesisIds)} = DataIds
  <2>1. \A i \in DataIds : i \in Nat /\ Top(GenesisIds) \in Nat /\ Top(GenesisIds) < i
    BY <1>1, <1>2, RealOfChain DEF TableInv
  <2> QED
    BY <2>1
<1>4. ec[a] = Net(a, DataIds) /\ ec[a] \in Int
  BY <1>1 DEF TableInv, NetOf, Net
<1>5. SumFunction([i \in GenesisIds |-> store.files[i].rows[a]]) = 0
  <2> DEFINE f == [i \in GenesisIds |-> store.files[i].rows[a]]
  <2>1. DOMAIN f = GenesisIds /\ \A i \in GenesisIds : f[i] = 0
    BY <1>1 DEF TableInv, NoRows
  <2> HIDE DEF f
  <2>2. SumFunctionOnSet(f, GenesisIds) = 0
    BY <1>1, <2>1, RealOfChain, SumOfZeros
  <2> QED
    BY <2>1, <2>2 DEF SumFunction, f
<1>6. Net(a, {i \in DataIds : i > Top(GenesisIds)}) = Net(a, DataIds)
  BY <1>3, Zenon
<1> QED
  BY <1>4, <1>5, <1>6

\* The balance of an account in cacheEC, with what the genesis blocks carry over, is
\* the sum of the transactions in the data blocks on the disk; restarts included,
\* kills excluded.
THEOREM BalancesRight == Spec => []BalancesAccounted
<1>1. Init => ChainInv /\ ListsOK /\ TableInv
  BY InitChain, InitTable, InitToLedger
<1>2. ChainInv /\ ListsOK /\ TableInv /\ [Next]_vars => (ChainInv /\ ListsOK /\ TableInv)'
  BY NextKeeps, TableStep, ListsStep
<1>3. ChainInv /\ TableInv => BalancesAccounted
  BY TableAccounts
<1> QED
  BY <1>1, <1>2, <1>3, PTL DEF Spec

-----------------------------------------------------------------------------
(* The table after kills *)

\* The same data blocks, or one more.
SameData(s, t) == DataOf(t) = DataOf(s) /\ \A i \in DataOf(s) : t.files[i] = s.files[i]
MoreData(s, t, d) ==
  /\ d \notin DataOf(s) /\ DataOf(t) = DataOf(s) \cup {d}
  /\ \A i \in DataOf(s) : t.files[i] = s.files[i]

\* What a step may do: to the table alone, empty it; with a new data block, any
\* number of its updates.
Behind(s, e, t, f) ==
  \/ SameData(s, t) /\ f \in {e, NoRows}
  \/ \E d : /\ MoreData(s, t, d) /\ t.files[d].txs \in Seq(Txs)
            /\ \/ f = e
               \/ \E h \in 0 .. Halves(t.files[d].txs) : f = SaveHalves(e, t.files[d].txs, h)

\* A step without kills is one of these.
LEMMA BookedBehind ==
  ASSUME NEW s, NEW t, NEW e, NEW f, NEW txs \in Seq(Txs), Booked(s, e, t, f, txs)
  PROVE  Behind(s, e, t, f)
<1>1. RealOf(s) = DataOf(s) \cup GenesisOf(s)
  BY DEF RealOf
<1>2. CASE Alike(s, t) /\ f = e
  BY <1>1, <1>2 DEF Alike, SameReal, SameData, Behind
<1>3. ASSUME NEW d \in Nat, OneMoreData(s, t, d), t.files[d].txs = txs,
             f = SaveTxInfoInEC(e, txs)
      PROVE  Behind(s, e, t, f)
  <2>1. MoreData(s, t, d)
    BY <1>1, <1>3 DEF OneMoreData, SameReal, MoreData
  <2>2. Halves(txs) \in 0 .. Halves(txs)
    <3>1. Len(txs) \in Nat
      OBVIOUS
    <3> QED
      BY <3>1 DEF Halves
  <2> QED
    BY <1>3, <2>1, <2>2, Zenon DEF Behind, SaveTxInfoInEC
<1>4. ASSUME NEW d \in Nat, OneMoreGenesis(s, t, d), f = NoRows
      PROVE  Behind(s, e, t, f)
  BY <1>1, <1>4 DEF OneMoreGenesis, SameReal, SameData, Behind
<1> QED
  BY <1>2, <1>3, <1>4, Zenon DEF Booked

\* So is one after a step that changes no data block.
LEMMA BehindMore ==
  ASSUME NEW s, NEW t, NEW u, NEW e, NEW f, SameData(s, t), Behind(t, e, u, f)
  PROVE  Behind(s, e, u, f)
<1>1. DataOf(t) = DataOf(s) /\ \A i \in DataOf(s) : t.files[i] = s.files[i]
  BY DEF SameData
<1>2. SameData(t, u) => SameData(s, u)
  BY <1>1 DEF SameData
<1>3. \A d : MoreData(t, u, d) => MoreData(s, u, d)
  BY <1>1 DEF MoreData
<1> QED
  BY <1>2, <1>3, Zenon DEF Behind

LEMMA AlikeSame ==
  ASSUME NEW s, NEW t, Alike(s, t)
  PROVE  SameData(s, t)
  BY DEF Alike, SameReal, RealOf, SameData

\* A file more on the disk.
LEMMA OnDiskData ==
  ASSUME NEW s, NEW k \in Nat, ChainOf(s, k), NEW id \in Nat, id \notin Ids(s),
         NEW part, BlockOK(part)
  PROVE  LET t == OnDisk(s, id, part) IN
           /\ part.type # "data" => SameData(s, t)
           /\ part.type = "data" => MoreData(s, t, id)
           /\ t.files[id] = part
<1> DEFINE t == OnDisk(s, id, part)
<1>1. Typed(s) /\ FilesInSections(s) /\ part.type \in FileTypes
  BY DEF ChainOf, BlockOK
<1>2. /\ Ids(t) = Ids(s) \cup {id}
      /\ t.files[id] = part /\ \A i \in Ids(s) \ {id} : t.files[i] = s.files[i]
  BY <1>1, OnDiskTyped
<1> HIDE DEF t
<1>3. \A i \in Ids(s) : t.files[i] = s.files[i]
  BY <1>2
<1>4. part.type # "data" => SameData(s, t)
  BY <1>2, <1>3 DEF SameData, DataOf
<1>5. part.type = "data" => MoreData(s, t, id)
  BY <1>2, <1>3 DEF MoreData, DataOf
<1> QED
  BY <1>2, <1>4, <1>5 DEF t

LEMMA CrashInDummyBlockBehind ==
  ASSUME ChainInv, CrashInDummyBlock
  PROVE  Behind(store, ec, store', ec')
<1> DEFINE b == DummyBlock(store)
<1>1. PICK part \in PartsOf(b) : Killed(OnDisk(store, Index(b), part), ec)
  BY DEF CrashInDummyBlock
<1>2. running /\ store' = OnDisk(store, Index(b), part) /\ ec' = ec
  BY <1>1, KilledFacts
<1>3. PICK k \in Nat : ChainOf(store, k) /\ (Covered(store, k) \/ Stuck(store))
  BY <1>2 DEF ChainInv, Usable
<1>4. /\ BlockOK(b) /\ b.type = "dummy"
      /\ (Follows(store, k, b) /\ Covered(store, k)) \/ Harmless(store, b)
  BY <1>3, DummyBlockFacts
<1>5. Index(b) \notin Ids(store)
  BY DEF CrashInDummyBlock
<1> HIDE DEF b
<1>6. Index(b) \in Nat
  BY <1>4 DEF Follows, Harmless
<1>7. BlockOK(part) /\ part.type # "data"
  BY <1>4, PartFacts
<1> QED
  BY <1>2, <1>3, <1>5, <1>6, <1>7, OnDiskData DEF Behind

LEMMA CrashInGenesisBlockBehind ==
  ASSUME ChainInv, CrashInGenesisBlock
  PROVE  Behind(store, ec, store', ec')
<1> DEFINE b == DummyBlock(store)
           s == Insert(store, Index(b), b)
           stored == [Node EXCEPT !.store = s]
           gB == NewGenesis(stored)
<1>1. /\ Index(b) \notin Ids(store)
      /\ \/ Killed(stored.store, NoRows)
         \/ \E part \in PartsOf(gB) : Killed(OnDisk(stored.store, Index(gB), part), NoRows)
  <2>1. Node.store = store
    BY NodeFacts
  <2>2. [Node EXCEPT !.store = Insert(@, Index(b), b)] = stored
    BY <2>1
  <2> HIDE DEF stored
  <2> QED
    BY <2>2, Zenon DEF CrashInGenesisBlock
<1>2. stored.store = s
  BY NodeFacts, WithStore, Zenon
<1> HIDE DEF stored, gB
<1>3. /\ running /\ ec' = NoRows
      /\ \/ store' = s
         \/ \E part \in PartsOf(gB) : store' = OnDisk(s, Index(gB), part)
  <2>1. CASE Killed(stored.store, NoRows)
    BY <1>2, <2>1, KilledFacts
  <2>2. CASE \E part \in PartsOf(gB) : Killed(OnDisk(stored.store, Index(gB), part), NoRows)
    <3>1. PICK part \in PartsOf(gB) : Killed(OnDisk(stored.store, Index(gB), part), NoRows)
      BY <2>2
    <3>2. running /\ ec' = NoRows /\ store' = OnDisk(s, Index(gB), part)
      BY <1>2, <3>1, KilledFacts
    <3> QED
      BY <3>2
  <2> QED
    BY <1>1, <2>1, <2>2
<1>4. PICK k \in Nat : ChainOf(store, k) /\ (Covered(store, k) \/ Stuck(store))
  BY <1>3 DEF ChainInv, Usable
<1>5. /\ BlockOK(b) /\ b.type = "dummy"
      /\ (Follows(store, k, b) /\ Covered(store, k)) \/ Harmless(store, b)
  BY <1>4, DummyBlockFacts
<1> HIDE DEF b
<1>6. Follows(store, k, b) /\ Covered(store, k)
  BY <1>1, <1>5 DEF Harmless
<1>7. Index(b) = k + 1 /\ b.prev = store.files[k].hash /\ store.files[k].type # "torn"
  BY <1>6 DEF Follows
<1>8. /\ ChainOf(s, k + 1) /\ Covered(s, k + 1)
      /\ s.files[k + 1] = b /\ \A i \in 0 .. k : s.files[i] = store.files[i]
  BY <1>4, <1>5, <1>6, <1>7, InsertNext
<1> HIDE DEF s
<1> DEFINE j == k + 1
<1>9. j \in Nat /\ ChainOf(s, j) /\ Covered(s, j) /\ s.files[j].type # "torn"
  BY <1>5, <1>8
<1>10. SameData(store, s)
  <2>1. Ids(store) = 0 .. k /\ Ids(s) = Ids(store) \cup {k + 1}
    <3>1. Ids(store) = 0 .. k /\ Ids(s) = 0 .. k + 1
      BY <1>4, <1>8, <1>9, ChainFacts
    <3> QED
      BY <3>1
  <2> QED
    BY <1>5, <1>8, <2>1 DEF SameData, DataOf
<1> HIDE DEF j
<1>11. CASE store' = s
  BY <1>3, <1>10, <1>11 DEF Behind
<1>12. CASE \E part \in PartsOf(gB) : store' = OnDisk(s, Index(gB), part)
  <2>1. PICK part \in PartsOf(gB) : store' = OnDisk(s, Index(gB), part)
    BY <1>12
  <2>2. /\ BlockOK(gB) /\ gB.type = "genesis" /\ Index(gB) = j + 1
    BY <1>2, <1>9, NewGenesisFacts DEF gB
  <2>3. Index(gB) \in Nat /\ Index(gB) \notin Ids(s)
    <3>1. Ids(s) = 0 .. j
      BY <1>9, ChainFacts
    <3> QED
      BY <1>9, <2>2, <3>1
  <2>4. BlockOK(part) /\ part.type # "data"
    BY <2>2, PartFacts
  <2>5. SameData(s, store')
    BY <1>9, <2>1, <2>3, <2>4, OnDiskData
  <2>6. Behind(s, ec, store', ec')
    BY <1>3, <2>5 DEF Behind
  <2> QED
    BY <1>10, <2>6, BehindMore
<1> QED
  BY <1>3, <1>11, <1>12

LEMMA CrashInDataBlockBehind ==
  ASSUME ChainInv, ListsOK, CrashInDataBlock
  PROVE  Behind(store, ec, store', ec')
<1> DEFINE s == RemoveDummyBlocks(store)
           b == DataBlock(s)
<1>1. pendingTxs # <<>> /\ pendingTxs \in Seq(Txs)
  BY DEF CrashInDataBlock, ListsOK
<1>2. \/ \E i \in DummyStop(store) + 1 .. store.lastSavedId : Killed(RemoveById(store, i), ec)
      \/ /\ Index(b) \notin Ids(s)
         /\ \/ \E part \in PartsOf(b) : Killed(OnDisk(s, Index(b), part), ec)
            \/ \E h \in 1 .. Halves(pendingTxs) :
                 Killed(OnDisk(s, Index(b), b), SaveHalves(ec, pendingTxs, h))
  BY Zenon DEF CrashInDataBlock
<1>3. running
  <2> HIDE DEF b, s
  <2>1. PICK disk, e : Killed(disk, e)
    BY <1>2, Zenon
  <2> QED
    BY <2>1, KilledFacts
<1>4. PICK k \in Nat : ChainOf(store, k) /\ (Covered(store, k) \/ Stuck(store))
  BY <1>3 DEF ChainInv, Usable
<1>5. CASE \E i \in DummyStop(store) + 1 .. store.lastSavedId : Killed(RemoveById(store, i), ec)
  <2>1. PICK i \in DummyStop(store) + 1 .. store.lastSavedId : Killed(RemoveById(store, i), ec)
    BY <1>5
  <2>2. store' = RemoveById(store, i) /\ ec' = ec
    BY <2>1, KilledFacts
  <2>3. /\ store.firstSavedId = 0 /\ store.lastSavedId \in 0 .. k
        /\ DummyStop(store) \in 0 .. store.lastSavedId
        /\ \A g \in DummyStop(store) + 1 .. store.lastSavedId : store.files[g].type = "dummy"
    BY <1>4, StopFacts
  <2>4. i \in Nat /\ DummyStop(store) < i
    BY <2>1, <2>3
  <2>5. Typed(store) /\ FilesInSections(store) /\ Ids(store) = 0 .. k
    BY <1>4, ChainFacts DEF ChainOf
  <2>6. /\ Ids(store') = Ids(store) \ {g \in Ids(store) : i <= g /\ g <= store.lastSavedId}
        /\ \A g \in Ids(store') : store'.files[g] = store.files[g]
    BY <2>2, <2>3, <2>4, <2>5, RemoveTyped
  <2>7. \A g \in Ids(store) : i <= g /\ g <= store.lastSavedId => store.files[g].type = "dummy"
    <3>1. \A g \in 0 .. k : i <= g /\ g <= store.lastSavedId => g \in DummyStop(store) + 1 .. store.lastSavedId
      BY <2>3, <2>4
    <3> QED
      BY <2>3, <2>5, <3>1
  <2>8. SameData(store, store')
    BY <2>6, <2>7 DEF SameData, DataOf
  <2> QED
    BY <2>2, <2>8 DEF Behind
<1>6. CASE Index(b) \notin Ids(s)
  <2>1. PICK d \in 0 .. k :
          /\ ChainOf(s, d) /\ SameData(store, s)
          /\ (Covered(s, d) /\ s.files[d].type # "dummy") \/ Stuck(s)
    <3>1. PICK d \in 0 .. k :
            /\ ChainOf(s, d)
            /\ \A i \in 0 .. d : s.files[i] = store.files[i]
            /\ \A i \in d + 1 .. k : store.files[i].type = "dummy"
            /\ (Covered(s, d) /\ s.files[d].type # "dummy") \/ Stuck(s)
      BY <1>4, BareFacts
    <3> HIDE DEF s
    <3> QED
      BY <1>4, <3>1, BareAlike, AlikeSame
  <2> HIDE DEF s
  <2>2. /\ BlockOK(b) /\ b.type = "data" /\ b.txs = pendingTxs
        /\ (Follows(s, d, b) /\ Covered(s, d)) \/ Harmless(s, b)
    BY <1>1, <2>1, DataBlockFacts
  <2> HIDE DEF b
  <2>3. Index(b) \in Nat
    BY <1>6, <2>2 DEF Follows, Harmless
  <2>4. ASSUME NEW part \in PartsOf(b), Killed(OnDisk(s, Index(b), part), ec)
        PROVE  Behind(s, ec, store', ec')
    <3>1. store' = OnDisk(s, Index(b), part) /\ ec' = ec
      BY <2>4, KilledFacts
    <3>2. BlockOK(part) /\ (part.type = "data" => part.txs \in Seq(Txs))
      BY <1>1, <2>2, PartFacts
    <3>3. /\ part.type # "data" => SameData(s, store')
          /\ part.type = "data" => MoreData(s, store', Index(b))
          /\ store'.files[Index(b)] = part
      BY <1>6, <2>1, <2>3, <3>1, <3>2, OnDiskData
    <3> QED
      BY <3>1, <3>2, <3>3 DEF Behind
  <2>5. ASSUME NEW h \in 1 .. Halves(pendingTxs),
               Killed(OnDisk(s, Index(b), b), SaveHalves(ec, pendingTxs, h))
        PROVE  Behind(s, ec, store', ec')
    <3>1. store' = OnDisk(s, Index(b), b) /\ ec' = SaveHalves(ec, pendingTxs, h)
      BY <2>5, KilledFacts
    <3>2. MoreData(s, store', Index(b)) /\ store'.files[Index(b)] = b
      BY <1>6, <2>1, <2>2, <2>3, <3>1, OnDiskData
    <3>3. h \in 0 .. Halves(b.txs) /\ b.txs \in Seq(Txs)
      BY <1>1, <2>2
    <3> QED
      BY <2>2, <3>1, <3>2, <3>3 DEF Behind
  <2> QED
    BY <1>2, <1>5, <1>6, <2>1, <2>4, <2>5, BehindMore
<1> QED
  BY <1>2, <1>5, <1>6

LEMMA CrashNextBehind ==
  ASSUME ChainInv, ListsOK, [CrashNext]_crashVars
  PROVE  Behind(store, ec, store', ec')
<1>1. CASE [Next]_vars
  BY <1>1, NextBooks, BookedBehind DEF ListsOK
<1>2. CASE CrashInMakeBlock
  BY <1>2, CrashInDummyBlockBehind, CrashInGenesisBlockBehind, CrashInDataBlockBehind
     DEF CrashInMakeBlock
<1> QED
  BY <1>1, <1>2 DEF CrashNext, crashVars

\* What the first k[i] updates of each data block i did, and how many updates all
\* of them have.
PartOf(s, k, a) == SumFunction([i \in DataOf(s) |-> SaveHalves(NoRows, s.files[i].txs, k[i])[a]])
HalvesOf(s) == SumFunction([i \in DataOf(s) |-> Halves(s.files[i].txs)])

Within(s, e) ==
  \E k \in [DataOf(s) -> 0 .. HalvesOf(s)] : \A a \in Accounts : e[a] = PartOf(s, k, a)

\* The inductive invariant: EcWithinBlocks, and the types it rests on.
PrefixInv ==
  /\ ec \in [Accounts -> Int]
  /\ \A i \in DataOf(store) : store.files[i].txs \in Seq(Txs)
  /\ Within(store, ec)

LEMMA HalvesTyped ==
  ASSUME NEW txs \in Seq(Txs)
  PROVE  Halves(txs) \in Nat
<1>1. Len(txs) \in Nat
  OBVIOUS
<1> QED
  BY <1>1 DEF Halves

LEMMA HalvesOfTyped ==
  ASSUME NEW s, IsFiniteSet(DataOf(s)), \A i \in DataOf(s) : s.files[i].txs \in Seq(Txs)
  PROVE  HalvesOf(s) \in Nat
<1> DEFINE f == [i \in DataOf(s) |-> Halves(s.files[i].txs)]
<1>1. DOMAIN f = DataOf(s) /\ \A i \in DataOf(s) : f[i] \in Nat
  BY HalvesTyped
<1> HIDE DEF f
<1>2. SumFunctionOnSet(f, DataOf(s)) \in Nat
  BY <1>1, SumNotNegative
<1> QED
  BY <1>1, <1>2 DEF HalvesOf, SumFunction, f

\* An empty table is the table of none of the updates.
LEMMA WithinEmpty ==
  ASSUME NEW s, IsFiniteSet(DataOf(s)), \A i \in DataOf(s) : s.files[i].txs \in Seq(Txs)
  PROVE  Within(s, NoRows)
<1> DEFINE k == [i \in DataOf(s) |-> 0]
<1>1. k \in [DataOf(s) -> 0 .. HalvesOf(s)]
  BY HalvesOfTyped
<1>2. ASSUME NEW a \in Accounts
      PROVE  NoRows[a] = PartOf(s, k, a)
  <2> DEFINE f == [i \in DataOf(s) |-> SaveHalves(NoRows, s.files[i].txs, k[i])[a]]
  <2>1. NoRows \in [Accounts -> Int] /\ NoRows[a] = 0
    BY DEF NoRows
  <2>2. \A i \in DataOf(s) : SaveHalves(NoRows, s.files[i].txs, 0) = NoRows
    BY <2>1, NoHalves
  <2>3. DOMAIN f = DataOf(s) /\ \A i \in DataOf(s) : f[i] = 0
    BY <2>1, <2>2
  <2> HIDE DEF f
  <2>4. SumFunctionOnSet(f, DataOf(s)) = 0
    BY <2>3, SumOfZeros
  <2>5. PartOf(s, k, a) = SumFunction(f)
    BY DEF PartOf, f
  <2> QED
    BY <2>1, <2>3, <2>4, <2>5 DEF SumFunction
<1> QED
  BY <1>1, <1>2 DEF Within

\* So is the table after h updates of a new block.
LEMMA WithinMore ==
  ASSUME NEW s, IsFiniteSet(DataOf(s)), \A i \in DataOf(s) : s.files[i].txs \in Seq(Txs),
         NEW e \in [Accounts -> Int], Within(s, e),
         NEW t, NEW d, MoreData(s, t, d), t.files[d].txs \in Seq(Txs),
         NEW h \in 0 .. Halves(t.files[d].txs)
  PROVE  Within(t, SaveHalves(e, t.files[d].txs, h))
<1> DEFINE S == DataOf(s)
           txs == t.files[d].txs
           halvesS == [i \in S |-> Halves(s.files[i].txs)]
           halvesT == [i \in DataOf(t) |-> Halves(t.files[i].txs)]
<1>1. DataOf(t) = S \cup {d} /\ d \notin S /\ \A i \in S : t.files[i] = s.files[i]
  BY DEF MoreData
<1>2. \A i \in S \cup {d} : t.files[i].txs \in Seq(Txs)
  BY <1>1
<1>3. HalvesOf(t) = HalvesOf(s) + Halves(txs) /\ HalvesOf(s) \in Nat /\ Halves(txs) \in Nat
  <2>1. /\ DOMAIN halvesT = S \cup {d} /\ DOMAIN halvesS = S /\ halvesT[d] = Halves(txs)
        /\ \A i \in S : halvesS[i] = halvesT[i]
    BY <1>1
  <2>2. \A i \in S \cup {d} : halvesT[i] \in Int
    BY <1>1, <1>2, HalvesTyped
  <2>3. IsFiniteSet(S) /\ d \notin S
    BY <1>1
  <2> HIDE DEF halvesS, halvesT, S
  <2>4. SumFunctionOnSet(halvesT, S \cup {d}) = SumFunctionOnSet(halvesS, S) + halvesT[d]
    BY <2>1, <2>2, <2>3, SumGrown
  <2>5. HalvesOf(t) = SumFunction(halvesT) /\ HalvesOf(s) = SumFunction(halvesS)
    BY DEF HalvesOf, halvesS, halvesT, S
  <2> QED
    BY <2>1, <2>4, <2>5, HalvesTyped, HalvesOfTyped DEF SumFunction
<1>4. PICK k \in [S -> 0 .. HalvesOf(s)] : \A a \in Accounts : e[a] = PartOf(s, k, a)
  BY DEF Within
<1> DEFINE m == [i \in S \cup {d} |-> IF i = d THEN h ELSE k[i]]
<1>5. m \in [DataOf(t) -> 0 .. HalvesOf(t)]
  <2>1. \A i \in S : k[i] \in 0 .. HalvesOf(t)
    BY <1>3
  <2>2. h \in 0 .. HalvesOf(t)
    BY <1>3
  <2> QED
    BY <1>1, <2>1, <2>2
<1>6. ASSUME NEW a \in Accounts
      PROVE  SaveHalves(e, txs, h)[a] = PartOf(t, m, a)
  <2> DEFINE f == [i \in DataOf(t) |-> SaveHalves(NoRows, t.files[i].txs, m[i])[a]]
             g == [i \in S |-> SaveHalves(NoRows, s.files[i].txs, k[i])[a]]
  <2>1. NoRows \in [Accounts -> Int]
    BY DEF NoRows
  <2>2. /\ DOMAIN f = S \cup {d} /\ DOMAIN g = S /\ f[d] = SaveHalves(NoRows, txs, h)[a]
        /\ \A i \in S : g[i] = f[i]
    BY <1>1
  <2>3. \A i \in S \cup {d} : f[i] \in Int
    <3>1. \A i \in S \cup {d} : SaveHalves(NoRows, t.files[i].txs, m[i]) \in [Accounts -> Int]
      BY <1>2, <2>1, SaveHalvesFacts
    <3> QED
      BY <1>1, <3>1
  <2>4. IsFiniteSet(S) /\ d \notin S
    BY <1>1
  <2>5. SaveHalves(e, txs, h)[a] = e[a] + SaveHalves(NoRows, txs, h)[a]
    BY SaveHalvesFacts
  <2>6. e[a] = PartOf(s, k, a)
    BY <1>4
  <2> HIDE DEF f, g, S, m
  <2>9. \A i \in S : g[i] = f[i]
    BY <2>2
  <2>7. SumFunctionOnSet(f, S \cup {d}) = SumFunctionOnSet(g, S) + f[d]
    BY <2>9, <2>3, <2>4, SumGrown
  <2>10. SumFunctionOnSet(g, S) \in Int
    <3>1. \A i \in S : g[i] \in Int
      BY <2>3, <2>9
    <3> QED
      BY <3>1, <2>4, SumFacts
  <2>11. f[d] \in Int
    BY <2>3
  <2>8. PartOf(t, m, a) = SumFunction(f) /\ PartOf(s, k, a) = SumFunction(g)
    BY DEF PartOf, f, g, S
  <2> QED
    BY <2>2, <2>5, <2>6, <2>7, <2>8, <2>10, <2>11 DEF SumFunction
<1> QED
  BY <1>5, <1>6, Zenon DEF Within

LEMMA WithinSame ==
  ASSUME NEW s, NEW t, NEW e, SameData(s, t), Within(s, e)
  PROVE  Within(t, e)
<1>1. DataOf(t) = DataOf(s) /\ \A i \in DataOf(s) : t.files[i] = s.files[i]
  BY DEF SameData
<1>2. HalvesOf(t) = HalvesOf(s)
  BY <1>1 DEF HalvesOf
<1>3. \A k, a : PartOf(t, k, a) = PartOf(s, k, a)
  BY <1>1 DEF PartOf
<1> QED
  BY <1>1, <1>2, <1>3 DEF Within

\* PrefixInv is inductive.
LEMMA PrefixStep ==
  ASSUME ChainInv, ListsOK, PrefixInv, [CrashNext]_crashVars
  PROVE  PrefixInv'
<1>1. Behind(store, ec, store', ec')
  BY CrashNextBehind
<1>2. /\ IsFiniteSet(DataOf(store)) /\ ec \in [Accounts -> Int] /\ Within(store, ec)
      /\ \A i \in DataOf(store) : store.files[i].txs \in Seq(Txs)
  BY RealOfChain DEF PrefixInv
<1>3. NoRows \in [Accounts -> Int]
  BY DEF NoRows
<1>4. CASE SameData(store, store') /\ ec' \in {ec, NoRows}
  <2>1. DataOf(store') = DataOf(store) /\ \A i \in DataOf(store) : store'.files[i] = store.files[i]
    BY <1>4 DEF SameData
  <2>2. IsFiniteSet(DataOf(store')) /\ \A i \in DataOf(store') : store'.files[i].txs \in Seq(Txs)
    BY <1>2, <2>1
  <2>3. Within(store', ec) /\ Within(store', NoRows)
    BY <1>2, <1>4, <2>2, WithinSame, WithinEmpty
  <2>4. Within(store', ec')
    BY <1>4, <2>3
  <2> QED
    BY <1>2, <1>3, <1>4, <2>2, <2>4 DEF PrefixInv
<1>5. ASSUME NEW d, MoreData(store, store', d), store'.files[d].txs \in Seq(Txs),
             \/ ec' = ec
             \/ \E h \in 0 .. Halves(store'.files[d].txs) : ec' = SaveHalves(ec, store'.files[d].txs, h)
      PROVE  PrefixInv'
  <2> DEFINE txs == store'.files[d].txs
  <2>1. PICK h \in 0 .. Halves(txs) : ec' = SaveHalves(ec, txs, h)
    <3>1. 0 \in 0 .. Halves(txs) /\ SaveHalves(ec, txs, 0) = ec
      BY <1>2, <1>5, HalvesTyped, NoHalves
    <3> QED
      BY <1>5, <3>1
  <2>2. Within(store', SaveHalves(ec, txs, h))
    BY <1>2, <1>5, <2>1, WithinMore
  <2>3. SaveHalves(ec, txs, h) \in [Accounts -> Int]
    BY <1>2, <1>5, SaveHalvesFacts
  <2>4. \A i \in DataOf(store') : store'.files[i].txs \in Seq(Txs)
    BY <1>2, <1>5 DEF MoreData
  <2>5. ec' \in [Accounts -> Int] /\ Within(store', ec')
    BY <2>1, <2>2, <2>3
  <2> QED
    BY <2>4, <2>5 DEF PrefixInv
<1> QED
  BY <1>1, <1>4, <1>5, Zenon DEF Behind

LEMMA PrefixWithin ==
  ASSUME PrefixInv
  PROVE  EcWithinBlocks
<1>1. DataIds = DataOf(store)
  BY DEF DataIds, DataOf
<1> QED
  BY <1>1, Zenon DEF PrefixInv, Within, PartOf, HalvesOf, EcWithinBlocks

LEMMA InitPrefix == Init => PrefixInv
<1> SUFFICES ASSUME Init
             PROVE  PrefixInv
  OBVIOUS
<1>1. ChainInv /\ TableInv
  BY InitChain, InitTable
<1>2. IsFiniteSet(DataOf(store)) /\ \A i \in DataOf(store) : store.files[i].txs \in Seq(Txs)
  BY <1>1, RealOfChain DEF TableInv
<1>3. ec = NoRows /\ ec \in [Accounts -> Int]
  BY <1>1 DEF Init, TableInv
<1>4. Within(store, ec)
  BY <1>2, <1>3, WithinEmpty
<1> QED
  BY <1>2, <1>3, <1>4 DEF PrefixInv

\* Wherever kills hit makeBlock, the table is explained by the data blocks on the
\* disk, each applied up to some update: no coin is booked that no block moves.
THEOREM EcRight == CrashSpec => []EcWithinBlocks
<1>1. CrashInit => ChainInv /\ ListsOK /\ PrefixInv
  BY InitChain, InitPrefix, InitToLedger DEF CrashInit
<1>2. ASSUME ChainInv, ListsOK, PrefixInv, [CrashNext]_crashVars
      PROVE  (ChainInv /\ ListsOK /\ PrefixInv)'
  <2>1. Next \/ CrashInMakeBlock \/ UNCHANGED vars
    BY <1>2 DEF CrashNext, crashVars
  <2> QED
    BY <1>2, <2>1, CrashNextKeeps, ListsStep, PrefixStep
<1>3. PrefixInv => EcWithinBlocks
  BY PrefixWithin
<1> QED
  BY <1>1, <1>2, <1>3, PTL DEF CrashSpec

-----------------------------------------------------------------------------
(* Searches *)

\* The greatest of some identifiers.
LEMMA TopOfNats ==
  ASSUME NEW c \in Int, NEW S \in SUBSET (0 .. c), S # {}
  PROVE  Top(S) \in S /\ Top(S) # NoId /\ \A i \in S : i <= Top(S)
<1>1. S \in SUBSET Int /\ \A x \in S : x <= c
  OBVIOUS
<1>2. Max(S) \in S /\ \A x \in S : x <= Max(S)
  BY <1>1, MaxInt
<1>3. Top(S) = Max(S)
  BY DEF Top
<1>4. \A x \in S : x # NoId
  BY DEF NoId
<1> QED
  BY <1>2, <1>3, <1>4

\* What the searches visit when the counters cover the files.
LEMMA AllVisited ==
  ASSUME NEW s, Based(s), WithinRange(s)
  PROVE  /\ s.lastSavedId \in Nat /\ s.firstSavedId = 0 /\ Scanned(s) = 0 .. s.lastSavedId
         /\ Ids(s) \in SUBSET (0 .. s.lastSavedId) /\ IsFiniteSet(Ids(s))
         /\ Visible(s) = {i \in Ids(s) : s.files[i].type # "torn"}
         /\ Visible(s) \in SUBSET (0 .. s.lastSavedId) /\ Visible(s) \in SUBSET Nat
         /\ 0 \in Visible(s) /\ IsFiniteSet(Visible(s))
<1>1. PICK c \in Nat : StoreTypeOK(s, c)
  BY DEF Based, Typed
<1>2. s.lastSavedId \in Nat /\ s.firstSavedId = 0 /\ Ids(s) \subseteq Nat /\ 0 \in Visible(s)
  BY BasedFacts DEF Based
<1>3. Ids(s) \in SUBSET (0 .. s.lastSavedId)
  BY <1>2 DEF WithinRange
<1>4. IsFiniteSet(Ids(s))
  BY <1>1, IdsFinite
<1>5. Visible(s) = {i \in Ids(s) : s.files[i].type # "torn"}
  BY <1>2 DEF WithinRange, Visible
<1>6. Visible(s) \in SUBSET Ids(s)
  BY DEF Visible
<1>7. IsFiniteSet(Visible(s))
  BY <1>4, <1>6, FS_Subset
<1> QED
  BY <1>2, <1>3, <1>4, <1>5, <1>6, <1>7 DEF Scanned

\* A readable block is found by its identifier, its position and its hash.
LEMMA FoundById ==
  ASSUME Based(store), WithinRange(store)
  PROVE  BlocksFound
<1> SUFFICES ASSUME NEW i \in Ids(store), store.files[i].type # "torn"
             PROVE  /\ GetBlock(store, "id", i) = i
                    /\ BlockByPosition(store, i - store.firstSavedId) = i
                    /\ \/ i \in PaddedIndexes
                       \/ LET j == GetBlock(store, "hash", store.files[i].hash)
                          IN j # NoId /\ store.files[j].hash = store.files[i].hash
  BY DEF BlocksFound
<1>1. i \in Visible(store) /\ i \in Nat /\ i <= store.lastSavedId /\ store.firstSavedId = 0
  BY AllVisited
<1>2. GetBlock(store, "id", i) = i
  BY <1>1 DEF GetBlock, BlockByIndex
<1>3. BlockByPosition(store, i - store.firstSavedId) = i
  <2>1. store.firstSavedId + (i - store.firstSavedId) = i
    BY <1>1
  <2> QED
    BY <1>1, <2>1 DEF BlockByPosition
<1>4. ASSUME i \notin PaddedIndexes
      PROVE  LET j == GetBlock(store, "hash", store.files[i].hash)
             IN j # NoId /\ store.files[j].hash = store.files[i].hash
  <2> DEFINE hash == store.files[i].hash
             S == {j \in Scanned(store) \cap Visible(store) : store.files[j].hash = hash}
  <2>1. hash.id = i
    BY DEF Based, Index
  <2>2. GetBlock(store, "hash", hash) = Top(S)
    BY <1>4, <2>1 DEF GetBlock, BlockByHash
  <2>3. S \in SUBSET (0 .. store.lastSavedId) /\ i \in S /\ store.lastSavedId \in Int
    BY <1>1, AllVisited
  <2>4. \A j \in S : store.files[j].hash = hash
    OBVIOUS
  <2> HIDE DEF S
  <2>5. Top(S) \in S /\ Top(S) # NoId
    BY <2>3, TopOfNats
  <2> QED
    BY <2>2, <2>4, <2>5
<1> QED
  BY <1>2, <1>3, <1>4

\* The newest block with a transaction that matches, or one that cannot be read,
\* ends a search.
LEMMA LastTxFinds ==
  ASSUME NEW s, Based(s), WithinRange(s), Counted(s), NEW param, NEW value,
         NEW i \in Visible(s), NEW k \in DOMAIN TxsOf(s, i),
         Matches(TxsOf(s, i)[k], param, value)
  PROVE  LastTx(s, param, value) # NoTx
<1> DEFINE Hits(j) == {n \in DOMAIN TxsOf(s, j) : Matches(TxsOf(s, j)[n], param, value)}
           S == {j \in Scanned(s) : ~Readable(s, j) \/ Hits(j) # {}}
           stop == Top(S)
<1>1. S \in SUBSET (0 .. s.lastSavedId) /\ s.lastSavedId \in Int
  BY AllVisited
<1>2. i \in S
  BY AllVisited
<1> HIDE DEF S
<1>3. stop # NoId /\ stop \in Nat
  <2>1. stop \in S /\ stop # NoId
    BY <1>1, <1>2, TopOfNats
  <2> HIDE DEF stop
  <2> QED
    BY <1>1, <2>1
<1>4. s.records # 0
  <2>1. Cardinality(Ids(s)) # 0
    BY AllVisited, FS_EmptySet DEF Visible
  <2> QED
    BY <2>1 DEF Counted
<1>5. LastTx(s, param, value) =
        IF s.records = 0 \/ stop = NoId THEN NoTx
        ELSE IF ~Readable(s, stop) THEN Ends
        ELSE [tx |-> TxsOf(s, stop)[Min(Hits(stop))], at |-> stop]
  BY DEF LastTx, S
<1>6. LastTx(s, param, value) \in {Ends, [tx |-> TxsOf(s, stop)[Min(Hits(stop))], at |-> stop]}
  BY <1>3, <1>4, <1>5
<1>7. Ends # NoTx
  BY DEF Ends, NoTx
<1>8. \A tx : [tx |-> tx, at |-> stop] # NoTx
  BY <1>3 DEF NoTx
<1> QED
  BY <1>6, <1>7, <1>8

\* The same for the rows of an account.
LEMMA RowsFound ==
  ASSUME NEW s, Based(s), WithinRange(s), Counted(s),
         NEW i \in Visible(s), NEW k \in DOMAIN TxsOf(s, i), NEW value,
         value \in {Sender[TxsOf(s, i)[k]], Receiver[TxsOf(s, i)[k]]}
  PROVE  TxsInRow(s, value, NoId, 0) # {}
<1> DEFINE top == s.lastSavedId
           Hits(j) == {[tx |-> TxsOf(s, j)[n], at |-> j] : n \in
                        {n \in DOMAIN TxsOf(s, j) :
                           value \in {Sender[TxsOf(s, j)[n]], Receiver[TxsOf(s, j)[n]]}}}
           Above(j) == UNION {Hits(m) : m \in (j + 1) .. top}
           visited == {j \in s.firstSavedId .. top : Cardinality(Above(j)) <= 0}
           S == {j \in 0 .. top : Hits(j) # {}}
           last == Top(S)
<1>1. i \in 0 .. top /\ top \in Int /\ s.firstSavedId = 0
  BY AllVisited
<1>2. i \in S
  BY <1>1
<1>3. last \in S /\ \A j \in S : j <= last
  <2>1. S \in SUBSET (0 .. top) /\ S # {}
    BY <1>2
  <2> HIDE DEF S
  <2> QED
    BY <1>1, <2>1, TopOfNats
<1>4. last \in 0 .. top /\ Hits(last) # {}
  BY <1>3
<1>5. Above(last) = {}
  <2> SUFFICES ASSUME NEW m \in (last + 1) .. top
               PROVE  Hits(m) = {}
    OBVIOUS
  <2>1. m \in 0 .. top /\ ~(m <= last)
    BY <1>1, <1>4
  <2> QED
    BY <1>3, <2>1
<1>6. last \in visited
  <2>1. Cardinality(Above(last)) = 0
    BY <1>5, FS_EmptySet
  <2> HIDE DEF Above, last
  <2> QED
    BY <1>1, <1>4, <2>1
<1>7. s.records # 0
  <2>1. Cardinality(Ids(s)) # 0
    BY AllVisited, FS_EmptySet DEF Visible
  <2> QED
    BY <2>1 DEF Counted
<1>8. TxsInRow(s, value, NoId, 0) =
        IF s.records = 0 THEN {}
        ELSE IF \E j \in visited : ~Readable(s, j) THEN {Ends}
        ELSE UNION {Hits(j) : j \in visited}
  BY DEF TxsInRow
<1> HIDE DEF Hits, visited
<1>9. UNION {Hits(j) : j \in visited} # {}
  BY <1>4, <1>6
<1> QED
  BY <1>7, <1>8, <1>9

\* A transaction in a block is found.
LEMMA TxIsFound ==
  ASSUME Based(store), WithinRange(store), Counted(store), NEW tx \in Txs, InBlock(store, tx)
  PROVE  TxFound(tx)
<1>1. PICK i \in Ids(store) : store.files[i].type = "data" /\ tx \in Range(store.files[i].txs)
  BY DEF InBlock
<1>2. i \in Visible(store)
  BY <1>1, AllVisited
<1>3. TxsOf(store, i) = store.files[i].txs
  BY <1>1, <1>2 DEF TxsOf
<1>4. PICK k \in DOMAIN TxsOf(store, i) : TxsOf(store, i)[k] = tx
  BY <1>1, <1>3 DEF Range
<1>5. \A param, value : GetTransaction(store, TRUE, param, value) = LastTx(store, param, value)
  BY DEF GetTransaction
<1>6. GetTransaction(store, TRUE, "hash", tx) # NoTx
  <2>1. Matches(TxsOf(store, i)[k], "hash", tx)
    BY <1>4 DEF Matches
  <2> QED
    BY <1>2, <1>4, <1>5, <2>1, LastTxFinds
<1>7. ASSUME Sender[tx] \notin Padded
      PROVE  GetTransaction(store, TRUE, "sender", Sender[tx]) # NoTx
  <2>1. Matches(TxsOf(store, i)[k], "sender", Sender[tx])
    BY <1>4, <1>7 DEF Matches, IsText
  <2> QED
    BY <1>2, <1>4, <1>5, <2>1, LastTxFinds
<1>8. ASSUME Receiver[tx] \notin Padded
      PROVE  GetTransaction(store, TRUE, "either", Receiver[tx]) # NoTx
  <2>1. Matches(TxsOf(store, i)[k], "either", Receiver[tx])
    BY <1>4, <1>8 DEF Matches, IsText
  <2> QED
    BY <1>2, <1>4, <1>5, <2>1, LastTxFinds
<1>9. TxsInRow(store, Sender[tx], NoId, 0) # {}
  BY <1>2, <1>4, RowsFound
<1> QED
  BY <1>6, <1>7, <1>8, <1>9 DEF TxFound

\* A transaction in the last block is recognised.
LEMMA Recognised ==
  ASSUME NEW s, NEW tx \in Range(TxsOf(s, LastBlockId(s)))
  PROVE  VerifyTx(s, tx) # "verified"
  BY DEF VerifyTx

-----------------------------------------------------------------------------
(* Coins *)

\* What can be read of a block moves nothing.
LEMMA NothingMoves ==
  ASSUME NEW s, Based(s), WithinRange(s), NEW i, Readable(s, i)
  PROVE  TxsOf(s, i) = <<>>
  BY DEF Readable, TxsOf, CanExtract

\* A sum of nothings.
LEMMA ZeroSum ==
  ASSUME NEW S, IsFiniteSet(S), NEW f, DOMAIN f = S, \A i \in S : f[i] = 0
  PROVE  SumFunction(f) = 0
  BY SumOfZeros DEF SumFunction

\* Blocks without transactions credit nobody.
LEMMA NoCredit ==
  ASSUME NEW s, NEW user, NEW ids, IsFiniteSet(ids), \A i \in ids : TxsOf(s, i) = <<>>
  PROVE  Credits(s, user, ids) = 0
<1> DEFINE to(i) == {k \in DOMAIN TxsOf(s, i) : Receiver[TxsOf(s, i)[k]] = user}
           f == [i \in ids |-> SumFunction([k \in to(i) |-> Amount[TxsOf(s, i)[k]]])]
<1>1. \A i \in ids : f[i] = 0
  <2> SUFFICES ASSUME NEW i \in ids
               PROVE  f[i] = 0
    OBVIOUS
  <2> DEFINE g == [k \in to(i) |-> Amount[TxsOf(s, i)[k]]]
  <2>1. to(i) = {}
    OBVIOUS
  <2>2. DOMAIN g = {}
    BY <2>1
  <2>3. SumFunction(g) = 0
    <3> HIDE DEF g
    <3> QED
      BY <2>2, SumEmpty DEF SumFunction
  <2> QED
    BY <2>3
<1>2. DOMAIN f = ids
  OBVIOUS
<1>3. Credits(s, user, ids) = SumFunction(f)
  BY DEF Credits
<1> HIDE DEF f
<1> QED
  BY <1>1, <1>2, <1>3, ZeroSum

\* The rows of the last genesis block are none.
LEMMA NoLastRows ==
  ASSUME NEW s, Based(s)
  PROVE  LastRows(s) = NoRows
<1>1. StoredRows(NoRows) = NoRows
  BY DEF StoredRows
<1> DEFINE S == {i \in Visible(s) : s.files[i].type = "genesis"}
<1>2. S \in SUBSET Visible(s) /\ 0 \in S /\ LastGenesisId(s) = Top(S)
  BY BasedFacts DEF LastGenesisId
<1> HIDE DEF S
<1>3. LastGenesisId(s) \in Visible(s)
  BY <1>2, TopOfVisible
<1>4. s.files[LastGenesisId(s)].rows = NoRows
  BY <1>3, BlockShape DEF Based, Visible
<1> QED
  BY <1>1, <1>4 DEF LastRows

\* Every balance a node states is nothing, within the supply it states.
LEMMA CoinsAreStated ==
  ASSUME Based(store), WithinRange(store), Conserving(ec)
  PROVE  CoinsStated
<1>1. CirculativeEnds(store)
  <2>1. 0 \in Ids(store) /\ 0 <= store.lastSavedId /\ store.files[0].type = "genesis"
    BY AllVisited, BasedFacts DEF Based
  <2> QED
    BY <2>1 DEF CirculativeEnds
<1>2. CirculativeBalance(store) \subseteq {0}
  <2> DEFINE walk == {i \in Ids(store) : LastGenesisId(store) < i /\ i <= store.lastSavedId}
             rewards(i) == {k \in DOMAIN TxsOf(store, i) : Kind[TxsOf(store, i)[k]] = "reward"}
             f == [i \in walk |->
                     SumFunction([k \in rewards(i) |-> Amount[TxsOf(store, i)[k]]])]
  <2> SUFFICES ASSUME \A i \in walk : Readable(store, i)
               PROVE  SumFunction(f) = 0
    BY DEF CirculativeBalance
  <2>1. IsFiniteSet(walk)
    BY AllVisited, FS_Subset
  <2>2. \A i \in walk : f[i] = 0
    <3> SUFFICES ASSUME NEW i \in walk
                 PROVE  f[i] = 0
      OBVIOUS
    <3> DEFINE g == [k \in rewards(i) |-> Amount[TxsOf(store, i)[k]]]
    <3>1. TxsOf(store, i) = <<>>
      BY NothingMoves
    <3>2. DOMAIN g = {}
      BY <3>1
    <3>3. SumFunction(g) = 0
      <4> HIDE DEF g
      <4> QED
        BY <3>2, SumEmpty DEF SumFunction
    <3> QED
      BY <3>3
  <2>3. DOMAIN f = walk
    OBVIOUS
  <2> HIDE DEF f, walk
  <2> QED
    BY <2>1, <2>2, <2>3, ZeroSum
<1>3. ASSUME NEW a \in Accounts
      PROVE  UserBalance(store, a) \subseteq {0} \cap (0 .. FullSupply(store, ec))
  <2>1. Supply(store) = 0
    <3> DEFINE f == [c \in Accounts |-> Abs(LastRows(store)[c])]
    <3>1. \A c \in Accounts : f[c] = 0
      BY NoLastRows DEF NoRows, Abs
    <3>2. DOMAIN f = Accounts
      OBVIOUS
    <3>3. Supply(store) = SumFunction(f)
      BY DEF Supply
    <3> HIDE DEF f
    <3> QED
      BY <3>1, <3>2, <3>3, ZeroSum, ChainAssumption
  <2>2. FullSupply(store, ec) \in Nat
    <3> DEFINE rich == {c \in Accounts : ec[c] > 0}
    <3>1. IsFiniteSet(rich)
      BY ChainAssumption, FS_Subset
    <3>2. \A c \in rich : ec[c] \in Nat
      BY DEF Conserving
    <3>3. FullSupply(store, ec) = Supply(store) + SumFunctionOnSet(ec, rich)
      BY DEF FullSupply
    <3> HIDE DEF rich
    <3>4. SumFunctionOnSet(ec, rich) \in Nat
      BY <3>1, <3>2, SumNotNegative
    <3> QED
      BY <2>1, <3>3, <3>4
  <2>3. UserBalance(store, a) \subseteq {0}
    <3> DEFINE walk == BalanceWalk(store)
    <3> SUFFICES ASSUME BalanceReadable(store)
                 PROVE  Credits(store, a, walk) + LastRows(store)[a] = 0
                        /\ Credits(store, a, walk) + 0 = 0
      BY DEF UserBalance
    <3>1. walk \in SUBSET Visible(store)
      BY DEF BalanceWalk, GenesisWalk
    <3>2. \A i \in walk : TxsOf(store, i) = <<>>
      BY DEF BalanceReadable, TxsOf, CanExtract
    <3>3. IsFiniteSet(walk)
      BY <3>1, AllVisited, FS_Subset
    <3>4. Credits(store, a, walk) = 0
      BY <3>2, <3>3, NoCredit
    <3> QED
      BY <3>4, NoLastRows DEF NoRows
  <2> QED
    BY <2>2, <2>3
<1> QED
  BY <1>1, <1>2, <1>3 DEF CoinsStated

-----------------------------------------------------------------------------
(* The same blocks in memory *)

\* A function on 1 .. n is a sequence.
LEMMA LenIs ==
  ASSUME NEW n \in Nat, NEW q, DOMAIN q = 1 .. n, q = [k \in DOMAIN q |-> q[k]]
  PROVE  Len(q) = n /\ q \in Seq(Range(q))
<1>1. q \in [1 .. n -> Range(q)]
  BY DEF Range
<1>2. q \in Seq(Range(q))
  BY <1>1, SeqDef
<1>3. Len(q) \in Nat /\ DOMAIN q = 1 .. Len(q)
  BY <1>2, LenProperties
<1> QED
  BY <1>2, <1>3

\* Listed puts the elements of a set in their order.
LEMMA ListedFacts ==
  ASSUME NEW S \in SUBSET Nat, IsFiniteSet(S), NEW f
  PROVE  LET q == Listed(f, S)
             n == Cardinality(S)
         IN /\ n \in Nat /\ Len(q) = n /\ DOMAIN q = 1 .. n /\ q \in Seq(Range(q))
            /\ q = [k \in 1 .. n |-> f[Nth(S, k)]]
<1> DEFINE q == Listed(f, S)
           n == Cardinality(S)
<1>1. n \in Nat
  BY FS_CardinalityType
<1>2. q = [k \in 1 .. n |-> f[Nth(S, k)]]
  BY DEF Listed, Nth, Rank
<1> HIDE DEF q, n
<1>3. DOMAIN q = 1 .. n /\ q = [k \in DOMAIN q |-> q[k]]
  BY <1>2
<1>4. Len(q) = n /\ q \in Seq(Range(q))
  BY <1>1, <1>3, LenIs
<1> QED
  BY <1>1, <1>2, <1>3, <1>4 DEF q, n

\* The last place whose element is in P is that of the greatest element of P.
LEMMA LastPlace ==
  ASSUME NEW S \in SUBSET Nat, IsFiniteSet(S), NEW P \in SUBSET S
  PROVE  LET M == {k \in 1 .. Cardinality(S) : Nth(S, k) \in P} IN
           /\ P = {} => M = {}
           /\ P # {} => M # {} /\ Max(M) \in 1 .. Cardinality(S)
                        /\ Nth(S, Max(M)) = Top(P) /\ Top(P) # NoId
<1> DEFINE n == Cardinality(S)
           M == {k \in 1 .. n : Nth(S, k) \in P}
<1>1. P = {} => M = {}
  OBVIOUS
<1>2. ASSUME P # {}
      PROVE  M # {} /\ Max(M) \in 1 .. n /\ Nth(S, Max(M)) = Top(P) /\ Top(P) # NoId
  <2>1. n \in Nat
    BY FS_CardinalityType
  <2>2. \A i \in P : Rank(S, i) \in M
    BY RankFacts, NthFacts
  <2>3. M # {}
    BY <1>2, <2>2
  <2>4. M \in SUBSET Int /\ n \in Int /\ \A k \in M : k <= n
    BY <2>1
  <2>5. \A k \in M : k \in 1 .. n /\ Nth(S, k) \in P /\ Nth(S, k) \in S /\ Rank(S, Nth(S, k)) = k
    BY NthFacts
  <2> HIDE DEF M, n
  <2>6. Max(M) \in M /\ \A k \in M : k <= Max(M)
    BY <2>3, <2>4, MaxInt
  <2> DEFINE i == Nth(S, Max(M))
  <2>7. i \in P /\ i \in S /\ i \in Nat /\ Rank(S, i) = Max(M)
    BY <2>5, <2>6
  <2>8. \A j \in P : j <= i
    <3> SUFFICES ASSUME NEW j \in P, ~ (j <= i)
                 PROVE  FALSE
      OBVIOUS
    <3>1. j \in S /\ j \in Nat /\ i < j
      BY <2>7
    <3>2. Rank(S, i) < Rank(S, j) /\ Rank(S, j) \in Nat /\ Rank(S, i) \in Nat
      BY <2>7, <3>1, RankFacts
    <3>3. Rank(S, j) <= Max(M)
      BY <2>2, <2>6
    <3> HIDE DEF i
    <3> QED
      BY <2>7, <3>2, <3>3
  <2> HIDE DEF i
  <2>9. Top(P) = i
    BY <2>7, <2>8, TopFacts
  <2>10. Top(P) # NoId
    BY <2>7, <2>9 DEF NoId
  <2> QED
    BY <2>3, <2>5, <2>6, <2>9, <2>10 DEF i
<1> QED
  BY <1>1, <1>2

\* A search of the memory index ends at the newest block, as that of the files.
LEMMA SameAnswer ==
  ASSUME Based(store), WithinRange(store), NEW P \in SUBSET Visible(store),
         NEW M, M = {k \in DOMAIN InMemory(store) : Nth(Visible(store), k) \in P}
  PROVE  Same(MemByParam(InMemory(store), M), Top(P))
<1> DEFINE V == Visible(store)
           n == Cardinality(V)
           mem == InMemory(store)
<1>1. V \in SUBSET Nat /\ IsFiniteSet(V)
  BY AllVisited
<1>2. DOMAIN mem = 1 .. n /\ mem = [k \in 1 .. n |-> store.files[Nth(V, k)]]
  BY <1>1, ListedFacts DEF InMemory
<1>3. M = {k \in 1 .. n : Nth(V, k) \in P}
  BY <1>2
<1> HIDE DEF V, mem
<1>4. CASE P = {}
  <2>1. M = {} /\ Top(P) = NoId
    BY <1>3, <1>4 DEF Top
  <2> QED
    BY <2>1 DEF Same, MemByParam
<1>5. CASE P # {}
  <2>1. P \in SUBSET V
    BY DEF V
  <2>2. M # {} /\ Max(M) \in 1 .. n /\ Nth(V, Max(M)) = Top(P) /\ Top(P) # NoId
    BY <1>1, <1>3, <1>5, <2>1, LastPlace
  <2>3. MemByParam(mem, M) = store.files[Top(P)]
    BY <1>2, <2>2 DEF MemByParam
  <2> QED
    BY <2>2, <2>3 DEF Same, mem
<1> QED
  BY <1>4, <1>5

\* The two indexes agree on hashes,
LEMMA SameByHash ==
  ASSUME Based(store), WithinRange(store), NEW i \in Visible(store) \ PaddedIndexes
  PROVE  Same(MemByHash(InMemory(store), store.files[i].hash),
              GetBlock(store, "hash", store.files[i].hash))
<1> DEFINE V == Visible(store)
           hash == store.files[i].hash
           mem == InMemory(store)
           P == {j \in Scanned(store) \cap V : store.files[j].hash = hash}
           M == {k \in DOMAIN mem : mem[k].hash = hash}
<1>1. /\ V \in SUBSET Nat /\ IsFiniteSet(V) /\ V \in SUBSET (0 .. store.lastSavedId)
      /\ Scanned(store) = 0 .. store.lastSavedId
  BY AllVisited
<1>2. hash.id = i
  BY DEF Based, Visible, Index
<1>3. GetBlock(store, "hash", hash) = Top(P)
  BY <1>2 DEF GetBlock, BlockByHash
<1>4. MemByHash(mem, hash) = MemByParam(mem, M)
  BY DEF MemByHash
<1>5. DOMAIN mem = 1 .. Cardinality(V) /\ \A k \in DOMAIN mem : mem[k] = store.files[Nth(V, k)]
  BY <1>1, ListedFacts DEF InMemory
<1>6. \A k \in DOMAIN mem : Nth(V, k) \in V
  BY <1>1, <1>5, NthFacts
<1> HIDE DEF mem, hash, V
<1>7. M = {k \in DOMAIN mem : Nth(V, k) \in P}
  BY <1>1, <1>5, <1>6
<1>8. P \in SUBSET V
  OBVIOUS
<1> HIDE DEF M, P
<1> QED
  BY <1>3, <1>4, <1>7, <1>8, SameAnswer DEF V, mem, hash

\* on approvers, and
LEMMA SameByApprover ==
  ASSUME Based(store), WithinRange(store), NEW a,
         \A i \in Visible(store) : Cardinality(store.files[i].signers) = 1
  PROVE  Same(MemByApprover(InMemory(store), a), BlockByApprover(store, a))
<1> DEFINE V == Visible(store)
           mem == InMemory(store)
           P == {j \in Scanned(store) \cap V : a \in Approvers(store.files[j])}
           M == {k \in DOMAIN mem : a \in mem[k].signers}
<1>1. /\ V \in SUBSET Nat /\ IsFiniteSet(V) /\ V \in SUBSET (0 .. store.lastSavedId)
      /\ Scanned(store) = 0 .. store.lastSavedId
  BY AllVisited
<1>2. \A i \in V : Approvers(store.files[i]) = store.files[i].signers
  BY DEF Approvers, ReadSigners
<1>3. BlockByApprover(store, a) = Top(P)
  BY DEF BlockByApprover
<1>4. MemByApprover(mem, a) = MemByParam(mem, M)
  BY DEF MemByApprover
<1>5. DOMAIN mem = 1 .. Cardinality(V) /\ \A k \in DOMAIN mem : mem[k] = store.files[Nth(V, k)]
  BY <1>1, ListedFacts DEF InMemory
<1>6. \A k \in DOMAIN mem : Nth(V, k) \in V
  BY <1>1, <1>5, NthFacts
<1> HIDE DEF mem, V
<1>7. M = {k \in DOMAIN mem : Nth(V, k) \in P}
  BY <1>1, <1>2, <1>5, <1>6
<1>8. P \in SUBSET V
  OBVIOUS
<1> HIDE DEF M, P
<1> QED
  BY <1>3, <1>4, <1>7, <1>8, SameAnswer DEF V, mem

\* on the last block.
LEMMA SameLast ==
  ASSUME Based(store), WithinRange(store)
  PROVE  Same(MemLastBlock(InMemory(store)), LastBlockId(store))
<1> DEFINE V == Visible(store)
           n == Cardinality(V)
           mem == InMemory(store)
           M == {k \in 1 .. n : Nth(V, k) \in V}
<1>1. V \in SUBSET Nat /\ IsFiniteSet(V) /\ V # {} /\ V \in SUBSET V
  BY AllVisited
<1>2. n \in Nat /\ Len(mem) = n /\ DOMAIN mem = 1 .. n /\ \A k \in 1 .. n : mem[k] = store.files[Nth(V, k)]
  BY <1>1, ListedFacts DEF InMemory
<1>3. LastBlockId(store) = Top(V)
  BY DEF LastBlockId
<1> HIDE DEF mem, V
<1>4. Max(M) \in 1 .. n /\ Nth(V, Max(M)) = Top(V) /\ Top(V) # NoId
  BY <1>1, LastPlace
<1>5. M = 1 .. n
  BY <1>1, NthFacts
<1>6. Max(M) = n
  <2>1. M \in SUBSET Int /\ M # {} /\ n \in Int /\ \A k \in M : k <= n
    BY <1>2, <1>4, <1>5
  <2> HIDE DEF M
  <2>2. \A k \in M : k <= Max(M)
    BY <2>1, MaxInt
  <2> HIDE DEF n
  <2>3. n \in M
    BY <1>2, <1>4, <1>5
  <2> QED
    BY <1>2, <1>4, <2>2, <2>3
<1> HIDE DEF M, n
<1>7. mem[n] = store.files[Top(V)] /\ mem # <<>>
  BY <1>2, <1>4, <1>6
<1>8. MemLastBlock(mem) = mem[n]
  BY <1>2, <1>7 DEF MemLastBlock, Last
<1> QED
  BY <1>3, <1>4, <1>7, <1>8 DEF Same, mem

\* The places 0 .. n or 1 .. n in their order.
LEMMA IntervalPlaces ==
  ASSUME NEW a \in {0, 1}, NEW n \in Nat, n >= a - 1
  PROVE  /\ a .. n \in SUBSET Nat /\ IsFiniteSet(a .. n) /\ Cardinality(a .. n) = n - a + 1
         /\ \A k \in 1 .. (n - a + 1) : Nth(a .. n, k) = k + a - 1
<1>1. a .. n \in SUBSET Nat /\ IsFiniteSet(a .. n) /\ Cardinality(a .. n) = n - a + 1
  <2>1. a \in Int /\ n \in Int
    OBVIOUS
  <2>2. IsFiniteSet(a .. n) /\ Cardinality(a .. n) = IF a > n THEN 0 ELSE n - a + 1
    BY <2>1, FS_Interval
  <2> QED
    BY <2>1, <2>2
<1>2. ASSUME NEW k \in 1 .. (n - a + 1)
      PROVE  Nth(a .. n, k) = k + a - 1
  <2> DEFINE i == k + a - 1
  <2>1. i \in a .. n /\ a \in Int /\ i \in Int /\ ~(a > i) /\ i - a + 1 = k
    OBVIOUS
  <2>2. {j \in a .. n : j <= i} = a .. i
    BY <2>1
  <2>3. Cardinality(a .. i) = k
    <3>1. Cardinality(a .. i) = IF a > i THEN 0 ELSE i - a + 1
      BY <2>1, FS_Interval
    <3> QED
      BY <2>1, <3>1
  <2>4. Rank(a .. n, i) = k
    BY <2>2, <2>3 DEF Rank
  <2>5. Nth(a .. n, Rank(a .. n, i)) = i
    BY <1>1, <2>1, NthFacts
  <2> QED
    BY <2>4, <2>5
<1> QED
  BY <1>1, <1>2

\* Taking the last block out of the memory index is what removeById does to the
\* files.
LEMMA LastRemoved ==
  ASSUME Based(store), WithinRange(store), NEW last, last = LastBlockId(store),
         last = store.lastSavedId, last > store.firstSavedId
  PROVE  MemRemove(InMemory(store), last) = InMemory(RemoveById(store, last))
<1> DEFINE V == Visible(store)
           n == Cardinality(V)
           mem == InMemory(store)
           t == RemoveById(store, last)
           W == Visible(t)
           others == Listed(mem, {k \in DOMAIN mem : mem[k].hash.id # last})
<1>1. /\ V \in SUBSET Nat /\ IsFiniteSet(V) /\ V # {} /\ V \in SUBSET V
      /\ V \in SUBSET (0 .. store.lastSavedId) /\ store.lastSavedId \in Nat
      /\ store.firstSavedId = 0 /\ Ids(store) \in SUBSET (0 .. store.lastSavedId)
  BY AllVisited
<1>2. last \in V /\ last \in Nat \ {0} /\ \A i \in V : i <= last
  <2>1. last = Top(V) /\ store.lastSavedId \in Int /\ V \in SUBSET (0 .. store.lastSavedId)
    BY <1>1 DEF LastBlockId
  <2> HIDE DEF V
  <2>2. last \in V /\ \A i \in V : i <= last
    BY <1>1, <2>1, TopOfNats
  <2> QED
    BY <1>1, <2>2
<1>3. /\ Based(t) /\ Ids(t) = Ids(store) \ {last}
      /\ \A i \in Ids(t) : t.files[i] = store.files[i]
  <2>1. /\ Remains(store, t)
        /\ Ids(t) = Ids(store) \ {i \in Ids(store) : last <= i /\ i <= store.lastSavedId}
        /\ \A i \in Ids(t) : t.files[i] = store.files[i]
    BY <1>2, RemoveBased
  <2>2. {i \in Ids(store) : last <= i /\ i <= store.lastSavedId} = {last}
    BY <1>1, <1>2 DEF Visible
  <2> QED
    BY <2>1, <2>2 DEF Remains
<1>4. WithinRange(t)
  BY <1>2, RemoveBased DEF Remains
<1>5. W = V \ {last} /\ W \in SUBSET Nat /\ IsFiniteSet(W)
  <2>1. W = {i \in Ids(t) : t.files[i].type # "torn"} /\ W \in SUBSET Nat /\ IsFiniteSet(W)
    BY <1>3, <1>4, AllVisited
  <2>2. V = {i \in Ids(store) : store.files[i].type # "torn"}
    BY AllVisited
  <2> QED
    BY <1>3, <2>1, <2>2
<1>6. V = W \cup {last} /\ \A i \in W : i < last
  BY <1>1, <1>2, <1>5
<1> DEFINE m == Cardinality(W)
<1>7. m \in Nat /\ n = m + 1 /\ Nth(V, m + 1) = last /\ \A k \in 1 .. m : Nth(V, k) = Nth(W, k)
  <2>1. m \in Nat
    BY <1>5, FS_CardinalityType
  <2>2. LET T == W \cup {last} IN
           /\ IsFiniteSet(T) /\ Cardinality(T) = Cardinality(W) + 1
           /\ Nth(T, Cardinality(W) + 1) = last
           /\ \A k \in 1 .. Cardinality(W) : Nth(T, k) = Nth(W, k)
    BY <1>2, <1>5, <1>6, NthMore
  <2> QED
    BY <1>6, <2>1, <2>2
<1>8. /\ DOMAIN mem = 1 .. n /\ Len(mem) = n /\ mem \in Seq(Range(mem))
      /\ \A k \in 1 .. n : mem[k] = store.files[Nth(V, k)]
  BY <1>1, ListedFacts DEF InMemory
<1>9. \A k \in 1 .. n : Nth(V, k) \in V /\ Rank(V, Nth(V, k)) = k
  BY <1>1, NthFacts
<1>10. \A k \in 1 .. n : mem[k].hash.id = Nth(V, k)
  BY <1>8, <1>9 DEF Based, Index, Visible
<1>11. InMemory(t) = [k \in 1 .. m |-> t.files[Nth(W, k)]]
  BY <1>5, ListedFacts DEF InMemory
<1>12. \A k \in 1 .. m : Nth(W, k) \in W /\ Nth(W, k) \in Ids(t)
  BY <1>5, NthFacts DEF Visible
<1>17. MemRemove(mem, last) = others \o SubSeq(mem, Len(others) + 2, Len(mem))
  BY DEF MemRemove
<1> HIDE DEF mem, V, W, t
<1>13. {k \in DOMAIN mem : mem[k].hash.id # last} = 1 .. m
  <2> HIDE DEF m, n
  <2>1. \A k \in 1 .. m : k \in 1 .. n /\ mem[k].hash.id # last
    <3> TAKE k \in 1 .. m
    <3>1. k \in 1 .. n
      BY <1>7
    <3>2. Nth(V, k) \in W
      BY <1>7, <1>12
    <3> QED
      BY <1>6, <1>10, <1>2, <3>1, <3>2, <1>5
  <2>2. \A k \in 1 .. n : k \in 1 .. m \/ k = m + 1
    BY <1>7
  <2>3. m + 1 \in 1 .. n /\ mem[m + 1].hash.id = last
    BY <1>7, <1>10
  <2> QED
    BY <1>8, <2>1, <2>2, <2>3
<1>14. /\ Len(others) = m /\ DOMAIN others = 1 .. m /\ others \in Seq(Range(others))
       /\ others = [k \in 1 .. m |-> mem[k]]
  <2> HIDE DEF m, n
  <2>1. /\ 1 .. m \in SUBSET Nat /\ IsFiniteSet(1 .. m) /\ Cardinality(1 .. m) = m
        /\ \A k \in 1 .. m : Nth(1 .. m, k) = k
    <3> DEFINE a == 1
    <3>1. a \in {0, 1} /\ m \in Nat /\ m >= a - 1 /\ m - a + 1 = m /\ \A k \in 1 .. m : k + a - 1 = k
      BY <1>7
    <3> HIDE DEF a
    <3>2. /\ a .. m \in SUBSET Nat /\ IsFiniteSet(a .. m) /\ Cardinality(a .. m) = m - a + 1
          /\ \A k \in 1 .. (m - a + 1) : Nth(a .. m, k) = k + a - 1
      BY <3>1, IntervalPlaces
    <3> QED
      BY <3>1, <3>2 DEF a
  <2>2. others = Listed(mem, 1 .. m)
    BY <1>13
  <2> HIDE DEF others
  <2>3. LET q == Listed(mem, 1 .. m)
            c == Cardinality(1 .. m)
        IN /\ c \in Nat /\ Len(q) = c /\ DOMAIN q = 1 .. c /\ q \in Seq(Range(q))
           /\ q = [k \in 1 .. c |-> mem[Nth(1 .. m, k)]]
    BY <2>1, ListedFacts
  <2>4. [k \in 1 .. m |-> mem[Nth(1 .. m, k)]] = [k \in 1 .. m |-> mem[k]]
    BY <2>1
  <2> QED
    BY <2>1, <2>2, <2>3, <2>4
<1> HIDE DEF others
<1>15. SubSeq(mem, Len(others) + 2, Len(mem)) = <<>>
  <2>1. Len(others) + 2 = n + 1 /\ Len(mem) = n /\ n \in Nat
    BY <1>7, <1>8, <1>14
  <2> HIDE DEF n
  <2>2. SubSeq(mem, n + 1, n) = <<>>
    BY <1>8, <2>1, SubSeqEmpty
  <2> QED
    BY <2>1, <2>2
<1>16. others \o <<>> = others
  BY <1>14, ConcatEmptySeq
<1>18. [k \in 1 .. m |-> mem[k]] = [k \in 1 .. m |-> t.files[Nth(W, k)]]
  <2> SUFFICES ASSUME NEW k \in 1 .. m
               PROVE  mem[k] = t.files[Nth(W, k)]
    OBVIOUS
  <2>1. k \in 1 .. n /\ mem[k] = store.files[Nth(V, k)]
    BY <1>7, <1>8
  <2> QED
    BY <1>3, <1>7, <1>12, <2>1
<1> QED
  BY <1>11, <1>14, <1>15, <1>16, <1>17, <1>18 DEF mem, t

\* The first records positions of the files, when nothing is missing.
LEMMA SamePositions ==
  ASSUME Based(store), WithinRange(store), Counted(store),
         Visible(store) = store.firstSavedId .. store.lastSavedId
  PROVE  CheckIntegrity(store, FALSE) = FirstUnlinked(InMemory(store))
<1> DEFINE n == store.lastSavedId
           a == 0
<1>1. n \in Nat /\ store.firstSavedId = a /\ Ids(store) \in SUBSET (0 .. n) /\ Visible(store) = a .. n
  BY AllVisited
<1>2. Ids(store) = 0 .. n
  BY <1>1 DEF Visible
<1>3. a \in {0, 1} /\ n >= a - 1 /\ n - a + 1 = n + 1
  BY <1>1
<1>4. /\ a .. n \in SUBSET Nat /\ IsFiniteSet(a .. n) /\ Cardinality(a .. n) = n - a + 1
      /\ \A k \in 1 .. (n - a + 1) : Nth(a .. n, k) = k + a - 1
  <2> HIDE DEF a, n
  <2> QED
    BY <1>1, <1>3, IntervalPlaces
<1>5. store.records = n + 1
  BY <1>2, <1>3, <1>4 DEF Counted
<1>6. InMemory(store) = [k \in 1 .. n + 1 |-> store.files[Nth(a .. n, k)]]
  BY <1>1, <1>3, <1>4, ListedFacts DEF InMemory
<1>7. \A k \in 1 .. n + 1 : BlockByPosition(store, k - 1) = k - 1 /\ k - 1 # NoId
  <2> TAKE k \in 1 .. n + 1
  <2>1. k - 1 \in 0 .. n /\ store.firstSavedId + (k - 1) = k - 1
    BY <1>1
  <2> QED
    BY <1>1, <2>1 DEF BlockByPosition, NoId
<1>8. ByPosition(store) = [k \in 1 .. n + 1 |-> store.files[k - 1]]
  BY <1>5, <1>7 DEF ByPosition
<1>9. [k \in 1 .. n + 1 |-> store.files[Nth(a .. n, k)]] = [k \in 1 .. n + 1 |-> store.files[k - 1]]
  <2>1. \A k \in 1 .. n + 1 : Nth(a .. n, k) = k - 1
    BY <1>1, <1>3, <1>4
  <2> HIDE DEF a, n
  <2> QED
    BY <2>1
<1>10. ByPosition(store) = InMemory(store)
  BY <1>6, <1>8, <1>9
<1> QED
  BY <1>10 DEF CheckIntegrity

\* A sequence with one more place.
LEMMA AppendIs ==
  ASSUME NEW n \in Nat, NEW old, DOMAIN old = 1 .. n, old = [k \in DOMAIN old |-> old[k]],
         NEW new, DOMAIN new = 1 .. n + 1, new = [k \in DOMAIN new |-> new[k]],
         \A k \in 1 .. n : new[k] = old[k]
  PROVE  new = Append(old, new[n + 1])
<1> DEFINE V == Range(old) \cup {new[n + 1]}
           more == Append(old, new[n + 1])
<1>1. Len(old) = n /\ old \in Seq(Range(old))
  BY LenIs
<1>2. old \in Seq(V) /\ new[n + 1] \in V
  <2>1. \A k \in 1 .. n : old[k] \in V
    BY DEF Range
  <2>2. old \in [1 .. n -> V]
    BY <2>1
  <2> QED
    BY <2>2, SeqDef
<1> HIDE DEF V
<1>3. /\ more \in Seq(V) /\ Len(more) = n + 1 /\ more[n + 1] = new[n + 1]
      /\ \A k \in 1 .. n : more[k] = old[k]
  BY <1>1, <1>2
<1> HIDE DEF more
<1>4. more = [k \in 1 .. n + 1 |-> more[k]]
  BY <1>3
<1>5. \A k \in 1 .. n + 1 : more[k] = new[k]
  BY <1>3
<1> QED
  BY <1>4, <1>5 DEF more

\* What addBlock makes of the blocks at the places s, called in their order.
Capped(n) == IF n <= MemIndexSizeLimit THEN n ELSE MemIndexSizeLimit
Filled(mem, s) == [k \in 1 .. Capped(Cardinality(s)) |-> mem[Nth(s, k)]]

\* No two blocks have the same index.
Distinct(mem, n) == \A i, j \in 1 .. n : Index(mem[i]) = Index(mem[j]) => i = j

\* The last of the blocks is added to what the others left.
LEMMA FilledMore ==
  ASSUME NEW n \in Nat, NEW mem, Distinct(mem, n), NEW s \in SUBSET (1 .. n), s # {}
  PROVE  /\ Max(s) \in s
         /\ Filled(mem, s) = MemAdd(Filled(mem, s \ {Max(s)}), mem[Max(s)])
<1> DEFINE m == Max(s)
           r == s \ {m}
           c == Cardinality(r)
           old == Filled(mem, r)
           new == Filled(mem, s)
<1>1. m \in s /\ \A i \in s : i <= m
  <2>1. s \in SUBSET Int /\ n \in Int /\ \A i \in s : i <= n
    OBVIOUS
  <2> QED
    BY <2>1, MaxInt
<1>2. r \in SUBSET Nat /\ IsFiniteSet(r) /\ m \in Nat /\ s = r \cup {m} /\ r \in SUBSET (1 .. n)
      /\ m \in 1 .. n
  <2>1. IsFiniteSet(1 .. n)
    BY FS_Interval
  <2>2. r \in SUBSET (1 .. n) /\ s = r \cup {m} /\ m \in 1 .. n
    BY <1>1
  <2> HIDE DEF r, m
  <2>3. IsFiniteSet(r)
    BY <2>1, <2>2, FS_Subset
  <2> QED
    BY <2>2, <2>3
<1>3. \A i \in r : i < m
  BY <1>1, <1>2
<1>4. c \in Nat /\ Cardinality(s) = c + 1 /\ Nth(s, c + 1) = m /\ \A k \in 1 .. c : Nth(s, k) = Nth(r, k)
  <2> HIDE DEF r, m
  <2>1. c \in Nat
    BY <1>2, FS_CardinalityType
  <2>2. LET T == r \cup {m} IN
           /\ IsFiniteSet(T) /\ Cardinality(T) = Cardinality(r) + 1
           /\ Nth(T, Cardinality(r) + 1) = m
           /\ \A k \in 1 .. Cardinality(r) : Nth(T, k) = Nth(r, k)
    BY <1>2, <1>3, NthMore
  <2> QED
    BY <1>2, <2>1, <2>2
<1>5. \A k \in 1 .. c : Nth(r, k) \in r
  BY <1>2, NthFacts
<1>6. MemIndexSizeLimit \in Nat
  BY MemIndexAssumption
<1>7. /\ old = [k \in 1 .. Capped(c) |-> mem[Nth(r, k)]]
      /\ new = [k \in 1 .. Capped(c + 1) |-> mem[Nth(s, k)]]
  BY <1>4 DEF Filled
<1> HIDE DEF r, m, c, old, new
<1>8. Capped(c) \in Nat /\ Len(old) = Capped(c) /\ DOMAIN old = 1 .. Capped(c)
      /\ old = [k \in DOMAIN old |-> old[k]]
  <2>1. Capped(c) \in Nat
    BY <1>4, <1>6 DEF Capped
  <2>2. DOMAIN old = 1 .. Capped(c) /\ old = [k \in DOMAIN old |-> old[k]]
    BY <1>7
  <2> QED
    BY <2>1, <2>2, LenIs
<1>9. CASE c < MemIndexSizeLimit
  <2>1. Capped(c) = c /\ Capped(c + 1) = c + 1
    BY <1>4, <1>6, <1>9 DEF Capped
  <2>2. DOMAIN new = 1 .. c + 1 /\ new = [k \in DOMAIN new |-> new[k]] /\ new[c + 1] = mem[m]
    BY <1>4, <1>7, <2>1
  <2>3. \A k \in 1 .. c : new[k] = old[k]
    BY <1>4, <1>7, <2>1
  <2>4. new = Append(old, new[c + 1])
    BY <1>4, <1>8, <2>1, <2>2, <2>3, AppendIs
  <2>5. \A k \in DOMAIN old : ~SameBlock(old[k], mem[m])
    <3> TAKE k \in DOMAIN old
    <3>1. old[k] = mem[Nth(r, k)] /\ Nth(r, k) \in r
      BY <1>5, <1>7, <1>8, <2>1
    <3>2. Nth(r, k) # m /\ Nth(r, k) \in 1 .. n
      BY <1>2, <1>3, <3>1
    <3>3. mem[Nth(r, k)].hash.id # mem[m].hash.id
      BY <1>2, <3>2 DEF Distinct, Index
    <3> QED
      BY <3>1, <3>3 DEF SameBlock
  <2>6. MemAdd(old, mem[m]) = Append(old, mem[m])
    BY <1>4, <1>6, <1>8, <1>9, <2>1, <2>5 DEF MemAdd
  <2> QED
    BY <1>1, <2>2, <2>4, <2>6 DEF r, m, old, new
<1>10. CASE ~ (c < MemIndexSizeLimit)
  <2>1. Capped(c) = MemIndexSizeLimit /\ Capped(c + 1) = MemIndexSizeLimit
    BY <1>4, <1>6, <1>10 DEF Capped
  <2>2. MemAdd(old, mem[m]) = old
    BY <1>6, <1>8, <2>1 DEF MemAdd
  <2>3. \A k \in 1 .. Capped(c) : mem[Nth(s, k)] = mem[Nth(r, k)]
    BY <1>4, <1>6, <1>10, <2>1
  <2>4. new = old
    BY <1>7, <2>1, <2>3
  <2> QED
    BY <1>1, <2>2, <2>4 DEF r, m, old, new
<1> QED
  BY <1>4, <1>6, <1>9, <1>10

\* The recursion that defines the fold.
AddStep(h, mem, s) == IF s = {} THEN <<>> ELSE MemAdd(h[s \ {Max(s)}], mem[Max(s)])
AddsOf(h, mem, S) == h = [s \in SUBSET S |-> AddStep(h, mem, s)]

\* The fold is that of the blocks at all places.
LEMMA AllAdded ==
  ASSUME NEW n \in Nat, NEW mem, DOMAIN mem = 1 .. n, Distinct(mem, n)
  PROVE  FoldLeft(MemAdd, <<>>, mem) = Filled(mem, 1 .. n)
<1> DEFINE S == 1 .. n
           f == [s \in SUBSET S |-> Filled(mem, s)]
           E(g) == g = [s \in SUBSET S |->
                          IF s = {} THEN <<>> ELSE LET x == Max(s) IN MemAdd(g[s \ {x}], mem[x])]
<1>1. FoldLeft(MemAdd, <<>>, mem) = (CHOOSE g : E(g))[S]
  <2>1. S = DOMAIN mem
    OBVIOUS
  <2> HIDE DEF S
  <2> QED
    BY <2>1, Zenon DEF FoldLeft, MapThenFoldSet
<1>2. \A g : E(g) <=> AddsOf(g, mem, S)
  BY DEF AddsOf, AddStep
<1>3. AddsOf(f, mem, S)
  <2> SUFFICES ASSUME NEW s \in SUBSET S
               PROVE  Filled(mem, s) = AddStep(f, mem, s)
    BY DEF AddsOf
  <2>1. CASE s = {}
    <3>1. Capped(Cardinality({})) = 0
      BY FS_EmptySet, MemIndexAssumption DEF Capped
    <3>2. Filled(mem, {}) = <<>>
      BY <3>1 DEF Filled
    <3> QED
      BY <2>1, <3>2 DEF AddStep
  <2>2. CASE s # {}
    <3>1. Filled(mem, s) = MemAdd(Filled(mem, s \ {Max(s)}), mem[Max(s)])
      BY <2>2, FilledMore
    <3>2. f[s \ {Max(s)}] = Filled(mem, s \ {Max(s)})
      OBVIOUS
    <3> QED
      BY <2>2, <3>1, <3>2 DEF AddStep
  <2> QED
    BY <2>1, <2>2
<1>4. f[S] = Filled(mem, S)
  OBVIOUS
<1> HIDE DEF E, f
<1>5. PICK h : E(CHOOSE g : E(g)) /\ h = CHOOSE g : E(g)
  BY <1>2, <1>3
<1>6. AddsOf(h, mem, S)
  BY <1>2, <1>5
<1>7. \A s \in SUBSET S : h[s] = f[s]
  <2> DEFINE F == {s \in SUBSET S : h[s] = f[s]}
  <2>1. ASSUME NEW s \in SUBSET S, \A t \in SUBSET s : t # s => t \in F
        PROVE  s \in F
    <3>1. CASE s = {}
      BY <1>3, <1>6, <3>1 DEF AddsOf, AddStep
    <3>2. CASE s # {}
      <4>1. Max(s) \in s
        BY <3>2, FilledMore
      <4>2. h[s \ {Max(s)}] = f[s \ {Max(s)}]
        BY <2>1, <4>1
      <4>3. /\ h[s] = MemAdd(h[s \ {Max(s)}], mem[Max(s)])
            /\ f[s] = MemAdd(f[s \ {Max(s)}], mem[Max(s)])
        <5> HIDE DEF S
        <5> QED
          BY <1>3, <1>6, <3>2 DEF AddsOf, AddStep
      <4> QED
        BY <4>2, <4>3
    <3> QED
      BY <3>1, <3>2
  <2>2. IsFiniteSet(S)
    BY FS_Interval
  <2>3. \A s \in SUBSET S : s \in F
    <3> HIDE DEF F, S
    <3> QED
      BY <2>1, <2>2, SubsetInduction
  <2> QED
    BY <2>3
<1> QED
  BY <1>1, <1>4, <1>5, <1>7

\* A memory index that is given the blocks keeps them in their order, up to its
\* limit.
LEMMA MemoryKeeps ==
  ASSUME Based(store), WithinRange(store)
  PROVE  LET mem == InMemory(store) IN
           FoldLeft(MemAdd, <<>>, mem) = SubSeq(mem, 1, Min({Len(mem), MemIndexSizeLimit}))
<1> DEFINE V == Visible(store)
           n == Cardinality(V)
           mem == InMemory(store)
<1>1. V \in SUBSET Nat /\ IsFiniteSet(V)
  BY AllVisited
<1>2. n \in Nat /\ Len(mem) = n /\ DOMAIN mem = 1 .. n /\ mem \in Seq(Range(mem))
      /\ \A k \in 1 .. n : mem[k] = store.files[Nth(V, k)]
  BY <1>1, ListedFacts DEF InMemory
<1>3. \A k \in 1 .. n : Nth(V, k) \in V /\ Rank(V, Nth(V, k)) = k
  BY <1>1, NthFacts
<1>4. Distinct(mem, n)
  <2>1. \A k \in 1 .. n : Index(mem[k]) = Nth(V, k)
    BY <1>2, <1>3 DEF Based, Visible
  <2> HIDE DEF n, mem, V
  <2> QED
    BY <1>3, <2>1 DEF Distinct
<1> HIDE DEF mem, V, n
<1>5. FoldLeft(MemAdd, <<>>, mem) = Filled(mem, 1 .. n)
  BY <1>2, <1>4, AllAdded
<1>6. Cardinality(1 .. n) = n /\ \A k \in 1 .. n : Nth(1 .. n, k) = k
  <2> DEFINE a == 1
  <2>1. a \in {0, 1} /\ n >= a - 1 /\ n - a + 1 = n /\ \A k \in 1 .. n : k + a - 1 = k
    BY <1>2
  <2> HIDE DEF a
  <2>2. /\ Cardinality(a .. n) = n - a + 1
        /\ \A k \in 1 .. (n - a + 1) : Nth(a .. n, k) = k + a - 1
    BY <1>2, <2>1, IntervalPlaces
  <2> QED
    BY <2>1, <2>2 DEF a
<1> DEFINE c == Capped(n)
<1>7. c \in 0 .. n /\ c = Min({n, MemIndexSizeLimit})
  <2> DEFINE S == {n, MemIndexSizeLimit}
  <2>1. MemIndexSizeLimit \in Nat
    BY MemIndexAssumption
  <2>2. S \in SUBSET Nat /\ S # {}
    BY <1>2, <2>1
  <2>3. n \in S /\ MemIndexSizeLimit \in S /\ \A x \in S : x = n \/ x = MemIndexSizeLimit
    OBVIOUS
  <2> HIDE DEF S
  <2>4. Min(S) \in S /\ \A x \in S : Min(S) <= x
    BY <2>2, MinNat
  <2>6. Min(S) <= n /\ Min(S) <= MemIndexSizeLimit /\ (Min(S) = n \/ Min(S) = MemIndexSizeLimit)
    BY <2>3, <2>4
  <2>7. c = IF n <= MemIndexSizeLimit THEN n ELSE MemIndexSizeLimit
    BY DEF Capped
  <2> HIDE DEF c
  <2>5. c = Min(S)
    BY <1>2, <2>1, <2>6, <2>7
  <2> QED
    BY <1>2, <2>1, <2>5, <2>6, <2>7 DEF S
<1>8. Filled(mem, 1 .. n) = [k \in 1 .. c |-> mem[k]]
  <2>1. \A k \in 1 .. c : k \in 1 .. n
    BY <1>2, <1>7
  <2> HIDE DEF c
  <2> QED
    BY <1>6, <2>1 DEF Filled, c
<1> HIDE DEF c
<1>9. SubSeq(mem, 1, c) = [k \in 1 .. c |-> mem[k]]
  <2>1. 1 \in 1 .. Len(mem) + 1 /\ c \in 1 - 1 .. Len(mem) /\ c - 1 + 1 = c
    BY <1>2, <1>7
  <2> DEFINE q == SubSeq(mem, 1, c)
  <2>2. q \in Seq(Range(mem)) /\ Len(q) = c /\ \A k \in 1 .. c : q[k] = mem[k]
    <3>1. \A k \in 1 .. c : mem[k] \in Range(mem)
      BY <1>2, <2>1 DEF Range
    <3>2. 1 \in Int /\ c \in Int /\ c \in Nat
      BY <1>2, <1>7
    <3>3. /\ q \in Seq(Range(mem)) /\ Len(q) = IF 1 <= c THEN c - 1 + 1 ELSE 0
          /\ \A k \in 1 .. c - 1 + 1 : q[k] = mem[1 + k - 1]
      BY <3>1, <3>2, SubSeqProperties
    <3> HIDE DEF q
    <3> QED
      BY <3>2, <3>3
  <2>3. q = [k \in 1 .. c |-> q[k]]
    BY <2>2, LenProperties
  <2> HIDE DEF q
  <2> QED
    BY <2>2, <2>3 DEF q
<1> QED
  BY <1>2, <1>5, <1>7, <1>8, <1>9 DEF mem

\* All that ModesAgree says.
LEMMA ModesDoAgree ==
  ASSUME Based(store), WithinRange(store)
  PROVE  ModesAgree
<1> DEFINE mem == InMemory(store)
           last == LastBlockId(store)
<1>1. FoldLeft(MemAdd, <<>>, mem) = SubSeq(mem, 1, Min({Len(mem), MemIndexSizeLimit}))
  BY MemoryKeeps
<1>2. Same(MemLastBlock(mem), last)
  BY SameLast
<1>3. \A i \in Visible(store) \ PaddedIndexes :
        Same(MemByHash(mem, store.files[i].hash), GetBlock(store, "hash", store.files[i].hash))
  BY SameByHash
<1>4. (\A i \in Visible(store) : Cardinality(store.files[i].signers) = 1) =>
        \A a \in {Me, Peer} : Same(MemByApprover(mem, a), BlockByApprover(store, a))
  BY SameByApprover
<1>5. \A param \in TxParams : GetTransaction(store, FALSE, param, Me) = NoTx
  BY DEF GetTransaction, MemLastTx, NoTx, NoId
<1>6. last = store.lastSavedId /\ last > store.firstSavedId =>
        MemRemove(mem, last) = InMemory(RemoveById(store, last))
  BY LastRemoved
<1>7. Counted(store) /\ Visible(store) = store.firstSavedId .. store.lastSavedId =>
        CheckIntegrity(store, FALSE) = FirstUnlinked(mem)
  BY SamePositions
<1> HIDE DEF mem, last
<1> QED
  BY <1>1, <1>2, <1>3, <1>4, <1>5, <1>6, <1>7 DEF ModesAgree, mem, last

\* Whatever blocks a peer sends, while the process is up: every block the node
\* stored is found; a transaction in one is, as long as records counts the files;
\* balances stay within the supply; and the memory index would answer as the files
\* do; for a node that never restarts on an empty highest directory.
THEOREM SearchesFind == PeerSpec /\ StartsOnFiles => []SearchFinds
<1>1. PeerBase /\ StoredWithinRange => SearchFinds
  <2> SUFFICES ASSUME PeerBase, StoredWithinRange, running
               PROVE  /\ BlocksFound
                      /\ Counted(store) => \A tx \in Txs : InBlock(store, tx) => TxFound(tx)
                      /\ \A tx \in Range(TxsOf(store, LastBlockId(store))) :
                           VerifyTx(store, tx) # "verified"
                      /\ CoinsStated
                      /\ ModesAgree
    BY DEF SearchFinds
  <2>1. Based(store) /\ WithinRange(store) /\ Conserving(ec)
    BY DEF PeerBase, StoredWithinRange
  <2>2. BlocksFound /\ CoinsStated /\ ModesAgree
    BY <2>1, FoundById, CoinsAreStated, ModesDoAgree
  <2>3. Counted(store) => \A tx \in Txs : InBlock(store, tx) => TxFound(tx)
    BY <2>1, TxIsFound
  <2>4. \A tx \in Range(TxsOf(store, LastBlockId(store))) : VerifyTx(store, tx) # "verified"
    BY Recognised
  <2> QED
    BY <2>2, <2>3, <2>4
<1> QED
  BY <1>1, PeerBaseHolds, PeerBlocksCovered, PTL
=============================================================================
