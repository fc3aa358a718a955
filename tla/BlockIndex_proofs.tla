------------------------- MODULE BlockIndex_proofs -------------------------
(***************************************************************************)
(* IndexInv is an invariant of BlockIndex for every SectionSize and every  *)
(* MaxIndex.  From it follow type correctness, RangeLostOnlyAtStart,       *)
(* CountLostOnlyAtStart, DummiesDropped, and that no block is ever out of  *)
(* range while all of them fit one section.                                *)
(***************************************************************************)
EXTENDS BlockIndex, BlockStore_proofs

\* A kill in the middle of add: the file is there, the counters are not told.
LEMMA UncountedInsertFacts ==
  ASSUME StoreTypeOK(store, MaxIndex), FilesInSections(store),
         NEW id \in Indexes, NEW blk, blk.type \in FileTypes
  PROVE  LET t == [Insert(store, id, blk) EXCEPT
                     !.firstSavedId = store.firstSavedId,
                     !.lastSavedId = store.lastSavedId]
         IN StoreTypeOK(t, MaxIndex) /\ FilesInSections(t)
<1> DEFINE u == Insert(store, id, blk)
           t == [u EXCEPT !.firstSavedId = store.firstSavedId,
                          !.lastSavedId = store.lastSavedId]
<1>1. StoreTypeOK(u, MaxIndex) /\ FilesInSections(u)
  BY InsertFacts, MaxIndexAssumption DEF Indexes
<1> HIDE DEF u
<1>2. /\ t = [files |-> u.files, sections |-> u.sections, records |-> u.records,
              firstSavedId |-> store.firstSavedId, lastSavedId |-> store.lastSavedId]
      /\ Ids(t) = Ids(u)
  <2>1. u = [files |-> u.files, sections |-> u.sections, records |-> u.records,
             firstSavedId |-> u.firstSavedId, lastSavedId |-> u.lastSavedId]
    BY <1>1 DEF StoreTypeOK
  <2>2. t = [u EXCEPT !.firstSavedId = store.firstSavedId,
                      !.lastSavedId = store.lastSavedId]
    OBVIOUS
  <2> HIDE DEF t
  <2>3. t = [files |-> u.files, sections |-> u.sections, records |-> u.records,
             firstSavedId |-> store.firstSavedId, lastSavedId |-> store.lastSavedId]
    BY <2>1, <2>2
  <2> QED
    BY <2>3 DEF Ids
<1> HIDE DEF t
<1>3. StoreTypeOK(t, MaxIndex)
  BY <1>1, <1>2 DEF StoreTypeOK
<1>4. FilesInSections(t)
  BY <1>1, <1>2 DEF FilesInSections
<1> QED
  BY <1>3, <1>4 DEF t, u

\* A kill in the middle of removeById.
LEMMA CrashInRemoveFacts ==
  ASSUME StoreTypeOK(store, MaxIndex), FilesInSections(store),
         NEW id \in Indexes, NEW k \in Indexes, CrashInRemove(id, k)
  PROVE  StoreTypeOK(store', MaxIndex) /\ FilesInSections(store')
<1> DEFINE touched == {Section(i) : i \in id .. k}
           kept == Restrict(store.files, Ids(store) \ (id .. k - 1))
<1>1. store = [files |-> store.files, sections |-> store.sections,
               records |-> store.records, firstSavedId |-> store.firstSavedId,
               lastSavedId |-> store.lastSavedId]
  BY DEF StoreTypeOK
<1>2. store' = [store EXCEPT !.files = kept, !.sections = @ \cup touched]
  BY DEF CrashInRemove
<1>3. /\ DOMAIN kept = Ids(store) \ (id .. k - 1)
      /\ \A i \in DOMAIN kept : kept[i] = store.files[i]
  BY DEF Restrict
<1>4. touched \subseteq {Section(i) : i \in 0 .. MaxIndex}
  <2>1. id .. k \subseteq 0 .. MaxIndex
    BY MaxIndexAssumption DEF Indexes
  <2> QED
    BY <2>1
<1> HIDE DEF kept, touched
<1>5. /\ store' = [files |-> kept, sections |-> store.sections \cup touched,
                   records |-> store.records, firstSavedId |-> store.firstSavedId,
                   lastSavedId |-> store.lastSavedId]
      /\ Ids(store') = DOMAIN kept
  BY <1>1, <1>2 DEF Ids
<1>6. StoreTypeOK(store', MaxIndex)
  BY <1>3, <1>4, <1>5 DEF StoreTypeOK
<1>7. FilesInSections(store')
  BY <1>3, <1>5 DEF FilesInSections
<1> QED
  BY <1>6, <1>7

-----------------------------------------------------------------------------

\* The first start finds an empty store.
LEMMA InitIndexInv == Init => IndexInv
<1> SUFFICES ASSUME Init PROVE IndexInv
  OBVIOUS
<1>1. StoreTypeOK(EmptyStore, MaxIndex) /\ Ids(EmptyStore) = {}
  BY EmptyStoreFacts, MaxIndexAssumption
<1> QED
  BY <1>1 DEF Init, IndexInv, TypeOK, FilesInSections, FirstBelow

\* Each step keeps IndexInv, and keeps the range around the files unless it is
\* a restart on an empty top section.
LEMMA StepIndexInv ==
  ASSUME IndexInv, [Next]_vars
  PROVE  /\ IndexInv'
         /\ StoredWithinRange =>
              StoredWithinRange' \/ (Start /\ TopSectionEmpty(store))
<1> DEFINE Kept == IndexInv' /\ (StoredWithinRange => StoredWithinRange')
<1> USE MaxIndexAssumption
<1>0. /\ StoreTypeOK(store, MaxIndex) /\ FilesInSections(store)
      /\ running \in BOOLEAN /\ running => FirstBelow(store)
  BY DEF IndexInv, TypeOK
<1>a. ASSUME running' = FALSE, StoreTypeOK(store', MaxIndex), FilesInSections(store')
      PROVE  Kept
  BY <1>a DEF IndexInv, TypeOK, StoredWithinRange
<1>b. ASSUME running, running' = running,
             StoreTypeOK(store', MaxIndex), FilesInSections(store'),
             FirstBelow(store'), WithinRange(store) => WithinRange(store')
      PROVE  Kept
  BY <1>0, <1>b DEF IndexInv, TypeOK, StoredWithinRange
<1>1. CASE Start
  <2>1. /\ StoreTypeOK(store', MaxIndex) /\ FilesInSections(store')
        /\ FirstBelow(store')
        /\ ~TopSectionEmpty(store) => WithinRange(store')
    BY <1>0, <1>1, ReloadFacts DEF Start
  <2>2. IndexInv'
    BY <1>1, <2>1 DEF Start, IndexInv, TypeOK
  <2> QED
    BY <1>1, <2>1, <2>2 DEF StoredWithinRange
<1>2. CASE Stop
  BY <1>0, <1>2, <1>a DEF Stop
<1>3. CASE RemoveDummies
  <2>1. /\ StoreTypeOK(store', MaxIndex) /\ FilesInSections(store')
        /\ FirstBelow(store')
        /\ WithinRange(store) => WithinRange(store')
    BY <1>0, <1>3, RemoveDummyBlocksFacts DEF RemoveDummies
  <2> QED
    BY <1>3, <1>b, <2>1 DEF RemoveDummies
<1>4. CASE Clear
  <2>1. /\ StoreTypeOK(store', MaxIndex) /\ Ids(store') = {}
    BY <1>4, EmptyStoreFacts DEF Clear, RemoveAll
  <2> QED
    BY <1>4, <1>b, <2>1 DEF Clear, FilesInSections, FirstBelow, WithinRange
<1>5. ASSUME NEW id \in Indexes, GetBlockById(id) PROVE Kept
  <2>1. {id} \in SUBSET (NoId .. MaxIndex)
    BY DEF Indexes, NoId
  <2>2. /\ StoreTypeOK(store', MaxIndex) /\ FilesInSections(store')
        /\ Ids(store') = Ids(store)
        /\ store'.firstSavedId = store.firstSavedId
        /\ store'.lastSavedId = store.lastSavedId
    BY <1>0, <1>5, <2>1, TouchFacts DEF GetBlockById
  <2> QED
    BY <1>0, <1>5, <1>b, <2>2 DEF GetBlockById, FirstBelow, WithinRange
<1>6. ASSUME NEW id \in Indexes, RemoveBlockById(id) PROVE Kept
  <2>1. /\ StoreTypeOK(store', MaxIndex) /\ FilesInSections(store')
        /\ FirstBelow(store')
        /\ WithinRange(store) => WithinRange(store')
    BY <1>0, <1>6, RemoveByIdFacts DEF RemoveBlockById, Indexes
  <2> QED
    BY <1>6, <1>b, <2>1 DEF RemoveBlockById
<1>7. ASSUME NEW id \in Indexes, NEW blk \in Blocks, AddBlock(id, blk) PROVE Kept
  <2>1. blk.type \in FileTypes
    BY DEF Blocks, FileTypes
  <2>2. /\ StoreTypeOK(store', MaxIndex) /\ FilesInSections(store')
        /\ FirstBelow(store')
        /\ WithinRange(store) => WithinRange(store')
    BY <1>0, <1>7, <2>1, InsertFacts DEF AddBlock, Indexes
  <2> QED
    BY <1>7, <1>b, <2>2 DEF AddBlock
<1>8. ASSUME NEW id \in Indexes, NEW blk \in Blocks, CrashInAdd(id, blk) PROVE Kept
  <2>1. /\ running' = FALSE
        /\ \/ store' = Touch(store, {id})
           \/ \E f \in {Torn, blk} :
                store' = [Insert(store, id, f) EXCEPT
                            !.firstSavedId = store.firstSavedId,
                            !.lastSavedId = store.lastSavedId]
    BY <1>8 DEF CrashInAdd
  <2>2. CASE store' = Touch(store, {id})
    <3>1. {id} \in SUBSET (NoId .. MaxIndex)
      BY DEF Indexes, NoId
    <3>2. StoreTypeOK(store', MaxIndex) /\ FilesInSections(store')
      BY <1>0, <2>2, <3>1, TouchFacts
    <3> QED
      BY <1>a, <2>1, <3>2
  <2>3. ASSUME NEW f \in {Torn, blk},
               store' = [Insert(store, id, f) EXCEPT
                           !.firstSavedId = store.firstSavedId,
                           !.lastSavedId = store.lastSavedId]
        PROVE  Kept
    <3>1. f.type \in FileTypes
      BY DEF Torn, Blocks, FileTypes
    <3>2. StoreTypeOK(store', MaxIndex) /\ FilesInSections(store')
      BY <1>0, <2>3, <3>1, UncountedInsertFacts
    <3> QED
      BY <1>a, <2>1, <3>2
  <2> QED
    BY <2>1, <2>2, <2>3
<1>9. ASSUME NEW id \in Indexes, NEW k \in Indexes, CrashInRemove(id, k) PROVE Kept
  <2>1. StoreTypeOK(store', MaxIndex) /\ FilesInSections(store')
    BY <1>0, <1>9, CrashInRemoveFacts
  <2> QED
    BY <1>9, <1>a, <2>1 DEF CrashInRemove
<1>10. CASE UNCHANGED vars
  BY <1>10 DEF vars, IndexInv, TypeOK, StoredWithinRange
<1> QED
  BY <1>1, <1>2, <1>3, <1>4, <1>5, <1>6, <1>7, <1>8, <1>9, <1>10 DEF Next

-----------------------------------------------------------------------------

\* The inductive invariant of BlockIndex.
THEOREM IndexInvariant == Spec => []IndexInv
<1>1. IndexInv /\ [Next]_vars => IndexInv'
  BY StepIndexInv
<1> QED
  BY InitIndexInv, <1>1, PTL DEF Spec

\* Type correctness: in particular the counters stay in their ranges.
THEOREM TypeCorrect == Spec => []TypeOK
<1>1. IndexInv => TypeOK
  BY DEF IndexInv
<1> QED
  BY IndexInvariant, <1>1, PTL

\* Whatever the sequence of calls, kills and restarts, a block file leaves the
\* range of the scans in one way only: a start on an empty top section.
THEOREM RangeLoss == Spec => RangeLostOnlyAtStart
<1>1. IndexInv /\ [Next]_vars =>
        [StoredWithinRange /\ ~StoredWithinRange'
           => Start /\ TopSectionEmpty(store)]_vars
  BY StepIndexInv
<1> QED
  BY IndexInvariant, <1>1, PTL DEF Spec, RangeLostOnlyAtStart

\* While the process is up, no call makes records disagree with the files.
THEOREM CountLoss == Spec => CountLostOnlyAtStart
<1>1. ASSUME IndexInv, [Next]_vars, running, Counted(store), running'
      PROVE  Counted(store')
  <2> USE MaxIndexAssumption
  <2>0. StoreTypeOK(store, MaxIndex)
    BY <1>1 DEF IndexInv, TypeOK
  <2>1. CASE RemoveDummies
    BY <1>1, <2>0, <2>1, RemoveDummyBlocksCounts DEF RemoveDummies
  <2>2. CASE Clear
    BY <2>2, EmptyStoreCounts DEF Clear, RemoveAll
  <2>3. ASSUME NEW id \in Indexes, GetBlockById(id) PROVE Counted(store')
    BY <1>1, <2>0, <2>3, TouchCounts DEF GetBlockById
  <2>4. ASSUME NEW id \in Indexes, RemoveBlockById(id) PROVE Counted(store')
    BY <1>1, <2>0, <2>4, RemoveByIdCounts DEF RemoveBlockById, Indexes
  <2>5. ASSUME NEW id \in Indexes, NEW blk \in Blocks, AddBlock(id, blk)
        PROVE  Counted(store')
    BY <1>1, <2>0, <2>5, InsertCounts DEF AddBlock, Indexes
  <2>6. CASE UNCHANGED vars
    BY <1>1, <2>6 DEF vars
  <2> QED
    BY <1>1, <2>1, <2>2, <2>3, <2>4, <2>5, <2>6
    DEF Next, Start, Stop, CrashInAdd, CrashInRemove
<1>2. IndexInv /\ [Next]_vars =>
        [running /\ Counted(store) /\ ~Counted(store') => ~running']_vars
  BY <1>1
<1> QED
  BY IndexInvariant, <1>2, PTL DEF Spec, CountLostOnlyAtStart

\* A number of a set that no other is above is its top.
LEMMA TopIs ==
  ASSUME NEW S \in SUBSET Int, NEW n \in S, \A i \in S : i <= n
  PROVE  Top(S) = n
<1>1. Max(S) \in S /\ \A i \in S : i <= Max(S)
  BY MaxInt
<1>2. Max(S) \in Int /\ n \in Int /\ Max(S) <= n /\ n <= Max(S)
  BY <1>1
<1>3. Max(S) = n
  BY <1>2
<1> QED
  BY <1>3 DEF Top

\* The loop of removeById leaves the other files as they were.
LEMMA RemoveRangeLeaves ==
  ASSUME NEW b \in Nat, NEW s, StoreTypeOK(s, b), NEW id \in 0 .. b
  PROVE  LET t == RemoveRange(s, id)
         IN /\ Ids(t) = Ids(s) \ {i \in Ids(s) : id <= i /\ i <= s.lastSavedId}
            /\ \A i \in Ids(t) : t.files[i] = s.files[i]
            /\ t.firstSavedId = s.firstSavedId /\ t.lastSavedId = id - 1
<1> DEFINE t == RemoveRange(s, id)
           gone == {i \in Ids(s) : id <= i /\ i <= s.lastSavedId}
           touched == {Section(i) : i \in id .. s.lastSavedId}
           kept == Restrict(s.files, Ids(s) \ gone)
<1>1. s = [files |-> s.files, sections |-> s.sections, records |-> s.records,
           firstSavedId |-> s.firstSavedId, lastSavedId |-> s.lastSavedId]
  BY DEF StoreTypeOK
<1>2. t = [s EXCEPT !.files = kept, !.sections = @ \cup touched,
                    !.records = @ - Cardinality(gone), !.lastSavedId = id - 1]
  BY DEF RemoveRange
<1>3. DOMAIN kept = Ids(s) \ gone /\ \A i \in DOMAIN kept : kept[i] = s.files[i]
  BY DEF Restrict
<1> HIDE DEF t, kept, gone, touched
<1>4. t.files = kept /\ t.firstSavedId = s.firstSavedId /\ t.lastSavedId = id - 1
  BY <1>1, <1>2
<1> QED
  BY <1>3, <1>4 DEF Ids, t, gone

\* Where removeDummyBlocks stops, and what is left then: the files up to there,
\* and those that were above lastSavedId.
LEMMA RemoveDummyBlocksLeaves ==
  ASSUME NEW b \in Nat, NEW s, StoreTypeOK(s, b), FirstBelow(s)
  PROVE  LET t == RemoveDummyBlocks(s)
             n == DummyStop(s)
         IN /\ Ids(t) = {i \in Ids(s) : ~ (n < i /\ i <= s.lastSavedId)}
            /\ \A i \in Ids(t) : t.files[i] = s.files[i]
            /\ t.firstSavedId = s.firstSavedId /\ t.lastSavedId = n
<1> DEFINE t == RemoveDummyBlocks(s)
           n == DummyStop(s)
           seen == Touch(s, {n})
<1>1. /\ n \in NoId .. b /\ s.lastSavedId \in NoId .. b /\ n <= s.lastSavedId
      /\ \A i \in n + 1 .. s.lastSavedId : IsDummy(s, i)
  BY DummyStopFacts DEF StoreTypeOK, NoId
<1>2. /\ StoreTypeOK(seen, b)
      /\ seen.files = s.files /\ Ids(seen) = Ids(s)
      /\ seen.firstSavedId = s.firstSavedId /\ seen.lastSavedId = s.lastSavedId
  <2>1. {n} \in SUBSET (NoId .. b)
    BY <1>1
  <2> QED
    BY <2>1, TouchFacts
<1>3. Ids(s) \subseteq 0 .. b /\ s.firstSavedId \in 0 .. b
  BY DEF StoreTypeOK
<1>4. CASE n = s.lastSavedId
  <2>1. t = seen
    BY <1>4 DEF RemoveDummyBlocks
  <2> HIDE DEF seen, t, n
  <2>2. Ids(t) = {i \in Ids(s) : ~ (n < i /\ i <= s.lastSavedId)}
    BY <1>1, <1>2, <1>3, <1>4, <2>1 DEF NoId
  <2> QED
    BY <1>2, <1>4, <2>1, <2>2 DEF t, n
<1>5. CASE n # s.lastSavedId
  <2>1. n + 1 \in 0 .. b /\ n + 1 \in n + 1 .. s.lastSavedId
    BY <1>1, <1>5 DEF NoId
  <2>2. s.firstSavedId <= n + 1
    BY <1>1, <2>1 DEF IsDummy, FirstBelow
  <2>3. t = RemoveById(seen, n + 1)
    BY <1>5 DEF RemoveDummyBlocks
  <2> HIDE DEF seen, t, n
  <2>4. ~ (n + 1 < seen.firstSavedId)
    BY <1>1, <1>2, <1>3, <2>2 DEF NoId
  <2>5. t = RemoveRange(seen, n + 1)
    BY <2>3, <2>4 DEF RemoveById
  <2> DEFINE id == n + 1
  <2> HIDE DEF id
  <2>6. id \in 0 .. b /\ id = n + 1 /\ t = RemoveRange(seen, id)
    BY <2>1, <2>5 DEF id
  <2>7. /\ Ids(t) = Ids(seen) \ {i \in Ids(seen) : id <= i /\ i <= seen.lastSavedId}
        /\ \A i \in Ids(t) : t.files[i] = seen.files[i]
        /\ t.firstSavedId = seen.firstSavedId /\ t.lastSavedId = id - 1
    BY <1>2, <2>6, RemoveRangeLeaves
  <2>8. Ids(t) = {i \in Ids(s) : ~ (n < i /\ i <= s.lastSavedId)}
    BY <1>1, <1>2, <1>3, <2>6, <2>7 DEF NoId
  <2>9. t.lastSavedId = n
    BY <1>1, <2>6, <2>7 DEF NoId
  <2> QED
    BY <1>2, <2>7, <2>8, <2>9 DEF t, n
<1> QED
  BY <1>4, <1>5

\* What dropping the dummy blocks leaves for the scans: every block that is not
\* one, the same last block that is not one, and that one on top unless the loop
\* stopped at an identifier without a readable block.
LEMMA RemoveDummyBlocksScans ==
  ASSUME NEW b \in Nat, NEW s, StoreTypeOK(s, b), FirstBelow(s)
  PROVE  LET t == RemoveDummyBlocks(s)
         IN /\ \A i \in Ids(s) : ~IsDummy(s, i) => i \in Ids(t)
            /\ LastRealId(t) = LastRealId(s)
            /\ \/ LastBlockId(t) = LastRealId(s)
               \/ \E i \in s.firstSavedId .. s.lastSavedId : i \notin Visible(s)
<1> DEFINE t == RemoveDummyBlocks(s)
           n == DummyStop(s)
           Real(u) == {i \in Visible(u) : u.files[i].type # "dummy"}
<1>1. /\ n \in NoId .. s.lastSavedId /\ n \in Int
      /\ \A i \in n + 1 .. s.lastSavedId : IsDummy(s, i)
      /\ s.lastSavedId \in Int
  BY DummyStopFacts DEF StoreTypeOK, NoId
<1>2. ~IsDummy(s, n)
  <2> DEFINE S == {i \in NoId .. s.lastSavedId : ~IsDummy(s, i)}
  <2>1. NoId \in S
    BY <1>1 DEF IsDummy, StoreTypeOK, NoId
  <2>2. S \in SUBSET Int /\ \A x \in S : x <= s.lastSavedId
    BY <1>1
  <2>3. Max(S) \in S
    <3> HIDE DEF S
    <3> QED
      BY <1>1, <2>1, <2>2, MaxInt
  <2> QED
    BY <2>3 DEF DummyStop
<1>3. /\ Ids(t) = {i \in Ids(s) : ~ (n < i /\ i <= s.lastSavedId)}
      /\ \A i \in Ids(t) : t.files[i] = s.files[i]
      /\ t.firstSavedId = s.firstSavedId /\ t.lastSavedId = n
  BY RemoveDummyBlocksLeaves
<1>4. /\ Ids(s) \subseteq 0 .. b /\ Ids(s) \subseteq Int
      /\ s.firstSavedId \in 0 .. b /\ s.firstSavedId \in Int
  BY DEF StoreTypeOK
<1> HIDE DEF t, n
<1>5. \A i \in Ids(s) : ~IsDummy(s, i) => i \in Ids(t)
  BY <1>1, <1>3, <1>4
<1>6. Visible(t) = {i \in Visible(s) : i <= n}
  <2>1. ASSUME NEW i \in Visible(t) PROVE i \in Visible(s) /\ i <= n
    BY <1>1, <1>3, <1>4, <2>1 DEF Visible
  <2>2. ASSUME NEW i \in Visible(s), i <= n PROVE i \in Visible(t)
    BY <1>1, <1>3, <1>4, <2>2 DEF Visible
  <2> QED
    BY <2>1, <2>2
<1>7. Real(t) = Real(s)
  <2>1. ASSUME NEW i \in Real(t) PROVE i \in Real(s)
    BY <1>3, <1>6, <2>1 DEF Visible
  <2>2. ASSUME NEW i \in Real(s) PROVE i \in Real(t)
    <3>1. i \in Ids(s) /\ i \in Int /\ i <= s.lastSavedId /\ ~IsDummy(s, i)
      BY <1>4, <2>2 DEF Visible, IsDummy
    <3>2. i <= n
      BY <1>1, <3>1
    <3>3. i \in Visible(t)
      BY <1>6, <2>2, <3>2
    <3> QED
      BY <1>3, <2>2, <3>3 DEF Visible
  <2> QED
    BY <2>1, <2>2
<1>8. LastRealId(t) = LastRealId(s)
  BY <1>7 DEF LastRealId
<1>9. CASE n \in Visible(s)
  <2>1. n \in Visible(t) /\ \A i \in Visible(t) : i <= n
    BY <1>1, <1>6, <1>9
  <2>2. Visible(t) \in SUBSET Int /\ Real(t) \in SUBSET Int
    BY <1>4, <1>6 DEF Visible
  <2>3. n \in Real(t)
    BY <1>2, <1>3, <1>9, <2>1 DEF Visible, IsDummy
  <2>4. Top(Visible(t)) = n
    BY <2>1, <2>2, TopIs
  <2>5. Top(Real(t)) = n
    BY <2>1, <2>2, <2>3, TopIs
  <2> QED
    BY <1>5, <1>8, <2>4, <2>5 DEF LastRealId, LastBlockId, t
<1>10. CASE n \notin Visible(s) /\ s.firstSavedId <= n
  <2>1. n \in s.firstSavedId .. s.lastSavedId
    BY <1>1, <1>4, <1>10
  <2> QED
    BY <1>5, <1>8, <1>10, <2>1 DEF t
<1>11. CASE ~ (s.firstSavedId <= n)
  <2>1. Visible(t) = {}
    BY <1>1, <1>4, <1>6, <1>11 DEF Visible
  <2>2. Real(t) = {}
    BY <2>1
  <2> QED
    BY <1>5, <1>8, <2>1, <2>2 DEF LastRealId, LastBlockId, t
<1> QED
  BY <1>9, <1>10, <1>11

\* No block but a dummy block is dropped with them, whatever holes, unreadable
\* files and lost ends of the range kills and restarts have left.
THEOREM DropsOnlyDummies == Spec => DummiesDropped
<1>1. ASSUME IndexInv, RemoveDummies
      PROVE  /\ \A i \in Ids(store) : ~IsDummy(store, i) => i \in Ids(store')
             /\ LastRealId(store') = LastRealId(store)
             /\ \/ LastBlockId(store') = LastRealId(store)
                \/ \E i \in store.firstSavedId .. store.lastSavedId :
                     i \notin Visible(store)
  <2>1. StoreTypeOK(store, MaxIndex) /\ FirstBelow(store)
    BY <1>1 DEF IndexInv, TypeOK, RemoveDummies
  <2>2. store' = RemoveDummyBlocks(store)
    BY <1>1 DEF RemoveDummies
  <2> QED
    BY <2>1, <2>2, MaxIndexAssumption, RemoveDummyBlocksScans
<1>2. IndexInv /\ [Next]_vars =>
        [RemoveDummies =>
           /\ \A i \in Ids(store) : ~IsDummy(store, i) => i \in Ids(store')
           /\ LastRealId(store') = LastRealId(store)
           /\ \/ LastBlockId(store') = LastRealId(store)
              \/ \E i \in store.firstSavedId .. store.lastSavedId :
                   i \notin Visible(store)]_vars
  BY <1>1
<1> QED
  BY IndexInvariant, <1>2, PTL DEF Spec, DummiesDropped

\* With no more identifiers than one section holds, a restart loses nothing
\* either: the range is an invariant until the chain grows past SECTION_SIZE.
THEOREM OneSection ==
  ASSUME MaxIndex < SectionSize
  PROVE  Spec => []StoredWithinRange
<1>1. \A i \in 0 .. MaxIndex : Section(i) = 0
  <2>1. ASSUME NEW i \in Nat, i < SectionSize PROVE i \div SectionSize = 0
    BY <2>1, SectionSizeAssumption
  <2> QED
    BY <2>1, MaxIndexAssumption, SectionSizeAssumption DEF Section
<1>2. IndexInv /\ [Next]_vars /\ StoredWithinRange => StoredWithinRange'
  <2> SUFFICES ASSUME IndexInv, [Next]_vars, StoredWithinRange,
                      Start, TopSectionEmpty(store)
               PROVE  WithinRange(store')
    BY StepIndexInv DEF StoredWithinRange
  <2>1. StoreTypeOK(store, MaxIndex) /\ FilesInSections(store)
    BY DEF IndexInv, TypeOK
  <2>2. Ids(store) = {}
    BY <1>1, <2>1, MaxIndexAssumption, SectionsExtrema
    DEF StoreTypeOK, TopSectionEmpty, InSection
  <2>3. Ids(store') = Ids(store)
    BY <2>1, MaxIndexAssumption, ReloadFacts DEF Start
  <2> QED
    BY <2>2, <2>3 DEF WithinRange
<1>3. Init => StoredWithinRange
  BY DEF Init, StoredWithinRange
<1> QED
  BY IndexInvariant, <1>2, <1>3, PTL DEF Spec
=============================================================================
