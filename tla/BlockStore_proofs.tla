------------------------- MODULE BlockStore_proofs -------------------------
(***************************************************************************)
(* Facts about the operators of BlockStore, for the proofs about the       *)
(* modules built from them: extrema of bounded sets, sections, what each   *)
(* operation does to the range firstSavedId .. lastSavedId, and sums over  *)
(* finite sets.                                                            *)
(***************************************************************************)
EXTENDS BlockStore, WellFoundedInduction, FiniteSetTheorems, TLAPS

\* A non-empty set of naturals has a least element.
LEMMA MinNat ==
  ASSUME NEW S \in SUBSET Nat, S # {}
  PROVE  Min(S) \in S /\ \A x \in S : Min(S) <= x
<1> DEFINE R == {ss \in Nat \X Nat : ss[1] < ss[2]}
<1>1. IsWellFoundedOn(R, Nat)
  BY NatLessThanWellFounded, Zenon DEF OpToRel
<1>2. PICK m \in S : \A x \in S : ~ (<<x, m>> \in R)
  <2> HIDE DEF R
  <2> QED
    BY <1>1, WFMin
<1>3. \A x \in S : m <= x
  <2> SUFFICES ASSUME NEW x \in S, ~ (m <= x) PROVE <<x, m>> \in R
    BY <1>2
  <2>1. x \in Nat /\ m \in Nat /\ x < m
    OBVIOUS
  <2> DEFINE ss == <<x, m>>
  <2>2. ss \in Nat \X Nat /\ ss[1] = x /\ ss[2] = m
    BY <2>1
  <2> QED
    BY <2>1, <2>2
<1> QED
  BY <1>3 DEF Min

\* A non-empty set of integers with an upper bound has a greatest element.
LEMMA MaxInt ==
  ASSUME NEW S \in SUBSET Int, S # {}, NEW b \in Int, \A x \in S : x <= b
  PROVE  Max(S) \in S /\ \A x \in S : x <= Max(S)
<1> DEFINE T == {n \in Nat : b - n \in S}
<1>1. T # {}
  <2>1. PICK x \in S : TRUE
    OBVIOUS
  <2>2. b - x \in Nat /\ b - (b - x) = x
    BY <2>1
  <2> QED
    BY <2>2
<1>2. PICK m \in T : \A n \in T : m <= n
  BY <1>1, MinNat
<1>3. \A x \in S : x <= b - m
  <2> TAKE x \in S
  <2>1. b - x \in Nat /\ b - (b - x) = x
    OBVIOUS
  <2>2. m <= b - x
    BY <1>2, <2>1
  <2> QED
    BY <2>2
<1> QED
  BY <1>2, <1>3 DEF Max

\* Sections of identifiers: naturals, monotonic, and not above the identifier.
LEMMA SectionFacts ==
  /\ \A i \in Nat : Section(i) \in Nat /\ Section(i) <= i
  /\ \A i, j \in Nat : i <= j => Section(i) <= Section(j)
<1>1. ASSUME NEW i \in Nat
      PROVE  i \div SectionSize \in Nat /\ i \div SectionSize <= i
  BY SectionSizeAssumption
<1>2. ASSUME NEW i \in Nat, NEW j \in Nat, i <= j
      PROVE  i \div SectionSize <= j \div SectionSize
  BY <1>2, SectionSizeAssumption
<1> QED
  BY <1>1, <1>2 DEF Section

-----------------------------------------------------------------------------
(* The operations, on a store with identifiers up to b *)

\* The block add writes is inside the range afterwards, and nothing leaves it.
LEMMA InsertFacts ==
  ASSUME NEW b \in Nat, NEW s, StoreTypeOK(s, b),
         NEW id \in 0 .. b, NEW blk, blk.type \in FileTypes
  PROVE  LET t == Insert(s, id, blk) IN
           /\ StoreTypeOK(t, b)
           /\ FilesInSections(s) => FilesInSections(t)
           /\ FirstBelow(s) => FirstBelow(t)
           /\ WithinRange(s) => WithinRange(t)
<1> DEFINE t == Insert(s, id, blk)
<1>1. /\ t = [files |-> t.files, sections |-> t.sections, records |-> t.records,
              firstSavedId |-> t.firstSavedId, lastSavedId |-> t.lastSavedId]
      /\ Ids(t) = Ids(s) \cup {id}
      /\ \A i \in Ids(t) : t.files[i] = IF i = id THEN blk ELSE s.files[i]
      /\ t.sections = s.sections \cup {Section(id)}
      /\ t.records = s.records + 1
      /\ t.firstSavedId = IF id < s.firstSavedId \/ s.firstSavedId = NoId
                          THEN id ELSE s.firstSavedId
      /\ t.lastSavedId = IF id > s.lastSavedId THEN id ELSE s.lastSavedId
  BY DEF Insert, Ids
<1>2. Section(id) \in {Section(i) : i \in 0 .. b}
  OBVIOUS
<1> HIDE DEF t
<1>3. StoreTypeOK(t, b)
  BY <1>1, <1>2 DEF StoreTypeOK, NoId
<1>4. FilesInSections(s) => FilesInSections(t)
  BY <1>1 DEF FilesInSections
<1>5. FirstBelow(s) => FirstBelow(t)
  BY <1>1 DEF FirstBelow, StoreTypeOK, NoId
<1>6. WithinRange(s) => WithinRange(t)
  BY <1>1 DEF WithinRange, StoreTypeOK, NoId
<1> QED
  BY <1>3, <1>4, <1>5, <1>6 DEF t

\* Touch changes no file and no counter.
LEMMA TouchFacts ==
  ASSUME NEW b \in Nat, NEW s, StoreTypeOK(s, b), NEW S \in SUBSET (NoId .. b)
  PROVE  LET t == Touch(s, S) IN
           /\ StoreTypeOK(t, b)
           /\ FilesInSections(s) => FilesInSections(t)
           /\ t.files = s.files /\ Ids(t) = Ids(s)
           /\ t.firstSavedId = s.firstSavedId /\ t.lastSavedId = s.lastSavedId
<1> DEFINE touched == {Section(i) : i \in S}
           t == Touch(s, S)
<1>1. /\ t = [files |-> s.files, sections |-> t.sections, records |-> s.records,
              firstSavedId |-> s.firstSavedId, lastSavedId |-> s.lastSavedId]
      /\ t.sections = s.sections \cup {Section(i) : i \in S}
      /\ Ids(t) = Ids(s)
  <2>1. s = [files |-> s.files, sections |-> s.sections, records |-> s.records,
             firstSavedId |-> s.firstSavedId, lastSavedId |-> s.lastSavedId]
    BY DEF StoreTypeOK
  <2>2. t = [s EXCEPT !.sections = @ \cup touched]
    BY DEF Touch
  <2> HIDE DEF t, touched
  <2>3. t = [files |-> s.files, sections |-> s.sections \cup touched,
             records |-> s.records,
             firstSavedId |-> s.firstSavedId, lastSavedId |-> s.lastSavedId]
    BY <2>1, <2>2
  <2> QED
    BY <2>3 DEF Ids, touched
<1>2. \A i \in NoId .. b : Section(i) \in {Section(j) : j \in 0 .. b}
  <2>1. Section(NoId) = Section(0)
    BY SectionFacts DEF Section, NoId
  <2> QED
    BY <2>1 DEF NoId
<1> HIDE DEF t
<1>3. t.sections \subseteq {Section(i) : i \in 0 .. b}
  BY <1>1, <1>2 DEF StoreTypeOK
<1>4. StoreTypeOK(t, b)
  BY <1>1, <1>3 DEF StoreTypeOK
<1>5. FilesInSections(s) => FilesInSections(t)
  BY <1>1 DEF FilesInSections
<1> QED
  BY <1>1, <1>4, <1>5 DEF t

\* The empty store is a store, with nothing outside its range.
LEMMA EmptyStoreFacts ==
  ASSUME NEW b \in Nat
  PROVE  /\ StoreTypeOK(EmptyStore, b)
         /\ Ids(EmptyStore) = {}
         /\ EmptyStore.lastSavedId = 0
BY DEF EmptyStore, StoreTypeOK, Ids, NoId

\* The loop of removeById takes a range off, and lowers lastSavedId to what is
\* left when there was nothing above the old one.
LEMMA RemoveRangeFacts ==
  ASSUME NEW b \in Nat, NEW s, StoreTypeOK(s, b), NEW id \in 0 .. b
  PROVE  LET t == RemoveRange(s, id) IN
           /\ StoreTypeOK(t, b)
           /\ FilesInSections(s) => FilesInSections(t)
           /\ FirstBelow(s) => FirstBelow(t)
           /\ WithinRange(s) => WithinRange(t)
<1> DEFINE gone == {i \in Ids(s) : id <= i /\ i <= s.lastSavedId}
           t == RemoveRange(s, id)
<1>1. /\ t = [files |-> t.files, sections |-> t.sections, records |-> t.records,
              firstSavedId |-> s.firstSavedId, lastSavedId |-> id - 1]
      /\ Ids(t) = Ids(s) \ gone
      /\ \A i \in Ids(t) : t.files[i] = s.files[i]
      /\ t.sections = s.sections \cup {Section(i) : i \in id .. s.lastSavedId}
      /\ t.records = s.records - Cardinality(gone)
  <2> DEFINE touched == {Section(i) : i \in id .. s.lastSavedId}
             kept == Restrict(s.files, Ids(s) \ gone)
  <2>1. s = [files |-> s.files, sections |-> s.sections, records |-> s.records,
             firstSavedId |-> s.firstSavedId, lastSavedId |-> s.lastSavedId]
    BY DEF StoreTypeOK
  <2>2. t = [s EXCEPT !.files = kept, !.sections = @ \cup touched,
                      !.records = @ - Cardinality(gone), !.lastSavedId = id - 1]
    BY DEF RemoveRange
  <2>3. DOMAIN kept = Ids(s) \ gone /\ \A i \in DOMAIN kept : kept[i] = s.files[i]
    BY DEF Restrict
  <2> HIDE DEF t, kept, gone, touched
  <2>4. t = [files |-> kept, sections |-> s.sections \cup touched,
             records |-> s.records - Cardinality(gone),
             firstSavedId |-> s.firstSavedId, lastSavedId |-> id - 1]
    BY <2>1, <2>2
  <2> QED
    BY <2>3, <2>4 DEF Ids, touched
<1>2. Cardinality(gone) \in Nat
  <2>1. gone \in SUBSET (0 .. b)
    BY DEF StoreTypeOK
  <2>2. IsFiniteSet(0 .. b)
    BY FS_Interval
  <2> QED
    BY <2>1, <2>2, FS_Subset, FS_CardinalityType
<1>3. t.sections \subseteq {Section(i) : i \in 0 .. b}
  BY <1>1 DEF StoreTypeOK, NoId
<1> HIDE DEF t
<1>4. StoreTypeOK(t, b)
  BY <1>1, <1>2, <1>3 DEF StoreTypeOK, NoId
<1>5. FilesInSections(s) => FilesInSections(t)
  BY <1>1 DEF FilesInSections
<1>6. FirstBelow(s) => FirstBelow(t)
  BY <1>1 DEF FirstBelow
<1>7. WithinRange(s) => WithinRange(t)
  BY <1>1 DEF WithinRange, StoreTypeOK, NoId
<1> QED
  BY <1>4, <1>5, <1>6, <1>7 DEF t

\* removeById, also when it starts by removing everything.
LEMMA RemoveByIdFacts ==
  ASSUME NEW b \in Nat, NEW s, StoreTypeOK(s, b), NEW id \in 0 .. b
  PROVE  LET t == RemoveById(s, id) IN
           /\ StoreTypeOK(t, b)
           /\ FilesInSections(s) => FilesInSections(t)
           /\ FirstBelow(s) => FirstBelow(t)
           /\ WithinRange(s) => WithinRange(t)
<1>1. CASE id < s.firstSavedId
  <2>1. /\ StoreTypeOK(EmptyStore, b)
        /\ FilesInSections(EmptyStore) /\ FirstBelow(EmptyStore)
        /\ WithinRange(EmptyStore)
    BY EmptyStoreFacts DEF FilesInSections, FirstBelow, WithinRange
  <2>2. RemoveById(s, id) = RemoveRange(EmptyStore, id)
    BY <1>1 DEF RemoveById, RemoveAll
  <2> QED
    BY <2>1, <2>2, RemoveRangeFacts
<1>2. CASE ~ (id < s.firstSavedId)
  BY <1>2, RemoveRangeFacts DEF RemoveById
<1> QED
  BY <1>1, <1>2

\* removeDummyBlocks stops at or below lastSavedId, not before -1, and takes
\* dummy blocks only.
LEMMA DummyStopFacts ==
  ASSUME NEW b \in Nat, NEW s, StoreTypeOK(s, b)
  PROVE  /\ DummyStop(s) \in NoId .. s.lastSavedId
         /\ \A i \in DummyStop(s) + 1 .. s.lastSavedId : IsDummy(s, i)
<1> DEFINE S == {i \in NoId .. s.lastSavedId : ~IsDummy(s, i)}
<1>1. s.lastSavedId \in Int /\ NoId <= s.lastSavedId /\ NoId \in Int
  BY DEF StoreTypeOK, NoId
<1>2. NoId \in S
  BY <1>1 DEF IsDummy, StoreTypeOK, NoId
<1>3. S \in SUBSET Int /\ \A x \in S : x <= s.lastSavedId
  BY <1>1
<1>4. Max(S) \in S /\ \A x \in S : x <= Max(S)
  <2> HIDE DEF S
  <2> QED
    BY <1>1, <1>2, <1>3, MaxInt
<1>5. DummyStop(s) = Max(S)
  BY DEF DummyStop
<1>6. Max(S) \in NoId .. s.lastSavedId
  BY <1>4
<1>7. ASSUME NEW i \in Max(S) + 1 .. s.lastSavedId
      PROVE  IsDummy(s, i)
  <2>1. i \in NoId .. s.lastSavedId /\ ~ (i <= Max(S))
    BY <1>1, <1>6
  <2> QED
    BY <1>4, <2>1
<1> QED
  BY <1>5, <1>6, <1>7

\* removeDummyBlocks is a removeById, or nothing but a directory.
LEMMA RemoveDummyBlocksFacts ==
  ASSUME NEW b \in Nat, NEW s, StoreTypeOK(s, b)
  PROVE  LET t == RemoveDummyBlocks(s) IN
           /\ StoreTypeOK(t, b)
           /\ FilesInSections(s) => FilesInSections(t)
           /\ FirstBelow(s) => FirstBelow(t)
           /\ WithinRange(s) => WithinRange(t)
<1> DEFINE seen == Touch(s, {DummyStop(s)})
<1>1. DummyStop(s) \in NoId .. b /\ s.lastSavedId \in NoId .. b
      /\ DummyStop(s) <= s.lastSavedId
  BY DummyStopFacts DEF StoreTypeOK, NoId
<1>2. /\ StoreTypeOK(seen, b)
      /\ FilesInSections(s) => FilesInSections(seen)
      /\ seen.files = s.files /\ Ids(seen) = Ids(s)
      /\ seen.firstSavedId = s.firstSavedId /\ seen.lastSavedId = s.lastSavedId
  <2>1. {DummyStop(s)} \in SUBSET (NoId .. b)
    BY <1>1
  <2> QED
    BY <2>1, TouchFacts
<1>3. /\ FirstBelow(s) => FirstBelow(seen)
      /\ WithinRange(s) => WithinRange(seen)
  BY <1>2 DEF FirstBelow, WithinRange
<1>4. CASE DummyStop(s) = s.lastSavedId
  BY <1>2, <1>3, <1>4 DEF RemoveDummyBlocks
<1>5. CASE DummyStop(s) # s.lastSavedId
  <2>1. DummyStop(s) + 1 \in 0 .. b
    BY <1>1, <1>5 DEF NoId
  <2>2. RemoveDummyBlocks(s) = RemoveById(seen, DummyStop(s) + 1)
    BY <1>5 DEF RemoveDummyBlocks
  <2> HIDE DEF seen
  <2> QED
    BY <2>1, <2>2, <1>2, <1>3, RemoveByIdFacts
<1> QED
  BY <1>4, <1>5

-----------------------------------------------------------------------------
(* The constructor *)

\* A section that holds files has a lowest and a highest one.
LEMMA SectionExtrema ==
  ASSUME NEW b \in Nat, NEW s, StoreTypeOK(s, b), NEW k, InSection(s, k) # {}
  PROVE  /\ Min(InSection(s, k)) \in InSection(s, k)
         /\ \A i \in InSection(s, k) : Min(InSection(s, k)) <= i
         /\ Max(InSection(s, k)) \in InSection(s, k)
         /\ \A i \in InSection(s, k) : i <= Max(InSection(s, k))
<1> DEFINE S == InSection(s, k)
<1>1. S \in SUBSET Nat /\ S \in SUBSET Int /\ \A i \in S : i <= b
  BY DEF InSection, StoreTypeOK
<1> HIDE DEF S
<1>2. S # {}
  BY DEF S
<1>3. Min(S) \in S /\ \A i \in S : Min(S) <= i
  BY <1>1, <1>2, MinNat
<1>4. Max(S) \in S /\ \A i \in S : i <= Max(S)
  BY <1>1, <1>2, MaxInt
<1> QED
  BY <1>3, <1>4 DEF S

\* So do the section directories.
LEMMA SectionsExtrema ==
  ASSUME NEW b \in Nat, NEW s, StoreTypeOK(s, b), s.sections # {}
  PROVE  /\ Min(s.sections) \in s.sections
         /\ \A k \in s.sections : Min(s.sections) <= k
         /\ Max(s.sections) \in s.sections
         /\ \A k \in s.sections : k <= Max(s.sections)
<1> DEFINE S == s.sections
<1>1. S \in SUBSET Nat /\ S \in SUBSET Int /\ \A k \in S : k <= b
  BY SectionFacts DEF StoreTypeOK
<1> HIDE DEF S
<1>2. S # {}
  BY DEF S
<1>3. Min(S) \in S /\ \A k \in S : Min(S) <= k
  BY <1>1, <1>2, MinNat
<1>4. Max(S) \in S /\ \A k \in S : k <= Max(S)
  BY <1>1, <1>2, MaxInt
<1> QED
  BY <1>3, <1>4 DEF S

\* The lower end of the range is always right after the constructor: the files
\* of the lowest section are the lowest files, and 0 is below all of them.
LEMMA LoadFirstIdFacts ==
  ASSUME NEW b \in Nat, NEW s, StoreTypeOK(s, b), FilesInSections(s)
  PROVE  /\ LoadFirstId(s) \in 0 .. b
         /\ \A i \in Ids(s) : LoadFirstId(s) <= i
<1> DEFINE k == Min(s.sections)
<1>1. Ids(s) \subseteq 0 .. b
  BY DEF StoreTypeOK
<1>2. CASE s.sections = {} \/ InSection(s, k) = {}
  <2>1. LoadFirstId(s) = 0
    BY <1>2 DEF LoadFirstId
  <2> QED
    BY <2>1, <1>1
<1>3. CASE s.sections # {} /\ InSection(s, k) # {}
  <2> DEFINE m == Min(InSection(s, k))
  <2>1. LoadFirstId(s) = m
    BY <1>3 DEF LoadFirstId
  <2>2. m \in Ids(s) /\ Section(m) = k /\ \A j \in InSection(s, k) : m <= j
    BY <1>3, SectionExtrema DEF InSection
  <2>3. ASSUME NEW i \in Ids(s) PROVE m <= i
    <3>1. k <= Section(i)
      BY <1>3, SectionsExtrema DEF FilesInSections
    <3>2. CASE Section(i) = k
      BY <2>2, <3>2 DEF InSection
    <3>3. CASE Section(i) # k
      <4>1. ~ (Section(i) <= Section(m))
        BY <1>1, <2>2, <3>1, <3>3, SectionFacts
      <4> QED
        BY <4>1, <1>1, <2>2, SectionFacts
    <3> QED
      BY <3>2, <3>3
  <2> QED
    BY <2>1, <2>2, <2>3, <1>1
<1> QED
  BY <1>2, <1>3

\* The upper end is right when the highest section directory holds a file.
LEMMA LoadLastIdFacts ==
  ASSUME NEW b \in Nat, NEW s, StoreTypeOK(s, b), FilesInSections(s)
  PROVE  /\ LoadLastId(s) \in 0 .. b
         /\ ~TopSectionEmpty(s) => \A i \in Ids(s) : i <= LoadLastId(s)
<1> DEFINE k == Max(s.sections)
<1>1. Ids(s) \subseteq 0 .. b
  BY DEF StoreTypeOK
<1>2. CASE s.sections = {}
  <2>1. Ids(s) = {}
    BY <1>2 DEF FilesInSections
  <2> QED
    BY <1>2, <2>1 DEF LoadLastId
<1>3. CASE s.sections # {} /\ InSection(s, k) = {}
  BY <1>3 DEF LoadLastId, TopSectionEmpty
<1>4. CASE s.sections # {} /\ InSection(s, k) # {}
  <2> DEFINE m == Max(InSection(s, k))
  <2>1. LoadLastId(s) = m
    BY <1>4 DEF LoadLastId
  <2>2. m \in Ids(s) /\ Section(m) = k /\ \A j \in InSection(s, k) : j <= m
    <3>1. m \in InSection(s, k)
      BY <1>4, SectionExtrema
    <3>2. \A j \in InSection(s, k) : j <= m
      BY <1>4, SectionExtrema
    <3> QED
      BY <3>1, <3>2 DEF InSection
  <2>3. ASSUME NEW i \in Ids(s) PROVE i <= m
    <3>1. Section(i) <= k
      BY <1>4, SectionsExtrema DEF FilesInSections
    <3>2. CASE Section(i) = k
      BY <2>2, <3>2 DEF InSection
    <3>3. CASE Section(i) # k
      <4>1. ~ (Section(m) <= Section(i))
        BY <1>1, <2>2, <3>1, <3>3, SectionFacts
      <4> QED
        BY <4>1, <1>1, <2>2, SectionFacts
    <3> QED
      BY <3>2, <3>3
  <2> QED
    BY <2>1, <2>2, <2>3, <1>1
<1> QED
  BY <1>2, <1>3, <1>4

\* The constructor, from the two ends of its range.
LEMMA ReloadFacts ==
  ASSUME NEW b \in Nat, NEW s, StoreTypeOK(s, b), FilesInSections(s)
  PROVE  LET t == Reload(s) IN
           /\ StoreTypeOK(t, b)
           /\ FilesInSections(t) /\ Ids(t) = Ids(s)
           /\ FirstBelow(t)
           /\ ~TopSectionEmpty(s) => WithinRange(t)
<1> DEFINE t == Reload(s)
<1>1. Cardinality(s.sections) \in Nat
  <2>1. IsFiniteSet(0 .. b)
    BY FS_Interval
  <2>2. s.sections \in SUBSET (0 .. b)
    BY SectionFacts DEF StoreTypeOK
  <2> QED
    BY <2>1, <2>2, FS_Subset, FS_CardinalityType
<1>2. /\ t = [files |-> s.files, sections |-> s.sections, records |-> t.records,
              firstSavedId |-> LoadFirstId(s), lastSavedId |-> LoadLastId(s)]
      /\ t.records = Cardinality(s.sections) * Cardinality(s.sections)
      /\ Ids(t) = Ids(s)
  <2> DEFINE c == Cardinality(s.sections) * Cardinality(s.sections)
  <2>1. s = [files |-> s.files, sections |-> s.sections, records |-> s.records,
             firstSavedId |-> s.firstSavedId, lastSavedId |-> s.lastSavedId]
    BY DEF StoreTypeOK
  <2>2. t = [s EXCEPT !.records = c, !.firstSavedId = LoadFirstId(s),
                      !.lastSavedId = LoadLastId(s)]
    BY DEF Reload
  <2> HIDE DEF t, c
  <2>3. t = [files |-> s.files, sections |-> s.sections, records |-> c,
             firstSavedId |-> LoadFirstId(s), lastSavedId |-> LoadLastId(s)]
    BY <2>1, <2>2
  <2> QED
    BY <2>3 DEF Ids, c
<1> HIDE DEF t
<1>3. t.records \in Int
  BY <1>1, <1>2
<1>4. StoreTypeOK(t, b)
  BY <1>2, <1>3, LoadFirstIdFacts, LoadLastIdFacts DEF StoreTypeOK, NoId
<1>5. FilesInSections(t)
  BY <1>2 DEF FilesInSections
<1>6. FirstBelow(t)
  BY <1>2, LoadFirstIdFacts DEF FirstBelow
<1>7. ~TopSectionEmpty(s) => WithinRange(t)
  BY <1>2, LoadFirstIdFacts, LoadLastIdFacts DEF WithinRange
<1> QED
  BY <1>2, <1>4, <1>5, <1>6, <1>7 DEF t

-----------------------------------------------------------------------------
(* records, the count of files *)

\* By how much records is off: nothing but the constructor changes it, and an
\* index that is emptied.
Excess(s) == s.records - Cardinality(Ids(s))

\* The identifiers of a store are a finite set.
LEMMA IdsFinite ==
  ASSUME NEW b \in Nat, NEW s, StoreTypeOK(s, b)
  PROVE  IsFiniteSet(Ids(s)) /\ Cardinality(Ids(s)) \in Nat
<1>1. Ids(s) \in SUBSET (0 .. b)
  BY DEF StoreTypeOK
<1>2. IsFiniteSet(0 .. b)
  BY FS_Interval
<1> QED
  BY <1>1, <1>2, FS_Subset, FS_CardinalityType

\* add counts a file that was not there.
LEMMA InsertCounts ==
  ASSUME NEW b \in Nat, NEW s, StoreTypeOK(s, b),
         NEW id \in 0 .. b, NEW blk, id \notin Ids(s)
  PROVE  LET t == Insert(s, id, blk) IN
           Excess(t) = Excess(s) /\ (Counted(s) => Counted(t))
<1> DEFINE t == Insert(s, id, blk)
<1>1. Ids(t) = Ids(s) \cup {id} /\ t.records = s.records + 1
  BY DEF Insert, Ids
<1>2. Cardinality(Ids(s) \cup {id}) = Cardinality(Ids(s)) + 1
  BY IdsFinite, FS_AddElement
<1>3. s.records \in Int /\ Cardinality(Ids(s)) \in Nat
  BY IdsFinite DEF StoreTypeOK
<1> HIDE DEF t
<1>4. Excess(t) = Excess(s) /\ (Counted(s) => Counted(t))
  BY <1>1, <1>2, <1>3 DEF Counted, Excess
<1> QED
  BY <1>4 DEF t

\* Looking for a file counts nothing.
LEMMA TouchCounts ==
  ASSUME NEW b \in Nat, NEW s, StoreTypeOK(s, b), NEW S
  PROVE  LET t == Touch(s, S) IN
           Excess(t) = Excess(s) /\ (Counted(s) => Counted(t))
<1> DEFINE t == Touch(s, S)
<1>1. /\ s = [files |-> s.files, sections |-> s.sections, records |-> s.records,
              firstSavedId |-> s.firstSavedId, lastSavedId |-> s.lastSavedId]
      /\ t = [s EXCEPT !.sections = @ \cup {Section(i) : i \in S}]
  BY DEF StoreTypeOK, Touch
<1> HIDE DEF t
<1>2. t.files = s.files /\ t.records = s.records
  BY <1>1
<1> QED
  BY <1>2 DEF Counted, Excess, Ids, t

\* The loop of removeById counts down once for every file it takes, and never
\* for an identifier without a file.
LEMMA RemoveRangeCounts ==
  ASSUME NEW b \in Nat, NEW s, StoreTypeOK(s, b), NEW id \in 0 .. b
  PROVE  LET t == RemoveRange(s, id) IN
           Excess(t) = Excess(s) /\ (Counted(s) => Counted(t))
<1> DEFINE gone == {i \in Ids(s) : id <= i /\ i <= s.lastSavedId}
           kept == Restrict(s.files, Ids(s) \ gone)
           touched == {Section(i) : i \in id .. s.lastSavedId}
           t == RemoveRange(s, id)
<1>1. s = [files |-> s.files, sections |-> s.sections, records |-> s.records,
           firstSavedId |-> s.firstSavedId, lastSavedId |-> s.lastSavedId]
  BY DEF StoreTypeOK
<1>2. t = [s EXCEPT !.files = kept, !.sections = @ \cup touched,
                    !.records = @ - Cardinality(gone), !.lastSavedId = id - 1]
  BY DEF RemoveRange
<1>3. DOMAIN kept = Ids(s) \ gone /\ Ids(s) \cap gone = gone
  BY DEF Restrict
<1> HIDE DEF t, kept, gone, touched
<1>4. t.files = kept /\ t.records = s.records - Cardinality(gone)
  BY <1>1, <1>2
<1>5. Cardinality(Ids(s) \ gone) = Cardinality(Ids(s)) - Cardinality(gone)
  BY <1>3, IdsFinite, FS_Difference
<1>6. s.records \in Int /\ Cardinality(Ids(s)) \in Nat /\ Cardinality(gone) \in Nat
  BY <1>3, IdsFinite, FS_Intersection, FS_CardinalityType DEF StoreTypeOK
<1>7. Ids(t) = Ids(s) \ gone
  BY <1>3, <1>4 DEF Ids
<1> QED
  BY <1>4, <1>5, <1>6, <1>7 DEF Counted, Excess, t

\* The empty store counts no file.
LEMMA EmptyStoreCounts == Counted(EmptyStore)
<1>1. EmptyStore.records = 0 /\ Ids(EmptyStore) = {}
  BY DEF EmptyStore, Ids
<1> QED
  BY <1>1, FS_EmptySet DEF Counted

\* removeById, with and without its call of removeAll.
LEMMA RemoveByIdCounts ==
  ASSUME NEW b \in Nat, NEW s, StoreTypeOK(s, b), NEW id \in 0 .. b
  PROVE  LET t == RemoveById(s, id) IN
           /\ id >= s.firstSavedId => Excess(t) = Excess(s)
           /\ Counted(s) => Counted(t)
<1>1. CASE id < s.firstSavedId
  <2>1. RemoveById(s, id) = RemoveRange(EmptyStore, id)
    BY <1>1 DEF RemoveById, RemoveAll
  <2> QED
    BY <1>1, <2>1, EmptyStoreFacts, EmptyStoreCounts, RemoveRangeCounts DEF StoreTypeOK
<1>2. CASE ~ (id < s.firstSavedId)
  BY <1>2, RemoveRangeCounts DEF RemoveById
<1> QED
  BY <1>1, <1>2

\* removeDummyBlocks, by the facts above.
LEMMA RemoveDummyBlocksCounts ==
  ASSUME NEW b \in Nat, NEW s, StoreTypeOK(s, b)
  PROVE  LET t == RemoveDummyBlocks(s) IN
           /\ s.firstSavedId = 0 => Excess(t) = Excess(s)
           /\ Counted(s) => Counted(t)
<1> DEFINE seen == Touch(s, {DummyStop(s)})
<1>1. DummyStop(s) \in NoId .. b /\ s.lastSavedId \in NoId .. b
      /\ DummyStop(s) <= s.lastSavedId
  BY DummyStopFacts DEF StoreTypeOK, NoId
<1>2. /\ StoreTypeOK(seen, b) /\ seen.firstSavedId = s.firstSavedId
      /\ Excess(seen) = Excess(s) /\ (Counted(s) => Counted(seen))
  <2>1. {DummyStop(s)} \in SUBSET (NoId .. b)
    BY <1>1
  <2> QED
    BY <2>1, TouchFacts, TouchCounts
<1>3. CASE DummyStop(s) = s.lastSavedId
  BY <1>2, <1>3 DEF RemoveDummyBlocks
<1>4. CASE DummyStop(s) # s.lastSavedId
  <2>1. DummyStop(s) + 1 \in 0 .. b
    BY <1>1, <1>4 DEF NoId
  <2>2. RemoveDummyBlocks(s) = RemoveById(seen, DummyStop(s) + 1)
    BY <1>4 DEF RemoveDummyBlocks
  <2> HIDE DEF seen
  <2> QED
    BY <2>1, <2>2, <1>2, RemoveByIdCounts
<1> QED
  BY <1>3, <1>4

-----------------------------------------------------------------------------
(* Sums over finite sets *)

\* What holds of a subset of S if it holds of all smaller ones holds of all.
LEMMA SubsetInduction ==
  ASSUME NEW S, IsFiniteSet(S), NEW F,
         \A s \in SUBSET S : (\A t \in SUBSET s : t # s => t \in F) => s \in F
  PROVE  \A s \in SUBSET S : s \in F
<1> SUFFICES ASSUME NEW u \in SUBSET S, u \notin F
             PROVE  FALSE
  OBVIOUS
<1> DEFINE bad == {s \in SUBSET S : s \notin F}
           sizes == {Cardinality(s) : s \in bad}
<1>1. \A s \in SUBSET S : IsFiniteSet(s) /\ Cardinality(s) \in Nat
  BY FS_Subset, FS_CardinalityType
<1>2. sizes \in SUBSET Nat /\ sizes # {}
  BY <1>1
<1>3. PICK m \in sizes : \A n \in sizes : m <= n
  <2> HIDE DEF sizes
  <2> QED
    BY <1>2, MinNat
<1>4. PICK s \in bad : m = Cardinality(s)
  BY <1>3
<1>5. ASSUME NEW t \in SUBSET s, t # s
      PROVE  t \in F
  <2>1. Cardinality(t) \in Nat /\ Cardinality(t) < Cardinality(s)
    BY <1>1, <1>4, <1>5, FS_Subset
  <2>2. t \notin bad
    BY <1>1, <1>2, <1>3, <1>4, <2>1
  <2> QED
    BY <2>2, <1>4
<1> QED
  BY <1>4, <1>5

\* The element CHOOSE picks, as FoldFunctionOnSet does.
One(s) == CHOOSE x \in s : TRUE

\* The recursion that defines a sum.
SumStep(h, f, s) == IF s = {} THEN 0 ELSE f[One(s)] + h[s \ {One(s)}]
SumsOf(h, f, S) == h = [s \in SUBSET S |-> SumStep(h, f, s)]

\* What One picks is in the set, and the set without it is smaller.
LEMMA OneFacts ==
  ASSUME NEW s, s # {}
  PROVE  One(s) \in s /\ s \ {One(s)} \in SUBSET s /\ s \ {One(s)} # s
  BY DEF One

\* At most one function satisfies the recursion,
LEMMA SumsUnique ==
  ASSUME NEW S, IsFiniteSet(S), NEW f, NEW g, NEW h, SumsOf(g, f, S), SumsOf(h, f, S)
  PROVE  g = h
<1> DEFINE F == {s \in SUBSET S : g[s] = h[s]}
<1>1. ASSUME NEW s \in SUBSET S, \A t \in SUBSET s : t # s => t \in F
      PROVE  s \in F
  <2>1. CASE s = {}
    BY <2>1 DEF SumsOf, SumStep
  <2>2. CASE s # {}
    <3>1. s \ {One(s)} \in F
      BY <1>1, <2>2, OneFacts
    <3>2. g[s] = f[One(s)] + g[s \ {One(s)}] /\ h[s] = f[One(s)] + h[s \ {One(s)}]
      BY <2>2 DEF SumsOf, SumStep
    <3> QED
      BY <3>1, <3>2
  <2> QED
    BY <2>1, <2>2
<1>2. \A s \in SUBSET S : s \in F
  <2> HIDE DEF F
  <2> QED
    BY <1>1, SubsetInduction
<1> QED
  BY <1>2 DEF SumsOf

\* and at least one does.
LEMMA SumsExist ==
  ASSUME NEW S, IsFiniteSet(S), NEW f, \A x \in S : f[x] \in Int
  PROVE  \E h \in [SUBSET S -> Int] : SumsOf(h, f, S)
<1> DEFINE D(n) == {s \in SUBSET S : Cardinality(s) <= n}
           Part(g, n) == g \in [D(n) -> Int] /\ \A s \in D(n) : g[s] = SumStep(g, f, s)
           bad == {n \in Nat : ~ \E g : Part(g, n)}
<1>1. \A s \in SUBSET S : IsFiniteSet(s) /\ Cardinality(s) \in Nat /\ Cardinality(s) <= Cardinality(S)
  BY FS_Subset, FS_CardinalityType
<1>2. \A s \in SUBSET S : s # {} =>
        One(s) \in S /\ s \ {One(s)} \in SUBSET S
        /\ Cardinality(s \ {One(s)}) = Cardinality(s) - 1 /\ Cardinality(s) # 0
  BY <1>1, OneFacts, FS_RemoveElement, FS_EmptySet
<1>3. bad = {}
  <2> SUFFICES ASSUME bad # {}
               PROVE  FALSE
    OBVIOUS
  <2>1. PICK m \in bad : \A n \in bad : m <= n
    <3>1. bad \in SUBSET Nat
      OBVIOUS
    <3> HIDE DEF bad
    <3> QED
      BY <3>1, MinNat
  <2>2. CASE m = 0
    <3> DEFINE g == [s \in D(0) |-> 0]
    <3>1. \A s \in D(0) : s = {}
      <4> TAKE s \in D(0)
      <4>1. s \in SUBSET S /\ Cardinality(s) \in Nat /\ Cardinality(s) <= 0
        BY <1>1
      <4>2. s # {} => Cardinality(s) # 0
        BY <4>1, <1>2
      <4> QED
        BY <4>1, <4>2
    <3>2. Part(g, 0)
      BY <3>1 DEF SumStep
    <3> QED
      BY <2>1, <2>2, <3>2
  <2>3. CASE m # 0
    <3>1. m - 1 \in Nat /\ m - 1 \notin bad
      <4>1. m \in Nat
        OBVIOUS
      <4> HIDE DEF bad
      <4> QED
        BY <2>1, <2>3, <4>1
    <3>2. PICK g : Part(g, m - 1)
      BY <3>1
    <3> DEFINE h == [s \in D(m) |-> SumStep(g, f, s)]
    <3>3. \A s \in D(m) : s # {} => s \ {One(s)} \in D(m - 1)
      BY <1>1, <1>2, <3>1
    <3>4. \A s \in D(m) : SumStep(g, f, s) \in Int
      BY <1>2, <3>2, <3>3 DEF SumStep
    <3>5. \A s \in D(m - 1) : s \in D(m) /\ h[s] = g[s]
      BY <1>1, <3>1, <3>2
    <3>6. \A s \in D(m) : h[s] = SumStep(h, f, s)
      BY <3>3, <3>5 DEF SumStep
    <3>7. Part(h, m)
      BY <3>4, <3>6
    <3> QED
      BY <2>1, <3>7
  <2> QED
    BY <2>2, <2>3
<1>4. Cardinality(S) \in Nat /\ D(Cardinality(S)) = SUBSET S
  BY <1>1
<1>5. PICK h : Part(h, Cardinality(S))
  BY <1>3, <1>4
<1>6. h \in [SUBSET S -> Int] /\ \A s \in SUBSET S : h[s] = SumStep(h, f, s)
  <2> HIDE DEF D
  <2> QED
    BY <1>4, <1>5
<1>7. h = [s \in SUBSET S |-> SumStep(h, f, s)]
  BY <1>6
<1> QED
  BY <1>6, <1>7 DEF SumsOf

\* The sum is a value of the only function that satisfies the recursion.
LEMMA SumIs ==
  ASSUME NEW f, NEW S, IsFiniteSet(S), NEW h, SumsOf(h, f, S)
  PROVE  SumFunctionOnSet(f, S) = h[S]
<1> DEFINE E(g) == g = [s \in SUBSET S |->
                          IF s = {} THEN 0 ELSE LET x == One(s) IN f[x] + g[s \ {x}]]
<1>1. SumFunctionOnSet(f, S) = (CHOOSE g : E(g))[S]
  BY Zenon DEF SumFunctionOnSet, FoldFunctionOnSet, MapThenFoldSet, One
<1>2. \A g : E(g) <=> SumsOf(g, f, S)
  BY DEF SumsOf, SumStep
<1> HIDE DEF E
<1>3. E(CHOOSE g : E(g))
  BY <1>2
<1>4. (CHOOSE g : E(g)) = h
  BY <1>2, <1>3, SumsUnique
<1> QED
  BY <1>1, <1>4

\* The sum of nothing.
LEMMA SumEmpty ==
  ASSUME NEW f
  PROVE  SumFunctionOnSet(f, {}) = 0
<1>1. PICK h \in [SUBSET {} -> Int] : SumsOf(h, f, {})
  BY SumsExist, FS_EmptySet
<1>2. h[{}] = 0
  BY <1>1 DEF SumsOf, SumStep
<1> QED
  BY <1>1, <1>2, SumIs, FS_EmptySet

\* A sum of integers is one, and that of a set is what One picks added to the
\* sum of the rest.
LEMMA SumFacts ==
  ASSUME NEW S, IsFiniteSet(S), NEW f, \A x \in S : f[x] \in Int
  PROVE  /\ SumFunctionOnSet(f, S) \in Int
         /\ S # {} => SumFunctionOnSet(f, S) = f[One(S)] + SumFunctionOnSet(f, S \ {One(S)})
<1>1. PICK h \in [SUBSET S -> Int] : SumsOf(h, f, S)
  BY SumsExist
<1>2. SumFunctionOnSet(f, S) = h[S]
  BY <1>1, SumIs
<1>3. ASSUME S # {}
      PROVE  SumFunctionOnSet(f, S \ {One(S)}) = h[S \ {One(S)}]
  <2> DEFINE T == S \ {One(S)}
             g == [s \in SUBSET T |-> h[s]]
  <2>1. T \in SUBSET S /\ IsFiniteSet(T)
    BY FS_Subset
  <2>2. \A s \in SUBSET T : s \in SUBSET S /\ (s # {} => s \ {One(s)} \in SUBSET T)
    BY <2>1
  <2>3. \A s \in SUBSET T : g[s] = SumStep(g, f, s)
    BY <1>1, <2>2 DEF SumsOf, SumStep
  <2>4. SumsOf(g, f, T)
    BY <2>3 DEF SumsOf
  <2>5. SumFunctionOnSet(f, T) = g[T]
    BY <2>1, <2>4, SumIs
  <2> QED
    BY <2>5
<1>4. S # {} => h[S] = f[One(S)] + h[S \ {One(S)}]
  BY <1>1 DEF SumsOf, SumStep
<1> QED
  BY <1>1, <1>2, <1>3, <1>4

\* Any of the terms can be taken out first.
LEMMA SumRemove ==
  ASSUME NEW S, IsFiniteSet(S), NEW f, \A x \in S : f[x] \in Int, NEW x \in S
  PROVE  SumFunctionOnSet(f, S) = f[x] + SumFunctionOnSet(f, S \ {x})
<1> DEFINE F == {s \in SUBSET S : \A y \in s : SumFunctionOnSet(f, s) = f[y] + SumFunctionOnSet(f, s \ {y})}
<1>1. \A s \in SUBSET S :
        /\ SumFunctionOnSet(f, s) \in Int
        /\ s # {} => SumFunctionOnSet(f, s) = f[One(s)] + SumFunctionOnSet(f, s \ {One(s)})
  <2> TAKE s \in SUBSET S
  <2>1. IsFiniteSet(s) /\ \A y \in s : f[y] \in Int
    BY FS_Subset
  <2> QED
    BY <2>1, SumFacts
<1>2. ASSUME NEW s \in SUBSET S, \A t \in SUBSET s : t # s => t \in F, NEW y \in s
      PROVE  SumFunctionOnSet(f, s) = f[y] + SumFunctionOnSet(f, s \ {y})
  <2> DEFINE o == One(s)
             so == s \ {o}
             sy == s \ {y}
  <2>1. o \in s /\ so \in SUBSET S /\ sy \in SUBSET S /\ so \in F /\ sy \in F
    BY <1>2, OneFacts
  <2>2. SumFunctionOnSet(f, s) = f[o] + SumFunctionOnSet(f, so)
    BY <1>1, <2>1
  <2>3. CASE y = o
    BY <2>2, <2>3
  <2>4. CASE y # o
    <3>1. y \in so /\ o \in sy /\ so \ {y} = sy \ {o} /\ so \ {y} \in SUBSET S
      BY <2>1, <2>4
    <3>2. SumFunctionOnSet(f, so) = f[y] + SumFunctionOnSet(f, so \ {y})
      BY <2>1, <3>1
    <3>3. SumFunctionOnSet(f, sy) = f[o] + SumFunctionOnSet(f, so \ {y})
      BY <2>1, <3>1
    <3>4. f[y] \in Int /\ f[o] \in Int /\ SumFunctionOnSet(f, so \ {y}) \in Int
      BY <1>1, <2>1, <3>1
    <3> HIDE DEF so, sy, o
    <3> QED
      BY <2>2, <3>2, <3>3, <3>4 DEF sy
  <2> QED
    BY <2>3, <2>4
<1>3. \A s \in SUBSET S : (\A t \in SUBSET s : t # s => t \in F) => s \in F
  BY <1>2
<1>4. S \in F
  <2> HIDE DEF F
  <2> QED
    BY <1>3, SubsetInduction
<1> QED
  BY <1>4

\* A sum with one more term.
LEMMA SumAdd ==
  ASSUME NEW S, IsFiniteSet(S), NEW f, NEW x, x \notin S,
         \A y \in S \cup {x} : f[y] \in Int
  PROVE  SumFunctionOnSet(f, S \cup {x}) = f[x] + SumFunctionOnSet(f, S)
<1>1. IsFiniteSet(S \cup {x}) /\ (S \cup {x}) \ {x} = S
  BY FS_AddElement
<1> QED
  BY <1>1, SumRemove

\* Sums of equal terms are equal.
LEMMA SumSame ==
  ASSUME NEW S, IsFiniteSet(S), NEW f, NEW g, \A x \in S : f[x] \in Int /\ g[x] = f[x]
  PROVE  SumFunctionOnSet(g, S) = SumFunctionOnSet(f, S)
<1>1. PICK h \in [SUBSET S -> Int] : SumsOf(h, f, S)
  BY SumsExist
<1>2. \A s \in SUBSET S : SumStep(h, f, s) = SumStep(h, g, s)
  BY OneFacts DEF SumStep
<1>3. SumsOf(h, g, S)
  BY <1>1, <1>2 DEF SumsOf
<1> QED
  BY <1>1, <1>3, SumIs

\* A sum over two parts.
LEMMA SumUnion ==
  ASSUME NEW S, IsFiniteSet(S), NEW T, IsFiniteSet(T), S \cap T = {}, NEW f,
         \A x \in S \cup T : f[x] \in Int
  PROVE  SumFunctionOnSet(f, S \cup T) = SumFunctionOnSet(f, S) + SumFunctionOnSet(f, T)
<1> DEFINE F == {t \in SUBSET T : SumFunctionOnSet(f, S \cup t) = SumFunctionOnSet(f, S) + SumFunctionOnSet(f, t)}
<1>1. ASSUME NEW t \in SUBSET T, \A u \in SUBSET t : u # t => u \in F
      PROVE  t \in F
  <2>1. CASE t = {}
    <3>1. SumFunctionOnSet(f, t) = 0 /\ SumFunctionOnSet(f, S) \in Int
      BY <2>1, SumEmpty, SumFacts
    <3>2. S \cup t = S
      BY <2>1
    <3>3. SumFunctionOnSet(f, S \cup t) = SumFunctionOnSet(f, S)
      BY <3>2, Zenon
    <3> QED
      BY <3>1, <3>3
  <2>2. CASE t # {}
    <3> DEFINE o == One(t)
               u == t \ {o}
    <3>1. o \in t /\ u \in F /\ IsFiniteSet(t) /\ IsFiniteSet(u)
      BY <1>1, <2>2, OneFacts, FS_Subset
    <3>2. SumFunctionOnSet(f, t) = f[o] + SumFunctionOnSet(f, u)
      BY <2>2, <3>1, SumFacts
    <3>3. S \cup t = (S \cup u) \cup {o} /\ o \notin S \cup u /\ IsFiniteSet(S \cup u)
      BY <3>1, FS_Union
    <3>4. SumFunctionOnSet(f, S \cup t) = f[o] + SumFunctionOnSet(f, S \cup u)
      BY <3>1, <3>3, SumAdd
    <3>5. f[o] \in Int /\ SumFunctionOnSet(f, S) \in Int /\ SumFunctionOnSet(f, u) \in Int
      BY <3>1, SumFacts
    <3>6. SumFunctionOnSet(f, S \cup u) = SumFunctionOnSet(f, S) + SumFunctionOnSet(f, u)
      BY <3>1
    <3> HIDE DEF o, u
    <3> QED
      BY <3>2, <3>4, <3>5, <3>6
  <2> QED
    BY <2>1, <2>2
<1>2. T \in F
  <2> HIDE DEF F
  <2> QED
    BY <1>1, SubsetInduction
<1> QED
  BY <1>2

\* The sum of termwise sums.
LEMMA SumPlus ==
  ASSUME NEW S, IsFiniteSet(S), NEW f, NEW g, NEW h,
         \A x \in S : f[x] \in Int /\ g[x] \in Int /\ h[x] = f[x] + g[x]
  PROVE  SumFunctionOnSet(h, S) = SumFunctionOnSet(f, S) + SumFunctionOnSet(g, S)
<1> DEFINE F == {s \in SUBSET S : SumFunctionOnSet(h, s) = SumFunctionOnSet(f, s) + SumFunctionOnSet(g, s)}
<1>1. ASSUME NEW s \in SUBSET S, \A t \in SUBSET s : t # s => t \in F
      PROVE  s \in F
  <2>1. CASE s = {}
    BY <2>1, SumEmpty
  <2>2. CASE s # {}
    <3> DEFINE o == One(s)
               t == s \ {o}
    <3>1. o \in s /\ t \in F /\ IsFiniteSet(s) /\ IsFiniteSet(t)
      BY <1>1, <2>2, OneFacts, FS_Subset
    <3>2. /\ SumFunctionOnSet(f, s) = f[o] + SumFunctionOnSet(f, t)
          /\ SumFunctionOnSet(g, s) = g[o] + SumFunctionOnSet(g, t)
          /\ SumFunctionOnSet(h, s) = h[o] + SumFunctionOnSet(h, t)
      <4>1. \A x \in s : f[x] \in Int /\ g[x] \in Int /\ h[x] \in Int
        OBVIOUS
      <4> QED
        BY <2>2, <3>1, <4>1, SumFacts
    <3>3. SumFunctionOnSet(f, t) \in Int /\ SumFunctionOnSet(g, t) \in Int
      BY <3>1, SumFacts
    <3>4. f[o] \in Int /\ g[o] \in Int /\ h[o] = f[o] + g[o]
      BY <3>1
    <3>5. SumFunctionOnSet(h, t) = SumFunctionOnSet(f, t) + SumFunctionOnSet(g, t)
      BY <3>1
    <3> HIDE DEF o, t
    <3> QED
      BY <3>2, <3>3, <3>4, <3>5
  <2> QED
    BY <2>1, <2>2
<1>2. S \in F
  <2> HIDE DEF F
  <2> QED
    BY <1>1, SubsetInduction
<1> QED
  BY <1>2

\* A sum of zeros.
LEMMA SumOfZeros ==
  ASSUME NEW S, IsFiniteSet(S), NEW f, \A x \in S : f[x] = 0
  PROVE  SumFunctionOnSet(f, S) = 0
<1> DEFINE total == SumFunctionOnSet(f, S)
<1>1. \A x \in S : f[x] \in Int /\ f[x] \in Int /\ f[x] = f[x] + f[x]
  OBVIOUS
<1>2. total = total + total
  BY <1>1, SumPlus
<1>3. total \in Int
  <2>1. \A x \in S : f[x] \in Int
    OBVIOUS
  <2> QED
    BY <2>1, SumFacts
<1>4. total = 0
  <2> HIDE DEF total
  <2> QED
    BY <1>2, <1>3
<1> QED
  BY <1>4

\* A sum of naturals.
LEMMA SumNotNegative ==
  ASSUME NEW S, IsFiniteSet(S), NEW f, \A x \in S : f[x] \in Nat
  PROVE  SumFunctionOnSet(f, S) \in Nat
<1> DEFINE F == {s \in SUBSET S : SumFunctionOnSet(f, s) \in Nat}
<1>1. ASSUME NEW s \in SUBSET S, \A t \in SUBSET s : t # s => t \in F
      PROVE  s \in F
  <2>1. CASE s = {}
    BY <2>1, SumEmpty
  <2>2. CASE s # {}
    <3>1. One(s) \in s /\ s \ {One(s)} \in F /\ IsFiniteSet(s)
      BY <1>1, <2>2, OneFacts, FS_Subset
    <3>2. SumFunctionOnSet(f, s) = f[One(s)] + SumFunctionOnSet(f, s \ {One(s)})
      <4>1. \A x \in s : f[x] \in Int
        OBVIOUS
      <4> QED
        BY <2>2, <3>1, <4>1, SumFacts
    <3>3. f[One(s)] \in Nat /\ SumFunctionOnSet(f, s \ {One(s)}) \in Nat
      BY <3>1
    <3> QED
      BY <3>2, <3>3
  <2> QED
    BY <2>1, <2>2
<1>2. S \in F
  <2> HIDE DEF F
  <2> QED
    BY <1>1, SubsetInduction
<1> QED
  BY <1>2

\* The sums of the groups of S, by what to says of an element, add up to the sum
\* over S.
LEMMA SumByGroups ==
  ASSUME NEW S, IsFiniteSet(S), NEW T, IsFiniteSet(T),
         NEW to \in [S -> T], NEW w, \A i \in S : w[i] \in Int,
         NEW group \in [T -> SUBSET S], \A a \in T : \A i \in S : i \in group[a] <=> to[i] = a,
         NEW g, \A a \in T : g[a] = SumFunctionOnSet(w, group[a])
  PROVE  SumFunctionOnSet(g, T) = SumFunctionOnSet(w, S)
<1> DEFINE Group(s, a) == {i \in s : to[i] = a}
           G(s) == [a \in T |-> SumFunctionOnSet(w, Group(s, a))]
           F == {s \in SUBSET S : SumFunctionOnSet(G(s), T) = SumFunctionOnSet(w, s)}
<1>1. ASSUME NEW s \in SUBSET S, NEW a \in T
      PROVE  IsFiniteSet(Group(s, a)) /\ G(s)[a] = SumFunctionOnSet(w, Group(s, a)) /\ G(s)[a] \in Int
  <2>1. IsFiniteSet(Group(s, a)) /\ \A i \in Group(s, a) : w[i] \in Int
    BY FS_Subset
  <2> HIDE DEF Group
  <2>2. SumFunctionOnSet(w, Group(s, a)) \in Int
    BY <2>1, SumFacts
  <2> QED
    BY <2>1, <2>2
<1>2. ASSUME NEW s \in SUBSET S, \A t \in SUBSET s : t # s => t \in F
      PROVE  s \in F
  <2>1. CASE s = {}
    <3>1. \A a \in T : Group(s, a) = {}
      BY <2>1
    <3> HIDE DEF Group
    <3>2. \A a \in T : G(s)[a] = 0
      BY <3>1, SumEmpty
    <3> HIDE DEF G
    <3>3. SumFunctionOnSet(G(s), T) = 0
      BY <3>2, SumOfZeros
    <3>4. SumFunctionOnSet(w, s) = 0
      BY <2>1, SumEmpty
    <3> QED
      BY <3>3, <3>4
  <2>2. CASE s # {}
    <3> DEFINE x == One(s)
               u == s \ {x}
               b == to[x]
    <3>1. x \in s /\ u \in SUBSET S /\ u \in F /\ IsFiniteSet(s) /\ b \in T
      BY <1>2, <2>2, OneFacts, FS_Subset
    <3>2. SumFunctionOnSet(w, s) = w[x] + SumFunctionOnSet(w, u)
      <4>1. \A i \in s : w[i] \in Int
        OBVIOUS
      <4> QED
        BY <2>2, <3>1, <4>1, SumFacts
    <3>3. SumFunctionOnSet(G(u), T) = SumFunctionOnSet(w, u)
      BY <3>1
    <3>4. Group(s, b) \ {x} = Group(u, b) /\ x \in Group(s, b)
      BY <3>1
    <3>5. \A a \in T \ {b} : Group(s, a) = Group(u, a)
      OBVIOUS
    <3>6. \A i \in Group(s, b) : w[i] \in Int
      OBVIOUS
    <3> HIDE DEF x, u, Group, F
    <3>7. G(s)[b] = w[x] + G(u)[b]
      <4>1. IsFiniteSet(Group(s, b)) /\ x \in Group(s, b)
        BY <1>1, <3>1, <3>4
      <4>2. SumFunctionOnSet(w, Group(s, b)) = w[x] + SumFunctionOnSet(w, Group(s, b) \ {x})
        BY <3>6, <4>1, SumRemove
      <4> QED
        BY <3>1, <3>4, <4>2
    <3>8. \A a \in T \ {b} : G(u)[a] \in Int /\ G(s)[a] = G(u)[a]
      BY <1>1, <3>1, <3>5
    <3>9. \A a \in T : G(s)[a] \in Int
      BY <1>1
    <3>17. \A a \in T : G(u)[a] \in Int
      BY <1>1, <3>1
    <3>18. b \in T
      BY <3>1
    <3>10. w[x] \in Int
      BY <3>1
    <3> HIDE DEF G, b
    <3>11. SumFunctionOnSet(G(s), T) = G(s)[b] + SumFunctionOnSet(G(s), T \ {b})
      BY <3>9, <3>18, SumRemove
    <3>12. SumFunctionOnSet(G(u), T) = G(u)[b] + SumFunctionOnSet(G(u), T \ {b})
      BY <3>17, <3>18, SumRemove
    <3>13. IsFiniteSet(T \ {b})
      BY FS_Subset
    <3>14. SumFunctionOnSet(G(s), T \ {b}) = SumFunctionOnSet(G(u), T \ {b})
      BY <3>8, <3>13, SumSame
    <3>15. SumFunctionOnSet(G(u), T \ {b}) \in Int
      BY <3>8, <3>13, SumFacts
    <3>16. SumFunctionOnSet(G(s), T) = SumFunctionOnSet(w, s)
      BY <3>2, <3>3, <3>7, <3>17, <3>18, <3>10, <3>11, <3>12, <3>14, <3>15
    <3> QED
      BY <3>16 DEF F
  <2> QED
    BY <2>1, <2>2
<1>3. S \in F
  <2> HIDE DEF F
  <2> QED
    BY <1>2, SubsetInduction
<1>4. \A a \in T : G(S)[a] \in Int /\ g[a] = G(S)[a]
  <2>1. \A a \in T : group[a] = Group(S, a)
    OBVIOUS
  <2> HIDE DEF Group
  <2> QED
    BY <1>1, <2>1
<1>5. SumFunctionOnSet(G(S), T) = SumFunctionOnSet(w, S)
  BY <1>3
<1> HIDE DEF G
<1>6. SumFunctionOnSet(g, T) = SumFunctionOnSet(G(S), T)
  BY <1>4, SumSame
<1> QED
  BY <1>5, <1>6
=============================================================================
