----------------------------- MODULE BlockStore -----------------------------
(***************************************************************************)
(* The block files of a node as a value, and the operations of BlockIndex  *)
(* (blockindex.cpp) as operators on that value.  A store is a record of    *)
(* what is on the disk                                                     *)
(*   files      the block kept under each identifier                       *)
(*   sections   the section directories that exist, emptied ones included  *)
(* and of what the BlockIndex object holds in memory                       *)
(*   records, firstSavedId, lastSavedId.                                   *)
(* Operators instead of actions, because one handler of Blockchain runs    *)
(* several of them: see BlockIndex for the state machine over one store    *)
(* and Blockchain for the handlers that use it.                            *)
(*                                                                         *)
(* A block is a record with at least a field "type".  recordsLimit is left *)
(* out: Blockchain builds its index with the default, "no limit".          *)
(***************************************************************************)
EXTENDS Integers, FiniteSets, FiniteSetsExt, Functions

CONSTANT SectionSize      \* Config::DataStorage::SECTION_SIZE

ASSUME SectionSizeAssumption == SectionSize \in Nat \ {0}

\* BigNumber(-1), the value BigNumber::isEmpty() tests for.
NoId == -1

\* Types a readable block can have, and "torn" for a file that exists but
\* holds no readable block row: getById answers "" for it.
ReadableTypes == {"data", "dummy", "genesis"}
FileTypes == ReadableTypes \cup {"torn"}

-----------------------------------------------------------------------------
(* Files and sections *)

\* Integer division of the identifier; cpp_int truncates -1 to section 0.
Section(id) == IF id < 0 THEN 0 ELSE id \div SectionSize

Ids(s) == DOMAIN s.files

InSection(s, k) == {i \in Ids(s) : Section(i) = k}

\* buildFilePath creates the section directory of any identifier it is asked
\* for, also when it is asked for a read.
Touch(s, ids) == [s EXCEPT !.sections = @ \cup {Section(i) : i \in ids}]

\* Blocks getBlockById answers, among those the scans of the class visit.
Visible(s) == {i \in Ids(s) : /\ s.firstSavedId <= i /\ i <= s.lastSavedId
                              /\ s.files[i].type # "torn"}

Top(S) == IF S = {} THEN NoId ELSE Max(S)

LastBlockId(s) == Top(Visible(s))
LastRealId(s) == Top({i \in Visible(s) : s.files[i].type # "dummy"})
LastGenesisId(s) == Top({i \in Visible(s) : s.files[i].type = "genesis"})

-----------------------------------------------------------------------------
(* Operations *)

EmptyStore ==
  [files |-> [i \in {} |-> i], sections |-> {},
   records |-> 0, firstSavedId |-> 0, lastSavedId |-> 0]

\* Mutant: lastSavedId is set without the comparison.
InsertUnordered(s, id, b) ==
  [files |-> [i \in Ids(s) \cup {id} |-> IF i = id THEN b ELSE s.files[i]],
   sections |-> s.sections \cup {Section(id)},
   records |-> s.records + 1,
   firstSavedId |-> Min({id, s.firstSavedId}),
   lastSavedId |-> id]

\* add, for an identifier that has no file (FILE_ALREADY_EXISTS otherwise):
\* the file is written, then the counters follow.
Insert(s, id, b) ==
  [files |-> [i \in Ids(s) \cup {id} |-> IF i = id THEN b ELSE s.files[i]],
   sections |-> s.sections \cup {Section(id)},
   records |-> s.records + 1,
   firstSavedId |-> IF id < s.firstSavedId \/ s.firstSavedId = NoId
                    THEN id ELSE s.firstSavedId,
   lastSavedId |-> IF id > s.lastSavedId THEN id ELSE s.lastSavedId]

RemoveAll(s) == EmptyStore

\* Mutant: records goes down for every identifier, file or no file.
RemoveRangeCountingIds(s, id) ==
  LET gone == {i \in Ids(s) : id <= i /\ i <= s.lastSavedId}
  IN [s EXCEPT !.files = Restrict(@, Ids(s) \ gone),
               !.sections = @ \cup {Section(i) : i \in id .. s.lastSavedId},
               !.records = @ - Cardinality(id .. s.lastSavedId),
               !.lastSavedId = id - 1]

\* The loop of removeById: every identifier from id to lastSavedId.
RemoveRange(s, id) ==
  LET gone == {i \in Ids(s) : id <= i /\ i <= s.lastSavedId}
  IN [s EXCEPT !.files = Restrict(@, Ids(s) \ gone),
               !.sections = @ \cup {Section(i) : i \in id .. s.lastSavedId},
               !.records = @ - Cardinality(gone),
               !.lastSavedId = id - 1]

RemoveById(s, id) ==
  RemoveRange(IF id < s.firstSavedId THEN RemoveAll(s) ELSE s, id)

IsDummy(s, id) == id \in Ids(s) /\ s.files[id].type = "dummy"

\* Mutant: the block the loop stops at goes as well.
DummyStopTooLow(s) ==
  Max({NoId, Max({i \in NoId .. s.lastSavedId : ~IsDummy(s, i)}) - 1})

\* removeDummyBlocks goes down from lastSavedId and stops at the first
\* identifier whose file is not a dummy block, or that has no file.
DummyStop(s) == Max({i \in NoId .. s.lastSavedId : ~IsDummy(s, i)})

\* Mutant: only the newest dummy block goes.
RemoveLastDummy(s) ==
  IF IsDummy(s, s.lastSavedId) THEN RemoveById(s, s.lastSavedId) ELSE s

RemoveDummyBlocks(s) ==
  LET seen == Touch(s, {DummyStop(s)})
  IN IF DummyStop(s) = s.lastSavedId THEN seen
     ELSE RemoveById(seen, DummyStop(s) + 1)

\* Mutants: the counters of an index without files, or never loaded.
LoadFirstIdUnset(s) ==
  IF s.sections = {} \/ InSection(s, Min(s.sections)) = {} THEN NoId
  ELSE Min(InSection(s, Min(s.sections)))
LoadLastIdZero(s) == 0

\* The constructor: first file of the first section, last file of the last
\* section, 0 when that section is empty; records counts the sections once
\* per section, because el.dir() is the directory el is in.
LoadFirstId(s) ==
  IF s.sections = {} \/ InSection(s, Min(s.sections)) = {} THEN 0
  ELSE Min(InSection(s, Min(s.sections)))

LoadLastId(s) ==
  IF s.sections = {} \/ InSection(s, Max(s.sections)) = {} THEN 0
  ELSE Max(InSection(s, Max(s.sections)))

Reload(s) ==
  [s EXCEPT !.records = Cardinality(s.sections) * Cardinality(s.sections),
            !.firstSavedId = LoadFirstId(s),
            !.lastSavedId = LoadLastId(s)]

-----------------------------------------------------------------------------
(* What the counters are for *)

\* A store whose identifiers are at most b.
StoreTypeOK(s, b) ==
  /\ s = [files |-> s.files, sections |-> s.sections, records |-> s.records,
          firstSavedId |-> s.firstSavedId, lastSavedId |-> s.lastSavedId]
  /\ Ids(s) \subseteq 0 .. b
  /\ \A i \in Ids(s) : s.files[i].type \in FileTypes
  /\ s.sections \subseteq {Section(i) : i \in 0 .. b}
  /\ s.records \in Int
  /\ s.firstSavedId \in 0 .. b
  /\ s.lastSavedId \in NoId .. b

\* Every scan of the class goes from lastSavedId down to firstSavedId: a
\* stored block outside that range is a block the node no longer sees.
WithinRange(s) ==
  \A i \in Ids(s) : s.firstSavedId <= i /\ i <= s.lastSavedId

\* records counts the files.
Counted(s) == s.records = Cardinality(Ids(s))

\* Two facts the counters rest on: no file lies below firstSavedId, and every
\* file lies in a section directory the constructor will look into.
FirstBelow(s) == \A i \in Ids(s) : s.firstSavedId <= i
FilesInSections(s) == \A i \in Ids(s) : Section(i) \in s.sections

\* Section directories survive the removal of their last file.
TopSectionEmpty(s) ==
  s.sections # {} /\ InSection(s, Max(s.sections)) = {}
=============================================================================
