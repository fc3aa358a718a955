----------------------------- MODULE BlockIndex -----------------------------
(***************************************************************************)
(* The block index of one node (blockindex.cpp) as a state machine: any    *)
(* sequence of calls of its public operations, the process stopping or     *)
(* being killed in the middle of a call, and starting again on the files   *)
(* it left.  The operations are those of BlockStore.                       *)
(***************************************************************************)
EXTENDS BlockStore

CONSTANT MaxIndex      \* bound: identifiers are 0 .. MaxIndex

ASSUME MaxIndexAssumption == MaxIndex \in Nat

VARIABLES
  store,      \* files and section directories, and the object's counters
  running     \* is the process up?  The counters mean nothing while it is not

vars == <<store, running>>

Indexes == 0 .. MaxIndex
Blocks == [type : ReadableTypes]
Torn == [type |-> "torn"]

TypeOK ==
  /\ running \in BOOLEAN
  /\ StoreTypeOK(store, MaxIndex)

Init ==
  /\ store = EmptyStore
  /\ running = FALSE

-----------------------------------------------------------------------------
(* The process *)

\* The constructor, on whatever files are there.
Start ==
  /\ ~running
  /\ running' = TRUE
  /\ store' = Reload(store)

\* The process ends between two calls.
Stop ==
  /\ running
  /\ running' = FALSE
  /\ UNCHANGED store

\* add: an identifier whose file exists is refused and nothing changes, so
\* only the other case is a step.
AddBlock(id, b) ==
  /\ running
  /\ id \notin Ids(store)
  /\ store' = Insert(store, id, b)
  /\ UNCHANGED running

\* getById, for its one lasting effect.
GetBlockById(id) ==
  /\ running
  /\ store' = Touch(store, {id})
  /\ UNCHANGED running

RemoveBlockById(id) ==
  /\ running
  /\ store' = RemoveById(store, id)
  /\ UNCHANGED running

RemoveDummies ==
  /\ running
  /\ store' = RemoveDummyBlocks(store)
  /\ UNCHANGED running

Clear ==
  /\ running
  /\ store' = RemoveAll(store)
  /\ UNCHANGED running

\* add is a mkpath, a file creation, and then one SQLite statement per table
\* and row: a kill leaves the directory, an unreadable file, or the block with
\* the counters not updated.
CrashInAdd(id, b) ==
  /\ running
  /\ id \notin Ids(store)
  /\ running' = FALSE
  /\ \/ store' = Touch(store, {id})
     \/ store' = [Insert(store, id, Torn) EXCEPT
                    !.firstSavedId = store.firstSavedId,
                    !.lastSavedId = store.lastSavedId]
     \/ store' = [Insert(store, id, b) EXCEPT
                    !.firstSavedId = store.firstSavedId,
                    !.lastSavedId = store.lastSavedId]

\* removeById removes upwards: a kill leaves the files from k on.
CrashInRemove(id, k) ==
  /\ running
  /\ store.firstSavedId <= id /\ id < k /\ k <= store.lastSavedId
  /\ running' = FALSE
  /\ store' = [store EXCEPT !.files = Restrict(@, Ids(store) \ (id .. k - 1)),
                            !.sections = @ \cup {Section(i) : i \in id .. k}]

Next ==
  \/ Start
  \/ Stop
  \/ RemoveDummies
  \/ Clear
  \/ \E id \in Indexes :
       \/ GetBlockById(id)
       \/ RemoveBlockById(id)
       \/ \E b \in Blocks : AddBlock(id, b) \/ CrashInAdd(id, b)
       \/ \E k \in Indexes : CrashInRemove(id, k)

Spec == Init /\ [][Next]_vars

-----------------------------------------------------------------------------
(* Properties *)

\* While the process is up, every block file is inside the range that all
\* scans of the index visit.  (firstSavedId and lastSavedId, kept by add,
\* removeById and the constructor.)
StoredWithinRange == running => WithinRange(store)

\* The inductive invariant behind the next two properties.  The range is not
\* an invariant (a restart can lose it), but its lower end is, and so is that
\* no file is outside the section directories.
IndexInv ==
  /\ TypeOK
  /\ FilesInSections(store)
  /\ running => FirstBelow(store)

\* No operation, and no kill, puts a block file outside that range, except
\* one: starting on a highest section directory that holds no file, where
\* loadFileFromSection answers 0.
RangeLostOnlyAtStart ==
  [][StoredWithinRange /\ ~StoredWithinRange'
       => Start /\ TopSectionEmpty(store)]_vars

\* records is the number of block files until the process starts on files it
\* did not write itself: add and removeById count every file, whatever the
\* holes and the identifiers they are called with.
CountLostOnlyAtStart ==
  [][running /\ Counted(store) /\ ~Counted(store') => ~running']_vars

\* Dropping the dummy blocks (what makeBlock does before it packs a block)
\* drops no other block, and leaves no dummy block on top unless a hole or an
\* unreadable file stopped it.
DummiesDropped ==
  [][RemoveDummies =>
       /\ \A i \in Ids(store) : ~IsDummy(store, i) => i \in Ids(store')
       /\ LastRealId(store') = LastRealId(store)
       /\ \/ LastBlockId(store') = LastRealId(store)
          \/ \E i \in store.firstSavedId .. store.lastSavedId :
               i \notin Visible(store)]_vars
=============================================================================
