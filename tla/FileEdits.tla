----------------------------- MODULE FileEdits -----------------------------
(***************************************************************************)
(* One file in a node's storage after it is there: edits of its segments,  *)
(* by class FragmentStorage, which goes by the table Fragments, and by the *)
(* message handlers insertFragment and deleteFragment of DfsController,    *)
(* which do not; the historical chain that is kept in the same database    *)
(* (historical_chain.cpp); and what the node hands out of the file.        *)
(*                                                                         *)
(* A byte is a number, 0 the one that fills gaps.  The disk holds         *)
(* content, fragments and chain; nothing of them is in memory.             *)
(***************************************************************************)
EXTENDS FragmentStore

CONSTANTS
  Bytes,        \* what a file consists of
  Pieces,       \* what an edit brings: sequences of bytes
  MaxLength,    \* bound: the length of a file
  MaxEdits,     \* bound: edits and deletions
  SectionSize,  \* DFSB::sectionSize
  ChunkSize,    \* bytes of a segment message of a download: 401 sections
  HistorySize   \* DFS::Basic::historicalChainSectionSize

ASSUME EditsAssumption ==
  /\ Bytes \subseteq Nat \ {0}
  /\ Pieces \subseteq Seq(Bytes)
  /\ {MaxLength, MaxEdits} \subseteq Nat
  /\ {SectionSize, ChunkSize, HistorySize} \subseteq Nat \ {0}

VARIABLES
  content,    \* of the file
  fragments,  \* the table Fragments: pos to [storedPos, size]
  chain,      \* the table HistoricalChain, in the order of num
  running,    \* FALSE after the process has ended
  edits       \* edits so far, for MaxEdits

editsVars == <<content, fragments, chain, running, edits>>

CeilDiv(n, d) == (n + d - 1) \div d

\* The k-th part of f in parts of n bytes.
Part(f, n, k) == SubSeq(f, (k - 1) * n + 1, Min({k * n, Len(f)}))

-----------------------------------------------------------------------------
(* The historical chain *)

\* Mutant: the number of the last row is used again.
ApplyReusing(c, type, pos, data) ==
  LET last == IF c = <<>> THEN 0 ELSE c[Len(c)].num
  IN Append(c, [num |-> last, prevNum |-> last, type |-> type, pos |-> pos, data |-> data])

Apply(c, type, pos, data) ==
  LET prevNum == IF c = <<>> THEN 0 ELSE c[Len(c)].num
  IN Append(c, [num |-> IF c = <<>> THEN 0 ELSE prevNum + 1, prevNum |-> prevNum,
                type |-> type, pos |-> pos, data |-> data])

\* The first row comes before the first read and has the empty buffer, all
\* have position 0, and a last part that does not fill the buffer is left out.
InitLocal(f) ==
  LET reads == Len(f) \div HistorySize
      c[k \in 0 .. reads] ==
        IF k = 0 THEN Apply(<<>>, "insert", 0, Zeros(HistorySize))
        ELSE Apply(c[k - 1], "insert", 0, Part(f, HistorySize, k))
  IN c[reads]

-----------------------------------------------------------------------------
(* How the file came here *)

\* The row of initLocalFile has no fragHash, which must not be null: INSERT OR
\* IGNORE leaves the table empty.
LocalRows == <<>>

\* A segment message carries the offset at which the next one begins, the last
\* one that of its last section; of two rows with one offset the first stays.
DownloadedRows(n) ==
  LET Offset(k) == IF k * ChunkSize < n THEN k * ChunkSize
                   ELSE SectionSize * ((n - 1) \div SectionSize)
      chunks == 1 .. CeilDiv(n, ChunkSize)
  IN [pos \in {Offset(k) : k \in chunks} |->
        LET k == Min({j \in chunks : Offset(j) = pos})
        IN [storedPos |-> (k - 1) * ChunkSize,
            size |-> Min({ChunkSize, n - (k - 1) * ChunkSize})]]

\* Added here, downloaded, or announced and still empty.
EditsInit ==
  /\ content \in UNION {[1 .. n -> Bytes] : n \in 0 .. MaxLength}
  /\ \/ content # <<>> /\ fragments = LocalRows
     \/ content # <<>> /\ fragments = DownloadedRows(Len(content))
     \/ content = <<>> /\ fragments = <<>>
  /\ chain = IF content = <<>> THEN <<>> ELSE InitLocal(content)
  /\ running = TRUE
  /\ edits = 0

-----------------------------------------------------------------------------
(* FragmentStorage::editFragment, and removeFragment *)

Edit == running /\ edits < MaxEdits /\ edits' = edits + 1
Fits(data) == Len(content) + Len(data) <= MaxLength

\* add and insert: the chain has no row for them.
InsertFragment(pos, data) ==
  /\ Edit /\ Fits(data)
  /\ LET at == PosToWrite(content, fragments, pos)
     IN /\ content' = Write(content, at, data)
        /\ fragments' = InsertRow(fragments, pos, at, Len(data))
  /\ UNCHANGED <<chain, running>>

\* replace: the chain first; no data at all is fatal.
ReplaceFragment(pos, data) ==
  LET done == ApplyChanges(content, fragments, pos, data)
  IN /\ Edit /\ Len(done.file) <= MaxLength
     /\ chain' = Apply(chain, "replace", pos, data)
     /\ IF data = <<>> THEN running' = FALSE /\ UNCHANGED content
                       ELSE running' = done.ok /\ content' = done.file
     /\ UNCHANGED fragments

\* Killed between the chain and the file.
KillInReplace(pos, data) ==
  /\ Edit
  /\ chain' = Apply(chain, "replace", pos, data)
  /\ running' = FALSE
  /\ UNCHANGED <<content, fragments>>

\* remove: looks for the file under its hash, and file_mapping throws.
EditRemove ==
  /\ Edit
  /\ running' = FALSE
  /\ UNCHANGED <<content, fragments, chain>>

Without(pos) == [q \in DOMAIN fragments \ {pos} |-> fragments[q]]

\* The rows behind keep their storedPos.
RemoveFragment(pos) ==
  /\ Edit /\ pos \in DOMAIN fragments
  /\ fragments' = Without(pos)
  /\ chain' = Apply(chain, "remove", pos, <<>>)
  /\ content' = RemoveBytes(content, fragments[pos].storedPos, fragments[pos].size)
  /\ UNCHANGED running

\* Killed when the row is gone, before or after the chain has its own.
KillInRemove(pos) ==
  /\ Edit /\ pos \in DOMAIN fragments
  /\ fragments' = Without(pos)
  /\ chain' \in {chain, Apply(chain, "remove", pos, <<>>)}
  /\ running' = FALSE
  /\ UNCHANGED content

-----------------------------------------------------------------------------
(* The handlers of DfsEditSegment and DfsDeleteSegment *)

\* The same loops over sections again, in DfsController.
InsertDataChunk(f, pos, data) == Write(f, pos, data)
RemoveDataChunk(f, pos, size) == RemoveBytes(f, pos, size)

\* insertFragment: the file alone.
EditSegment(pos, data) ==
  /\ Edit /\ Fits(data) /\ pos + Len(data) <= MaxLength
  /\ content' = InsertDataChunk(content, pos, data)
  /\ UNCHANGED <<fragments, chain, running>>

\* Killed between the cut and the last append.
KillInEditSegment(pos, data) ==
  /\ Edit /\ Fits(data) /\ pos + Len(data) <= MaxLength
  /\ LET written == InsertDataChunk(content, pos, data)
     IN content' \in {SubSeq(written, 1, n) : n \in pos .. Len(written)}
  /\ running' = FALSE
  /\ UNCHANGED <<fragments, chain>>

\* deleteFragment takes FileHash for the file's name.  If no file has that
\* name file_mapping throws; if one has, it is cut, and then reading the column
\* fileHashPrev, which the table does not have, throws.
DeleteSegment(pos, size) ==
  /\ Edit
  /\ running' = FALSE
  /\ content' \in {content, RemoveDataChunk(content, pos, size)}
  /\ UNCHANGED <<fragments, chain>>

-----------------------------------------------------------------------------
(* What the node hands out *)

\* sendFragment, for an offset in the file.
SendFragment(f, offset) ==
  SubSeq(f, offset + 1, IF Len(f) - offset > SectionSize THEN offset + SectionSize ELSE Len(f))

\* dataAmountStoredSize: the sizes in the table.
DataAmountStored(r) ==
  LET order == Ascending(DOMAIN r)
      sum[i \in 0 .. Len(order)] ==
        IF i = 0 THEN 0 ELSE sum[i - 1] + r[order[i]].size
  IN sum[Len(order)]

\* Where sendFragment reports the file as uploaded.
Uploaded(f, offset) == offset + SectionSize >= Len(f)

RestartProcess ==
  /\ ~running /\ running' = TRUE
  /\ UNCHANGED <<content, fragments, chain, edits>>

Positions == 0 .. MaxLength

EditsNext ==
  \/ \E pos \in Positions, data \in Pieces :
       \/ InsertFragment(pos, data)
       \/ ReplaceFragment(pos, data) \/ KillInReplace(pos, data)
       \/ EditSegment(pos, data) \/ KillInEditSegment(pos, data)
  \/ \E pos \in Positions : RemoveFragment(pos) \/ KillInRemove(pos)
  \/ \E pos \in Positions, size \in 1 .. MaxLength : DeleteSegment(pos, size)
  \/ EditRemove
  \/ RestartProcess

EditsSpec == EditsInit /\ [][EditsNext]_editsVars

-----------------------------------------------------------------------------
(* Properties *)

Row == [storedPos : Nat, size : Nat]
EditsTypeOK ==
  /\ content \in Seq(Bytes \cup {0})
  /\ DOMAIN fragments \subseteq Positions /\ \A pos \in DOMAIN fragments : fragments[pos] \in Row
  /\ chain \in Seq([num : Nat, prevNum : Nat, type : {"insert", "replace", "remove"},
                    pos : Positions, data : Seq(Bytes \cup {0})])
  /\ running \in BOOLEAN

\* The rows of the chain are numbered from 0 and name the one before, whatever
\* was interrupted (HistoricalChain::apply).
ChainNumbered ==
  \A i \in DOMAIN chain : chain[i].num = i - 1 /\ chain[i].prevNum = Max({0, i - 2})

\* Who asks for one section after the other until the file is uploaded has
\* the file: no section is too long at the end of one, and none is left out
\* (sendFragment).
ServedWhole ==
  LET parts == CeilDiv(Len(content), SectionSize)
      Offset(k) == (k - 1) * SectionSize
  IN /\ FlattenSeq([k \in 1 .. parts |-> SendFragment(content, Offset(k))]) = content
     /\ \A k \in 1 .. parts : Uploaded(content, Offset(k)) <=> k = parts

\* Every row is about the bytes at its pos, and together they are the file.
Tiled(f, r) ==
  /\ \A q \in DOMAIN r :
       /\ r[q].storedPos = q /\ r[q].size > 0
       /\ q + r[q].size \in DOMAIN r \cup {Len(f)}
       /\ \A p \in DOMAIN r : p <= q \/ p >= q + r[q].size
  /\ f = <<>> \/ 0 \in DOMAIN r

\* While the table is in order, reading its fragments one after the other gives
\* the file (getFragment), and as much is reported as stored.
FragmentsRead ==
  Tiled(content, fragments) =>
    /\ LET order == Ascending(DOMAIN fragments)
       IN FlattenSeq([i \in DOMAIN order |-> GetFragment(content, fragments, order[i])]) = content
    /\ DataAmountStored(fragments) = Len(content)

\* What holds of the stored file whatever edits, kills and restarts it went through.
EditsInv == EditsTypeOK /\ ChainNumbered /\ ServedWhole /\ FragmentsRead

Marked(n) == [i \in 1 .. n |-> 1000 + i]

\* While the table is in order, replacing any part of the file, from the middle
\* of one fragment to the middle of another, changes those bytes and no other
\* (applyChanges), and appending a fragment leaves the table in order
\* (insertFragment): edits of these two kinds can go on for ever.
ReplaceExact ==
  Tiled(content, fragments) =>
    /\ \A pos \in 0 .. Len(content) : \A n \in 1 .. (Len(content) - pos) :
         ApplyChanges(content, fragments, pos, Marked(n)) =
           [file |-> SubSeq(content, 1, pos) \o Marked(n) \o SubSeq(content, pos + n + 1, Len(content)),
            ok |-> TRUE]
    /\ \A n \in 1 .. MaxLength :
         LET at == PosToWrite(content, fragments, Len(content))
         IN Tiled(Write(content, at, Marked(n)), InsertRow(fragments, Len(content), at, n))
=============================================================================
