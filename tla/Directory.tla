----------------------------- MODULE Directory -----------------------------
(***************************************************************************)
(* The directory of one actor on all nodes (dfs_controller.cpp): each node *)
(* that knows the actor has a folder with the actor's files and a table of *)
(* them, .dir.  One node, Home, has the actor's private key and adds files *)
(* to it; the others hear of them, take a row and fetch the data.          *)
(*                                                                         *)
(* A message goes to every node there is a connection to (module Messages) *)
(* and arrives in order; each node has a connection to every other one     *)
(* that runs (module Connections).  How a file is put together from its    *)
(* segments is in module Fragments: here a segment message carries all of  *)
(* the file, and what it leaves may have the wrong hash.                   *)
(***************************************************************************)
EXTENDS Integers, SequencesExt, FiniteSetsExt, TLC

CONSTANTS
  Nodes, Home,
  Files,        \* names of the files that Home may add
  Size,         \* Size[f]: their sizes
  Reserve,      \* what writeAvailable adds to a size: 10000
  LimitChoices, \* what m_bytesLimit may be; 0 is no limit
  Word,         \* how many values a uint64_t has
  Late,         \* bound: nodes that may not know the actor at first
  MaxWrong,     \* bound: files put together with the wrong hash
  MaxRemovals,  \* bound: calls of removeLocalFile
  MaxKills,     \* bound: kills in the middle of a handler
  MaxRestarts   \* bound: restarts of a process that has ended

ASSUME DirectoryAssumption ==
  /\ Home \in Nodes /\ Late \subseteq Nodes \ {Home}
  /\ IsFiniteSet(Files)
  /\ Size \in [Files -> Nat \ {0}]
  /\ Word \in Nat \ {0} /\ LimitChoices \subseteq 0 .. Word - 1
  /\ {Reserve, MaxWrong, MaxRemovals, MaxKills, MaxRestarts} \subseteq Nat

VARIABLES
  limit,      \* limit[n]: m_bytesLimit
  status,     \* status[n]: "up", or why the process ended
  known,      \* nodes with a folder for the actor
  rows,       \* rows[n]: the table FilesTable of .dir
  stored,     \* stored[n]: the files in the folder, and whether they have their data
  taken,      \* taken[n]: m_sizeTaken
  link,       \* link[n][q]: messages on the way from n to q
  cache,      \* cache[n]: messages n sent while it had no connection
  added,      \* files that were added
  disturbed,  \* what Calm excludes has happened
  wrongs, removals, kills, restarts   \* what the bounds count

disk == <<known, rows, stored>>
counts == <<wrongs, removals, kills, restarts>>
vars == <<limit, status, disk, taken, link, cache, added, disturbed, counts>>

\* Files whose name is the hash of another one's content come from addDirData.
\* The name of a file of Home's is a hash too, with a salt: never one of these.
HashOf(f) == <<f>>
NoHash == <<>>
ASSUME NamesAssumption == Files \cap {HashOf(f) : f \in Files} = {}
Names == Files \cup {HashOf(f) : f \in Files}

Up == {n \in Nodes : status[n] = "up"}

-----------------------------------------------------------------------------
(* The tables *)

Row(name, hash, size) == [name |-> name, hash |-> hash, size |-> size]

\* getFileDataByName, which finds one row at most.
RowsOf(n, name) == {row \in ToSet(rows[n]) : row.name = name}
RowOf(n, name) == CHOOSE row \in RowsOf(n, name) : TRUE

\* INSERT OR IGNORE.
InsertOrIgnore(table, row) ==
  IF \E i \in DOMAIN table : table[i].name = row.name THEN table ELSE Append(table, row)

\* writeAvailable, when used bytes are taken and the disk has room.
WriteAvailable(n, used, size) ==
  limit[n] = 0 \/ (used < limit[n] /\ size + Reserve < limit[n] - used)

\* The second test of addFile, in the arithmetic of uint64_t: a node without a
\* limit has no room by it until it has taken something.
DataWanted(n, size) == size < (limit[n] - taken[n]) % Word

Total(files) == SumFunctionOnSet(Size, files)

\* calculateSizeTaken: of the files that have their data.
SizeTaken(files) == Total({f \in DOMAIN files \cap Files : files[f] = "full"})

-----------------------------------------------------------------------------
(* Messages *)

DirRequest == [type |-> "DirRequest"]
DirData(table) == [type |-> "DirData", rows |-> table]
RequestFileMessage(name) == [type |-> "RequestFile", name |-> name]
AddFileMessage(row) == [type |-> "AddFile", row |-> row]
RequestSegment(row) == [type |-> "RequestSegment", name |-> row.name, hash |-> row.hash]
Segment(msg) == [type |-> "Segment", name |-> msg.name, hash |-> msg.hash]
RemoveFileMessage(name) == [type |-> "RemoveFile", name |-> name]

\* send_message; l is what is on the way before.
Send(l, n, msgs) ==
  IF Up = {n}
    THEN /\ cache' = [cache EXCEPT ![n] = @ \o msgs]
         /\ link' = l
    ELSE /\ link' = [l EXCEPT ![n] = [p \in Nodes |-> IF p \in Up \ {n} THEN @[p] \o msgs ELSE @[p]]]
         /\ UNCHANGED cache

\* The process of n ends.  What it has written before may arrive or not.
Gone(n) ==
  \E arrives \in BOOLEAN :
    link' = [p \in Nodes |-> [q \in Nodes |->
               IF q = n \/ (p = n /\ ~arrives) THEN <<>> ELSE link[p][q]]]

\* qFatal, or an exception that nothing catches.
End(n, why) ==
  /\ status' = [status EXCEPT ![n] = why]
  /\ Gone(n)
  /\ UNCHANGED <<rows, stored, cache, wrongs, disturbed>>

Ignore(l) == link' = l /\ UNCHANGED <<status, rows, stored, cache, wrongs, disturbed>>

Reply(l, n, msgs) == Send(l, n, msgs) /\ UNCHANGED <<status, rows, stored, wrongs, disturbed>>

-----------------------------------------------------------------------------
(* Handlers: n has received msg, l is what is on the way then *)

\* sendDirData
SendDirData(l, n) ==
  IF n \notin known \/ rows[n] = <<>> THEN Ignore(l) ELSE Reply(l, n, <<DirData(rows[n])>>)

\* Files in a folder, in the state they have then.
With(files, names, state) ==
  [name \in DOMAIN files \cup names |-> IF name \in names THEN state ELSE files[name]]

Without(files, names) == [name \in DOMAIN files \ names |-> files[name]]

\* addDirData.  The rows have a column the table does not have: none of them is
\* inserted, and nobody looks at the result.  Then each file is removed and
\* asked for, by its hash.
AddDirData(l, n, table) ==
  CASE n \notin known -> End(n, "open")
    [] n \in known /\ \E i \in DOMAIN table : table[i].hash = NoHash -> End(n, "why")
    [] OTHER ->
         LET names == [i \in DOMAIN table |-> table[i].hash]
         IN /\ stored' = [stored EXCEPT ![n] = Without(@, ToSet(names))]
            /\ Send(l, n, [i \in DOMAIN names |-> RequestFileMessage(names[i])])
            /\ UNCHANGED <<status, rows, wrongs, disturbed>>

\* Mutant: the row is looked for by the hash.
SendFileByHash(n, name) ==
  LET row == RowOf(n, HashOf(name))
  IN AddFileMessage(IF RowsOf(n, HashOf(name)) = {} THEN Row(name, NoHash, 0)
                                                    ELSE Row(name, row.hash, row.size))

\* sendFile: of a file that is not in the table it sends the name only.
SendFile(n, name) ==
  AddFileMessage(IF RowsOf(n, name) = {} THEN Row(name, NoHash, 0) ELSE RowOf(n, name))

AnswerFileRequest(l, n, name) ==
  IF n \notin known THEN End(n, "open") ELSE Reply(l, n, <<SendFile(n, name)>>)

FileExists(n, name) == name \in DOMAIN stored[n]

\* Mutant: a file is made anew whenever it is announced.
ExistsNever(n, name) == FALSE

\* The check of addFile: whatever the file holds.
Exists(n, name) == FileExists(n, name)

\* Mutant: the comparison of the size with the room left is the other way round.
AddFileUnasked(l, n, row) ==
  IF FileExists(n, row.name) \/ n \notin known
    THEN Ignore(l)
    ELSE /\ stored' = [stored EXCEPT ![n] = With(@, {row.name}, "empty")]
         /\ rows' = [rows EXCEPT ![n] = InsertOrIgnore(@, row)]
         /\ link' = l
         /\ UNCHANGED <<status, cache, wrongs, disturbed>>

\* addFile with loadBytes: an empty file, a row, a request for the data if there
\* is room for it, still.
AddFile(l, n, row) ==
  CASE Exists(n, row.name) -> Ignore(l)
    [] ~Exists(n, row.name) /\ ~WriteAvailable(n, taken[n], row.size) -> End(n, "full")
    [] ~Exists(n, row.name) /\ WriteAvailable(n, taken[n], row.size) /\ n \notin known -> End(n, "open")
    [] OTHER ->
         /\ stored' = [stored EXCEPT ![n] = With(@, {row.name}, "empty")]
         /\ rows' = [rows EXCEPT ![n] = InsertOrIgnore(@, row)]
         /\ \/ DataWanted(n, row.size) /\ Send(l, n, <<RequestSegment(row)>>)
            \/ ~DataWanted(n, row.size) /\ link' = l /\ UNCHANGED cache
         /\ UNCHANGED <<status, wrongs, disturbed>>

\* fetchFragments
FetchFragments(l, n, msg) ==
  IF FileExists(n, msg.name) /\ stored[n][msg.name] = "full"
    THEN Reply(l, n, <<Segment(msg)>>)
    ELSE Ignore(l)

\* requestFile, after a wrong hash.
RequestFile(l, n, name) ==
  /\ stored' = [stored EXCEPT ![n] = Without(@, {name})]
  /\ Send(l, n, <<RequestFileMessage(name)>>)
  /\ UNCHANGED <<status, rows>>

\* A FragmentWriter has all of the file; the hash is the one of the message.
FileFull(l, n, msg) ==
  \/ /\ msg.hash = HashOf(msg.name)
     /\ stored' = [stored EXCEPT ![n][msg.name] = "full"]
     /\ Send(l, n, <<SendFile(n, msg.name)>>)
     /\ UNCHANGED <<status, rows, wrongs, disturbed>>
  \/ /\ msg.hash # HashOf(msg.name)
     /\ RequestFile(l, n, msg.name)
     /\ UNCHANGED <<wrongs, disturbed>>
  \/ /\ wrongs < MaxWrong
     /\ wrongs' = wrongs + 1
     /\ disturbed' = TRUE
     /\ RequestFile(l, n, msg.name)

\* threadAddFragment.  A file without a row: the first of no rows is read.
ThreadAddFragment(l, n, msg) ==
  CASE ~FileExists(n, msg.name) -> Ignore(l)
    [] FileExists(n, msg.name) /\ RowsOf(n, msg.name) = {} -> End(n, "noRow")
    [] OTHER ->
         IF stored[n][msg.name] = "full" \/ RowOf(n, msg.name).size = 0
           THEN Ignore(l)
           ELSE FileFull(l, n, msg)

\* removeFile reads a column that the table does not have.
RemoveFile(l, n, name) ==
  CASE n \notin known -> End(n, "open")
    [] n \in known /\ RowsOf(n, name) # {} -> End(n, "noColumn")
    [] OTHER -> Ignore(l)

Handle(l, n, msg) ==
  \/ msg.type = "DirRequest" /\ SendDirData(l, n)
  \/ msg.type = "DirData" /\ AddDirData(l, n, msg.rows)
  \/ msg.type = "RequestFile" /\ AnswerFileRequest(l, n, msg.name)
  \/ msg.type = "AddFile" /\ AddFile(l, n, msg.row)
  \/ msg.type = "RequestSegment" /\ FetchFragments(l, n, msg)
  \/ msg.type = "Segment" /\ ThreadAddFragment(l, n, msg)
  \/ msg.type = "RemoveFile" /\ RemoveFile(l, n, msg.name)

Deliver(q, n) ==
  /\ n \in Up
  /\ link[q][n] # <<>>
  /\ Handle([link EXCEPT ![q][n] = Tail(@)], n, Head(link[q][n]))
  /\ UNCHANGED <<limit, known, taken, added, removals, kills, restarts>>

-----------------------------------------------------------------------------
(* Calls of the application, and of the actor index *)

\* initializeActor, for an actor the node has just heard of.
InitializeActor(n) ==
  /\ n \in Up \ known
  /\ known' = known \cup {n}
  /\ Send(link, n, <<DirRequest>>)
  /\ disturbed' = (disturbed \/ added # {})
  /\ UNCHANGED <<limit, status, rows, stored, taken, added, counts>>

DirRequested == \E n, q \in Nodes : DirRequest \in ToSet(link[n][q]) \cup ToSet(cache[n])

OwnRow(f) == Row(f, HashOf(f), Size[f])

\* Each file of the list has room after those before it.  Nothing is done for
\* one that has none, so it is left out of the list.
Fitting(list) ==
  \A i \in DOMAIN list :
    WriteAvailable(Home, taken[Home] + Total(ToSet(SubSeq(list, 1, i - 1))), Size[list[i]])

\* createFileName: a file that is added again gets another name.
NewNames(list) == \A f \in ToSet(list) : f \notin DOMAIN stored[Home] /\ RowsOf(Home, f) = {}

\* Files of the list are copied into the folder and get their rows.
Copied(list, withRow) ==
  /\ stored' = [stored EXCEPT ![Home] = With(@, ToSet(list), "full")]
  /\ rows' = [rows EXCEPT ![Home] = @ \o [i \in DOMAIN withRow |-> OwnRow(withRow[i])]]

\* Mutant: m_sizeTaken is not increased.
TakenUnchanged(list) == taken

TakenWith(list) == [taken EXCEPT ![Home] = @ + Total(ToSet(list))]

\* addLocalFile, of one file, and addListFiles, which sends its messages at the
\* end.
AddFiles(list) ==
  /\ Home \in Up \cap known
  /\ list # <<>> /\ NewNames(list) /\ Fitting(list)
  /\ Copied(list, list)
  /\ taken' = TakenWith(list)
  /\ Send(link, Home, [i \in DOMAIN list |-> AddFileMessage(OwnRow(list[i]))])
  /\ added' = added \cup ToSet(list)
  /\ disturbed' = (disturbed \/ DirRequested)
  /\ UNCHANGED <<limit, status, known, counts>>

\* removeLocalFile of a path: the message has the last part of the path, what is
\* removed has the hash of the file for its name.
RemoveLocalFile(f) ==
  /\ Home \in Up /\ f \in added
  /\ removals < MaxRemovals
  /\ removals' = removals + 1
  /\ stored' = [stored EXCEPT ![Home] = Without(@, {HashOf(f)})]
  /\ Send(link, Home, <<RemoveFileMessage(f)>>)
  /\ disturbed' = TRUE
  /\ UNCHANGED <<limit, status, known, rows, taken, added, wrongs, kills, restarts>>

-----------------------------------------------------------------------------
(* Kills and restarts *)

Killed(n) ==
  /\ kills < MaxKills
  /\ kills' = kills + 1
  /\ status' = [status EXCEPT ![n] = "killed"]
  /\ Gone(n)
  /\ disturbed' = TRUE
  /\ UNCHANGED <<limit, known, taken, cache, wrongs, removals, restarts>>

\* Some files have rows, the next one may be copied; nothing is sent.
KillInAddFiles(list) ==
  /\ Home \in Up \cap known
  /\ NewNames(list) /\ Fitting(list)
  /\ \E i, j \in 0 .. Len(list) :
       /\ j \in {i, i + 1}
       /\ Copied(SubSeq(list, 1, j), SubSeq(list, 1, i))
       /\ added' = added \cup ToSet(SubSeq(list, 1, i))
  /\ Killed(Home)

\* The file is there, the row may not be; nothing is sent.
KillInAddFile(q, n) ==
  /\ n \in Up \cap known
  /\ link[q][n] # <<>>
  /\ Head(link[q][n]).type = "AddFile"
  /\ LET row == Head(link[q][n]).row
     IN /\ ~FileExists(n, row.name)
        /\ WriteAvailable(n, taken[n], row.size)
        /\ stored' = [stored EXCEPT ![n] = With(@, {row.name}, "empty")]
        /\ \/ rows' = [rows EXCEPT ![n] = InsertOrIgnore(@, row)]
           \/ UNCHANGED rows
  /\ Killed(n)
  /\ UNCHANGED added

\* The process starts again, and everybody connects to it; caches are sent.
Restart(n) ==
  /\ n \notin Up /\ status[n] # "absent"
  /\ restarts < MaxRestarts
  /\ restarts' = restarts + 1
  /\ status' = [status EXCEPT ![n] = "up"]
  /\ taken' = [taken EXCEPT ![n] = SizeTaken(stored[n])]
  /\ link' = [p \in Nodes |-> [q \in Nodes |->
                IF (q = n /\ p \in Up) \/ (p = n /\ q \in Up) THEN link[p][q] \o cache[p] ELSE link[p][q]]]
  /\ cache' = IF Up = {} THEN cache ELSE [p \in Nodes |-> IF p \in Up \cup {n} THEN <<>> ELSE cache[p]]
  /\ disturbed' = TRUE
  /\ UNCHANGED <<limit, disk, added, wrongs, removals, kills>>

Init ==
  /\ limit \in [Nodes -> LimitChoices]
  /\ \E there \in SUBSET Nodes :
       /\ Home \in there
       /\ status = [n \in Nodes |-> IF n \in there THEN "up" ELSE "absent"]
  /\ \E late \in SUBSET Late : known = Up \ late
  /\ rows = [n \in Nodes |-> <<>>]
  /\ stored = [n \in Nodes |-> <<>>]
  /\ taken = [n \in Nodes |-> 0]
  /\ link = [p \in Nodes |-> [q \in Nodes |-> <<>>]]
  /\ cache = [n \in Nodes |-> <<>>]
  /\ added = {}
  /\ disturbed = FALSE
  /\ wrongs = 0 /\ removals = 0 /\ kills = 0 /\ restarts = 0

\* Lists of different files.
Lists ==
  {list \in UNION {[1 .. k -> Files] : k \in 0 .. Cardinality(Files)} :
     \A i, j \in DOMAIN list : list[i] = list[j] => i = j}

Next ==
  \/ \E q, n \in Nodes : Deliver(q, n) \/ KillInAddFile(q, n)
  \/ \E list \in Lists : AddFiles(list) \/ KillInAddFiles(list)
  \/ \E f \in Files : RemoveLocalFile(f)
  \/ \E n \in Nodes : InitializeActor(n) \/ Restart(n)

\* Messages on a connection arrive.
Fairness == \A q, n \in Nodes : WF_vars(Deliver(q, n))

Spec == Init /\ [][Next]_vars /\ Fairness

-----------------------------------------------------------------------------
(* Properties *)

Rows == [name : Names, hash : {HashOf(f) : f \in Files} \cup {NoHash}, size : {Size[f] : f \in Files} \cup {0}]
Ends == {"open", "why", "full", "noRow", "noColumn", "killed", "absent"}

\* The types of what the nodes keep; a table has one row for a name, and only a
\* node that knows the actor has any.
TypeOK ==
  /\ status \in [Nodes -> Ends \cup {"up"}]
  /\ known \subseteq Nodes
  /\ \A n \in Nodes :
       /\ rows[n] \in Seq(Rows)
       /\ \A i, j \in DOMAIN rows[n] : rows[n][i].name = rows[n][j].name => i = j
       /\ DOMAIN stored[n] \subseteq Names
       /\ n \notin known => rows[n] = <<>> /\ stored[n] = <<>>

\* Whatever the other nodes ask and announce, and whenever a process is killed,
\* the files that were added stay with the node that added them.
OwnerKeeps ==
  \A f \in added : OwnRow(f) \in ToSet(rows[Home]) /\ FileExists(Home, f) /\ stored[Home][f] = "full"

\* A file whose name is a hash is and stays empty on every node.
PhantomsEmpty ==
  \A n \in Nodes, f \in Files :
    /\ HashOf(f) \in DOMAIN stored[n] => stored[n][HashOf(f)] = "empty"
    /\ \A i \in DOMAIN rows[n] : rows[n][i].name = HashOf(f) => rows[n][i].hash = NoHash /\ rows[n][i].size = 0

\* The files of its own stay within a node's limit, if it has one, with the
\* reserve, over all kills and restarts.
OwnWithinLimit == added # {} /\ limit[Home] # 0 => Total(added) + Reserve < limit[Home]

\* What every announcement, request, removal and kill keeps.
DirectoryInv == TypeOK /\ PhantomsEmpty /\ OwnWithinLimit

\* As long as no directory is asked for once it has files, no hash is wrong,
\* nothing is removed and nothing is killed, there are only the files
\* that were added, each with its right row; and only a lack of room, or not
\* knowing the actor, ends a process.
CalmIsRight ==
  ~disturbed =>
    \A n \in Nodes :
      /\ ToSet(rows[n]) \subseteq {OwnRow(f) : f \in added}
      /\ DOMAIN stored[n] \subseteq added
      /\ status[n] \in {"up", "full", "open", "absent"}
      /\ status[n] = "open" => n \notin known

\* In a calm run every node that knows the actor gets each file that is added,
\* unless its limit leaves no room.  A node without a limit that has taken
\* nothing gets the row and an empty file; it never asks for the data, which
\* comes only if another node does.
AddedArrives ==
  \A f \in Files, n \in Nodes :
    f \in added /\ n \in known ~>
      \/ disturbed \/ status[n] = "full"
      \/ /\ FileExists(n, f) /\ RowsOf(n, f) # {}
         /\ stored[n][f] = "full" \/ (limit[n] = 0 /\ taken[n] = 0)
=============================================================================
