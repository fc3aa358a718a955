-------------------------- MODULE Directory_proofs --------------------------
(***************************************************************************)
(* The files an actor adds stay with it, within its node's limit, whatever *)
(* the other nodes ask and announce and whenever a process is killed, for  *)
(* any nodes, files, sizes and limits.  From BlockStore_proofs come only   *)
(* the facts about sums.                                                   *)
(***************************************************************************)
EXTENDS Directory, BlockStore_proofs

Hashes == {HashOf(f) : f \in Files}

\* A row of a file whose name is a hash says nothing.
TableRows ==
  {row \in Rows : row.name \in Hashes => row.hash = NoHash /\ row.size = 0}

Messages ==
  {DirRequest}
    \cup [type : {"DirData"}, rows : Seq(TableRows)]
    \cup [type : {"RequestFile"}, name : Names]
    \cup [type : {"AddFile"}, row : TableRows]
    \cup [type : {"RequestSegment", "Segment"}, name : Names, hash : Hashes \cup {NoHash}]
    \cup [type : {"RemoveFile"}, name : Files]

\* All messages there are, on the way or not sent yet, are in M.
Links(M) == [Nodes -> [Nodes -> Seq(M)]]
Carried(M) == link \in Links(M) /\ cache \in [Nodes -> Seq(M)]

\* A table has one row for a name.
TableOK(table) ==
  /\ table \in Seq(TableRows)
  /\ \A i, j \in DOMAIN table : table[i].name = table[j].name => i = j

\* A folder has no data of a file whose name is a hash.
FolderOK(folder) ==
  /\ folder \in [DOMAIN folder -> {"empty", "full"}]
  /\ DOMAIN folder \subseteq Names
  /\ \A name \in DOMAIN folder : name \in Hashes => folder[name] = "empty"

-----------------------------------------------------------------------------
(* Messages on their way *)

LEMMA SendCarries ==
  ASSUME NEW M, NEW l \in Links(M), cache \in [Nodes -> Seq(M)],
         NEW n \in Nodes, NEW msgs \in Seq(M), Send(l, n, msgs)
  PROVE  Carried(M)'
<1>1. \A p \in Nodes : l[n][p] \o msgs \in Seq(M) /\ cache[n] \o msgs \in Seq(M)
  BY DEF Links
<1>2. CASE Up = {n}
  BY <1>1, <1>2 DEF Send, Carried
<1>3. CASE Up # {n}
  <2>1. [p \in Nodes |-> IF p \in Up \ {n} THEN l[n][p] \o msgs ELSE l[n][p]] \in [Nodes -> Seq(M)]
    BY <1>1 DEF Links
  <2>2. link' = [l EXCEPT ![n] = [p \in Nodes |-> IF p \in Up \ {n} THEN l[n][p] \o msgs ELSE l[n][p]]]
    BY <1>3 DEF Send, Links
  <2>3. link' \in Links(M)
    BY <2>1, <2>2 DEF Links
  <2> QED
    BY <1>3, <2>3 DEF Send, Carried
<1> QED
  BY <1>2, <1>3

LEMMA GoneCarries ==
  ASSUME NEW M, Carried(M), NEW n \in Nodes, Gone(n), cache' = cache
  PROVE  Carried(M)'
<1>1. <<>> \in Seq(M)
  OBVIOUS
<1>2. link' \in Links(M)
  BY <1>1 DEF Gone, Carried, Links
<1> QED
  BY <1>2 DEF Carried

\* What is left when a message is taken.
LEMMA TakenCarries ==
  ASSUME NEW M, Carried(M), NEW q \in Nodes, NEW n \in Nodes, link[q][n] # <<>>
  PROVE  /\ Head(link[q][n]) \in M
         /\ [link EXCEPT ![q][n] = Tail(@)] \in Links(M)
<1>1. link[q][n] \in Seq(M) /\ link[q] \in [Nodes -> Seq(M)] /\ link \in [Nodes -> [Nodes -> Seq(M)]]
  BY DEF Carried, Links
<1>2. Head(link[q][n]) \in M /\ Tail(link[q][n]) \in Seq(M)
  BY <1>1
<1> QED
  BY <1>1, <1>2 DEF Links

-----------------------------------------------------------------------------
(* Tables and folders *)

LEMMA RowOfFacts ==
  ASSUME NEW n \in Nodes, TableOK(rows[n]), NEW name, RowsOf(n, name) # {}
  PROVE  RowOf(n, name) \in TableRows /\ RowOf(n, name).name = name
<1>1. RowOf(n, name) \in RowsOf(n, name)
  BY DEF RowOf
<1>2. ToSet(rows[n]) \subseteq TableRows
  BY DEF TableOK, ToSet
<1> QED
  BY <1>1, <1>2 DEF RowsOf

LEMMA InsertKeeps ==
  ASSUME NEW table, TableOK(table), NEW row \in TableRows
  PROVE  /\ TableOK(InsertOrIgnore(table, row))
         /\ ToSet(table) \subseteq ToSet(InsertOrIgnore(table, row))
         /\ ToSet(InsertOrIgnore(table, row)) \subseteq ToSet(table) \cup {row}
         /\ \E i \in DOMAIN InsertOrIgnore(table, row) : InsertOrIgnore(table, row)[i].name = row.name
<1>1. CASE \E i \in DOMAIN table : table[i].name = row.name
  BY <1>1 DEF InsertOrIgnore
<1>2. CASE ~(\E i \in DOMAIN table : table[i].name = row.name)
  <2>1. table \in Seq(TableRows) /\ InsertOrIgnore(table, row) = Append(table, row)
    BY <1>2 DEF TableOK, InsertOrIgnore
  <2>2. /\ Append(table, row) \in Seq(TableRows)
        /\ DOMAIN Append(table, row) = 1 .. Len(table) + 1 /\ DOMAIN table = 1 .. Len(table)
        /\ \A i \in DOMAIN table : Append(table, row)[i] = table[i]
        /\ Append(table, row)[Len(table) + 1] = row
        /\ Len(table) \in Nat
    BY <2>1
  <2>3. TableOK(Append(table, row))
    BY <1>2, <2>2 DEF TableOK
  <2> QED
    BY <2>1, <2>2, <2>3 DEF ToSet
<1> QED
  BY <1>1, <1>2

LEMMA WithoutKeeps ==
  ASSUME NEW folder, FolderOK(folder), NEW names
  PROVE  /\ FolderOK(Without(folder, names))
         /\ DOMAIN Without(folder, names) = DOMAIN folder \ names
         /\ \A name \in DOMAIN folder \ names : Without(folder, names)[name] = folder[name]
  BY DEF FolderOK, Without

LEMMA WithEmpty ==
  ASSUME NEW folder, FolderOK(folder), NEW name \in Names
  PROVE  /\ FolderOK(With(folder, {name}, "empty"))
         /\ DOMAIN With(folder, {name}, "empty") = DOMAIN folder \cup {name}
         /\ \A other \in DOMAIN folder \ {name} : With(folder, {name}, "empty")[other] = folder[other]
  BY DEF FolderOK, With

LEMMA WithFull ==
  ASSUME NEW folder, FolderOK(folder), NEW names, names \subseteq Files
  PROVE  /\ FolderOK(With(folder, names, "full"))
         /\ DOMAIN With(folder, names, "full") = DOMAIN folder \cup names
         /\ \A name \in names : With(folder, names, "full")[name] = "full"
         /\ \A name \in DOMAIN folder \ names : With(folder, names, "full")[name] = folder[name]
  BY NamesAssumption DEF FolderOK, With, Names, Hashes

LEMMA EmptyFolder == FolderOK(<<>>) /\ DOMAIN <<>> = {}
  BY DEF FolderOK

-----------------------------------------------------------------------------
(* What is always true *)

Folders == UNION {[names -> {"empty", "full"}] : names \in SUBSET Names}

Types ==
  /\ limit \in [Nodes -> Nat]
  /\ status \in [Nodes -> Ends \cup {"up"}]
  /\ known \subseteq Nodes
  /\ taken \in [Nodes -> Nat]
  /\ added \subseteq Files
  /\ rows \in [Nodes -> Seq(TableRows)]
  /\ stored \in [Nodes -> Folders]

NodeOK(n) ==
  /\ TableOK(rows[n])
  /\ FolderOK(stored[n])
  /\ n \notin known => rows[n] = <<>> /\ stored[n] = <<>>

NodesOK == \A n \in Nodes : NodeOK(n)

\* What Home has taken counts what it has added, as long as it runs.
Room ==
  /\ OwnWithinLimit
  /\ Home \in Up => Total(added) <= taken[Home]

KeepInv == Types /\ NodesOK /\ Carried(Messages) /\ OwnerKeeps /\ Room

-----------------------------------------------------------------------------
(* What a handler does *)

LEMMA MessageFacts ==
  ASSUME NEW msg \in Messages
  PROVE  /\ msg.type = "DirData" => msg.rows \in Seq(TableRows)
         /\ msg.type = "RequestFile" => msg.name \in Names
         /\ msg.type = "AddFile" => msg.row \in TableRows
         /\ msg.type \in {"RequestSegment", "Segment"} =>
              msg.name \in Names /\ msg.hash \in Hashes \cup {NoHash}
         /\ msg.type = "RemoveFile" => msg.name \in Files
  BY DEF Messages, DirRequest

LEMMA MessagesMade ==
  /\ DirRequest \in Messages
  /\ \A table \in Seq(TableRows) : DirData(table) \in Messages
  /\ \A name \in Names : RequestFileMessage(name) \in Messages
  /\ \A row \in TableRows : AddFileMessage(row) \in Messages /\ RequestSegment(row) \in Messages
  /\ \A msg \in Messages : msg.type = "RequestSegment" => Segment(msg) \in Messages
  /\ \A f \in Files : RemoveFileMessage(f) \in Messages
<1>1. \A row \in TableRows : row.name \in Names /\ row.hash \in Hashes \cup {NoHash}
  BY DEF TableRows, Rows, Hashes
<1> QED
  BY <1>1, MessageFacts
  DEF Messages, DirData, RequestFileMessage, AddFileMessage, RequestSegment, Segment, RemoveFileMessage

\* A row for a name that is not in the table names nothing.
LEMMA EmptyRow ==
  ASSUME NEW name \in Names
  PROVE  Row(name, NoHash, 0) \in TableRows
  BY DEF TableRows, Rows, Row

LEMMA SendFileMade ==
  ASSUME NEW n \in Nodes, TableOK(rows[n]), NEW name \in Names
  PROVE  SendFile(n, name) \in Messages
  BY RowOfFacts, EmptyRow, MessagesMade DEF SendFile

\* What one handler of n may do to its table and its folder.
Outcome(n) ==
  \/ rows' = rows /\ stored' = stored
  \/ \E names \in SUBSET Names :
       /\ n \in known /\ rows' = rows
       /\ \A f \in names \cap Files : f \in DOMAIN stored[n] => stored[n][f] = "empty"
       /\ stored' = [stored EXCEPT ![n] = Without(@, names)]
  \/ \E row \in TableRows :
       /\ n \in known /\ row.name \notin DOMAIN stored[n]
       /\ rows' \in {rows, [rows EXCEPT ![n] = InsertOrIgnore(@, row)]}
       /\ stored' = [stored EXCEPT ![n] = With(@, {row.name}, "empty")]
  \/ \E f \in Files \cap DOMAIN stored[n] :
       /\ n \in known /\ rows' = rows
       /\ stored' = [stored EXCEPT ![n][f] = "full"]

\* It may end the process, and sends messages.
Handled(n) ==
  /\ Outcome(n)
  /\ status' \in [Nodes -> Ends \cup {"up"}] /\ Up' \subseteq Up
  /\ Carried(Messages)'

LEMMA EndHandled ==
  ASSUME Types, Carried(Messages), NEW n \in Nodes, NEW why \in Ends, End(n, why)
  PROVE  Handled(n)
<1>1. Carried(Messages)'
  BY GoneCarries DEF End
<1>2. status' \in [Nodes -> Ends \cup {"up"}] /\ Up' \subseteq Up
  BY DEF End, Types, Up, Ends
<1> QED
  BY <1>1, <1>2 DEF End, Handled, Outcome

LEMMA IgnoreHandled ==
  ASSUME Types, Carried(Messages), NEW n \in Nodes, NEW l \in Links(Messages), Ignore(l)
  PROVE  Handled(n)
  BY DEF Ignore, Handled, Outcome, Carried, Types, Up

LEMMA ReplyHandled ==
  ASSUME Types, Carried(Messages), NEW n \in Nodes, NEW l \in Links(Messages),
         NEW msgs \in Seq(Messages), Reply(l, n, msgs)
  PROVE  Handled(n)
<1>1. Carried(Messages)'
  BY SendCarries DEF Reply, Carried
<1> QED
  BY <1>1 DEF Reply, Handled, Outcome, Types, Up

LEMMA SendDirDataHandled ==
  ASSUME Types, NodesOK, Carried(Messages), NEW n \in Nodes, NEW l \in Links(Messages),
         SendDirData(l, n)
  PROVE  Handled(n)
<1>1. CASE Ignore(l)
  BY <1>1, IgnoreHandled
<1>2. CASE Reply(l, n, <<DirData(rows[n])>>)
  <2>1. <<DirData(rows[n])>> \in Seq(Messages)
    BY MessagesMade DEF Types
  <2> QED
    BY <1>2, <2>1, ReplyHandled
<1> QED
  BY <1>1, <1>2 DEF SendDirData

LEMMA AddDirDataHandled ==
  ASSUME Types, NodesOK, Carried(Messages), NEW n \in Nodes, NEW l \in Links(Messages),
         NEW table \in Seq(TableRows), AddDirData(l, n, table)
  PROVE  Handled(n)
<1>1. CASE n \notin known
  BY <1>1, EndHandled DEF AddDirData, Ends
<1>2. CASE n \in known /\ \E i \in DOMAIN table : table[i].hash = NoHash
  BY <1>2, EndHandled DEF AddDirData, Ends
<1>3. CASE n \in known /\ ~(\E i \in DOMAIN table : table[i].hash = NoHash)
  <2> DEFINE names == [i \in DOMAIN table |-> table[i].hash]
             msgs == [i \in DOMAIN names |-> RequestFileMessage(names[i])]
  <2>1. /\ stored' = [stored EXCEPT ![n] = Without(@, ToSet(names))]
        /\ Send(l, n, msgs)
        /\ UNCHANGED <<status, rows>>
    BY <1>3 DEF AddDirData
  <2>2. \A i \in DOMAIN table : table[i].hash \in Hashes
    BY <1>3 DEF TableRows, Rows, Hashes
  <2>3. ToSet(names) \subseteq Hashes
    BY <2>2 DEF ToSet
  <2>4. Hashes \subseteq Names /\ Hashes \cap Files = {}
    BY NamesAssumption DEF Hashes, Names
  <2>5. msgs \in Seq(Messages)
    <3>1. \A i \in DOMAIN table : RequestFileMessage(names[i]) \in Messages
      BY <2>2, <2>4, MessagesMade
    <3>2. DOMAIN table = 1 .. Len(table) /\ Len(table) \in Nat
      OBVIOUS
    <3> QED
      BY <3>1, <3>2
  <2>6. Carried(Messages)'
    <3> HIDE DEF msgs
    <3> QED
      BY <2>1, <2>5, SendCarries DEF Carried
  <2>7. Outcome(n)
    <3> HIDE DEF names
    <3> QED
      BY <1>3, <2>1, <2>3, <2>4 DEF Outcome
  <2> QED
    BY <2>1, <2>6, <2>7 DEF Handled, Types, Up
<1> QED
  BY <1>1, <1>2, <1>3

LEMMA AnswerHandled ==
  ASSUME Types, NodesOK, Carried(Messages), NEW n \in Nodes, NEW l \in Links(Messages),
         NEW name \in Names, AnswerFileRequest(l, n, name)
  PROVE  Handled(n)
<1>1. CASE n \notin known
  BY <1>1, EndHandled DEF AnswerFileRequest, Ends
<1>2. CASE n \in known
  <2>1. SendFile(n, name) \in Messages
    BY SendFileMade DEF NodesOK, NodeOK
  <2>2. <<SendFile(n, name)>> \in Seq(Messages)
    BY <2>1
  <2> QED
    BY <1>2, <2>2, ReplyHandled DEF AnswerFileRequest
<1> QED
  BY <1>1, <1>2

LEMMA AddFileHandled ==
  ASSUME Types, NodesOK, Carried(Messages), NEW n \in Nodes, NEW l \in Links(Messages),
         NEW row \in TableRows, AddFile(l, n, row)
  PROVE  Handled(n)
<1>1. CASE Ignore(l)
  BY <1>1, IgnoreHandled
<1>2. CASE \E why \in Ends : End(n, why)
  BY <1>2, EndHandled
<1>3. CASE /\ n \in known /\ ~FileExists(n, row.name)
           /\ stored' = [stored EXCEPT ![n] = With(@, {row.name}, "empty")]
           /\ rows' = [rows EXCEPT ![n] = InsertOrIgnore(@, row)]
           /\ Send(l, n, <<RequestSegment(row)>>) \/ (link' = l /\ UNCHANGED cache)
           /\ UNCHANGED status
  <2>1. <<RequestSegment(row)>> \in Seq(Messages)
    BY MessagesMade
  <2>2. Carried(Messages)'
    <3>1. CASE Send(l, n, <<RequestSegment(row)>>)
      BY <2>1, <3>1, SendCarries DEF Carried
    <3>2. CASE link' = l /\ UNCHANGED cache
      BY <3>2 DEF Carried
    <3> QED
      BY <1>3, <3>1, <3>2
  <2>3. Outcome(n)
    BY <1>3 DEF Outcome, FileExists
  <2> QED
    BY <1>3, <2>2, <2>3 DEF Handled, Types, Up
<1> QED
  <2>1. "full" \in Ends /\ "open" \in Ends
    BY DEF Ends
  <2> QED
    BY <1>1, <1>2, <1>3, <2>1 DEF AddFile, Exists

LEMMA FetchHandled ==
  ASSUME Types, NodesOK, Carried(Messages), NEW n \in Nodes, NEW l \in Links(Messages),
         NEW msg \in Messages, msg.type = "RequestSegment", FetchFragments(l, n, msg)
  PROVE  Handled(n)
<1>1. <<Segment(msg)>> \in Seq(Messages)
  BY MessagesMade
<1> QED
  BY <1>1, IgnoreHandled, ReplyHandled DEF FetchFragments

\* A file with a row of a size is one of Home's names.
LEMMA ThreadHandled ==
  ASSUME Types, NodesOK, Carried(Messages), NEW n \in Nodes, NEW l \in Links(Messages),
         NEW msg \in Messages, msg.type = "Segment", ThreadAddFragment(l, n, msg)
  PROVE  Handled(n)
<1>1. CASE Ignore(l)
  BY <1>1, IgnoreHandled
<1>2. CASE End(n, "noRow")
  BY <1>2, EndHandled DEF Ends
<1>3. CASE /\ FileExists(n, msg.name) /\ RowsOf(n, msg.name) # {}
           /\ stored[n][msg.name] # "full" /\ RowOf(n, msg.name).size # 0
           /\ FileFull(l, n, msg)
  <2>1. /\ TableOK(rows[n]) /\ FolderOK(stored[n]) /\ n \in known
    BY <1>3, EmptyFolder DEF NodesOK, NodeOK, FileExists
  <2>2. RowOf(n, msg.name) \in TableRows /\ RowOf(n, msg.name).name = msg.name
    BY <1>3, <2>1, RowOfFacts
  <2>3. msg.name \in Files /\ msg.name \in DOMAIN stored[n] /\ msg.name \in Names
    BY <1>3, <2>1, <2>2 DEF TableRows, FolderOK, Names, Hashes, FileExists
  <2>4. stored[n][msg.name] = "empty"
    BY <1>3, <2>1, <2>3 DEF FolderOK
  <2>5. CASE /\ stored' = [stored EXCEPT ![n][msg.name] = "full"]
             /\ Send(l, n, <<SendFile(n, msg.name)>>)
             /\ UNCHANGED <<status, rows>>
    <3>1. SendFile(n, msg.name) \in Messages
      BY <2>1, <2>3, SendFileMade
    <3>2. <<SendFile(n, msg.name)>> \in Seq(Messages)
      BY <3>1
    <3>3. Carried(Messages)'
      BY <2>5, <3>2, SendCarries DEF Carried
    <3>4. Outcome(n)
      BY <2>1, <2>3, <2>5 DEF Outcome
    <3> QED
      BY <2>5, <3>3, <3>4 DEF Handled, Types, Up
  <2>6. CASE RequestFile(l, n, msg.name)
    <3>1. <<RequestFileMessage(msg.name)>> \in Seq(Messages)
      BY <2>3, MessagesMade
    <3>2. Carried(Messages)'
      BY <2>6, <3>1, SendCarries DEF Carried, RequestFile
    <3>3. Outcome(n)
      BY <2>1, <2>3, <2>4, <2>6 DEF Outcome, RequestFile
    <3> QED
      BY <2>6, <3>2, <3>3 DEF Handled, Types, Up, RequestFile
  <2> QED
    BY <1>3, <2>5, <2>6 DEF FileFull
<1> QED
  BY <1>1, <1>2, <1>3 DEF ThreadAddFragment

LEMMA RemoveHandled ==
  ASSUME Types, NodesOK, Carried(Messages), NEW n \in Nodes, NEW l \in Links(Messages),
         NEW name, RemoveFile(l, n, name)
  PROVE  Handled(n)
<1>1. "open" \in Ends /\ "noColumn" \in Ends
  BY DEF Ends
<1> QED
  BY <1>1, EndHandled, IgnoreHandled DEF RemoveFile

LEMMA HandleHandled ==
  ASSUME Types, NodesOK, Carried(Messages), NEW n \in Nodes, NEW l \in Links(Messages),
         NEW msg \in Messages, Handle(l, n, msg)
  PROVE  Handled(n)
<1>1. CASE msg.type = "DirRequest" /\ SendDirData(l, n)
  BY <1>1, SendDirDataHandled
<1>2. CASE msg.type = "DirData" /\ AddDirData(l, n, msg.rows)
  BY <1>2, MessageFacts, AddDirDataHandled
<1>3. CASE msg.type = "RequestFile" /\ AnswerFileRequest(l, n, msg.name)
  BY <1>3, MessageFacts, AnswerHandled
<1>4. CASE msg.type = "AddFile" /\ AddFile(l, n, msg.row)
  BY <1>4, MessageFacts, AddFileHandled
<1>5. CASE msg.type = "RequestSegment" /\ FetchFragments(l, n, msg)
  BY <1>5, FetchHandled
<1>6. CASE msg.type = "Segment" /\ ThreadAddFragment(l, n, msg)
  BY <1>6, ThreadHandled
<1>7. CASE msg.type = "RemoveFile" /\ RemoveFile(l, n, msg.name)
  BY <1>7, RemoveHandled
<1> QED
  BY <1>1, <1>2, <1>3, <1>4, <1>5, <1>6, <1>7 DEF Handle

-----------------------------------------------------------------------------
(* Changes of one node *)

LEMMA FolderTyped ==
  ASSUME NEW folder, FolderOK(folder)
  PROVE  folder \in Folders
  BY DEF FolderOK, Folders

LEMMA NodeChanges ==
  ASSUME Types, NodesOK, NEW n \in Nodes, n \in known, known' = known,
         NEW table, TableOK(table), rows' = [rows EXCEPT ![n] = table],
         NEW folder, FolderOK(folder), stored' = [stored EXCEPT ![n] = folder]
  PROVE  /\ rows' \in [Nodes -> Seq(TableRows)]
         /\ stored' \in [Nodes -> Folders]
         /\ NodesOK'
         /\ rows'[n] = table /\ stored'[n] = folder
         /\ \A p \in Nodes \ {n} : rows'[p] = rows[p] /\ stored'[p] = stored[p]
<1>1. rows \in [Nodes -> Seq(TableRows)] /\ stored \in [Nodes -> Folders]
  BY DEF Types
<1>2. table \in Seq(TableRows)
  BY DEF TableOK
<1>3. folder \in Folders
  BY FolderTyped
<1>4. /\ rows'[n] = table /\ stored'[n] = folder
      /\ \A p \in Nodes \ {n} : rows'[p] = rows[p] /\ stored'[p] = stored[p]
  BY <1>1
<1>5. rows' \in [Nodes -> Seq(TableRows)] /\ stored' \in [Nodes -> Folders]
  BY <1>1, <1>2, <1>3
<1>6. ASSUME NEW p \in Nodes
      PROVE  NodeOK(p)'
  <2>1. CASE p = n
    BY <1>4, <2>1 DEF NodeOK
  <2>2. CASE p # n
    BY <1>4, <2>2 DEF NodesOK, NodeOK
  <2> QED
    BY <2>1, <2>2
<1> QED
  BY <1>4, <1>5, <1>6 DEF NodesOK

Kept ==
  /\ rows' \in [Nodes -> Seq(TableRows)]
  /\ stored' \in [Nodes -> Folders]
  /\ NodesOK'
  /\ OwnerKeeps'

LEMMA OutcomeKeeps ==
  ASSUME Types, NodesOK, OwnerKeeps, NEW n \in Nodes, Outcome(n), UNCHANGED <<known, added>>
  PROVE  Kept
<1>1. /\ rows \in [Nodes -> Seq(TableRows)] /\ stored \in [Nodes -> Folders]
      /\ TableOK(rows[n]) /\ FolderOK(stored[n]) /\ added \subseteq Files
      /\ Home \in Nodes
  BY DirectoryAssumption DEF Types, NodesOK, NodeOK
<1>2. \A f \in added : OwnRow(f) \in ToSet(rows[Home]) /\ f \in DOMAIN stored[Home] /\ stored[Home][f] = "full"
  BY DEF OwnerKeeps, FileExists
<1>3. ASSUME NEW table, TableOK(table), rows' = [rows EXCEPT ![n] = table],
             ToSet(rows[n]) \subseteq ToSet(table), n \in known,
             NEW folder, FolderOK(folder), stored' = [stored EXCEPT ![n] = folder],
             \A f \in Files : f \in DOMAIN stored[n] /\ stored[n][f] = "full"
                                => f \in DOMAIN folder /\ folder[f] = "full"
      PROVE  Kept
  <2>1. known' = known /\ added' = added
    OBVIOUS
  <2>2. /\ rows' \in [Nodes -> Seq(TableRows)]
        /\ stored' \in [Nodes -> Folders]
        /\ NodesOK'
        /\ rows'[n] = table /\ stored'[n] = folder
        /\ \A p \in Nodes \ {n} : rows'[p] = rows[p] /\ stored'[p] = stored[p]
    BY <1>3, <2>1, NodeChanges
  <2>3. ToSet(rows[Home]) \subseteq ToSet(rows'[Home])
    BY <1>1, <1>3, <2>2
  <2>4. \A f \in added : f \in DOMAIN stored'[Home] /\ stored'[Home][f] = "full"
    BY <1>1, <1>2, <1>3, <2>2
  <2>5. OwnerKeeps'
    BY <1>2, <2>1, <2>3, <2>4 DEF OwnerKeeps, FileExists, OwnRow
  <2> QED
    BY <2>2, <2>5 DEF Kept
<1>4. rows = [rows EXCEPT ![n] = rows[n]]
  BY <1>1
<1>5. CASE rows' = rows /\ stored' = stored
  <2>1. NodesOK'
    BY <1>5 DEF NodesOK, NodeOK
  <2>2. OwnerKeeps'
    BY <1>5 DEF OwnerKeeps, FileExists, OwnRow
  <2> QED
    BY <1>1, <1>5, <2>1, <2>2 DEF Kept
<1>6. ASSUME NEW names \in SUBSET Names, n \in known, rows' = rows,
             \A f \in names \cap Files : f \in DOMAIN stored[n] => stored[n][f] = "empty",
             stored' = [stored EXCEPT ![n] = Without(@, names)]
      PROVE  Kept
  <2> DEFINE folder == Without(stored[n], names)
  <2>1. /\ FolderOK(folder)
        /\ DOMAIN folder = DOMAIN stored[n] \ names
        /\ \A name \in DOMAIN stored[n] \ names : folder[name] = stored[n][name]
    BY <1>1, WithoutKeeps
  <2>2. stored' = [stored EXCEPT ![n] = folder] /\ rows' = [rows EXCEPT ![n] = rows[n]]
    BY <1>4, <1>6
  <2>3. \A f \in Files : f \in DOMAIN stored[n] /\ stored[n][f] = "full"
                           => f \in DOMAIN folder /\ folder[f] = "full"
    BY <1>6, <2>1
  <2> HIDE DEF folder
  <2> QED
    BY <1>1, <1>3, <1>6, <2>1, <2>2, <2>3
<1>7. ASSUME NEW row \in TableRows, n \in known, row.name \notin DOMAIN stored[n],
             rows' \in {rows, [rows EXCEPT ![n] = InsertOrIgnore(@, row)]},
             stored' = [stored EXCEPT ![n] = With(@, {row.name}, "empty")]
      PROVE  Kept
  <2> DEFINE folder == With(stored[n], {row.name}, "empty")
  <2>1. row.name \in Names
    BY DEF TableRows, Rows
  <2>2. /\ FolderOK(folder)
        /\ DOMAIN folder = DOMAIN stored[n] \cup {row.name}
        /\ \A name \in DOMAIN stored[n] \ {row.name} : folder[name] = stored[n][name]
    BY <1>1, <2>1, WithEmpty
  <2>3. PICK table : /\ TableOK(table) /\ ToSet(rows[n]) \subseteq ToSet(table)
                     /\ rows' = [rows EXCEPT ![n] = table]
    BY <1>1, <1>4, <1>7, InsertKeeps
  <2>4. stored' = [stored EXCEPT ![n] = folder]
    BY <1>7
  <2>5. \A f \in Files : f \in DOMAIN stored[n] /\ stored[n][f] = "full"
                           => f \in DOMAIN folder /\ folder[f] = "full"
    BY <1>7, <2>2
  <2> HIDE DEF folder
  <2> QED
    BY <1>3, <1>7, <2>2, <2>3, <2>4, <2>5
<1>8. ASSUME NEW f \in Files \cap DOMAIN stored[n], n \in known, rows' = rows,
             stored' = [stored EXCEPT ![n][f] = "full"]
      PROVE  Kept
  <2> DEFINE folder == [stored[n] EXCEPT ![f] = "full"]
  <2>1. f \notin Hashes
    BY NamesAssumption DEF Hashes
  <2>2. FolderOK(folder) /\ DOMAIN folder = DOMAIN stored[n]
    BY <1>1, <2>1 DEF FolderOK
  <2>3. stored' = [stored EXCEPT ![n] = folder] /\ rows' = [rows EXCEPT ![n] = rows[n]]
    BY <1>1, <1>4, <1>8
  <2>4. \A e \in Files : e \in DOMAIN stored[n] /\ stored[n][e] = "full"
                           => e \in DOMAIN folder /\ folder[e] = "full"
    BY <1>1 DEF FolderOK
  <2> HIDE DEF folder
  <2> QED
    BY <1>1, <1>3, <1>8, <2>2, <2>3, <2>4
<1> QED
  BY <1>5, <1>6, <1>7, <1>8 DEF Outcome

-----------------------------------------------------------------------------
(* Sizes *)

LEMMA TotalFacts ==
  /\ \A S \in SUBSET Files : IsFiniteSet(S) /\ Total(S) \in Nat
  /\ \A S, T \in SUBSET Files : S \cap T = {} => Total(S \cup T) = Total(S) + Total(T)
  /\ \A S, T \in SUBSET Files : S \subseteq T => Total(S) <= Total(T)
<1>1. \A S \in SUBSET Files : IsFiniteSet(S) /\ (\A f \in S : Size[f] \in Nat) /\ (\A f \in S : Size[f] \in Int)
  BY DirectoryAssumption, FS_Subset
<1>2. \A S \in SUBSET Files : IsFiniteSet(S) /\ Total(S) \in Nat
  BY <1>1, SumNotNegative DEF Total
<1>3. ASSUME NEW S \in SUBSET Files, NEW T \in SUBSET Files, S \cap T = {}
      PROVE  Total(S \cup T) = Total(S) + Total(T)
  <2>1. IsFiniteSet(S) /\ IsFiniteSet(T) /\ \A f \in S \cup T : Size[f] \in Int
    BY <1>1
  <2> QED
    BY <1>3, <2>1, SumUnion DEF Total
<1>4. ASSUME NEW S \in SUBSET Files, NEW T \in SUBSET Files, S \subseteq T
      PROVE  Total(S) <= Total(T)
  <2>1. T \ S \in SUBSET Files /\ S \cap (T \ S) = {} /\ S \cup (T \ S) = T
    BY <1>4
  <2>2. Total(T) = Total(S) + Total(T \ S)
    BY <1>3, <2>1
  <2> QED
    BY <1>2, <2>1, <2>2
<1> QED
  BY <1>2, <1>3, <1>4

LEMMA TotalOne ==
  ASSUME NEW f \in Files
  PROVE  Total({f}) = Size[f]
<1>1. IsFiniteSet({}) /\ {} \cup {f} = {f} /\ f \notin {} /\ Size[f] \in Nat
  BY DirectoryAssumption, FS_EmptySet
<1>2. \A y \in {} \cup {f} : Size[y] \in Int
  BY <1>1
<1>3. SumFunctionOnSet(Size, {} \cup {f}) = Size[f] + SumFunctionOnSet(Size, {})
  BY <1>1, <1>2, SumAdd
<1> QED
  BY <1>1, <1>3, SumEmpty DEF Total

\* A list of different files.
Different(list) ==
  /\ list \in Seq(Files)
  /\ \A i, j \in DOMAIN list : list[i] = list[j] => i = j

LEMMA ListsDifferent ==
  ASSUME NEW list \in Lists
  PROVE  Different(list)
<1>1. PICK k \in 0 .. Cardinality(Files) : list \in [1 .. k -> Files]
  BY DEF Lists
<1>2. Cardinality(Files) \in Nat
  BY DirectoryAssumption, FS_CardinalityType
<1>3. k \in Nat
  BY <1>2
<1>4. list \in Seq(Files)
  BY <1>1, <1>3
<1> QED
  BY <1>4 DEF Different, Lists

LEMMA PrefixFacts ==
  ASSUME NEW list, Different(list), NEW k \in 0 .. Len(list)
  PROVE  LET pre == SubSeq(list, 1, k) IN
           /\ Different(pre)
           /\ Len(pre) = k /\ DOMAIN pre = 1 .. k /\ \A i \in 1 .. k : pre[i] = list[i]
           /\ \A i \in 0 .. k : SubSeq(pre, 1, i) = SubSeq(list, 1, i)
           /\ ToSet(pre) \subseteq ToSet(list) /\ ToSet(list) \subseteq Files
<1> DEFINE pre == SubSeq(list, 1, k)
<1>1. list \in Seq(Files) /\ Len(list) \in Nat /\ DOMAIN list = 1 .. Len(list)
  BY DEF Different
<1>2. pre \in Seq(Files) /\ Len(pre) = k /\ \A i \in 1 .. k : pre[i] = list[i]
  BY <1>1
<1>3. DOMAIN pre = 1 .. k
  BY <1>1, <1>2
<1>4. ASSUME NEW i \in 0 .. k
      PROVE  SubSeq(pre, 1, i) = SubSeq(list, 1, i)
  <2>1. i \in 0 .. Len(list) /\ i \in 0 .. Len(pre)
    BY <1>1, <1>2
  <2>2. /\ SubSeq(pre, 1, i) \in Seq(Files) /\ SubSeq(list, 1, i) \in Seq(Files)
        /\ Len(SubSeq(pre, 1, i)) = i /\ Len(SubSeq(list, 1, i)) = i
        /\ \A j \in 1 .. i : SubSeq(list, 1, i)[j] = list[j]
        /\ \A j \in 1 .. i : SubSeq(pre, 1, i)[j] = pre[j]
    <3> HIDE DEF pre
    <3> QED
      BY <1>1, <1>2, <2>1
  <2> HIDE DEF pre
  <2>3. \A j \in 1 .. i : SubSeq(pre, 1, i)[j] = SubSeq(list, 1, i)[j]
    BY <1>1, <1>2, <2>2
  <2> QED
    BY <2>2, <2>3
<1>5. Different(pre)
  <2> HIDE DEF pre
  <2> QED
    BY <1>1, <1>2, <1>3 DEF Different
<1>6. ToSet(pre) \subseteq ToSet(list) /\ ToSet(list) \subseteq Files
  <2> HIDE DEF pre
  <2> QED
    BY <1>1, <1>2, <1>3 DEF ToSet
<1> QED
  BY <1>2, <1>3, <1>4, <1>5, <1>6

LEMMA PrefixFits ==
  ASSUME NEW list, Different(list), NEW k \in 0 .. Len(list), NewNames(list), Fitting(list)
  PROVE  NewNames(SubSeq(list, 1, k)) /\ Fitting(SubSeq(list, 1, k))
<1> DEFINE pre == SubSeq(list, 1, k)
<1>1. /\ DOMAIN pre = 1 .. k /\ \A i \in 1 .. k : pre[i] = list[i]
      /\ \A i \in 0 .. k : SubSeq(pre, 1, i) = SubSeq(list, 1, i)
      /\ ToSet(pre) \subseteq ToSet(list)
  BY PrefixFacts
<1>2. DOMAIN list = 1 .. Len(list) /\ Len(list) \in Nat
  BY DEF Different
<1> HIDE DEF pre
<1>3. NewNames(pre)
  BY <1>1 DEF NewNames
<1>4. ASSUME NEW i \in DOMAIN pre
      PROVE  WriteAvailable(Home, taken[Home] + Total(ToSet(SubSeq(pre, 1, i - 1))), Size[pre[i]])
  <2>1. i \in DOMAIN list /\ i - 1 \in 0 .. k /\ pre[i] = list[i]
    BY <1>1, <1>2
  <2>2. SubSeq(pre, 1, i - 1) = SubSeq(list, 1, i - 1)
    BY <1>1, <2>1
  <2> QED
    BY <2>1, <2>2 DEF Fitting
<1> QED
  BY <1>3, <1>4 DEF Fitting, pre

\* All of a list that fits is within the limit, if there is one.
LEMMA FittingFits ==
  ASSUME Types, NEW list, Different(list), Fitting(list), list # <<>>
  PROVE  limit[Home] # 0 => taken[Home] + Total(ToSet(list)) + Reserve < limit[Home]
<1> DEFINE k == Len(list)
           pre == SubSeq(list, 1, k - 1)
<1>1. list \in Seq(Files) /\ k \in Nat \ {0} /\ DOMAIN list = 1 .. k /\ list[k] \in Files
  BY DEF Different
<1>2. k - 1 \in 0 .. Len(list) /\ k \in DOMAIN list
  BY <1>1
<1>3. /\ Different(pre) /\ DOMAIN pre = 1 .. k - 1 /\ \A i \in 1 .. k - 1 : pre[i] = list[i]
      /\ ToSet(pre) \subseteq ToSet(list) /\ ToSet(list) \subseteq Files
  BY <1>2, PrefixFacts
<1>4. WriteAvailable(Home, taken[Home] + Total(ToSet(pre)), Size[list[k]])
  BY <1>2 DEF Fitting
<1> HIDE DEF pre, k
<1>5. ToSet(list) = ToSet(pre) \cup {list[k]} /\ ToSet(pre) \cap {list[k]} = {}
  <2>1. \A i, j \in DOMAIN list : list[i] = list[j] => i = j
    BY DEF Different
  <2> QED
    BY <1>1, <1>3, <2>1 DEF ToSet
<1>6. ToSet(pre) \in SUBSET Files /\ {list[k]} \in SUBSET Files
  BY <1>1, <1>3
<1>7. Total(ToSet(list)) = Total(ToSet(pre)) + Size[list[k]]
  BY <1>1, <1>5, <1>6, TotalFacts, TotalOne
<1>8. /\ Total(ToSet(pre)) \in Nat /\ Size[list[k]] \in Nat /\ taken[Home] \in Nat
      /\ limit[Home] \in Nat /\ Reserve \in Nat
  BY <1>1, <1>6, TotalFacts, DirectoryAssumption DEF Types
<1> QED
  BY <1>4, <1>7, <1>8 DEF WriteAvailable

-----------------------------------------------------------------------------
(* Files that are added *)

LEMMA OwnRowTyped ==
  ASSUME NEW f \in Files
  PROVE  OwnRow(f) \in TableRows /\ OwnRow(f).name = f
  BY NamesAssumption DEF OwnRow, Row, TableRows, Rows, Names, Hashes

LEMMA TableAppends ==
  ASSUME NEW table, TableOK(table), NEW list, Different(list),
         \A i \in DOMAIN table : table[i].name \notin ToSet(list)
  PROVE  LET all == table \o [i \in DOMAIN list |-> OwnRow(list[i])] IN
           /\ TableOK(all)
           /\ ToSet(table) \subseteq ToSet(all)
           /\ \A f \in ToSet(list) : OwnRow(f) \in ToSet(all)
           /\ \A row \in ToSet(all) : row \in ToSet(table) \/ \E f \in ToSet(list) : row = OwnRow(f)
<1> DEFINE own == [i \in DOMAIN list |-> OwnRow(list[i])]
           all == table \o own
           a == Len(table)
           b == Len(list)
<1>1. /\ table \in Seq(TableRows) /\ a \in Nat /\ DOMAIN table = 1 .. a
      /\ list \in Seq(Files) /\ b \in Nat /\ DOMAIN list = 1 .. b
  BY DEF TableOK, Different
<1>2. \A i \in 1 .. b : list[i] \in Files /\ OwnRow(list[i]) \in TableRows /\ OwnRow(list[i]).name = list[i]
  BY <1>1, OwnRowTyped
<1>3. own \in Seq(TableRows) /\ Len(own) = b /\ \A i \in 1 .. b : own[i] = OwnRow(list[i])
  BY <1>1, <1>2
<1> HIDE DEF own, a, b
<1>4. /\ all \in Seq(TableRows) /\ DOMAIN all = 1 .. a + b
      /\ \A i \in 1 .. a : all[i] = table[i]
      /\ \A i \in 1 .. a + b : i > a => all[i] = own[i - a]
  BY <1>1, <1>3 DEF a
<1> HIDE DEF all
<1>5. \A i \in 1 .. a + b : i > a => i - a \in 1 .. b /\ all[i].name = list[i - a]
  BY <1>1, <1>2, <1>3, <1>4
<1>6. \A i \in 1 .. b : list[i] \in ToSet(list)
  BY <1>1 DEF ToSet
<1>7. ASSUME NEW i \in DOMAIN all, NEW j \in DOMAIN all, all[i].name = all[j].name
      PROVE  i = j
  <2>1. i \in 1 .. a + b /\ j \in 1 .. a + b
    BY <1>4
  <2>2. CASE i <= a /\ j <= a
    <3>1. i \in DOMAIN table /\ j \in DOMAIN table
      BY <1>1, <2>1, <2>2
    <3> QED
      BY <1>1, <1>4, <1>7, <3>1 DEF TableOK
  <2>3. CASE i > a /\ j > a
    <3>1. i - a \in DOMAIN list /\ j - a \in DOMAIN list /\ list[i - a] = list[j - a]
      BY <1>1, <1>5, <1>7, <2>1, <2>3
    <3>2. i - a = j - a
      BY <3>1 DEF Different
    <3> QED
      BY <1>1, <2>1, <3>2
  <2>4. ASSUME NEW x \in 1 .. a, NEW y \in 1 .. a + b, y > a
        PROVE  all[x].name # all[y].name
    <3>1. x \in DOMAIN table /\ all[x] = table[x]
      BY <1>1, <1>4
    <3>2. all[x].name \notin ToSet(list)
      BY <3>1
    <3>3. y - a \in 1 .. b /\ all[y].name = list[y - a]
      BY <1>5, <2>4
    <3> QED
      BY <1>6, <3>2, <3>3
  <2>5. CASE i <= a /\ j > a
    BY <1>1, <1>7, <2>1, <2>4, <2>5
  <2>6. CASE i > a /\ j <= a
    BY <1>1, <1>7, <2>1, <2>4, <2>6
  <2> QED
    BY <1>1, <2>1, <2>2, <2>3, <2>5, <2>6
<1>8. TableOK(all)
  BY <1>4, <1>7 DEF TableOK
<1>9. ToSet(table) \subseteq ToSet(all)
  BY <1>1, <1>4 DEF ToSet
<1>10. ASSUME NEW f \in ToSet(list)
       PROVE  OwnRow(f) \in ToSet(all)
  <2>1. PICK i \in 1 .. b : f = list[i]
    BY <1>1 DEF ToSet
  <2>2. a + i \in 1 .. a + b /\ a + i > a /\ (a + i) - a = i
    BY <1>1
  <2>3. all[a + i] = OwnRow(f)
    BY <1>3, <1>4, <2>1, <2>2
  <2> QED
    BY <1>4, <2>2, <2>3 DEF ToSet
<1>11. ASSUME NEW row \in ToSet(all)
       PROVE  row \in ToSet(table) \/ \E f \in ToSet(list) : row = OwnRow(f)
  <2>1. PICK i \in 1 .. a + b : row = all[i]
    BY <1>4 DEF ToSet
  <2>2. CASE i <= a
    <3>1. i \in DOMAIN table /\ row = table[i]
      BY <1>1, <1>4, <2>1, <2>2
    <3> QED
      BY <3>1 DEF ToSet
  <2>3. CASE i > a
    <3>1. i - a \in 1 .. b
      BY <1>5, <2>3
    <3>2. row = OwnRow(list[i - a])
      BY <1>3, <1>4, <2>1, <2>3, <3>1
    <3> QED
      BY <1>6, <3>1, <3>2
  <2> QED
    BY <1>1, <2>2, <2>3
<1> QED
  BY <1>8, <1>9, <1>10, <1>11 DEF all, own

\* Copied leaves the directory in order: some files have no row yet.
LEMMA CopiedKeeps ==
  ASSUME Types, NodesOK, OwnerKeeps, Home \in known, known' = known,
         NEW list, Different(list), NEW withRow, Different(withRow),
         ToSet(withRow) \subseteq ToSet(list), NewNames(list), Copied(list, withRow),
         added' = added \cup ToSet(withRow)
  PROVE  Kept /\ added' \subseteq Files /\ added \cap ToSet(withRow) = {}
<1> DEFINE table == rows[Home] \o [i \in DOMAIN withRow |-> OwnRow(withRow[i])]
           folder == With(stored[Home], ToSet(list), "full")
<1>1. /\ Home \in Nodes /\ TableOK(rows[Home]) /\ FolderOK(stored[Home]) /\ added \subseteq Files
      /\ ToSet(list) \in SUBSET Files
  <2>1. list \in Seq(Files)
    BY DEF Different
  <2>2. ToSet(list) \subseteq Files
    BY <2>1 DEF ToSet
  <2> QED
    BY <2>2, DirectoryAssumption DEF Types, NodesOK, NodeOK
<1>2. \A f \in added : OwnRow(f) \in ToSet(rows[Home]) /\ f \in DOMAIN stored[Home] /\ stored[Home][f] = "full"
  BY DEF OwnerKeeps, FileExists
<1>3. \A i \in DOMAIN rows[Home] : rows[Home][i].name \notin ToSet(withRow)
  <2>1. \A f \in ToSet(list) : RowsOf(Home, f) = {}
    BY DEF NewNames
  <2> QED
    BY <2>1 DEF RowsOf, ToSet
<1>4. /\ TableOK(table)
      /\ ToSet(rows[Home]) \subseteq ToSet(table)
      /\ \A f \in ToSet(withRow) : OwnRow(f) \in ToSet(table)
  BY <1>1, <1>3, TableAppends
<1>5. /\ FolderOK(folder)
      /\ \A f \in ToSet(list) : f \in DOMAIN folder /\ folder[f] = "full"
      /\ \A f \in DOMAIN stored[Home] \ ToSet(list) : f \in DOMAIN folder /\ folder[f] = stored[Home][f]
  <2>1. FolderOK(stored[Home]) /\ ToSet(list) \subseteq Files
    BY <1>1
  <2>2. /\ FolderOK(folder) /\ DOMAIN folder = DOMAIN stored[Home] \cup ToSet(list)
        /\ \A name \in ToSet(list) : folder[name] = "full"
        /\ \A name \in DOMAIN stored[Home] \ ToSet(list) : folder[name] = stored[Home][name]
    <3>1. FolderOK(With(stored[Home], ToSet(list), "full"))
      BY <2>1, WithFull
    <3>2. DOMAIN With(stored[Home], ToSet(list), "full") = DOMAIN stored[Home] \cup ToSet(list)
      BY <2>1, WithFull
    <3>3. \A name \in ToSet(list) : With(stored[Home], ToSet(list), "full")[name] = "full"
      BY DEF With
    <3>4. \A name \in DOMAIN stored[Home] \ ToSet(list) :
            With(stored[Home], ToSet(list), "full")[name] = stored[Home][name]
      BY <2>1, WithFull
    <3> QED
      BY <3>1, <3>2, <3>3, <3>4
  <2> HIDE DEF folder
  <2> QED
    BY <2>2
<1>6. rows' = [rows EXCEPT ![Home] = table] /\ stored' = [stored EXCEPT ![Home] = folder]
  BY DEF Copied
<1> HIDE DEF table, folder
<1>7. /\ rows' \in [Nodes -> Seq(TableRows)]
      /\ stored' \in [Nodes -> Folders]
      /\ NodesOK'
      /\ rows'[Home] = table /\ stored'[Home] = folder
  BY <1>1, <1>4, <1>5, <1>6, NodeChanges
<1>8. ASSUME NEW f \in added'
      PROVE  OwnRow(f) \in ToSet(rows'[Home]) /\ f \in DOMAIN stored'[Home] /\ stored'[Home][f] = "full"
  BY <1>2, <1>4, <1>5, <1>7
<1>9. OwnerKeeps'
  BY <1>8 DEF OwnerKeeps, FileExists, OwnRow
<1>10. added \cap ToSet(withRow) = {}
  BY <1>2 DEF NewNames
<1> QED
  BY <1>1, <1>7, <1>9, <1>10 DEF Kept

\* A list that fits has room next to what was added.
LEMMA RoomFor ==
  ASSUME Types, Room, Home \in Up, NEW list, Different(list), Fitting(list),
         added \cap ToSet(list) = {}
  PROVE  /\ Total(added \cup ToSet(list)) = Total(added) + Total(ToSet(list))
         /\ Total(added) + Total(ToSet(list)) <= taken[Home] + Total(ToSet(list))
         /\ Total(ToSet(list)) \in Nat
         /\ added \cup ToSet(list) # {} /\ limit[Home] # 0 =>
              Total(added \cup ToSet(list)) + Reserve < limit[Home]
<1>1. list \in Seq(Files) /\ added \in SUBSET Files
  BY DEF Different, Types
<1>2. ToSet(list) \in SUBSET Files
  BY <1>1 DEF ToSet
<1>3. /\ Total(added) \in Nat /\ Total(ToSet(list)) \in Nat
      /\ Total(added \cup ToSet(list)) = Total(added) + Total(ToSet(list))
  BY <1>1, <1>2, TotalFacts
<1>4. taken[Home] \in Nat /\ limit[Home] \in Nat /\ Reserve \in Nat /\ Total(added) <= taken[Home]
  BY DirectoryAssumption DEF Types, Room
<1>5. CASE list = <<>>
  <2>1. ToSet(list) = {}
    BY <1>5 DEF ToSet
  <2>2. added \cup ToSet(list) = added
    BY <2>1
  <2> QED
    BY <1>3, <1>4, <2>2 DEF Room, OwnWithinLimit
<1>6. CASE list # <<>>
  <2>1. limit[Home] # 0 => taken[Home] + Total(ToSet(list)) + Reserve < limit[Home]
    BY <1>6, FittingFits
  <2> QED
    BY <1>3, <1>4, <2>1
<1> QED
  BY <1>5, <1>6

-----------------------------------------------------------------------------
(* The steps *)

LEMMA RoomStays ==
  ASSUME Room, added' = added, taken' = taken, limit' = limit, Up' \subseteq Up
  PROVE  Room'
  BY DEF Room, OwnWithinLimit, Total

LEMMA DeliverKeeps ==
  ASSUME KeepInv, NEW q \in Nodes, NEW n \in Nodes, Deliver(q, n)
  PROVE  KeepInv'
<1> DEFINE l == [link EXCEPT ![q][n] = Tail(@)]
<1>1. Head(link[q][n]) \in Messages /\ l \in Links(Messages)
  BY TakenCarries DEF Deliver, KeepInv
<1>2. Handle(l, n, Head(link[q][n])) /\ UNCHANGED <<limit, known, taken, added>>
  BY DEF Deliver
<1> HIDE DEF l
<1>3. Handled(n)
  BY <1>1, <1>2, HandleHandled DEF KeepInv
<1>4. Kept
  BY <1>2, <1>3, OutcomeKeeps DEF Handled, KeepInv
<1>5. Room'
  BY <1>2, <1>3, RoomStays DEF Handled, KeepInv
<1> QED
  BY <1>2, <1>3, <1>4, <1>5 DEF Handled, Kept, KeepInv, Types

LEMMA InitializeKeeps ==
  ASSUME KeepInv, NEW n \in Nodes, InitializeActor(n)
  PROVE  KeepInv'
<1>1. <<DirRequest>> \in Seq(Messages)
  BY MessagesMade
<1>2. Carried(Messages)'
  BY <1>1, SendCarries DEF KeepInv, Carried, InitializeActor
<1>3. NodesOK'
  BY DEF NodesOK, NodeOK, KeepInv, InitializeActor
<1>4. OwnerKeeps'
  BY DEF OwnerKeeps, FileExists, OwnRow, KeepInv, InitializeActor
<1>5. Room'
  BY RoomStays DEF KeepInv, InitializeActor, Up
<1> QED
  BY <1>2, <1>3, <1>4, <1>5 DEF KeepInv, Types, InitializeActor

LEMMA AddFilesKeeps ==
  ASSUME KeepInv, NEW list \in Lists, AddFiles(list)
  PROVE  KeepInv'
<1> DEFINE msgs == [i \in DOMAIN list |-> AddFileMessage(OwnRow(list[i]))]
<1>1. /\ Home \in Up /\ Home \in known /\ NewNames(list) /\ Fitting(list) /\ Copied(list, list)
      /\ taken' = [taken EXCEPT ![Home] = @ + Total(ToSet(list))]
      /\ Send(link, Home, msgs)
      /\ added' = added \cup ToSet(list)
      /\ UNCHANGED <<limit, status, known>>
  BY DEF AddFiles, TakenWith
<1>2. Different(list) /\ Home \in Nodes
  BY ListsDifferent, DirectoryAssumption
<1>3. msgs \in Seq(Messages)
  <2>1. list \in Seq(Files) /\ DOMAIN list = 1 .. Len(list) /\ Len(list) \in Nat
    BY <1>2 DEF Different
  <2>2. \A i \in DOMAIN list : AddFileMessage(OwnRow(list[i])) \in Messages
    BY <2>1, OwnRowTyped, MessagesMade
  <2> QED
    BY <2>1, <2>2
<1> HIDE DEF msgs
<1>4. Carried(Messages)'
  BY <1>1, <1>2, <1>3, SendCarries DEF KeepInv, Carried
<1>5. Kept /\ added' \subseteq Files /\ added \cap ToSet(list) = {}
  <2>1. ToSet(list) \subseteq ToSet(list)
    OBVIOUS
  <2> QED
    BY <1>1, <1>2, <2>1, CopiedKeeps DEF KeepInv
<1>6. /\ Total(added \cup ToSet(list)) = Total(added) + Total(ToSet(list))
      /\ Total(added) + Total(ToSet(list)) <= taken[Home] + Total(ToSet(list))
      /\ Total(ToSet(list)) \in Nat
      /\ added \cup ToSet(list) # {} /\ limit[Home] # 0 =>
           Total(added \cup ToSet(list)) + Reserve < limit[Home]
  BY <1>1, <1>2, <1>5, RoomFor DEF KeepInv
<1>7. taken \in [Nodes -> Nat]
  BY DEF KeepInv, Types
<1>8. taken' \in [Nodes -> Nat] /\ taken'[Home] = taken[Home] + Total(ToSet(list))
  BY <1>1, <1>2, <1>6, <1>7
<1>9. Room'
  <2>1. Total(added)' = Total(added')
    BY DEF Total
  <2> QED
    BY <1>1, <1>6, <1>8, <2>1 DEF Room, OwnWithinLimit
<1> QED
  BY <1>1, <1>4, <1>5, <1>8, <1>9 DEF KeepInv, Types, Kept

LEMMA KilledFacts ==
  ASSUME Types, Carried(Messages), NEW n \in Nodes, Killed(n)
  PROVE  /\ Carried(Messages)' /\ status' \in [Nodes -> Ends \cup {"up"}]
         /\ Up' \subseteq Up /\ n \notin Up'
         /\ UNCHANGED <<limit, known, taken>>
<1>1. Carried(Messages)'
  BY GoneCarries DEF Killed
<1> QED
  BY <1>1 DEF Killed, Types, Up, Ends

LEMMA KillInAddFilesKeeps ==
  ASSUME KeepInv, NEW list \in Lists, KillInAddFiles(list)
  PROVE  KeepInv'
<1>1. Different(list) /\ Home \in Nodes /\ Len(list) \in Nat
  BY ListsDifferent, DirectoryAssumption DEF Different
<1>2. Home \in Up /\ Home \in known /\ NewNames(list) /\ Fitting(list) /\ Killed(Home)
  BY DEF KillInAddFiles
<1>3. PICK i \in 0 .. Len(list), j \in 0 .. Len(list) :
        /\ j \in {i, i + 1}
        /\ Copied(SubSeq(list, 1, j), SubSeq(list, 1, i))
        /\ added' = added \cup ToSet(SubSeq(list, 1, i))
  BY DEF KillInAddFiles
<1> DEFINE copies == SubSeq(list, 1, j)
           withRow == SubSeq(list, 1, i)
<1>4. /\ Different(copies) /\ Different(withRow) /\ ToSet(withRow) \subseteq ToSet(copies)
      /\ NewNames(copies) /\ NewNames(withRow) /\ Fitting(withRow)
  <2>1. /\ Different(copies) /\ DOMAIN copies = 1 .. j /\ \A k \in 1 .. j : copies[k] = list[k]
    BY <1>1, PrefixFacts
  <2>2. /\ Different(withRow) /\ DOMAIN withRow = 1 .. i /\ \A k \in 1 .. i : withRow[k] = list[k]
    BY <1>1, PrefixFacts
  <2>3. NewNames(copies) /\ NewNames(withRow) /\ Fitting(withRow)
    BY <1>1, <1>2, PrefixFits
  <2>4. i <= j
    BY <1>1, <1>3
  <2> HIDE DEF copies, withRow
  <2>5. ToSet(withRow) \subseteq ToSet(copies)
    BY <1>1, <2>1, <2>2, <2>4 DEF ToSet
  <2> QED
    BY <2>1, <2>2, <2>3, <2>5
<1>5. Copied(copies, withRow) /\ added' = added \cup ToSet(withRow)
  BY <1>3
<1> HIDE DEF copies, withRow
<1>6. /\ Carried(Messages)' /\ status' \in [Nodes -> Ends \cup {"up"}]
      /\ Home \notin Up' /\ UNCHANGED <<limit, known, taken>>
  BY <1>1, <1>2, KilledFacts DEF KeepInv
<1>7. Kept /\ added' \subseteq Files /\ added \cap ToSet(withRow) = {}
  BY <1>2, <1>4, <1>5, <1>6, CopiedKeeps DEF KeepInv
<1>8. added \cup ToSet(withRow) # {} /\ limit[Home] # 0 =>
        Total(added \cup ToSet(withRow)) + Reserve < limit[Home]
  BY <1>2, <1>4, <1>7, RoomFor DEF KeepInv
<1>9. Room'
  <2>1. Total(added)' = Total(added')
    BY DEF Total
  <2> QED
    BY <1>5, <1>6, <1>8, <2>1 DEF Room, OwnWithinLimit
<1> QED
  BY <1>6, <1>7, <1>9 DEF KeepInv, Types, Kept

LEMMA KillInAddFileKeeps ==
  ASSUME KeepInv, NEW q \in Nodes, NEW n \in Nodes, KillInAddFile(q, n)
  PROVE  KeepInv'
<1> DEFINE row == Head(link[q][n]).row
<1>1. /\ n \in known /\ Killed(n) /\ added' = added
      /\ ~FileExists(n, row.name)
      /\ stored' = [stored EXCEPT ![n] = With(@, {row.name}, "empty")]
      /\ rows' \in {rows, [rows EXCEPT ![n] = InsertOrIgnore(@, row)]}
  BY DEF KillInAddFile
<1>2. row \in TableRows
  <2>1. Head(link[q][n]) \in Messages
    BY TakenCarries DEF KillInAddFile, KeepInv
  <2> QED
    BY <2>1, MessageFacts DEF KillInAddFile
<1> HIDE DEF row
<1>3. Outcome(n)
  BY <1>1, <1>2 DEF Outcome, FileExists
<1>4. /\ Carried(Messages)' /\ status' \in [Nodes -> Ends \cup {"up"}]
      /\ Up' \subseteq Up /\ UNCHANGED <<limit, known, taken>>
  BY <1>1, KilledFacts DEF KeepInv
<1>5. Kept
  BY <1>1, <1>3, <1>4, OutcomeKeeps DEF KeepInv
<1>6. Room'
  BY <1>1, <1>4, RoomStays DEF KeepInv
<1> QED
  BY <1>1, <1>4, <1>5, <1>6 DEF KeepInv, Types, Kept

LEMMA RemoveLocalKeeps ==
  ASSUME KeepInv, NEW f \in Files, RemoveLocalFile(f)
  PROVE  KeepInv'
<1>1. Home \in Nodes /\ HashOf(f) \in Names /\ HashOf(f) \notin Files
  BY DirectoryAssumption, NamesAssumption DEF Names
<1>2. <<RemoveFileMessage(f)>> \in Seq(Messages)
  BY MessagesMade
<1>3. Carried(Messages)'
  BY <1>1, <1>2, SendCarries DEF KeepInv, Carried, RemoveLocalFile
<1>4. Home \in known
  <2>1. f \in DOMAIN stored[Home]
    BY DEF KeepInv, OwnerKeeps, FileExists, RemoveLocalFile
  <2> QED
    BY <1>1, <2>1, EmptyFolder DEF KeepInv, NodesOK, NodeOK
<1>5. Outcome(Home)
  <2>1. {HashOf(f)} \in SUBSET Names /\ {HashOf(f)} \cap Files = {}
    BY <1>1
  <2> QED
    BY <1>4, <2>1 DEF Outcome, RemoveLocalFile
<1>6. Kept
  BY <1>1, <1>5, OutcomeKeeps DEF KeepInv, RemoveLocalFile
<1>7. Room'
  BY RoomStays DEF KeepInv, RemoveLocalFile, Up
<1> QED
  BY <1>3, <1>6, <1>7 DEF KeepInv, Types, Kept, RemoveLocalFile

LEMMA RestartKeeps ==
  ASSUME KeepInv, NEW n \in Nodes, Restart(n)
  PROVE  KeepInv'
<1>1. UNCHANGED <<limit, known, rows, stored, added>>
  BY DEF Restart, disk
<1>2. Carried(Messages)'
  <2>1. <<>> \in Seq(Messages)
    OBVIOUS
  <2>2. link \in [Nodes -> [Nodes -> Seq(Messages)]] /\ cache \in [Nodes -> Seq(Messages)]
    BY DEF KeepInv, Carried, Links
  <2>3. \A p, q \in Nodes : link[p][q] \in Seq(Messages) /\ cache[p] \in Seq(Messages)
    BY <2>2
  <2>4. \A p, q \in Nodes : link[p][q] \o cache[p] \in Seq(Messages)
    BY <2>3
  <2>5. link' \in [Nodes -> [Nodes -> Seq(Messages)]]
    BY <2>3, <2>4 DEF Restart
  <2>6. cache' \in [Nodes -> Seq(Messages)]
    BY <2>1, <2>2 DEF Restart
  <2> QED
    BY <2>5, <2>6 DEF Carried, Links
<1>3. NodesOK'
  BY <1>1 DEF NodesOK, NodeOK, KeepInv
<1>4. OwnerKeeps'
  BY <1>1 DEF OwnerKeeps, FileExists, OwnRow, KeepInv
<1>5. SizeTaken(stored[n]) \in Nat
  BY TotalFacts DEF SizeTaken
<1>6. taken' \in [Nodes -> Nat] /\ taken'[n] = SizeTaken(stored[n]) /\ \A p \in Nodes \ {n} : taken'[p] = taken[p]
  BY <1>5 DEF Restart, KeepInv, Types
<1>7. status' \in [Nodes -> Ends \cup {"up"}] /\ Up' = Up \cup {n}
  BY DEF Restart, KeepInv, Types, Up
<1>8. Room'
  <2>1. OwnWithinLimit'
    BY <1>1 DEF OwnWithinLimit, Total, KeepInv, Room
  <2>2. Total(added)' = Total(added)
    BY <1>1 DEF Total
  <2>3. CASE n = Home
    <3> DEFINE all == {f \in DOMAIN stored[Home] \cap Files : stored[Home][f] = "full"}
    <3>1. added \in SUBSET Files /\ all \in SUBSET Files /\ added \subseteq all
      BY DEF KeepInv, Types, OwnerKeeps, FileExists
    <3>2. SizeTaken(stored[Home]) = Total(all)
      BY DEF SizeTaken
    <3> HIDE DEF all
    <3>3. Total(added) <= Total(all)
      BY <3>1, TotalFacts
    <3> QED
      BY <1>6, <2>1, <2>2, <2>3, <3>2, <3>3 DEF Room
  <2>4. CASE n # Home
    BY <1>6, <1>7, <2>1, <2>2, <2>4, DirectoryAssumption DEF Room, KeepInv
  <2> QED
    BY <2>3, <2>4
<1> QED
  BY <1>1, <1>2, <1>3, <1>4, <1>6, <1>7, <1>8 DEF KeepInv, Types

LEMMA InitKeeps ==
  ASSUME Init
  PROVE  KeepInv
<1>1. TableOK(<<>>) /\ <<>> \in Seq(TableRows) /\ <<>> \in Seq(Messages)
  BY DEF TableOK
<1>2. FolderOK(<<>>) /\ <<>> \in Folders
  BY EmptyFolder, FolderTyped
<1>3. NodesOK
  BY <1>1, <1>2 DEF Init, NodesOK, NodeOK
<1>4. Carried(Messages)
  BY <1>1 DEF Init, Carried, Links
<1>5. Types
  <2>1. limit \in [Nodes -> Nat]
    <3>1. LimitChoices \subseteq Nat
      BY DirectoryAssumption
    <3> QED
      BY <3>1 DEF Init
  <2>2. status \in [Nodes -> Ends \cup {"up"}] /\ known \subseteq Nodes
    BY DEF Init, Ends, Up
  <2> QED
    BY <1>1, <1>2, <2>1, <2>2 DEF Init, Types
<1>6. OwnerKeeps
  BY DEF Init, OwnerKeeps
<1>7. Room
  <2>1. Total({}) = 0
    BY SumEmpty DEF Total
  <2>2. added = {} /\ taken[Home] = 0
    BY DirectoryAssumption DEF Init
  <2> QED
    BY <2>1, <2>2 DEF Room, OwnWithinLimit
<1> QED
  BY <1>3, <1>4, <1>5, <1>6, <1>7 DEF KeepInv

LEMMA NextKeeps ==
  ASSUME KeepInv, [Next]_vars
  PROVE  KeepInv'
<1>1. CASE \E q, n \in Nodes : Deliver(q, n) \/ KillInAddFile(q, n)
  BY <1>1, DeliverKeeps, KillInAddFileKeeps
<1>2. CASE \E list \in Lists : AddFiles(list) \/ KillInAddFiles(list)
  BY <1>2, AddFilesKeeps, KillInAddFilesKeeps
<1>3. CASE \E f \in Files : RemoveLocalFile(f)
  BY <1>3, RemoveLocalKeeps
<1>4. CASE \E n \in Nodes : InitializeActor(n) \/ Restart(n)
  BY <1>4, InitializeKeeps, RestartKeeps
<1>5. CASE UNCHANGED vars
  <2>1. UNCHANGED <<limit, status, known, rows, stored, taken, link, cache, added>>
    BY <1>5 DEF vars, disk
  <2> QED
    BY <2>1 DEF KeepInv, Types, NodesOK, NodeOK, Carried, Links, OwnerKeeps, FileExists,
                OwnRow, Room, OwnWithinLimit, Up, Total
<1> QED
  BY <1>1, <1>2, <1>3, <1>4, <1>5 DEF Next

LEMMA KeepHolds == Spec => []KeepInv
<1>1. Init => KeepInv
  BY InitKeeps
<1>2. KeepInv /\ [Next]_vars => KeepInv'
  BY NextKeeps
<1> QED
  BY <1>1, <1>2, PTL DEF Spec

-----------------------------------------------------------------------------
(* Calm runs: files is the set of the files that were added *)

\* As long as there are no files the only messages are requests for them, which
\* nobody answers; then there are only the files' announcements and segments.
CalmMessages(files) ==
  IF files = {}
    THEN {DirRequest}
    ELSE {AddFileMessage(OwnRow(f)) : f \in files}
           \cup {RequestSegment(OwnRow(f)) : f \in files}
           \cup {[type |-> "Segment", name |-> f, hash |-> HashOf(f)] : f \in files}

\* Every file that is there has its row.
CalmNode(n, files) ==
  /\ ToSet(rows[n]) \subseteq {OwnRow(f) : f \in files}
  /\ DOMAIN stored[n] \subseteq files
  /\ \A f \in DOMAIN stored[n] : OwnRow(f) \in ToSet(rows[n])
  /\ status[n] \in {"up", "full", "open", "absent"}
  /\ status[n] = "open" => n \notin known

CalmWith(files) ==
  /\ \A n \in Nodes : CalmNode(n, files)
  /\ Carried(CalmMessages(files))

CalmInv == ~disturbed => CalmWith(added)

LEMMA CalmMade ==
  ASSUME NEW files, NEW f \in files
  PROVE  /\ AddFileMessage(OwnRow(f)) \in CalmMessages(files)
         /\ RequestSegment(OwnRow(f)) \in CalmMessages(files)
         /\ Segment(RequestSegment(OwnRow(f))) \in CalmMessages(files)
  BY DEF CalmMessages, Segment, RequestSegment, OwnRow, Row

\* A step of one node.
LEMMA CalmChanges ==
  ASSUME Types, NodesOK, NEW files, CalmWith(files), NEW n \in Nodes, known' = known,
         Carried(CalmMessages(files))',
         \A p \in Nodes \ {n} : rows'[p] = rows[p] /\ stored'[p] = stored[p] /\ status'[p] = status[p],
         CalmNode(n, files)'
  PROVE  CalmWith(files)'
<1>1. ASSUME NEW p \in Nodes \ {n}
      PROVE  CalmNode(p, files)'
  <2>1. CalmNode(p, files) /\ rows'[p] = rows[p] /\ stored'[p] = stored[p] /\ status'[p] = status[p]
    BY DEF CalmWith
  <2> QED
    BY <2>1 DEF CalmNode, OwnRow
<1> QED
  BY <1>1 DEF CalmWith

\* A process ends.
LEMMA EndCalm ==
  ASSUME Types, NodesOK, NEW files, CalmWith(files), NEW n \in Nodes, known' = known,
         NEW why, End(n, why), why \in {"full", "open"}, why = "open" => n \notin known
  PROVE  CalmWith(files)'
<1>1. Carried(CalmMessages(files))'
  BY GoneCarries DEF End, CalmWith
<1>2. status \in [Nodes -> Ends \cup {"up"}] /\ rows' = rows /\ stored' = stored /\ status' = [status EXCEPT ![n] = why]
  BY DEF End, Types
<1>3. CalmNode(n, files)'
  <2>1. CalmNode(n, files) /\ status'[n] = why
    BY <1>2 DEF CalmWith
  <2> QED
    BY <1>2, <2>1 DEF CalmNode, OwnRow
<1> QED
  BY <1>1, <1>2, <1>3, CalmChanges

\* Only messages change.
LEMMA SilentCalm ==
  ASSUME Types, NodesOK, NEW files, CalmWith(files), Carried(CalmMessages(files))',
         UNCHANGED <<rows, stored, status>>, known' = known
  PROVE  CalmWith(files)'
<1>1. ASSUME NEW p \in Nodes
      PROVE  CalmNode(p, files)'
  <2>1. CalmNode(p, files)
    BY DEF CalmWith
  <2> QED
    BY <2>1 DEF CalmNode, OwnRow
<1> QED
  BY <1>1 DEF CalmWith

LEMMA IgnoreCalm ==
  ASSUME Types, NodesOK, NEW files, CalmWith(files), known' = known,
         NEW l \in Links(CalmMessages(files)), Ignore(l)
  PROVE  CalmWith(files)'
<1>1. Carried(CalmMessages(files))'
  BY DEF Ignore, Carried, CalmWith
<1> QED
  BY <1>1, SilentCalm DEF Ignore

LEMMA SendCalm ==
  ASSUME NEW files, CalmWith(files), NEW n \in Nodes,
         NEW l \in Links(CalmMessages(files)), NEW msg \in CalmMessages(files), Send(l, n, <<msg>>)
  PROVE  Carried(CalmMessages(files))'
<1>1. <<msg>> \in Seq(CalmMessages(files))
  OBVIOUS
<1> QED
  BY <1>1, SendCarries DEF CalmWith, Carried

LEMMA AddFileCalm ==
  ASSUME Types, NodesOK, NEW files, CalmWith(files), NEW n \in Nodes, known' = known,
         NEW l \in Links(CalmMessages(files)), NEW f \in files, files \subseteq Files,
         AddFile(l, n, OwnRow(f))
  PROVE  CalmWith(files)'
<1>1. CASE Ignore(l)
  BY <1>1, IgnoreCalm
<1>2. CASE End(n, "full")
  BY <1>2, EndCalm
<1>3. CASE End(n, "open") /\ n \notin known
  BY <1>3, EndCalm
<1>4. CASE /\ stored' = [stored EXCEPT ![n] = With(@, {OwnRow(f).name}, "empty")]
           /\ rows' = [rows EXCEPT ![n] = InsertOrIgnore(@, OwnRow(f))]
           /\ Send(l, n, <<RequestSegment(OwnRow(f))>>) \/ (link' = l /\ UNCHANGED cache)
           /\ UNCHANGED status
  <2>1. Carried(CalmMessages(files))'
    <3>1. CASE Send(l, n, <<RequestSegment(OwnRow(f))>>)
      BY <3>1, SendCalm, CalmMade
    <3>2. CASE link' = l /\ UNCHANGED cache
      BY <3>2 DEF CalmWith, Carried
    <3> QED
      BY <1>4, <3>1, <3>2
  <2>2. OwnRow(f).name = f /\ OwnRow(f) \in TableRows /\ f \in Names
    BY OwnRowTyped DEF Names
  <2>3. /\ rows \in [Nodes -> Seq(TableRows)] /\ stored \in [Nodes -> Folders]
        /\ TableOK(rows[n]) /\ FolderOK(stored[n]) /\ CalmNode(n, files)
    BY DEF Types, NodesOK, NodeOK, CalmWith
  <2> DEFINE table == InsertOrIgnore(rows[n], OwnRow(f))
  <2>4. /\ ToSet(rows[n]) \subseteq ToSet(table)
        /\ ToSet(table) \subseteq ToSet(rows[n]) \cup {OwnRow(f)}
        /\ \E i \in DOMAIN table : table[i].name = OwnRow(f).name
    <3>1. OwnRow(f) \in TableRows /\ TableOK(rows[n])
      BY <2>2, <2>3
    <3> QED
      BY <3>1, InsertKeeps
  <2>5. OwnRow(f) \in ToSet(table)
    <3> HIDE DEF table
    <3>1. PICK row \in ToSet(table) : row.name = f
      BY <2>2, <2>4 DEF ToSet
    <3>2. PICK e \in files : row = OwnRow(e)
      BY <2>3, <2>4, <3>1 DEF CalmNode
    <3>3. e = f
      BY <3>1, <3>2, OwnRowTyped
    <3> QED
      BY <3>1, <3>2, <3>3
  <2>6. rows'[n] = table /\ \A p \in Nodes \ {n} : rows'[p] = rows[p]
    BY <1>4, <2>3
  <2>7. DOMAIN stored'[n] = DOMAIN stored[n] \cup {f} /\ \A p \in Nodes \ {n} : stored'[p] = stored[p]
    BY <1>4, <2>2, <2>3, WithEmpty
  <2> HIDE DEF table
  <2>8. CalmNode(n, files)'
    BY <1>4, <2>3, <2>4, <2>5, <2>6, <2>7 DEF CalmNode, OwnRow
  <2> QED
    BY <1>4, <2>1, <2>6, <2>7, <2>8, CalmChanges
<1> QED
  BY <1>1, <1>2, <1>3, <1>4 DEF AddFile, Exists

LEMMA FetchCalm ==
  ASSUME Types, NodesOK, NEW files, CalmWith(files), NEW n \in Nodes, known' = known,
         NEW l \in Links(CalmMessages(files)), NEW f \in files,
         FetchFragments(l, n, RequestSegment(OwnRow(f)))
  PROVE  CalmWith(files)'
<1>1. CASE Ignore(l)
  BY <1>1, IgnoreCalm
<1>2. CASE Reply(l, n, <<Segment(RequestSegment(OwnRow(f)))>>)
  <2>1. Carried(CalmMessages(files))'
    BY <1>2, SendCalm, CalmMade DEF Reply
  <2> QED
    BY <1>2, <2>1, SilentCalm DEF Reply
<1> QED
  BY <1>1, <1>2 DEF FetchFragments

\* The file that a segment is of has its own row, so the hash is right.
LEMMA ThreadCalm ==
  ASSUME Types, NodesOK, NEW files, CalmWith(files), NEW n \in Nodes, known' = known,
         NEW l \in Links(CalmMessages(files)), NEW f \in files, files \subseteq Files,
         NEW msg, msg.name = f, msg.hash = HashOf(f),
         ThreadAddFragment(l, n, msg), ~disturbed'
  PROVE  CalmWith(files)'
<1>1. CASE Ignore(l)
  BY <1>1, IgnoreCalm
<1>2. CASE FileExists(n, f) /\ ~Ignore(l)
  <2>1. CalmNode(n, files) /\ TableOK(rows[n]) /\ FolderOK(stored[n]) /\ stored \in [Nodes -> Folders]
    BY DEF CalmWith, NodesOK, NodeOK, Types
  <2>2. OwnRow(f) \in ToSet(rows[n]) /\ OwnRow(f).name = f
    BY <1>2, <2>1, OwnRowTyped DEF CalmNode, FileExists
  <2>3. RowsOf(n, f) # {}
    BY <2>2 DEF RowsOf
  <2>4. RowOf(n, f) = OwnRow(f)
    <3>1. RowOf(n, f) \in ToSet(rows[n]) /\ RowOf(n, f).name = f
      BY <2>3 DEF RowOf, RowsOf
    <3>2. PICK e \in files : RowOf(n, f) = OwnRow(e)
      BY <2>1, <3>1 DEF CalmNode
    <3> QED
      BY <3>1, <3>2, OwnRowTyped
  <2>5. FileFull(l, n, msg)
    BY <1>2, <2>3 DEF ThreadAddFragment
  <2>6. /\ stored' = [stored EXCEPT ![n][f] = "full"]
        /\ Send(l, n, <<SendFile(n, f)>>)
        /\ UNCHANGED <<status, rows>>
    BY <2>5 DEF FileFull
  <2>7. SendFile(n, f) \in CalmMessages(files)
    BY <2>3, <2>4, CalmMade DEF SendFile
  <2>8. Carried(CalmMessages(files))'
    BY <2>6, <2>7, SendCalm
  <2>9. DOMAIN stored'[n] = DOMAIN stored[n] /\ \A p \in Nodes \ {n} : stored'[p] = stored[p]
    BY <2>1, <2>6
  <2>10. CalmNode(n, files)'
    BY <2>1, <2>6, <2>9 DEF CalmNode, OwnRow
  <2> QED
    BY <2>6, <2>8, <2>9, <2>10, CalmChanges
<1> QED
  BY <1>1, <1>2 DEF ThreadAddFragment

LEMMA HandleCalm ==
  ASSUME Types, NodesOK, NEW files, CalmWith(files), NEW n \in Nodes, known' = known,
         NEW l \in Links(CalmMessages(files)), NEW msg \in CalmMessages(files), files \subseteq Files,
         Handle(l, n, msg), ~disturbed'
  PROVE  CalmWith(files)'
<1>1. CASE files = {}
  <2>1. msg = DirRequest
    BY <1>1 DEF CalmMessages
  <2>2. SendDirData(l, n)
    BY <2>1 DEF Handle, DirRequest
  <2>3. rows[n] = <<>>
    <3>1. ToSet(rows[n]) = {} /\ rows[n] \in Seq(TableRows)
      BY <1>1 DEF CalmWith, CalmNode, Types
    <3>2. DOMAIN rows[n] = {}
      BY <3>1 DEF ToSet
    <3>3. Len(rows[n]) \in Nat /\ DOMAIN rows[n] = 1 .. Len(rows[n])
      BY <3>1
    <3>4. Len(rows[n]) = 0
      <4>1. Len(rows[n]) # 0 => 1 \in 1 .. Len(rows[n])
        BY <3>3
      <4> QED
        BY <3>2, <3>3, <4>1
    <3> QED
      BY <3>1, <3>4
  <2> QED
    BY <2>2, <2>3, IgnoreCalm DEF SendDirData
<1>2. ASSUME NEW f \in files, msg = AddFileMessage(OwnRow(f))
      PROVE  CalmWith(files)'
  <2>1. msg.type = "AddFile" /\ msg.row = OwnRow(f)
    BY <1>2 DEF AddFileMessage
  <2>2. AddFile(l, n, OwnRow(f))
    BY <2>1 DEF Handle
  <2> QED
    BY <2>2, AddFileCalm
<1>3. ASSUME NEW f \in files, msg = RequestSegment(OwnRow(f))
      PROVE  CalmWith(files)'
  <2>1. FetchFragments(l, n, msg)
    BY <1>3 DEF Handle, RequestSegment
  <2> QED
    BY <1>3, <2>1, FetchCalm
<1>4. ASSUME NEW f \in files, msg = [type |-> "Segment", name |-> f, hash |-> HashOf(f)]
      PROVE  CalmWith(files)'
  <2>1. ThreadAddFragment(l, n, msg) /\ msg.name = f /\ msg.hash = HashOf(f)
    BY <1>4 DEF Handle
  <2> QED
    BY <2>1, ThreadCalm
<1> QED
  BY <1>1, <1>2, <1>3, <1>4 DEF CalmMessages

LEMMA IsSequence ==
  ASSUME NEW M, NEW k \in Nat, NEW s \in [1 .. k -> M]
  PROVE  s \in Seq(M)
  OBVIOUS

\* A file that is added when no directory is asked for.
LEMMA NoRequest ==
  ASSUME NEW files, Carried(CalmMessages(files)), ~DirRequested, NEW more, files \subseteq more
  PROVE  Carried(CalmMessages(more))
<1>1. CASE files # {}
  <2>1. CalmMessages(files) \subseteq CalmMessages(more)
    BY <1>1 DEF CalmMessages
  <2> HIDE DEF CalmMessages
  <2>2. ASSUME NEW s \in Seq(CalmMessages(files))
        PROVE  s \in Seq(CalmMessages(more))
    BY <2>1
  <2> QED
    BY <2>2 DEF Carried, Links
<1>2. CASE files = {}
  <2>1. ASSUME NEW s \in Seq({DirRequest}), DirRequest \notin ToSet(s)
        PROVE  s = <<>>
    <3>1. Len(s) \in Nat /\ DOMAIN s = 1 .. Len(s)
      OBVIOUS
    <3>2. ~(1 \in DOMAIN s)
      BY <2>1 DEF ToSet
    <3>3. Len(s) = 0
      BY <3>1, <3>2
    <3> QED
      BY <3>3
  <2>2. link \in [Nodes -> [Nodes -> Seq({DirRequest})]] /\ cache \in [Nodes -> Seq({DirRequest})]
    BY <1>2 DEF Carried, Links, CalmMessages
  <2>3. \A p, q \in Nodes : link[p][q] = <<>> /\ cache[p] = <<>>
    BY <2>1, <2>2 DEF DirRequested
  <2>4. <<>> \in Seq(CalmMessages(more))
    OBVIOUS
  <2> QED
    BY <2>2, <2>3, <2>4 DEF Carried, Links
<1> QED
  BY <1>1, <1>2

LEMMA AddFilesCalm ==
  ASSUME KeepInv, CalmWith(added), NEW list \in Lists, AddFiles(list), ~disturbed',
         NEW more, more = added \cup ToSet(list)
  PROVE  CalmWith(more)'
<1> DEFINE msgs == [i \in DOMAIN list |-> AddFileMessage(OwnRow(list[i]))]
           folder == With(stored[Home], ToSet(list), "full")
           table == rows[Home] \o [i \in DOMAIN list |-> OwnRow(list[i])]
<1>1. /\ NewNames(list) /\ ~DirRequested /\ UNCHANGED <<known, status>>
      /\ rows' = [rows EXCEPT ![Home] = table]
      /\ stored' = [stored EXCEPT ![Home] = folder]
      /\ Send(link, Home, msgs)
  BY DEF AddFiles, Copied
<1>2. /\ Different(list) /\ Home \in Nodes /\ list \in Seq(Files)
      /\ DOMAIN list = 1 .. Len(list) /\ Len(list) \in Nat
  BY ListsDifferent, DirectoryAssumption DEF Different
<1>3. /\ rows \in [Nodes -> Seq(TableRows)] /\ stored \in [Nodes -> Folders]
      /\ TableOK(rows[Home]) /\ FolderOK(stored[Home]) /\ CalmNode(Home, added)
  BY <1>2 DEF KeepInv, Types, NodesOK, NodeOK, CalmWith
<1>4. \A f \in ToSet(list) : f \in more /\ f \in Files
  BY <1>2 DEF ToSet
<1>5. \A i \in DOMAIN list : list[i] \in more
  BY <1>2 DEF ToSet
<1>6. \A i \in DOMAIN rows[Home] : rows[Home][i].name \notin ToSet(list)
  <2>1. \A f \in ToSet(list) : RowsOf(Home, f) = {}
    BY <1>1 DEF NewNames
  <2> QED
    BY <2>1 DEF RowsOf, ToSet
<1>7. /\ ToSet(rows[Home]) \subseteq ToSet(table)
      /\ \A f \in ToSet(list) : OwnRow(f) \in ToSet(table)
      /\ \A row \in ToSet(table) : row \in ToSet(rows[Home]) \/ \E f \in ToSet(list) : row = OwnRow(f)
  BY <1>2, <1>3, <1>6, TableAppends
<1>8. DOMAIN folder = DOMAIN stored[Home] \cup ToSet(list)
  <2>1. ToSet(list) \subseteq Files
    BY <1>4
  <2> QED
    BY <1>3, <2>1, WithFull
<1> HIDE DEF table, folder
<1>9. /\ rows'[Home] = table /\ stored'[Home] = folder
      /\ \A p \in Nodes \ {Home} : rows'[p] = rows[p] /\ stored'[p] = stored[p]
  BY <1>1, <1>2, <1>3
<1>10. added \subseteq more
  OBVIOUS
<1>11. Carried(CalmMessages(more))'
  <2>1. Carried(CalmMessages(more))
    BY <1>1, <1>10, NoRequest DEF CalmWith
  <2>2. \A i \in DOMAIN list : AddFileMessage(OwnRow(list[i])) \in CalmMessages(more)
    BY <1>5, CalmMade
  <2>3. msgs \in Seq(CalmMessages(more))
    <3>1. msgs \in [1 .. Len(list) -> CalmMessages(more)]
      BY <1>2, <2>2
    <3>2. Len(list) \in Nat
      BY <1>2
    <3> HIDE DEF msgs
    <3> QED
      BY <3>1, <3>2, IsSequence
  <2> HIDE DEF msgs
  <2> QED
    BY <1>1, <1>2, <2>1, <2>3, SendCarries DEF Carried
<1>12. CalmNode(Home, more)'
  BY <1>1, <1>3, <1>4, <1>7, <1>8, <1>9, <1>10 DEF CalmNode, OwnRow
<1>13. ASSUME NEW p \in Nodes \ {Home}
       PROVE  CalmNode(p, more)'
  <2>1. CalmNode(p, added) /\ rows'[p] = rows[p] /\ stored'[p] = stored[p]
    BY <1>9 DEF CalmWith
  <2> QED
    BY <1>1, <1>10, <2>1 DEF CalmNode, OwnRow
<1> QED
  BY <1>11, <1>12, <1>13 DEF CalmWith

LEMMA InitializeCalm ==
  ASSUME KeepInv, NEW files, CalmWith(files), files = added, NEW n \in Nodes, InitializeActor(n), ~disturbed'
  PROVE  CalmWith(files)'
<1>1. added = {} /\ UNCHANGED <<rows, stored, status>> /\ Send(link, n, <<DirRequest>>) /\ n \in Up
      /\ known' = known \cup {n}
  BY DEF InitializeActor
<1>2. DirRequest \in CalmMessages(files)
  BY <1>1 DEF CalmMessages
<1>3. Carried(CalmMessages(files))'
  BY <1>1, <1>2, SendCalm DEF CalmWith, Carried
<1>4. ASSUME NEW p \in Nodes
      PROVE  CalmNode(p, files)'
  <2>1. CalmNode(p, files)
    BY DEF CalmWith
  <2>2. status[n] = "up"
    BY <1>1 DEF Up
  <2> QED
    BY <1>1, <2>1, <2>2 DEF CalmNode, OwnRow
<1> QED
  BY <1>3, <1>4 DEF CalmWith

LEMMA InitCalm ==
  ASSUME Init
  PROVE  CalmWith(added)
<1>1. <<>> \in Seq(CalmMessages({}))
  OBVIOUS
<1>2. added = {}
  BY DEF Init
<1>3. Carried(CalmMessages({}))
  BY <1>1 DEF Init, Carried, Links
<1>4. ASSUME NEW n \in Nodes
      PROVE  CalmNode(n, {})
  <2>1. rows[n] = <<>> /\ stored[n] = <<>> /\ status[n] \in {"up", "absent"}
    BY DEF Init
  <2>2. ToSet(<<>>) = {} /\ DOMAIN <<>> = {}
    BY DEF ToSet
  <2> QED
    BY <2>1, <2>2 DEF CalmNode
<1> QED
  BY <1>2, <1>3, <1>4 DEF CalmWith

\* Nothing makes a run calm again.
LEMMA DisturbedStays ==
  ASSUME disturbed, NEW q \in Nodes, NEW n \in Nodes, Deliver(q, n)
  PROVE  disturbed'
<1> DEFINE l == [link EXCEPT ![q][n] = Tail(@)]
<1>1. Handle(l, n, Head(link[q][n]))
  BY DEF Deliver
<1> HIDE DEF l
<1> QED
  BY <1>1 DEF Handle, SendDirData, AddDirData, AnswerFileRequest, AddFile, FetchFragments,
              ThreadAddFragment, FileFull, RemoveFile, Ignore, Reply, End

LEMMA NextCalm ==
  ASSUME KeepInv, CalmInv, [Next]_vars
  PROVE  CalmInv'
<1> SUFFICES ASSUME ~disturbed'
             PROVE  CalmWith(added)'
  BY DEF CalmInv
<1>1. ASSUME NEW files, added' = files, CalmWith(files)'
      PROVE  CalmWith(added)'
  BY <1>1 DEF CalmWith, CalmNode, Carried, Links, OwnRow
<1>2. ASSUME NEW q \in Nodes, NEW n \in Nodes, Deliver(q, n)
      PROVE  CalmWith(added)'
  <2>1. CASE disturbed
    BY <1>2, <2>1, DisturbedStays
  <2>2. CASE ~disturbed
    <3>1. PICK files : files = added
      OBVIOUS
    <3>2. CalmWith(files) /\ files \subseteq Files
      BY <2>2, <3>1 DEF CalmInv, KeepInv, Types
    <3> DEFINE l == [link EXCEPT ![q][n] = Tail(@)]
    <3>3. Head(link[q][n]) \in CalmMessages(files) /\ l \in Links(CalmMessages(files))
      BY <1>2, <3>2, TakenCarries DEF Deliver, CalmWith
    <3>4. Handle(l, n, Head(link[q][n])) /\ known' = known /\ added' = files
      BY <1>2, <3>1 DEF Deliver
    <3> HIDE DEF l
    <3>5. CalmWith(files)'
      BY <3>2, <3>3, <3>4, HandleCalm DEF KeepInv
    <3> QED
      BY <1>1, <3>1, <3>4, <3>5
  <2> QED
    BY <2>1, <2>2
<1>3. ASSUME NEW list \in Lists, AddFiles(list)
      PROVE  CalmWith(added)'
  <2>1. ~disturbed
    BY <1>3 DEF AddFiles
  <2>2. PICK more : more = added \cup ToSet(list)
    OBVIOUS
  <2>3. CalmWith(more)'
    BY <1>3, <2>1, <2>2, AddFilesCalm DEF CalmInv
  <2>4. added' = more
    BY <1>3, <2>2 DEF AddFiles
  <2> QED
    BY <1>1, <2>3, <2>4
<1>4. ASSUME NEW n \in Nodes, InitializeActor(n)
      PROVE  CalmWith(added)'
  <2>1. ~disturbed /\ added' = added
    BY <1>4 DEF InitializeActor
  <2>2. PICK files : files = added
    OBVIOUS
  <2>3. CalmWith(files)
    BY <2>1, <2>2 DEF CalmInv
  <2>4. CalmWith(files)'
    BY <1>4, <2>2, <2>3, InitializeCalm
  <2> QED
    BY <1>1, <2>1, <2>2, <2>4
<1>5. CASE UNCHANGED vars
  <2>1. UNCHANGED <<status, known, rows, stored, link, cache, added, disturbed>>
    BY <1>5 DEF vars, disk
  <2>2. CalmWith(added)
    BY <2>1 DEF CalmInv
  <2> QED
    BY <2>1, <2>2 DEF CalmWith, CalmNode, Carried, Links, OwnRow
<1>6. ~(\E q, n \in Nodes : KillInAddFile(q, n)) /\ ~(\E list \in Lists : KillInAddFiles(list))
  BY DEF KillInAddFile, KillInAddFiles, Killed
<1>7. ~(\E f \in Files : RemoveLocalFile(f)) /\ ~(\E n \in Nodes : Restart(n))
  BY DEF RemoveLocalFile, Restart
<1> QED
  BY <1>2, <1>3, <1>4, <1>5, <1>6, <1>7 DEF Next

-----------------------------------------------------------------------------
(* The theorems *)

\* Whatever the other nodes ask and announce (addDirData, addFile, removeFile),
\* and whenever a process is killed, the files that were added stay, with their
\* rows and their data, with the node that added them.
THEOREM AddedStays == Spec => []OwnerKeeps
<1>1. KeepInv => OwnerKeeps
  BY DEF KeepInv
<1> QED
  BY <1>1, KeepHolds, PTL

\* On every node a table has one row for a name and a file whose name is the
\* hash of another one's content stays empty, and the files Home adds are
\* together within its limit (writeAvailable, calculateSizeTaken).
THEOREM DirectoryKeeps == Spec => []DirectoryInv
<1>1. KeepInv => TypeOK
  <2>1. ASSUME KeepInv, NEW n \in Nodes
        PROVE  /\ rows[n] \in Seq(Rows)
               /\ \A i, j \in DOMAIN rows[n] : rows[n][i].name = rows[n][j].name => i = j
               /\ DOMAIN stored[n] \subseteq Names
               /\ n \notin known => rows[n] = <<>> /\ stored[n] = <<>>
    <3>1. NodeOK(n) /\ TableRows \subseteq Rows
      BY <2>1 DEF KeepInv, NodesOK, TableRows
    <3>2. rows[n] \in Seq(TableRows)
      BY <3>1 DEF NodeOK, TableOK
    <3>3. rows[n] \in Seq(Rows)
      BY <3>1, <3>2
    <3> QED
      BY <3>1, <3>3 DEF NodeOK, TableOK, FolderOK
  <2> QED
    BY <2>1 DEF TypeOK, KeepInv, Types
<1>2. KeepInv => PhantomsEmpty
  <2>1. ASSUME KeepInv, NEW n \in Nodes, NEW f \in Files
        PROVE  /\ HashOf(f) \in DOMAIN stored[n] => stored[n][HashOf(f)] = "empty"
               /\ \A i \in DOMAIN rows[n] :
                    rows[n][i].name = HashOf(f) => rows[n][i].hash = NoHash /\ rows[n][i].size = 0
    <3>1. FolderOK(stored[n]) /\ rows[n] \in Seq(TableRows) /\ HashOf(f) \in Hashes
      BY <2>1 DEF KeepInv, NodesOK, NodeOK, TableOK, Hashes
    <3>2. \A i \in DOMAIN rows[n] : rows[n][i] \in TableRows
      BY <3>1
    <3> QED
      BY <3>1, <3>2 DEF FolderOK, TableRows
  <2> QED
    BY <2>1 DEF PhantomsEmpty
<1>3. KeepInv => OwnWithinLimit
  BY DEF KeepInv, Room
<1>4. KeepInv => DirectoryInv
  BY <1>1, <1>2, <1>3 DEF DirectoryInv
<1> QED
  BY <1>4, KeepHolds, PTL

\* As long as nothing of what Calm excludes has happened, a node has only the
\* files that were added, each with its right row, and only a lack of room, or not
\* knowing the actor, ends its process (sendDirData, addFile, threadAddFragment).
THEOREM CalmIsKept == Spec => []CalmIsRight
<1>1. Init => CalmInv
  BY InitCalm DEF CalmInv
<1>2. KeepInv /\ CalmInv /\ [Next]_vars => CalmInv'
  BY NextCalm
<1>3. CalmInv => CalmIsRight
  BY DEF CalmInv, CalmWith, CalmNode, CalmIsRight
<1> QED
  BY <1>1, <1>2, <1>3, KeepHolds, PTL DEF Spec
=============================================================================
