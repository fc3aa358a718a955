------------------------------- MODULE Tables -------------------------------
(***************************************************************************)
(* A table of a database file behind DBConnector (db_connector.cpp), with  *)
(* the columns of exc_utils.h and dfs_utils.h.  A value is a text: words,  *)
(* one of them with a NUL inside, and numbers, one followed by other       *)
(* characters and one beyond 32 bits.  SQLite keeps what it is given; the  *)
(* class decides what it gives and what it takes back.                     *)
(***************************************************************************)
EXTENDS Integers, Sequences, TLC

CONSTANT MaxRows      \* bound: rows given to the table

Null == "NULL"        \* no value; read as the empty text
NoTable == "no table"

\* The tables: columns and their types, keys, columns that may be NULL.
Block == [type |-> "TEXT", id |-> "TEXT", date |-> "TEXT", data |-> "TEXT",
          prevHash |-> "TEXT", hash |-> "TEXT"]
Transactions ==
  [sender |-> "TEXT", receiver |-> "TEXT", amount |-> "TEXT", date |-> "TEXT", data |-> "TEXT",
   token |-> "TEXT", prevBlock |-> "TEXT", gas |-> "TEXT", hop |-> "TEXT", hash |-> "TEXT",
   approver |-> "TEXT", digSig |-> "TEXT", producer |-> "TEXT"]
Signatures == [actorId |-> "TEXT", digSig |-> "TEXT", type |-> "TEXT"]
GenesisBlock == [prevGenHash |-> "TEXT"] @@ Block
GenesisDataRow == [actorId |-> "TEXT", state |-> "TEXT", token |-> "TEXT", type |-> "TEXT"]
Tokens == [tokenId |-> "TEXT", name |-> "TEXT", color |-> "TEXT", canStaking |-> "INT"]
ActorsTable == [id |-> "TEXT", type |-> "INT"]
Fragments == [pos |-> "INTEGER", storedPos |-> "INTEGER", size |-> "INTEGER", fragHash |-> "TEXT"]
HistoricalChain ==
  [num |-> "INTEGER", prevNum |-> "INTEGER", type |-> "INTEGER", data |-> "BLOB", hash |-> "TEXT"]
FilesTable ==
  [fileName |-> "TEXT", fileNamePrev |-> "TEXT", fileHash |-> "TEXT", filePath |-> "TEXT",
   fileSize |-> "INTEGER", lastModified |-> "INTEGER"]
Dirs == [actorId |-> "TEXT", lastModified |-> "INTEGER"]

Schemas ==
  [Block |-> Block, Transactions |-> Transactions, Signatures |-> Signatures,
   GenesisBlock |-> GenesisBlock, GenesisDataRow |-> GenesisDataRow, Tokens |-> Tokens,
   Actors |-> ActorsTable, Fragments |-> Fragments, HistoricalChain |-> HistoricalChain,
   FilesTable |-> FilesTable, Dirs |-> Dirs]
Keys ==
  [Signatures |-> "actorId", Tokens |-> "tokenId", Actors |-> "id", Fragments |-> "pos",
   HistoricalChain |-> "num", FilesTable |-> "fileName", Dirs |-> "actorId"]
Optional ==
  [Block |-> {"data"}, Transactions |-> {"data"}, GenesisBlock |-> {"data", "prevGenHash"}]

VARIABLES
  table,     \* the table this connector is used for, if it exists
  isOpen,
  rows,      \* its rows, in the order of their insertion
  given,     \* history: the rows put in with answer true, and how
  dbEnd      \* the process ended
dbVars == <<table, isOpen, rows, given, dbEnd>>

Columns == DOMAIN Schemas[table]
TypeOf(c) == Schemas[table][c]
HasKey == table \in DOMAIN Keys
Required(c) == table \notin DOMAIN Optional \/ c \notin Optional[table]

-----------------------------------------------------------------------------
(* Values *)

Texts == {"v", "w", "w NUL z"}
Numbers == {"7", "7z", "9999999999"}

\* std::stoi and std::stoll throw, and nobody catches.
Throws(c, v) ==
  \/ TypeOf(c) = "INT" /\ v \notin {"7", "7z"}
  \/ TypeOf(c) = "INTEGER" /\ v \notin Numbers

\* implementationPrepare: a number stops at the first other character.
Bound(c, v) == IF TypeOf(c) \in {"INT", "INTEGER"} /\ v = "7z" THEN "7" ELSE v

\* select: a TEXT is read as a C string.
ReadValue(c, v) ==
  IF v = Null THEN "" ELSE IF TypeOf(c) = "TEXT" /\ v = "w NUL z" THEN "w" ELSE v

ReadRow(row) == [c \in Columns |-> ReadValue(c, row[c])]
SelectAll == [i \in DOMAIN rows |-> ReadRow(rows[i])]

-----------------------------------------------------------------------------
(* Operations *)

\* implementationPrepare fails for a column the table does not have.
Prepared(data) == table # NoTable /\ DOMAIN data \subseteq Columns

\* What SQLite makes of the bound values: a column left out is NULL.
Stored(data) ==
  [c \in Columns |-> IF c \in DOMAIN data THEN Bound(c, data[c]) ELSE Null]
Complete(row) == \A c \in Columns : Required(c) => row[c] # Null
SameKey(row, other) == HasKey /\ row[Keys[table]] = other[Keys[table]]

\* Comparing with NULL is never true.
Matches(data, row) == \A c \in DOMAIN data : row[c] # Null /\ row[c] = Bound(c, data[c])

\* What is left of s at these places.
Left(s, places) ==
  LET t[n \in 0 .. Len(s)] ==
        IF n = 0 THEN <<>> ELSE IF n \in places THEN Append(t[n - 1], s[n]) ELSE t[n - 1]
  IN t[Len(s)]

Ends(data) ==
  \/ ~ isOpen
  \/ Prepared(data) /\ \E c \in DOMAIN data : Throws(c, data[c])
End == dbEnd' = TRUE /\ UNCHANGED <<table, isOpen, rows, given>>

Open == IF isOpen THEN End ELSE isOpen' = TRUE /\ UNCHANGED <<table, rows, given, dbEnd>>
Close == isOpen' = FALSE /\ UNCHANGED <<table, rows, given, dbEnd>>

\* CREATE TABLE IF NOT EXISTS
CreateTable(name) ==
  IF ~ isOpen THEN End
  ELSE /\ table' = name
       /\ UNCHANGED <<isOpen, rows, given, dbEnd>>

\* deleteTable and dropTable
DropTable ==
  IF ~ isOpen THEN End
  ELSE /\ table' = NoTable
       /\ rows' = <<>>
       /\ given' = <<>>
       /\ UNCHANGED <<isOpen, dbEnd>>

\* insert: INSERT OR IGNORE, true for a row that was ignored too.
Insert(data) ==
  LET row == Stored(data)
  IN IF Ends(data) THEN End
     ELSE /\ Prepared(data)
          /\ given' = Append(given, [row |-> row, isReplace |-> FALSE])
          /\ rows' = IF Complete(row) /\ \A i \in DOMAIN rows : ~ SameKey(row, rows[i])
                     THEN Append(rows, row) ELSE rows
          /\ UNCHANGED <<table, isOpen, dbEnd>>

\* replace: INSERT OR REPLACE, false for a row that lacks a column.
Replace(data) ==
  LET row == Stored(data)
  IN IF Ends(data) THEN End
     ELSE /\ Prepared(data)
          /\ Complete(row)
          /\ given' = Append(given, [row |-> row, isReplace |-> TRUE])
          /\ rows' = Append(Left(rows, {i \in DOMAIN rows : ~ SameKey(row, rows[i])}), row)
          /\ UNCHANGED <<table, isOpen, dbEnd>>

\* deleteRow: true, whether or not a row matched.
DeleteRow(data) ==
  LET gone == {i \in DOMAIN rows : Matches(data, rows[i])}
  IN IF Ends(data) THEN End
     ELSE /\ Prepared(data)
          /\ rows' = Left(rows, DOMAIN rows \ gone)
          /\ given' = Left(given, {j \in DOMAIN given : \A i \in gone :
               given[j].row # rows[i] /\ ~ SameKey(given[j].row, rows[i])})
          /\ UNCHANGED <<table, isOpen, dbEnd>>

-----------------------------------------------------------------------------
(* Behaviour: any calls; rows differ from one in at most one column, of each *)
(* kind of column one. *)

Values(c) == IF TypeOf(c) \in {"INT", "INTEGER"} THEN Numbers \cup {"w"} ELSE Texts
KindOf(c) == <<TypeOf(c), Required(c), HasKey /\ c = Keys[table]>>
Varied == {CHOOSE c \in Columns : KindOf(c) = k : k \in {KindOf(d) : d \in Columns}}
Usual == [c \in Columns |-> IF TypeOf(c) \in {"INT", "INTEGER"} THEN "7" ELSE "v"]
Requests ==
  (UNION {{[Usual EXCEPT ![c] = v] : v \in Values(c)} : c \in Varied})
  \cup {[d \in Columns \ {c} |-> Usual[d]] : c \in {d \in Varied : ~ KindOf(d)[3]}}

TablesInit ==
  /\ table = NoTable
  /\ isOpen = FALSE
  /\ rows = <<>>
  /\ given = <<>>
  /\ dbEnd = FALSE

TablesNext ==
  /\ ~ dbEnd
  /\ \/ Open
     \/ Close
     \/ table = NoTable /\ \E name \in DOMAIN Schemas : CreateTable(name)
     \/ DropTable
     \/ /\ table # NoTable
        /\ \/ Len(given) < MaxRows /\ \E data \in Requests : Insert(data) \/ Replace(data)
           \/ \E i \in DOMAIN rows : DeleteRow(SelectAll[i])

TablesSpec == TablesInit /\ [][TablesNext]_dbVars

-----------------------------------------------------------------------------
(* Property *)

HasNul(row) == \E c \in Columns : TypeOf(c) = "TEXT" /\ row[c] = "w NUL z"
HasNull(row) == \E c \in Columns : row[c] = Null

\* Of the rows put in, the j-th is to be there: it is complete and, of those of
\* its key, the last that replaced or else the first.
Stays(puts, j) ==
  LET Rival(k) == Complete(puts[k].row) /\ SameKey(puts[j].row, puts[k].row)
  IN /\ Complete(puts[j].row)
     /\ IF puts[j].isReplace
        THEN \A k \in DOMAIN puts : Rival(k) /\ k > j => ~ puts[k].isReplace
        ELSE \A k \in DOMAIN puts : Rival(k) => k >= j /\ ~ puts[k].isReplace

\* A table holds what its users were told: of the complete rows put in with
\* answer true, per key, the last that replaced or else the first.  A row that
\* was read can be deleted with what was read exactly if nothing in it is NULL
\* or cut off at a NUL; if it was cut off, another row may go in its place.
TablesExact ==
  /\ {rows[i] : i \in DOMAIN rows} =
       {given[j].row : j \in {k \in DOMAIN given : Stays(given, k)}}
  /\ \A i, j \in DOMAIN rows : i # j => ~ SameKey(rows[i], rows[j])
  /\ \A i, j \in DOMAIN rows :
       LET sent == SelectAll[i]
       IN IF HasNull(rows[i]) THEN ~ Matches(sent, rows[j])
          ELSE Matches(sent, rows[j]) <=>
                 /\ ~ HasNul(rows[j])
                 /\ rows[j] = sent
=============================================================================
