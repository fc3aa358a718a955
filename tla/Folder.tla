------------------------------- MODULE Folder -------------------------------
(***************************************************************************)
(* The folder of an actor, and one directory into which its files are      *)
(* exported again and again (exportFile of dfs_controller.cpp).  A file    *)
(* has a stored name, under which it is copied first, and the path its     *)
(* row gives it, under which the copy ends; a taken path gets a number.    *)
(***************************************************************************)
EXTENDS Integers, FiniteSets, FiniteSetsExt, Functions, SequencesExt

CONSTANTS
  StoredFiles,  \* stored names
  Rowless,      \* those of them the directory file has no row for
  FilePath,     \* FilePath[f]: the path in the row
  Below,        \* the paths that name a file in a subfolder
  FileSize,     \* FileSize[f]: the size in the row
  LastNumber,   \* the last number that is tried, 99 in the code
  MaxInt,       \* the largest int
  MaxExports    \* bound: calls of exportFile

Paths == {FilePath[f] : f \in StoredFiles \ Rowless}
User == "user"     \* the content of a file the user had there before

ASSUME FolderAssumption ==
  /\ Rowless \subseteq StoredFiles
  /\ User \notin StoredFiles
  /\ (Paths \X (1 .. LastNumber)) \cap StoredFiles = {}   \* names are hashes
  /\ LastNumber \in Nat \ {0} /\ MaxInt \in Nat /\ MaxExports \in Nat

VARIABLES
  stored,   \* the files of the folder
  copies,   \* the target: who lies under which name, a stored name, or a
            \* path and a number, 1 for none
  up,       \* the program runs
  calls,    \* calls of exportFile so far
  times,    \* history: times[f], the copies that were made of f
  cut       \* history: files whose export was killed
folderVars == <<stored, copies, up, calls, times, cut>>

-----------------------------------------------------------------------------

\* totalFileSize, of the rows: std::stoi throws beyond MaxInt.
TotalFileSize(files) == MapThenSumSet(LAMBDA f : FileSize[f], files \ Rowless)

\* Where the copy of f goes: its path, else the first free number.
Free(target, f) == {k \in 1 .. LastNumber : <<FilePath[f], k>> \notin DOMAIN target}
FinalName(target, f) ==
  IF f \in Rowless \/ Free(target, f) = {} THEN f ELSE <<FilePath[f], Min(Free(target, f))>>

With(target, name, f) == [n \in DOMAIN target \cup {name} |-> IF n = name THEN f ELSE target[n]]

\* exportFile of one file, on what is left of the call: copy throws if the
\* stored name is taken, rename if the subfolder is missing.
ExportOne(s, f) ==
  IF s.ended THEN s
  ELSE IF f \in DOMAIN s.copies THEN [s EXCEPT !.ended = TRUE]
  ELSE LET throws == f \notin Rowless /\ FilePath[f] \in Below
           name == IF throws THEN f ELSE FinalName(s.copies, f)
       IN [copies |-> With(s.copies, name, f), times |-> [s.times EXCEPT ![f] = @ + 1],
           ended |-> throws]

ExportFiles(list) ==
  LET after[i \in 0 .. Len(list)] ==
        IF i = 0 THEN [copies |-> copies, times |-> times, ended |-> FALSE]
        ELSE ExportOne(after[i - 1], list[i])
      s == after[Len(list)]
  IN /\ up /\ calls < MaxExports
     /\ calls' = calls + 1
     /\ copies' = s.copies
     /\ times' = s.times
     /\ up' = ~ s.ended
     /\ UNCHANGED <<stored, cut>>

\* By name; a file that is not there is passed over.
ExportFile(f) == ExportFiles(IF f \in stored THEN <<f>> ELSE <<>>)

\* The whole folder, in the order its entries come.
ExportFolder == \E order \in SetToSeqs(stored) : ExportFiles(order)

\* Killed between copy and rename.
KillInExport(f) ==
  /\ up /\ calls < MaxExports
  /\ f \in stored \ Rowless /\ f \notin DOMAIN copies
  /\ calls' = calls + 1
  /\ copies' = With(copies, f, f)
  /\ times' = [times EXCEPT ![f] = @ + 1]
  /\ cut' = cut \cup {f}
  /\ up' = FALSE
  /\ UNCHANGED stored

\* A file is added; or its data comes in.
Store(f) ==
  /\ up /\ f \notin stored
  /\ stored' = stored \cup {f}
  /\ UNCHANGED <<copies, up, calls, times, cut>>

\* The constructor adds up the sizes of every actor's rows, and may throw.
Start ==
  /\ ~ up /\ TotalFileSize(stored) <= MaxInt
  /\ up' = TRUE
  /\ UNCHANGED <<stored, copies, calls, times, cut>>

FolderInit ==
  /\ stored = {}
  /\ \E names \in SUBSET ((Paths \ Below) \X (1 .. LastNumber)) : copies = [n \in names |-> User]
  /\ up = TRUE
  /\ calls = 0
  /\ times = [f \in StoredFiles |-> 0]
  /\ cut = {}

FolderNext ==
  \/ \E f \in StoredFiles : ExportFile(f) \/ KillInExport(f) \/ Store(f)
  \/ ExportFolder
  \/ Start

FolderSpec == FolderInit /\ [][FolderNext]_folderVars

-----------------------------------------------------------------------------
(* Property *)

\* However often and in whatever order files are exported, and whatever was
\* interrupted: no copy is lost or overwritten by another, of the same file or
\* of one with the same path, a path in use is passed over, and a copy stays
\* under its stored name (and ends the next export of that file) only if the
\* file has no row, belongs into a subfolder, was cut off, or every number was
\* taken.
ExportsKept ==
  /\ \A f \in StoredFiles : Cardinality({n \in DOMAIN copies : copies[n] = f}) = times[f]
  /\ \A f \in StoredFiles \cap DOMAIN copies :
       \/ f \in Rowless \cup cut
       \/ FilePath[f] \in Below
       \/ Free(copies, f) = {}
  /\ \A n \in DOMAIN copies \ StoredFiles :
       \/ copies[n] = User
       \/ FilePath[copies[n]] = n[1] /\ \A k \in 1 .. n[2] : <<n[1], k>> \in DOMAIN copies
=============================================================================
