---------------------------- MODULE MCFileEdits ----------------------------
(* Edits bring nothing, one byte or two; that bytes differ matters only to   *)
(* the properties, which bring marks of their own.                           *)
EXTENDS Storage

CONSTANTS f1, f2, f3, f4

MCPieces == {<<>>, <<1>>, <<1, 1>>}

\* Two files of the same name, one in a subfolder, and one without a row.
MCFilePath == (f1 :> "path") @@ (f2 :> "path") @@ (f3 :> "below")
MCFileSize == (f1 :> 2) @@ (f2 :> 1) @@ (f3 :> 1)

\* Bound: one file is edited, or a folder is exported, not both.
MCInit == EditsInit /\ FolderInit
MCNext ==
  \/ stored = {} /\ DOMAIN copies = {} /\ calls = 0 /\ EditsNext /\ UNCHANGED folderVars
  \/ content = <<>> /\ edits = 0 /\ FolderNext /\ UNCHANGED editsVars
MCSpec == MCInit /\ [][MCNext]_<<editsVars, folderVars>>
=============================================================================
