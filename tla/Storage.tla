------------------------------ MODULE Storage ------------------------------
(* What a node stores: a file that is edited, and files that are exported.   *)
EXTENDS FileEdits, Folder

\* What a node's storage is worth whatever went through it.
StorageInv == EditsInv /\ ExportsKept
=============================================================================
