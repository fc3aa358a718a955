---------------------------- MODULE MCFragments ----------------------------
(* A peer has nothing, its first segment, or the whole file. *)
EXTENDS Fragments

MCHeldChoices == {0, ChunkSections, FileSections}
=============================================================================
