---------------------------- MODULE MCBlockIndex ----------------------------
(***************************************************************************)
(* TLC instance of BlockIndex: a few identifiers spread over two sections, *)
(* so that the highest section can be emptied, reopened and refilled.      *)
(***************************************************************************)
EXTENDS BlockIndex
=============================================================================
