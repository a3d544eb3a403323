---------------------------- MODULE MCIntegrity ----------------------------
(***************************************************************************)
(* Integrity on a few sections, whose names are interchangeable, as are    *)
(* the contents of a page.                                                 *)
(***************************************************************************)
EXTENDS Integrity, TLC

Symmetry == Permutations(Sections) \union Permutations(Bytes)
=============================================================================
