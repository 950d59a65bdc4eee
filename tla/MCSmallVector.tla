--------------------------- MODULE MCSmallVector ----------------------------
(***************************************************************************)
(* Vectors, blocks and elements for TLC; a renaming of each changes        *)
(* nothing.                                                                *)
(***************************************************************************)
EXTENDS SmallVector, TLC

Renamings == Permutations(Vec) \cup Permutations(Heap) \cup Permutations(Elem)
=============================================================================
