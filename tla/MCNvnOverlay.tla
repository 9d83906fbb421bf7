---------------------------- MODULE MCNvnOverlay ----------------------------
(***************************************************************************)
(* Frames without a list, with one list that fits the first page, and with *)
(* two lists that do not.                                                  *)
(***************************************************************************)
EXTENDS NvnOverlay, TLC

List(v, i) == [vtx |-> v, idx |-> i]
MCDrawData == {<< >>, <<List(1, 2)>>, <<List(1, 1), List(2, 3)>>}

Symmetry == Permutations(Buffer) \cup Permutations(Texture)
=============================================================================
