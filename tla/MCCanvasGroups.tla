--------------------------- MODULE MCCanvasGroups ---------------------------
(***************************************************************************)
(* Small instances of CanvasGroups.                                        *)
(***************************************************************************)
EXTENDS CanvasGroups, TLC

(* No picture means more than another. *)
Symmetry == Permutations(Pics)
=============================================================================
