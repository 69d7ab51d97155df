--------------------------- MODULE MCCanvasEditor ---------------------------
(***************************************************************************)
(* Small instances of CanvasEditor.                                        *)
(***************************************************************************)
EXTENDS CanvasEditor

(* No title means more than another. *)
Symmetry == Permutations(Titles)
=============================================================================
