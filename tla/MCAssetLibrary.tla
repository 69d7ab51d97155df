--------------------------- MODULE MCAssetLibrary ---------------------------
(***************************************************************************)
(* Small instances of AssetLibrary.                                        *)
(***************************************************************************)
EXTENDS AssetLibrary, TLC

(* No call and no account means more than another. *)
Symmetry == Permutations(Calls) \cup Permutations(Users)
=============================================================================
