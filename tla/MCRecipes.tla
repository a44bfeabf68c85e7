------------------------------ MODULE MCRecipes ------------------------------
(* Small instances of Recipes for TLC: two paths, and versions with no, one *)
(* and two chunks, so that heads and entries of several uploads line up in  *)
(* every way they can.                                                      *)
EXTENDS Recipes, TLC

CONSTANTS p, q, v0, v1, v2

MCCount == (v0 :> 0) @@ (v1 :> 1) @@ (v2 :> 2)
=============================================================================
