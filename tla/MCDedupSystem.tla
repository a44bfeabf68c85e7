---------------------------- MODULE MCDedupSystem ----------------------------
(* Small instances of DedupSystem for TLC: three chunks, one of them shared *)
(* by both versions and listed twice by one, in containers of three bytes,  *)
(* and an empty file.  The one that ends v1 is too short for the ofstream   *)
(* to write it through.                                                     *)
EXTENDS DedupSystem, TLC

CONSTANTS p, q, v0, v1, v2, a, b, c1

\* The two paths are interchangeable.
MCSymmetry == Permutations({p, q})

MCSize  == (a :> 1) @@ (b :> 2) @@ (c1 :> 2)
MCCut   == (v0 :> <<>>) @@ (v1 :> <<b, a>>) @@ (v2 :> <<b, c1, b>>)
MCCount == (v0 :> 0) @@ (v1 :> 2) @@ (v2 :> 3)
=============================================================================
