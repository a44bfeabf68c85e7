-------------------------- MODULE MCContainerStore --------------------------
(* Small instances of ContainerStore for TLC.                              *)
EXTENDS ContainerStore, TLC

CONSTANTS a, b, c1

\* Lengths that make containers of three bytes fill exactly, overflow, and
\* (for b) leave a tail of old bytes behind a shorter next container.
MCSize == (a :> 1) @@ (b :> 2) @@ (c1 :> 1)
=============================================================================
