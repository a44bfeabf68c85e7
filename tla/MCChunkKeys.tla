----------------------------- MODULE MCChunkKeys -----------------------------
(* A small instance of ChunkKeys for TLC: digests of two bytes, NUL, '\200' *)
(* or another, and nothing or one byte behind them before a NUL byte.       *)
EXTENDS ChunkKeys

MCBehind == {<<>>, <<65>>, <<128>>}
=============================================================================
