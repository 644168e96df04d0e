--------------------------- MODULE MCBzDecompress ---------------------------
(* Two byte values, so that a count can look like data; runs of five at    *)
(* most; blocks that are full after two bytes; two tokens to a buffer.     *)
EXTENDS BzDecompress

MCChunks == {3, 4}
MCReadLens == {3}
MCFaults == {"cut", "damage", "more"}
=============================================================================
