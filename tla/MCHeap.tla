-------------------------------- MODULE MCHeap --------------------------------
(* An arena of 16 bytes: four empty blocks, or three with two bytes or four  *)
(* each.  The sizes are nothing, one that is rounded up, some that fit,      *)
(* and the two that wrap, by the rounding and by the header.                 *)
EXTENDS Heap

MCRequests == {0, 1, 4, 8, Word - 1, Word - Header}
=============================================================================
