----------------------------- MODULE MCMmcDriver -----------------------------
(* Every kind of card, three blocks of two bytes, two faults at any place: an  *)
(* address in bytes is never the one in blocks, except for block 0.          *)
EXTENDS MmcDriver
=============================================================================
