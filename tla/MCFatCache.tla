----------------------------- MODULE MCFatCache -----------------------------
(* Two pages over three sectors: every load past the second evicts.  A     *)
(* sector is one piece of two possible contents; the theorems of           *)
(* FatAlloc_proofs hold for sectors of many pieces.                        *)
EXTENDS FatCache
=============================================================================
