------------------------------ MODULE MCFatFile ------------------------------
(* Sectors of two bytes, clusters of two sectors, a card of few clusters:    *)
(* transfers that end inside a sector, at its end, at a cluster's end, and   *)
(* that cross one or two clusters.                                           *)
EXTENDS FatFile

MCLens == {0, 3, 8}
MCSeeks == {0, 1, 4, 5, 9}
=============================================================================
