----------------------------- MODULE MCFatAlloc -----------------------------
(* A card of few clusters and files that fill it: the search goes around    *)
(* the end of the table and runs out of space.  The table's bytes are tried *)
(* on cards of small sectors, with noise in every byte.                     *)
EXTENDS FatAlloc, FatEntry, TLC

CONSTANTS f1, f2

FilePerms == Permutations(Files)

MCCards ==
    {[p \in (0 .. 7) \X (0 .. BytesPerRead - 1) |-> (k * (p[1] * BytesPerRead + p[2]) + s) % 256] :
        k \in {0, 37, 101}, s \in {0, 15, 255}}
MCValues == {EOF, 0, 1, 5, 15, 16, 255, 256, 4086}

\* file_allocation_table.c:50-201: an entry that is written reads as what was
\* written, and no other entry changes.
ASSUME EntriesMakeTableMC ==
    \A format \in Formats, card \in MCCards, c \in Entries, v \in MCValues :
        Table(format, WriteFatEntry(format, card, c, v)) = Put(Table(format, card), c, v)
=============================================================================
