------------------------------ MODULE FatEntry ------------------------------
(***************************************************************************)
(* The entries of the file allocation table as bytes on the card: the     *)
(* three formats of _FAT_fat_nextCluster and _FAT_fat_writeFatEntry        *)
(* (src/libsrc/fs/file_allocation_table.c).  FatTable takes the table as a *)
(* function of clusters; this module says what bytes stand for it.         *)
(* A table of unknown format is left out: no partition is mounted with it. *)
(***************************************************************************)
EXTENDS FatTable

CONSTANT BytesPerRead       \* BYTES_PER_READ: 512 in the code

ASSUME EntryAssumption ==
    BytesPerRead \in Nat \ {0} /\ BytesPerRead % 4 = 0

Formats == {"FAT12", "FAT16", "FAT32"}
Byte == 0 .. 255
Places == Nat \X (0 .. BytesPerRead - 1)    \* sector behind fatStart, offset

CLUSTER_EOF == 268435455        \* 0xFFFFFFF

\* The first value that reads as end of file.
EofFrom(format) == IF format = "FAT12" THEN 4087            \* 0xFF7
                   ELSE IF format = "FAT16" THEN 65527      \* 0xFFF7
                   ELSE 268435447                           \* 0xFFFFFF7

Number(v) == IF v = EOF THEN CLUSTER_EOF ELSE v

\* Where an entry of w bytes begins, and its byte i: it never leaves its sector.
Aligned(w, c) == <<(c * w) \div BytesPerRead, (c % (BytesPerRead \div w)) * w>>
In(p, i) == <<p[1], p[2] + i>>

\* Where an entry of 12 bits begins, and the byte behind, which may be in the
\* next sector.
Packed(c) == <<((c * 3) \div 2) \div BytesPerRead, ((c * 3) \div 2) % BytesPerRead>>
Onwards(p) == IF p[2] + 1 >= BytesPerRead THEN <<p[1] + 1, 0>> ELSE <<p[1], p[2] + 1>>

\* An entry of 12 bits is the lower or the upper part of two bytes.
Stored12(card, p, odd) ==
    LET both == card[p] + 256 * card[Onwards(p)]
    IN  IF odd THEN both \div 16 ELSE both % 4096

Stored16(card, p) == card[p] + 256 * card[In(p, 1)]

\* The number of four bytes, the lowest first.
Whole(b0, b1, b2, b3) == b0 + 256 * b1 + 65536 * b2 + 16777216 * b3

\* The top four bits are not masked off: with any of them set the number is past
\* the end-of-file mark, for which CLUSTER_EOF stands here.
Stored32(card, p) ==
    IF card[In(p, 3)] > 15 THEN CLUSTER_EOF
    ELSE Whole(card[p], card[In(p, 1)], card[In(p, 2)], card[In(p, 3)])

\* _FAT_fat_nextCluster.
NextCluster(format, card, c) ==
    LET v == IF format = "FAT12" THEN Stored12(card, Packed(c), c % 2 = 1)
             ELSE IF format = "FAT16" THEN Stored16(card, Aligned(2, c))
             ELSE Stored32(card, Aligned(4, c))
    IN  IF v >= EofFrom(format) THEN EOF ELSE v

\* Half a byte of an entry of 12 bits belongs to its neighbour.
Write12(card, p, odd, n) ==
    IF odd THEN [card EXCEPT ![p] = (n % 16) * 16 + (@ % 16),
                             ![Onwards(p)] = (n \div 16) % 256]
    ELSE [card EXCEPT ![p] = n % 256,
                      ![Onwards(p)] = ((n \div 256) % 16) + (@ \div 16) * 16]

\* The bytes of a number, the lowest first.
Bytes(n) == <<n % 256, (n \div 256) % 256, (n \div 65536) % 256, (n \div 16777216) % 256>>

Write16(card, p, n) == [card EXCEPT ![p] = Bytes(n)[1], ![In(p, 1)] = Bytes(n)[2]]

Write32(card, p, n) ==
    [card EXCEPT ![p] = Bytes(n)[1], ![In(p, 1)] = Bytes(n)[2],
                 ![In(p, 2)] = Bytes(n)[3], ![In(p, 3)] = Bytes(n)[4]]

\* _FAT_fat_writeFatEntry.
WriteFatEntry(format, card, c, v) ==
    IF c \notin Clusters THEN card
    ELSE IF format = "FAT12" THEN Write12(card, Packed(c), c % 2 = 1, Number(v))
    ELSE IF format = "FAT16" THEN Write16(card, Aligned(2, c), Number(v))
    ELSE Write32(card, Aligned(4, c), Number(v))

\* The table that the bytes stand for.
Table(format, card) == [c \in Entries |-> NextCluster(format, card, c)]

\* What an entry of a format can be told to hold.
Values(format) == (0 .. EofFrom(format) - 1) \cup {EOF}
=============================================================================
