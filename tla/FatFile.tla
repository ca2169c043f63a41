------------------------------- MODULE FatFile -------------------------------
(***************************************************************************)
(* One file of the FAT library (src/libsrc/fs/fatfile.c): open, close,     *)
(* read, write, seek, with the file's position, its append position, its   *)
(* size, and the growing of its chain of clusters, on a card that other    *)
(* files fill and empty.                                                   *)
(*                                                                         *)
(* A FILE_POSITION is a cluster and an offset in it, sector * 512 + byte;  *)
(* an offset of ClusterSize (sector = sectorsPerCluster) asks for the next *)
(* cluster before the next transfer.  Data is not kept: a transfer is the  *)
(* sequence of places on the card it touches, and the question is whether  *)
(* these are the places of the bytes of the file that were meant.          *)
(* Card errors are left to FatCache.                                       *)
(***************************************************************************)
EXTENDS FatTable, Sequences

CONSTANTS
    SectorSize,     \* BYTES_PER_READ
    Sectors,        \* partition->sectorsPerCluster
    Lens,           \* lengths of transfers
    Seeks,          \* positions sought
    MaxSize,        \* bound: no transfer starts past it
    MaxTraps,       \* bound: nothing happens once more traps were met
    Closed          \* no handle

ClusterSize == SectorSize * Sectors     \* partition->bytesPerCluster

\* A FILE_POSITION, and a FILE_STRUCT.
Position == [cluster : Entries, off : 0 .. ClusterSize]
Handle == [read : BOOLEAN, write : BOOLEAN, append : BOOLEAN,
           start : Entries, size : Nat, cur : Nat, rw : Position, app : Position]

ASSUME FileAssumption ==
    /\ SectorSize \in Nat \ {0} /\ Sectors \in Nat \ {0}
    /\ Lens \subseteq Nat /\ Seeks \subseteq Nat /\ MaxSize \in Nat /\ MaxTraps \in Nat
    /\ Closed \notin Handle

VARIABLES
    link,       \* the table
    firstFree,  \* fat.firstFree
    others,     \* the clusters of other files, of one cluster each
    entry,      \* the file's directory entry: start cluster and size
    h,          \* the open FILE_STRUCT, or Closed
    upset       \* history: which of the code's own traps were stepped into

fileVars == <<link, firstFree, others, entry, h, upset>>

\* tail, beyond, empty: as in FatAlloc.
\* full: a write ended for want of a cluster; its position is now the start
\*       of the file's last cluster, which is in use.
\* longer: growing the file failed after clusters had been linked to it.
\* zero: a write of no bytes linked a cluster.
\* stale: an append made the file reach the position that was sought while it
\*        lay past the end, and that rwPosition does not denote.
\* short: a read ran into the end of the chain.
Trap == {"tail", "beyond", "empty", "full", "longer", "zero", "stale", "short"}

\* What fopen's mode strings set: read, write, append, and truncation.
Mode(r, w, a, t) == [read |-> r, write |-> w, append |-> a, trunc |-> t]
Modes == {Mode(TRUE, FALSE, FALSE, FALSE),      \* r
          Mode(TRUE, TRUE, FALSE, FALSE),       \* r+
          Mode(FALSE, TRUE, FALSE, TRUE),       \* w
          Mode(TRUE, TRUE, FALSE, TRUE),        \* w+
          Mode(FALSE, TRUE, TRUE, FALSE),       \* a
          Mode(TRUE, TRUE, TRUE, FALSE)}        \* a+

At(c, o) == [cluster |-> c, off |-> o]

FileInit ==
    /\ link = EmptyTable
    /\ firstFree = FIRST
    /\ others = {}
    /\ entry = [start |-> FREE, size |-> 0]
    /\ h = Closed
    /\ upset = {}

\* The program goes on while it met no more than MaxTraps traps.
Going == Cardinality(upset) <= MaxTraps

-----------------------------------------------------------------------------
(* Positions                                                               *)

NextOf(lk, c) == IF c \in Entries THEN lk[c] ELSE EOF

\* The i-th cluster of the chain that starts at c.
Nth(lk, c, i) ==
    LET nth[j \in 0 .. i] == IF j = 0 THEN c ELSE NextOf(lk, nth[j - 1])
    IN  nth[i]

\* _FAT_fat_lastCluster.
LastOf(lk, c) ==
    LET ends == {j \in 0 .. LastCluster : NextOf(lk, Nth(lk, c, j)) \in {FREE, EOF}}
    IN  Nth(lk, c, Least(ends))

\* Mutant: the end of a file of whole clusters is taken for offset 0.
EndOffZero(size) == size % (SectorSize * Sectors)

\* The offset of the end of a file of this size in its last cluster.
EndOff(size) ==
    IF size > 0 /\ size % ClusterSize = 0 THEN ClusterSize ELSE size % ClusterSize

Place(c, o) == c * ClusterSize + o

-----------------------------------------------------------------------------
(* Transfers: pos is where they are, remain what is left of them, places   *)
(* what they touched so far; aborted when the file could not be grown to   *)
(* where they start.                                                       *)

Transfer(lk, ff, pos, n) ==
    [link |-> lk, firstFree |-> ff, pos |-> pos, remain |-> n, places |-> <<>>,
     ok |-> TRUE, aborted |-> FALSE, traps |-> {}]

\* A new cluster for the end of the chain.  The sector was set to 0 before it
\* was asked for, so that a full card leaves the start of the old cluster.
Grown(t, got) ==
    [t EXCEPT !.link = got.link, !.firstFree = got.firstFree,
              !.pos = At(IF got.cluster = FREE THEN t.pos.cluster ELSE got.cluster, 0),
              !.ok = got.cluster # FREE,
              !.traps = @ \cup Traps(t.pos.cluster, got)]

\* On to the next cluster, if needed, when writing.
MoveWrite(t) ==
    IF t.pos.off < ClusterSize THEN t
    ELSE IF NextOf(t.link, t.pos.cluster) \in {FREE, EOF}
         THEN Grown(t, LinkFree(t.link, t.firstFree, t.pos.cluster))
         ELSE [t EXCEPT !.pos = At(NextOf(t.link, t.pos.cluster), 0)]

\* On to the next cluster, if needed, when reading.
MoveRead(t) ==
    IF t.pos.off < ClusterSize THEN t
    ELSE IF NextOf(t.link, t.pos.cluster) \in {FREE, EOF}
         THEN [t EXCEPT !.ok = FALSE, !.traps = {"short"}]
         ELSE [t EXCEPT !.pos = At(NextOf(t.link, t.pos.cluster), 0)]

Room(t) ==
    IF t.remain < ClusterSize - t.pos.off THEN t.remain ELSE ClusterSize - t.pos.off

\* The part of the transfer that lies in the present cluster: the rest of a
\* sector through the cache, then whole sectors, then the start of a sector.
Piece(t) ==
    [t EXCEPT !.pos.off = @ + Room(t), !.remain = @ - Room(t),
              !.places = @ \o [i \in 1 .. Room(t) |-> Place(t.pos.cluster, t.pos.off + i - 1)]]

Onward(t, Move(_)) == IF ~t.ok \/ t.remain = 0 THEN t ELSE Move(t)

\* A piece for each cluster, moving on between them.
Run(t, Move(_)) ==
    LET run[k \in Nat] ==
            IF k = 0 THEN Move(t)
            ELSE Onward(IF run[k - 1].ok THEN Piece(run[k - 1]) ELSE run[k - 1], Move)
    IN  run[(t.remain \div ClusterSize) + 2]

\* Mutant: the file grows from where rwPosition is.
ZeroedFromRw == Run(Transfer(link, firstFree, h.rw, h.cur - h.size), MoveWrite)

\* file_extend_r: zeroes from the end of the file to the position sought, from
\* the last cluster of the chain on.
Zeroed ==
    Run(Transfer(link, firstFree, At(LastOf(link, h.start), EndOff(h.size)), h.cur - h.size),
        MoveWrite)

\* A cluster that the zeroes fill to its end is followed by another at once.
Finished(t) == IF t.ok THEN MoveWrite(t) ELSE t
Extended == Finished(Zeroed)

\* The part of a write behind the zeroes.
Behind(grown, n) ==
    IF grown.ok
    THEN Run([Transfer(grown.link, grown.firstFree, grown.pos, n) EXCEPT !.traps = grown.traps], MoveWrite)
    ELSE [grown EXCEPT !.remain = n, !.places = <<>>, !.aborted = TRUE]

Extends == ~h.append /\ h.cur > h.size

\* The transfer a write of n bytes makes.
Written(n) ==
    IF Extends THEN Behind(Extended, n)
    ELSE Run(Transfer(link, firstFree, IF h.append THEN h.app ELSE h.rw, n), MoveWrite)

\* The length a read is clipped to: not past the end of the file.
Clipped(n) == IF n > h.size - h.cur THEN h.size - h.cur ELSE n

\* After the last of several whole clusters a read's position is moved on
\* already, if there is a cluster to move to.
ReadAhead(t, n) ==
    IF /\ t.ok /\ t.pos.off = ClusterSize
       /\ n > ClusterSize - (h.rw.off % ClusterSize)
       /\ NextOf(link, t.pos.cluster) # EOF
    THEN MoveRead(t) ELSE t

\* The transfer of a read.
ReadOf(n) == ReadAhead(Run(Transfer(link, firstFree, h.rw, n), MoveRead), n)

RestOfSector(pos) ==
    {Place(pos.cluster, o) : o \in {k \in pos.off .. ClusterSize - 1 : k \div SectorSize = pos.off \div SectorSize}}

\* Mutant: every write zeroes the rest of its last sector.
WipedAlways(t, n) == RestOfSector(t.pos)

\* What transfer t of a write of n bytes zeroes: a write that starts a sector
\* it does not fill, and that makes the file grow, zeroes the rest of the
\* sector (eraseWritePartialSector).
Wiped(t, n) ==
    LET from == (IF h.append THEN h.app.off ELSE h.rw.off) % SectorSize
        inside == from > 0 /\ n <= SectorSize - from
    IN  IF (h.append \/ n + h.cur > h.size) /\ ~inside /\ t.pos.off % SectorSize > 0
        THEN RestOfSector(t.pos) ELSE {}

-----------------------------------------------------------------------------
(* Calls                                                                   *)

\* What open goes on with: the chain of a truncated file is freed, and a file
\* without a chain gets a cluster.
OpenStart(m) ==
    IF entry.start = FREE THEN LinkFree(link, firstFree, FREE)
    ELSE IF ~m.trunc THEN Result(link, firstFree, entry.start)
    ELSE LET cut == ClearLinks(link, firstFree, entry.start)
         IN  LinkFree(cut.link, cut.firstFree, FREE)

\* _FAT_open_r of a file that exists, or that the mode creates.
Open(m) ==
    LET new == m.trunc \/ entry.start = FREE
        size == IF new THEN 0 ELSE entry.size
    IN
    /\ h = Closed
    /\ \E got \in {OpenStart(m)} :
        /\ link' = got.link /\ firstFree' = got.firstFree
        /\ h' = [read |-> m.read, write |-> m.write, append |-> m.append,
                 start |-> got.cluster, size |-> size, cur |-> 0,
                 rw |-> At(got.cluster, 0),
                 app |-> At(LastOf(got.link, got.cluster), EndOff(size))]
        /\ upset' = upset \cup (IF new THEN Traps(FREE, got) ELSE {})
                          \cup (IF got.cluster = FREE THEN {"empty"} ELSE {})
    /\ UNCHANGED <<others, entry>>

\* _FAT_close_r: the directory entry learns size and start, if written.
Close ==
    /\ h # Closed
    /\ entry' = IF h.write THEN [start |-> h.start, size |-> h.size] ELSE entry
    /\ h' = Closed
    /\ UNCHANGED <<link, firstFree, others, upset>>

\* _FAT_read_r.
Read(n) ==
    /\ h # Closed /\ h.read /\ h.cur < h.size
    /\ \E t \in {ReadOf(Clipped(n))} :
        IF t.ok
        THEN h' = [h EXCEPT !.rw = t.pos, !.cur = @ + Clipped(n)] /\ UNCHANGED upset
        ELSE h' = h /\ upset' = upset \cup t.traps
    /\ UNCHANGED <<link, firstFree, others, entry>>

\* The size after a write of which t.remain bytes were not written.
SizeAfter(t, n) ==
    LET end == h.cur + n - t.remain
        old == IF Extends THEN h.cur ELSE h.size
    IN  IF t.aborted THEN h.size
        ELSE IF h.append THEN h.size + n - t.remain
        ELSE IF end > old THEN end ELSE old

\* _FAT_write_r.  A write that cannot grow the file to the position sought
\* writes nothing, and what was linked on the way stays linked.
Write(n) ==
    /\ h # Closed /\ h.write /\ h.size <= MaxSize /\ h.cur <= MaxSize
    /\ \E t \in {Written(n)} :
        /\ link' = t.link /\ firstFree' = t.firstFree
        /\ h' = IF t.aborted THEN h
                ELSE IF h.append THEN [h EXCEPT !.app = t.pos, !.size = SizeAfter(t, n)]
                ELSE [h EXCEPT !.rw = t.pos, !.cur = @ + n - t.remain, !.size = SizeAfter(t, n)]
        /\ upset' = upset \cup t.traps
                      \cup (IF ~t.ok /\ ~t.aborted THEN {"full"} ELSE {})
                      \cup (IF t.aborted /\ t.link # link THEN {"longer"} ELSE {})
                      \cup (IF n = 0 /\ t.link # link THEN {"zero"} ELSE {})
                      \cup (IF h.append /\ h.cur > h.size /\ h.cur <= SizeAfter(t, n) THEN {"stale"} ELSE {})
    /\ UNCHANGED <<others, entry>>

\* The clusters a chain can be followed from c, and how many were left to go.
Walked(c, n) ==
    LET w[k \in 0 .. n] ==
            IF k = 0 THEN [cluster |-> c, left |-> n]
            ELSE IF NextOf(link, w[k - 1].cluster) \in {FREE, EOF} THEN w[k - 1]
            ELSE [cluster |-> NextOf(link, w[k - 1].cluster), left |-> w[k - 1].left - 1]
    IN  w[n]

\* How many clusters to go, from rwPosition's or from the first.
Steps(p) ==
    IF p >= h.cur
    THEN (p \div ClusterSize) - (h.cur \div ClusterSize) + (IF h.rw.off >= ClusterSize THEN 1 ELSE 0)
    ELSE p \div ClusterSize

\* _FAT_seek_r to p.  Past the end only currentPosition moves.  If the
\* clusters run out, the next write allocates.
Seek(p) ==
    /\ h # Closed
    /\ \E w \in {Walked(IF p >= h.cur THEN h.rw.cluster ELSE h.start, Steps(p))} :
        h' = IF p > h.size THEN [h EXCEPT !.cur = p]
             ELSE [h EXCEPT !.cur = p,
                            !.rw = At(w.cluster, IF w.left > 0 /\ h.write THEN ClusterSize
                                                 ELSE p % ClusterSize)]
    /\ UNCHANGED <<link, firstFree, others, entry, upset>>

\* Another file takes a cluster, or gives its cluster back.
OtherTakes ==
    LET new == LinkFree(link, firstFree, FREE) IN
    /\ new.cluster \in Clusters
    /\ link' = new.link /\ firstFree' = new.firstFree
    /\ others' = others \cup {new.cluster}
    /\ UNCHANGED <<entry, h, upset>>

OtherGivesBack(c) ==
    LET cut == ClearLinks(link, firstFree, c) IN
    /\ link' = cut.link /\ firstFree' = cut.firstFree
    /\ others' = others \ {c}
    /\ UNCHANGED <<entry, h, upset>>

FileNext ==
    /\ Going
    /\ \/ \E m \in Modes : Open(m)
       \/ Close
       \/ \E n \in Lens \ {0} : Read(n)
       \/ \E n \in Lens : Write(n)
       \/ \E p \in Seeks : Seek(p)
       \/ OtherTakes
       \/ \E c \in others : OtherGivesBack(c)

FileSpec == FileInit /\ [][FileNext]_fileVars

-----------------------------------------------------------------------------
(* Properties                                                              *)

\* Type invariant.
FileTypeOK ==
    /\ link \in [Entries -> Entries \cup {EOF}]
    /\ firstFree \in FIRST .. LastCluster + 1
    /\ others \subseteq Clusters
    /\ entry \in [start : Entries, size : Nat]
    /\ h \in Handle \cup {Closed}
    /\ upset \subseteq Trap

\* A position on the card denotes a position in the file.
Denotes(pos, p) ==
    \/ pos = At(Nth(link, h.start, p \div ClusterSize), p % ClusterSize)
    \/ /\ p > 0 /\ p % ClusterSize = 0
       /\ pos = At(Nth(link, h.start, (p \div ClusterSize) - 1), ClusterSize)

\* Where a handle stands on the card is where it says it is in the file, for
\* the read and write position and for the end that appends go to.  A file
\* opened for reading has no use for its position at the end.
PositionsMeet ==
    (h # Closed /\ upset = {}) =>
        /\ (h.cur < h.size \/ (h.cur = h.size /\ h.write)) => Denotes(h.rw, h.cur)
        /\ h.append => Denotes(h.app, h.size)

Needed(size) == IF size = 0 THEN 1 ELSE (size + ClusterSize - 1) \div ClusterSize

\* The chain is as long as the size asks for, open or closed.
ChainFitsSize ==
    upset \subseteq {"stale"} =>
        LET start == IF h # Closed THEN h.start ELSE entry.start
            size == IF h # Closed THEN h.size ELSE entry.size
        IN  start # FREE => Cardinality(Chain(link, start)) = Needed(size)

\* The place of byte p of the file, by a chain that may just have grown.
PlaceOf(lk, p) == Place(Nth(lk, h.start, p \div ClusterSize), p % ClusterSize)

PlacesOf(lk, p, n) == [i \in 1 .. n |-> PlaceOf(lk, p + i - 1)]

\* Every transfer the program can ask for next touches the places of the bytes
\* it is about, in order, and the zeroes behind it fall on none of the file.
TransfersMeetFile ==
    (h # Closed /\ upset = {}) => \A n \in Lens \ {0} :
        /\ (h.read /\ h.cur < h.size) =>
              ReadOf(Clipped(n)).places = PlacesOf(link, h.cur, Clipped(n))
        /\ h.write => \A t \in {Written(n)} : t.traps = {} =>
              /\ t.places = PlacesOf(t.link, IF h.append THEN h.size ELSE h.cur, n - t.remain)
              /\ Wiped(t, n) \cap {PlaceOf(t.link, i) : i \in 0 .. SizeAfter(t, n) - 1} = {}

\* A write falls short only on a full card, and no other file's cluster is
\* touched on the way.
ShortOnlyWhenFull ==
    (h # Closed /\ h.write /\ upset = {}) => \A n \in Lens : \A t \in {Written(n)} :
        /\ t.remain > 0 => \A c \in Clusters : t.link[c] # FREE
        /\ t.traps = {} => \A i \in DOMAIN t.places : t.places[i] \div ClusterSize \notin others
=============================================================================
