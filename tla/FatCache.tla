------------------------------ MODULE FatCache ------------------------------
(***************************************************************************)
(* The sector cache of the FAT library (src/libsrc/fs/cache.c) and the     *)
(* places where fatfile.c and file_allocation_table.c go around it.        *)
(*                                                                         *)
(* Directory, FAT and partial file accesses go through a few pages that    *)
(* are written back when they are evicted or flushed; whole sectors of     *)
(* file data are read and written on the card directly, and a write then   *)
(* tells the cache of it (writePartialSector_check).  The card may fail    *)
(* any transfer, in part.  A call is one action: the library has no        *)
(* threads.  BlockStore is what the calls promise.                         *)
(***************************************************************************)
EXTENDS Integers

CONSTANTS
    NumPages,       \* numberOfPages, at least 2
    NumSectors,     \* sectors of the card
    Free,           \* CACHE_FREE
    Parts, Vals, Zero,      \* see BlockStore
    MaxCount,       \* bound: uses of a page between two flushes
    MaxRun          \* bound: sectors of one direct transfer

ASSUME CacheAssumption ==
    /\ NumPages \in Nat /\ NumPages >= 2
    /\ NumSectors \in Nat
    /\ Free \notin 0 .. NumSectors - 1
    /\ Zero \in Vals
    /\ MaxCount \in Nat /\ MaxRun \in Nat \ {0}

VARIABLES
    page,       \* cacheEntries and the data of each page
    disc,       \* the sectors of the card
    lost,       \* history: sectors whose copies were driven apart
    reply       \* what the last call returned, with what the card did (history)

cacheVars == <<page, disc, lost, reply>>

Pages == 0 .. NumPages - 1
Sectors == 0 .. NumSectors - 1
Content == [Parts -> Vals]
Blank == [h \in Parts |-> Zero]

Said(tag) == [tag |-> tag, data |-> Blank]
Got(d) == [tag |-> "data", data |-> d]

\* The data of a free page is never looked at.
FreePage == [sector |-> Free, count |-> 0, dirty |-> FALSE, data |-> Blank]

CacheInit ==
    /\ page = [p \in Pages |-> FreePage]
    /\ disc \in [Sectors -> Content]
    /\ lost = {}
    /\ reply = Said("none")

-----------------------------------------------------------------------------
(* _FAT_cache_getSector                                                    *)

\* Mutant: the search starts at the second entry.
HolderSkipsFirst(s) == {p \in Pages \ {0} : page[p].sector = s}

\* The pages found by the search for a sector.
Holder(s) == {p \in Pages : page[p].sector = s}

Cached(s) == Holder(s) # {}

\* The page the search offers for replacement: the last free one, or else
\* the first of those used least.
IsLeastUsed(p) ==
    IF \E q \in Pages : page[q].sector = Free
    THEN /\ page[p].sector = Free
         /\ \A q \in Pages : page[q].sector = Free => q <= p
    ELSE \A q \in Pages : \/ page[p].count < page[q].count
                          \/ page[p].count = page[q].count /\ p <= q

\* Mutant: the page is dropped without being written back.
WrittenBackNever(p) == disc

\* The card after a dirty page was written back.
WrittenBack(p) ==
    IF page[p].dirty THEN [disc EXCEPT ![page[p].sector] = page[p].data] ELSE disc

\* A page that was found, or loaded in place of another: the use count is the
\* page's, not the sector's.
Counted(p) == [page[p] EXCEPT !.count = @ + 1]

Loaded(p, s) == [Counted(p) EXCEPT !.sector = s, !.dirty = FALSE, !.data = disc[s]]

\* What the caller of getSector does with the page.
Used(op, h, v, pg) ==
    IF op = "read" THEN pg
    ELSE [pg EXCEPT !.dirty = TRUE,
                    !.data = [(IF op = "erase" THEN Blank ELSE pg.data) EXCEPT ![h] = v]]

Answer(op, pg) == IF op = "read" THEN Got(pg.data) ELSE Said("ok")

\* The sector is found in the cache.
Hit(op, s, h, v) ==
    \E p \in Holder(s) :
        /\ page[p].count < MaxCount
        /\ page' = [page EXCEPT ![p] = Used(op, h, v, Counted(p))]
        /\ reply' = Answer(op, page[p])
        /\ UNCHANGED <<disc, lost>>

\* The sector is loaded in place of the least used page.
Miss(op, s, h, v) ==
    /\ ~Cached(s)
    /\ \E p \in Pages :
          /\ IsLeastUsed(p)
          /\ page[p].count < MaxCount
          /\ disc' = WrittenBack(p)
          /\ page' = [page EXCEPT ![p] = Used(op, h, v, Loaded(p, s))]
          /\ reply' = Answer(op, Loaded(p, s))
    /\ UNCHANGED lost

\* The card fails to take the old page, having written the sector or not.
MissWriteFails(s) ==
    /\ ~Cached(s)
    /\ \E p \in Pages :
          /\ IsLeastUsed(p) /\ page[p].dirty
          /\ disc' \in {disc, WrittenBack(p)}
    /\ reply' = Said("fail")
    /\ UNCHANGED <<page, lost>>

\* The card fails to deliver the sector.  The page keeps its old sector
\* number, whatever the transfer has put into its buffer by then.
MissReadFails(s) ==
    /\ ~Cached(s)
    /\ \E p \in Pages, d \in Content :
          /\ IsLeastUsed(p)
          /\ disc' = WrittenBack(p)
          /\ page[p].sector = Free => d = page[p].data
          /\ page' = [page EXCEPT ![p].dirty = FALSE, ![p].data = d]
          /\ lost' = IF d = page[p].data THEN lost ELSE lost \cup {page[p].sector}
    /\ reply' = Said("fail")

\* readPartialSector, writePartialSector and eraseWritePartialSector: what they
\* do when getSector succeeds, and when it does not.
Access(op, s, h, v) == Hit(op, s, h, v) \/ Miss(op, s, h, v)

AccessFails(s) == MissWriteFails(s) \/ MissReadFails(s)

-----------------------------------------------------------------------------
(* Transfers that go around the cache                                      *)

\* Mutant: the dirty state is cancelled and the data is not copied.
CopiedNot(pg, d) == [pg EXCEPT !.dirty = FALSE]

\* writePartialSector_check on a page: the data is copied and the dirty state
\* cancelled.
Copied(pg, d) == [pg EXCEPT !.dirty = FALSE, !.data = d]

\* The sectors of a run that it gets to: it returns at the first sector that
\* is not in the cache.
Noted(s, buf) == {s + j : j \in {k \in DOMAIN buf : \A i \in 0 .. k : Cached(s + i)}}

\* _FAT_write_r: whole sectors go to the card, whose result is ignored (it
\* may take only the first of them), then the cache is told.
WriteSectors(s, buf) ==
    LET run == {s + j : j \in DOMAIN buf}
        noted == Noted(s, buf)
    IN
    \E done \in {{s + j : j \in {i \in DOMAIN buf : i < k}} : k \in 0 .. MaxRun} :
        /\ disc' = [t \in Sectors |-> IF t \in done THEN buf[t - s] ELSE disc[t]]
        /\ page' = [p \in Pages |-> IF page[p].sector \in noted
                                    THEN Copied(page[p], buf[page[p].sector - s])
                                    ELSE page[p]]
        /\ lost' = (lost \ run) \cup (run \ done)
                      \cup {t \in run \ noted : Cached(t)}
        /\ reply' = Said("ok")

\* _FAT_fat_linkFreeClusterCleared and file_extend_r: a sector of a new
\* cluster is zeroed on the card and the cache is not told.
ClearSector(s) ==
    \E done \in SUBSET {s} :
        /\ disc' = [t \in Sectors |-> IF t \in done THEN Blank ELSE disc[t]]
        /\ lost' = IF Cached(s) \/ done = {} THEN lost \cup {s} ELSE lost \ {s}
        /\ reply' = Said("ok")
        /\ UNCHANGED page

\* _FAT_read_r: whole sectors come from the card, whose result is ignored: the
\* length counts as read whatever a failed transfer left in the caller's
\* buffer.  The tag "guess" says so as history; the bytes are left open.
ReadSectors(s) ==
    /\ reply' \in {Got(disc[s]), Said("guess")}
    /\ UNCHANGED <<page, disc, lost>>

-----------------------------------------------------------------------------
(* Flush and unmount                                                       *)

Cleaned(p) == [page[p] EXCEPT !.count = 0, !.dirty = FALSE]

\* The card after the dirty pages of P were written.
Synced(P) ==
    [t \in Sectors |->
        IF \E p \in P : page[p].dirty /\ page[p].sector = t
        THEN page[CHOOSE p \in P : page[p].dirty /\ page[p].sector = t].data
        ELSE disc[t]]

\* _FAT_cache_flush.  The pages are written in order, up to the first failure
\* (of a dirty page, again written or not); "return CACHE_FREE" then says the
\* same as "return true" to every caller, the tag "short" is history.
Flush ==
    /\ \E n \in 0 .. NumPages :
          /\ page' = [p \in Pages |-> IF p < n THEN Cleaned(p) ELSE page[p]]
          /\ \/ disc' = Synced(0 .. n - 1)
             \/ n < NumPages /\ disc' = Synced(0 .. n)
          /\ n < NumPages => page[n].dirty
          /\ reply' = Said(IF n < NumPages THEN "short" ELSE "flushed")
    /\ UNCHANGED lost

\* Mutant: the dirty flags survive the invalidation.
InvalidateKeepsDirty ==
    /\ page' = [p \in Pages |-> [FreePage EXCEPT !.dirty = page[p].dirty]]
    /\ lost' = {}
    /\ reply' = Said("none")
    /\ UNCHANGED disc

\* _FAT_partition_unsafeUnmount and the next mount.
Invalidate ==
    /\ page' = [p \in Pages |-> FreePage]
    /\ lost' = {}
    /\ reply' = Said("none")
    /\ UNCHANGED disc

Bufs(s) == UNION {[0 .. n - 1 -> Content] : n \in 1 .. (IF s + MaxRun <= NumSectors
                                                        THEN MaxRun ELSE NumSectors - s)}

CacheNext ==
    \/ \E s \in Sectors :
          \/ \E h \in Parts : Access("read", s, h, Zero)
          \/ \E h \in Parts, v \in Vals, op \in {"write", "erase"} : Access(op, s, h, v)
          \/ AccessFails(s)
          \/ \E buf \in Bufs(s) : WriteSectors(s, buf)
          \/ ClearSector(s)
          \/ ReadSectors(s)
    \/ Flush
    \/ Invalidate

CacheSpec == CacheInit /\ [][CacheNext]_cacheVars

-----------------------------------------------------------------------------
\* Type invariant; a free page is never dirty, or a flush would write it to
\* the sector CACHE_FREE.
CacheTypeOK ==
    /\ page \in [Pages -> [sector : Sectors \cup {Free}, count : Nat,
                           dirty : BOOLEAN, data : Content]]
    /\ disc \in [Sectors -> Content]
    /\ lost \subseteq Sectors
    /\ \A p \in Pages : page[p].sector = Free => ~page[p].dirty

\* No sector is in two pages: a write to one copy would be invisible through,
\* or overwritten by, the other, however loads, failures and evictions mix.
OnePagePerSector ==
    \A p, q \in Pages :
        page[p].sector = page[q].sector /\ page[p].sector # Free => p = q

\* A page that need not be written back equals the card's sector, so that
\* dropping it loses nothing; the exceptions are the sectors of lost.
CleanPageIsOnDisc ==
    \A p \in Pages :
        (page[p].sector # Free /\ ~page[p].dirty /\ page[p].sector \notin lost)
            => page[p].data = disc[page[p].sector]

\* What a reader of the cache sees of the sectors.
ViewOf(pg, dc) ==
    [s \in Sectors |->
        IF \E p \in Pages : pg[p].sector = s
        THEN pg[CHOOSE p \in Pages : pg[p].sector = s].data ELSE dc[s]]
View == ViewOf(page, disc)

Store == INSTANCE BlockStore WITH view <- View, durable <- disc

\* The cache implements the promise of BlockStore: evictions, failed loads,
\* interrupted flushes and direct transfers change what readers see of no
\* sector but the one written, and a flush that met no failure has put all
\* that readers see on the card, lost sectors excepted.
StoreSpec == Store!Spec

\* cache.c:189-191: when a direct write has put new data into the card,
\* the dirty state of the sectors' pages is cancelled, whatever else the cache holds.
DirectWriteCancelsDirty ==
    [][\A s \in Sectors : \A buf \in Bufs(s) :
          (WriteSectors(s, buf)
             /\ \A j \in DOMAIN buf : disc[s + j] # buf[j] /\ disc'[s + j] = buf[j])
              => \A p \in Pages :
                    page[p].sector \in {s + j : j \in DOMAIN buf} => ~page'[p].dirty]_cacheVars
=============================================================================
