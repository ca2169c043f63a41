------------------------------- MODULE FatDir -------------------------------
(***************************************************************************)
(* A directory of the FAT library: src/libsrc/fs/directory.c with the      *)
(* calls of fatdir.c and fatfile.c that change one: open, close, unlink,   *)
(* rename and mkdir, and the card a power cut leaves behind.               *)
(*                                                                         *)
(* A directory is a chain of clusters of slots.  An entry is a run of      *)
(* slots: those of a long name, then the alias with the data.  The first   *)
(* slot marked "last" ends the directory.  Everything is done to `mem',    *)
(* what the cache shows; `card' is what a power cut leaves.  A sector gets *)
(* from mem to card when the cache evicts it, at any time, and by a flush. *)
(* A cluster has one sector, and so has the table.                         *)
(***************************************************************************)
EXTENDS FatTable, SequencesExt

CONSTANTS
    Names,          \* the names that are used
    Absent,         \* no entry
    NoName,         \* a slot that never held one, or a name that was damaged
    Slots,          \* slots in a cluster
    MaxCuts,        \* bound: power cuts
    SlotsOf         \* slots that an entry of a name takes

ASSUME DirAssumption ==
    /\ Slots \in Nat \ {0} /\ MaxCuts \in Nat
    /\ SlotsOf \in [Names -> 1 .. Slots]
    /\ Absent \notin Nat /\ NoName \notin Names

VARIABLES
    pc,         \* the next step of the call under way
    op,         \* the entry it is about, and the new name of a rename
    mem,        \* the directory, the table and firstFree as the program sees
                \* them, and the traps met by a step
    card,       \* the same on the card
    handle,     \* the file that is open
    names,      \* history: what each name should stand for
    synced,     \* history: the same at the last flush, of names untouched since
    cuts,       \* history: how many power cuts there were
    upset       \* history: which of the code's own traps were stepped into

dirVars == <<pc, op, mem, card, handle, names, synced, cuts, upset>>

\* gap: an entry was put on a directory's end marker behind deleted slots: the
\* end that addEntry reports is not the alias.
\* outside: a position moved into a cluster that is not linked to the
\* directory; the entry's slots, or the end marker, are written there.
\* stray: the open file was unlinked or renamed.
\* leak: mkdir failed with its cluster taken.
\* empty: an open went on without a cluster.
\* torn: a power cut left an entry without its cluster, a cluster without an
\* entry, two entries with one, a name that is listed twice, or slots in use
\* that are not those of an entry as it was written.
\* tail, beyond: as in FatAlloc.
Trap == {"gap", "outside", "stray", "leak", "empty", "torn", "tail", "beyond"}

RootCluster == FIRST
Blank == [mark |-> "last", what |-> "data", of |-> NoName, text |-> NoName,
          head |-> FALSE, cluster |-> FREE, dir |-> FALSE]
BlankCluster == [o \in 0 .. Slots - 1 |-> Blank]

NoEntry == [name |-> NoName, start |-> 0, end |-> 0, cluster |-> FREE, dir |-> FALSE, new |-> NoName]

Formatted ==
    [tab |-> Put(EmptyTable, RootCluster, EOF), ff |-> FIRST,
     slots |-> [c \in Clusters |-> BlankCluster], met |-> {}]

DirInit ==
    /\ pc = "idle" /\ op = NoEntry
    /\ mem = Formatted /\ card = Formatted
    /\ handle = NoEntry
    /\ names = [n \in Names |-> Absent] /\ synced = names
    /\ cuts = 0
    /\ upset = {}

-----------------------------------------------------------------------------
(* Positions: the slots of the directory are numbered from 0               *)

\* The clusters of the directory, in order.
Path(d) ==
    LET first[n \in 1 .. LastCluster] ==
            IF n = 1 THEN <<RootCluster>>
            ELSE LET p == first[n - 1] IN
                 IF d.tab[Last(p)] \in Clusters THEN Append(p, d.tab[Last(p)]) ELSE p
    IN  first[LastCluster]

Size(d) == Slots * Len(Path(d))
ClusterOf(d, k) == Path(d)[k \div Slots + 1]
At(d, k) == d.slots[ClusterOf(d, k)][k % Slots]

\* The slots of the directory by their positions.
InOrder(d) ==
    LET path == Path(d)
    IN  [k \in 0 .. Slots * Len(path) - 1 |-> d.slots[path[k \div Slots + 1]][k % Slots]]

\* The slots at the positions in new's domain are written, counted along walk.
\* What lies behind the last cluster is not modelled.
WrittenAlong(d, walk, new) ==
    LET here(c, o) == {k \in DOMAIN new : walk[k \div Slots + 1] = c /\ k % Slots = o}
    IN  [d EXCEPT !.slots = [c \in Clusters |-> [o \in 0 .. Slots - 1 |->
            IF here(c, o) = {} THEN d.slots[c][o] ELSE new[Least(here(c, o))]]]]

Written(d, new) == WrittenAlong(d, Path(d), new)

\* linkFreeCluster for d, and the cluster it returns.
LinkedFree(d, c) ==
    LET res == LinkFree(d.tab, d.ff, c) IN
    [d |-> [d EXCEPT !.tab = res.link, !.ff = res.firstFree, !.met = @ \cup Traps(c, res)],
     cluster |-> res.cluster]

\* A walk runs through the clusters of the directory d, and goes on into those
\* that came back without being linked to it.
Walk(d, walk) == [d |-> d, walk |-> walk]
Room(r) == Slots * Len(r.walk)

\* incrementDirEntryPosition behind the last cluster of a walk: what
\* linkFreeClusterCleared returns is moved into.  Behind a cluster past the
\* table the next one reads as FREE, and there the root directory begins.
Lengthened(r) ==
    LET new == LinkedFree(r.d, Last(r.walk)) IN
    CASE Last(r.walk) > LastCluster -> Walk(r.d, Append(r.walk, RootCluster))
      [] Last(r.walk) <= LastCluster /\ new.cluster = FREE -> Walk(new.d, r.walk)
      [] Last(r.walk) <= LastCluster /\ new.cluster # FREE ->
            Walk(IF new.cluster \in Clusters
                 THEN [new.d EXCEPT !.slots[new.cluster] = BlankCluster] ELSE new.d,
                 Append(r.walk, new.cluster))

\* incrementDirEntryPosition up to position k, extending the directory.  One
\* cluster is enough, as an entry is not longer.
Reaching(r, k) == IF k < Room(r) THEN r ELSE Lengthened(r)

-----------------------------------------------------------------------------
(* Entries                                                                 *)

NoLong == [of |-> NoName, text |-> NoName, start |-> 0]

\* What the scan of getNextEntry makes of slot s at position k.  A long name
\* counts when the checksum in its slots is that of the alias; else the alias
\* is the name.
Scanned(scan, s, k) ==
    CASE scan.ended \/ (s.what = "data" /\ s.mark = "free") -> scan
      [] ~scan.ended /\ s.what = "long" ->
            [scan EXCEPT !.long =
                IF s.mark = "free" THEN NoLong
                ELSE IF s.head THEN [of |-> s.of, text |-> s.text, start |-> k]
                ELSE IF @.of # s.of THEN NoLong
                ELSE IF s.text # @.text THEN [@ EXCEPT !.text = NoName] ELSE @]
      [] ~scan.ended /\ s.what = "data" /\ s.mark = "last" -> [scan EXCEPT !.ended = TRUE]
      [] ~scan.ended /\ s.what = "data" /\ s.mark = "used" ->
            [scan EXCEPT !.long = NoLong,
                !.found = @ \cup
                    {LET whole == scan.long.of = s.of IN
                     [name |-> IF whole THEN scan.long.text
                               ELSE IF SlotsOf[s.of] = 1 THEN s.of ELSE NoName,
                      start |-> IF whole THEN scan.long.start ELSE k, end |-> k,
                      cluster |-> s.cluster, dir |-> s.dir, new |-> NoName]}]

\* The entries that getFirstEntry and getNextEntry go through.
Listing(d) ==
    LET slots == InOrder(d)
        last == Size(d)
        scan[k \in 0 .. last] ==
            IF k = 0 THEN [ended |-> FALSE, long |-> NoLong, found |-> {}]
            ELSE Scanned(scan[k - 1], slots[k - 1], k - 1)
    IN  scan[last].found

Named(es, n) == {e \in es : e.name = n}

Exists(d, n) == Named(Listing(d), n) # {}

\* entryFromPath: the first entry with that name.
Found(d, n) ==
    LET es == Named(Listing(d), n)
    IN  CHOOSE e \in es : \A f \in es : e.start <= f.start

-----------------------------------------------------------------------------
(* addEntry and removeEntry                                                *)

\* The end marker, or the place behind the last slot.
Marker(d) ==
    LET slots == InOrder(d)
    IN  Least({k \in DOMAIN slots : slots[k].mark = "last"} \cup {Size(d)})

\* Mutant: the length of a run is compared before its last slot is counted.
FreeRunsShort(slots, size, m) ==
    {g \in 0 .. m - size : \A k \in g .. g + size - 2 : slots[k].mark = "free"}

\* Mutant: deleted slots that reach the marker are taken to go on behind it, and
\* the directory is not extended for them.
FreeRunsToMarker(slots, size, m) ==
    {g \in 0 .. m : \A k \in g .. m - 1 : slots[k].mark = "free"}

\* Where size deleted slots begin, before the marker.
FreeRuns(slots, size, m) ==
    {g \in 0 .. m - size : \A k \in g .. g + size - 1 : slots[k].mark = "free"}

\* The number of deleted slots right before the marker, fewer than size.
Trailing(slots, size, m) ==
    CHOOSE r \in 0 .. size - 1 :
        /\ r <= m /\ \A k \in m - r .. m - 1 : slots[k].mark = "free"
        /\ r < m => slots[m - r - 1].mark # "free"

\* What the search along the walk r came to.
Gap(r, ok, start, end) ==
    [d |-> IF r.walk = Path(r.d) THEN r.d ELSE [r.d EXCEPT !.met = @ \cup {"outside"}],
     walk |-> r.walk, ok |-> ok, start |-> start, end |-> end]

\* A gap that begins at the marker.  The deleted slots before it are counted,
\* although it begins behind them.  A new marker is put behind it.
GapAtMarker(r, m, short) ==
    LET wide == Reaching(r, m + short)
        top == IF m + short < Room(wide) THEN m + short ELSE Room(wide) - 1
    IN  Gap(Walk(WrittenAlong(wide.d, wide.walk, [k \in m + 1 .. top |-> Blank]), wide.walk),
            m + short < Room(wide), m, m + short - 1)

\* findEntryGap.
FindEntryGap(d, size) ==
    LET m == Marker(d)
        slots == InOrder(d)
        runs == FreeRuns(slots, size, m)
        here == Walk(d, Path(d))
        reached == Reaching(here, m)
    IN  IF runs # {} THEN Gap(here, TRUE, Least(runs), Least(runs) + size - 1)
        ELSE IF m >= Room(reached) THEN Gap(reached, FALSE, m, m)
        ELSE GapAtMarker(reached, m, size - Trailing(slots, size, m))

\* The slot at distance i from the start of an entry for n.
NewSlot(n, i, cluster, dir) ==
    IF i = SlotsOf[n] - 1
    THEN [Blank EXCEPT !.mark = "used", !.of = n, !.text = n, !.cluster = cluster, !.dir = dir]
    ELSE [Blank EXCEPT !.mark = "used", !.what = "long", !.of = n, !.text = n, !.head = (i = 0)]

\* Writes the entry.  The directory is not extended any more: where its links
\* end the entry is cut off.
Filled(gap, n, cluster, dir) ==
    LET alias == gap.start + SlotsOf[n] - 1
        room == IF gap.start < Size(gap.d) THEN Size(gap.d) ELSE Room(gap)
        top == IF alias < room THEN alias ELSE room - 1
    IN  [d |-> [WrittenAlong(gap.d, gap.walk,
                             [k \in gap.start .. top |-> NewSlot(n, k - gap.start, cluster, dir)])
                EXCEPT !.met = @ \cup (IF gap.end # alias THEN {"gap"} ELSE {})],
         ok |-> TRUE,
         entry |-> [name |-> n, start |-> gap.start, end |-> gap.end, cluster |-> cluster,
                    dir |-> dir, new |-> NoName]]

\* addEntry, for a name that is not there.
Added(d, n, cluster, dir) ==
    LET gap == FindEntryGap(d, SlotsOf[n]) IN
    IF gap.ok THEN Filled(gap, n, cluster, dir) ELSE [d |-> gap.d, ok |-> FALSE, entry |-> NoEntry]

\* removeEntry: every slot of the entry is marked.
Removed(d, e) == Written(d, [k \in e.start .. e.end |-> [At(d, k) EXCEPT !.mark = "free"]])

\* It fails when there is no slot behind the entry.
RemoveFails(d, e) == e.end + 1 = Size(d) /\ d.tab[Last(Path(d))] = EOF

-----------------------------------------------------------------------------
(* The calls                                                               *)

\* Bound: nothing is said of clusters that are not in the table, or not
\* linked, nor of what comes after an entry with a wrong end, a file that lost
\* its entry, or a power cut that left a card to repair.
Ready == pc = "idle" /\ upset \subseteq {"leak", "empty"}

\* The clusters that linkFreeClusterCleared cleared on the card: they became
\* part of the directory, or came back unlinked.
Wiped(d) ==
    {c \in Clusters : \/ c \in ToSet(Path(d)) \ ToSet(Path(mem))
                      \/ "tail" \in d.met /\ mem.tab[c] = FREE /\ d.tab[c] # FREE}

\* The program now sees d.
Becomes(d, traps) ==
    /\ mem' = [d EXCEPT !.met = {}]
    /\ card' = [card EXCEPT !.slots = [c \in Clusters |-> IF c \in Wiped(d) THEN BlankCluster ELSE @[c]]]
    /\ upset' = upset \cup d.met \cup traps

Touched(ns) == [n \in Names |-> IF n \in ns THEN Absent ELSE synced[n]]

\* _FAT_open_r for writing, up to the entry; a directory is refused.
Open(n, trunc) ==
    /\ Ready /\ handle = NoEntry
    /\ synced' = Touched({n})
    /\ IF Exists(mem, n)
       THEN /\ ~Found(mem, n).dir
            /\ pc' = (IF trunc THEN "truncating" ELSE "opening") /\ op' = Found(mem, n)
            /\ UNCHANGED <<mem, card, names, upset>>
       ELSE \E a \in {Added(mem, n, FREE, FALSE)} :
            /\ Becomes(a.d, {})
            /\ op' = a.entry
            /\ IF a.ok THEN pc' = "opening" /\ names' = [names EXCEPT ![n] = FREE]
               ELSE UNCHANGED <<pc, names>>
    /\ UNCHANGED <<handle, cuts>>

\* Mutant: the chain is not freed.
CutNot(d, c) == d

\* clearLinks.
Cut(d, c) ==
    LET res == ClearLinks(d.tab, d.ff, c)
    IN  IF c = FREE THEN d ELSE [d EXCEPT !.tab = res.link, !.ff = res.firstFree]

\* _FAT_open_r from the truncation on.
OpenCluster ==
    /\ pc \in {"opening", "truncating"}
    /\ IF pc = "opening" /\ op.cluster # FREE
       THEN handle' = op /\ UNCHANGED <<mem, card, upset>>
       ELSE \E new \in {LinkedFree(IF pc = "truncating" THEN Cut(mem, op.cluster) ELSE mem, FREE)} :
            /\ Becomes(new.d, IF new.cluster = FREE THEN {"empty"} ELSE {})
            /\ handle' = [op EXCEPT !.cluster = new.cluster]
    /\ pc' = "idle" /\ op' = NoEntry
    /\ UNCHANGED <<names, synced, cuts>>

\* _FAT_close_r up to the flush: the data of the slot at the entry's end is
\* changed, whatever that slot is; in a slot of a long name it is part of it.
Close ==
    /\ Ready /\ handle # NoEntry
    /\ \E s \in {At(mem, handle.end)} :
        Becomes(Written(mem, [k \in {handle.end} |->
                    IF s.what = "long" THEN [s EXCEPT !.text = NoName]
                    ELSE [s EXCEPT !.cluster = handle.cluster]]), {})
    /\ names' = [names EXCEPT ![handle.name] = handle.cluster]
    /\ synced' = Touched({handle.name})
    /\ handle' = NoEntry
    /\ pc' = "flush" /\ op' = [NoEntry EXCEPT !.name = handle.name]
    /\ UNCHANGED cuts

Stray(n) == IF handle.name = n THEN {"stray"} ELSE {}

\* _FAT_unlink_r up to clearLinks.  A directory is empty.
Unlink(n) ==
    /\ Ready /\ Exists(mem, n)
    /\ \E e \in {Found(mem, n)} : \E d \in {Cut(mem, e.cluster)} :
        op' = e /\ Becomes(d, Stray(n))
    /\ synced' = Touched({n})
    /\ pc' = "unlinking"
    /\ UNCHANGED <<handle, names, cuts>>

\* A failure of removeEntry is reported, and the flush is done.
UnlinkEntry ==
    /\ pc = "unlinking"
    /\ Becomes(Removed(mem, op), {})
    /\ names' = [names EXCEPT ![op.name] = Absent]
    /\ pc' = "flush" /\ op' = NoEntry
    /\ UNCHANGED <<handle, synced, cuts>>

\* _FAT_rename_r up to addEntry.
Rename(n, to) ==
    /\ Ready /\ Exists(mem, n) /\ ~Exists(mem, to)
    /\ \E e \in {Found(mem, n)} : \E a \in {Added(mem, to, e.cluster, e.dir)} :
        /\ Becomes(a.d, IF a.ok THEN Stray(n) ELSE {})
        /\ IF a.ok THEN /\ pc' = "renaming" /\ op' = [e EXCEPT !.new = to]
                        /\ names' = [names EXCEPT ![to] = e.cluster]
           ELSE UNCHANGED <<pc, op, names>>
    /\ synced' = Touched({n, to})
    /\ UNCHANGED <<handle, cuts>>

\* When removeEntry fails there is no flush.
RenameEntry ==
    /\ pc = "renaming"
    /\ Becomes(Removed(mem, op), {})
    /\ names' = [names EXCEPT ![op.name] = Absent]
    /\ pc' = (IF RemoveFails(mem, op) THEN "idle" ELSE "flush") /\ op' = NoEntry
    /\ UNCHANGED <<handle, synced, cuts>>

\* _FAT_mkdir_r up to linkFreeClusterCleared.
Mkdir(n) ==
    /\ Ready /\ ~Exists(mem, n)
    /\ \E new \in {LinkedFree(mem, FREE)} :
        /\ Becomes(new.d, {})
        /\ IF new.cluster = FREE THEN UNCHANGED <<pc, op>>
           ELSE pc' = "making" /\ op' = [NoEntry EXCEPT !.name = n, !.cluster = new.cluster, !.dir = TRUE]
    /\ synced' = Touched({n})
    /\ UNCHANGED <<handle, names, cuts>>

\* The dot entries are in the new cluster; nothing is undone on failure.
MkdirEntry ==
    /\ pc = "making"
    /\ \E a \in {Added(mem, op.name, op.cluster, TRUE)} :
        /\ Becomes(a.d, IF a.ok THEN {} ELSE {"leak"})
        /\ IF a.ok THEN pc' = "flush" /\ names' = [names EXCEPT ![op.name] = op.cluster]
           ELSE pc' = "idle" /\ UNCHANGED names
    /\ op' = NoEntry
    /\ UNCHANGED <<handle, synced, cuts>>

-----------------------------------------------------------------------------
(* The card                                                                *)

OnCard(d) == [d EXCEPT !.ff = FIRST]

\* The cache evicts a dirty page.
\* Bound: after the last power cut the card only changes by a flush.
EvictSlots(c) ==
    /\ cuts < MaxCuts
    /\ card.slots[c] # mem.slots[c]
    /\ card' = [card EXCEPT !.slots[c] = mem.slots[c]]
    /\ UNCHANGED <<pc, op, mem, handle, names, synced, cuts, upset>>

EvictTable ==
    /\ cuts < MaxCuts
    /\ card.tab # mem.tab
    /\ card' = [card EXCEPT !.tab = mem.tab]
    /\ UNCHANGED <<pc, op, mem, handle, names, synced, cuts, upset>>

\* Mutant: the page of the table is left dirty.
FlushedSlots == [OnCard(mem) EXCEPT !.tab = card.tab]

Flushed == OnCard(mem)

\* _FAT_cache_flush, without card errors.  The entry of an open file is only
\* right when the file is closed.
Flush ==
    /\ pc = "flush"
    /\ card' = Flushed
    /\ synced' = [n \in Names |-> IF n = handle.name THEN Absent ELSE names[n]]
    /\ pc' = "idle" /\ op' = NoEntry
    /\ UNCHANGED <<mem, handle, names, cuts, upset>>

\* The clusters of d that are in use belong to the entries es, one to each.
Owned(d, es) ==
    /\ {c \in Clusters : d.tab[c] # FREE} \ ToSet(Path(d)) = {e.cluster : e \in es} \ {FREE}
    /\ \A e, f \in es : (e.cluster = f.cluster /\ e.cluster # FREE) => e = f

\* The slots of the listed entries are as addEntry wrote them, and no others
\* are in use.
Tidy(d) ==
    LET slots == InOrder(d)
        es == Listing(d)
    IN  /\ \A e \in es :
            /\ e.name \in Names /\ e.end = e.start + SlotsOf[e.name] - 1
            /\ \A k \in e.start .. e.end : slots[k] = NewSlot(e.name, k - e.start, e.cluster, e.dir)
        /\ \A e, f \in es : e.name = f.name => e = f
        /\ \A k \in DOMAIN slots : slots[k].mark = "used" => \E e \in es : k \in e.start .. e.end

Torn(d) == ~Tidy(d) \/ ~Owned(d, Listing(d))

\* The card is mounted again.
PowerCut ==
    /\ cuts < MaxCuts
    /\ cuts' = cuts + 1
    /\ mem' = card
    /\ pc' = "idle" /\ op' = NoEntry /\ handle' = NoEntry
    /\ names' = [n \in Names |-> IF Exists(card, n) THEN Found(card, n).cluster ELSE Absent]
    /\ synced' = names'
    /\ upset' = upset \cup (IF Torn(card) THEN {"torn"} ELSE {})
    /\ UNCHANGED card

Call(n) ==
    \/ \E trunc \in BOOLEAN : Open(n, trunc)
    \/ Unlink(n)
    \/ \E to \in Names : Rename(n, to)
    \/ Mkdir(n)

DirNext ==
    \/ \E n \in Names : Call(n)
    \/ OpenCluster
    \/ Close
    \/ UnlinkEntry
    \/ RenameEntry
    \/ MkdirEntry
    \/ \E c \in Clusters : EvictSlots(c)
    \/ EvictTable
    \/ Flush
    \/ PowerCut

DirSpec == DirInit /\ [][DirNext]_dirVars

-----------------------------------------------------------------------------
(* Properties                                                              *)

Entry == [name : Names \cup {NoName}, start : Nat, end : Nat, cluster : 0 .. LastCluster + 1,
          dir : BOOLEAN, new : Names \cup {NoName}]

\* Type invariant.
DirTypeOK ==
    /\ pc \in {"idle", "opening", "truncating", "unlinking", "renaming", "making", "flush"}
    /\ op \in Entry /\ handle \in Entry
    /\ \A d \in {mem, card} :
        /\ d.tab \in [Entries -> Entries \cup {EOF}] /\ d.ff \in FIRST .. LastCluster + 1
        /\ d.met = {}
    /\ "outside" \notin upset => handle.end < Size(mem)
    /\ names \in [Names -> Entries \cup {Absent}]
    /\ upset \subseteq Trap

\* Between calls the directory lists what was created and renamed and not
\* removed, each name once and with its own cluster, whichever slots it went
\* to: no entry is overwritten, hidden behind an end marker or given twice.
ListingIsRight ==
    (pc = "idle" /\ upset \cap {"gap", "outside", "stray", "torn"} = {}) =>
        \A es \in {Listing(mem)} : \A n \in Names :
            /\ {e.cluster : e \in Named(es, n)} = {names[n]} \ {Absent}
            /\ Cardinality(Named(es, n)) <= 1

\* Between calls every cluster in use is that of one entry, or of the open
\* file in its stead: none leaks and none is shared.
ClustersAreOwned ==
    (Ready /\ upset \subseteq {"empty"}) =>
        Owned(mem, IF handle = NoEntry THEN Listing(mem)
                   ELSE {e \in Listing(mem) : e.name # handle.name} \cup {handle})

\* Whatever is going on and wherever the power is cut, a file that nobody
\* touched since the last flush is on the card under its name, with a cluster
\* that is in use and that no other entry names, the one of a file that is
\* open or being closed excepted.
UntouchedIsSafe ==
    (upset \subseteq {"empty", "leak"} /\ \E n \in Names : synced[n] # Absent) =>
        \A es \in {Listing(card)} : \A n \in Names : synced[n] # Absent =>
            /\ {e.cluster : e \in Named(es, n)} = {synced[n]}
            /\ synced[n] # FREE => card.tab[synced[n]] # FREE
            /\ \A e \in es :
                (e.cluster = synced[n] /\ e.cluster # FREE) => e.name \in {n, handle.name, op.name}

\* directory.h:149: "dataStart and dataEnd elements of the DIR_ENTRY struct
\* are updated with the new directory entry position": the end of an open
\* file's entry, where close writes, is its alias.
EndIsAlias ==
    (handle # NoEntry /\ upset \cap {"outside", "stray", "torn"} = {}) =>
        At(mem, handle.end).what = "data" /\ At(mem, handle.end).of = handle.name
=============================================================================
