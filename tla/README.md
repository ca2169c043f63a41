# A TLA+ model of the DS2 SDK

The DS2 SDK is the library of programs that run on the DSTWO card for the
Nintendo DS: a MIPS CPU on the card computes, and the NDS, reached through an
FPGA, shows its pictures, plays its sound and sends its keys. The library also
holds a FAT file system on the card's SD slot, a console, a heap and the
drivers below them.

This directory models the parts whose correctness depends on the order of
things: what an interrupt may do between two statements, which copy of a sector
is the right one, what the fifth legal call does after four others. TLC checks
the models on small instances; TLAPS proves the central theorems for every size.

## 1. The system

Paths are below `src/libsrc/`.

| Component | State | Operations | Talks to |
|---|---|---|---|
| Request ring (`base/nds/game.c`) | `buf_st_list[].isused`, `nds_iqe_list[16]` with `_w`, `_r`, the nesting count, the request bit of the FPGA | `ioctl(IQE_UPDATE)` on the CPU; commands 0xc0, 0xc1/0xc2, 0xc3, 0xc4, 0xc5 of the NDS, each an interrupt | NDS through the FPGA; escape callback |
| Screens (`base/nds/av.c`, `test.c`) | a handle per screen, two buffers each | `ds2_flipScreen(screen, done)`, `update_buf`, look-ups | the ring |
| Audio (`av.c`, `test.c`) | two buffers, two counters | get, update, fill level | the ring |
| Keys (`game.c` 0xc3, `test.c`, `key/key.c`) | key ring of 32, last key and time stamps | `ds2_getrawInput`, `getKey`, `getInput` | the NDS |
| Console (`console/console.c`) | ring of text lines, window position | print, scroll, `ConsoleView` in the escape callback | screens, keys |
| Sector cache (`fs/cache.c`) | pages: sector, count, dirty, data | partial read, write, erase-write, check after a direct write, flush, invalidate | card |
| Cluster allocation (`fs/file_allocation_table.c`) | the table, `firstFree`, `lastCluster` | next, link free, clear links | cache |
| Files (`fs/fatfile.c`) | start cluster, size, read/write and append position | open, read, write, seek, close | table, cache, card directly |
| Directories (`fs/directory.c`, `fatdir.c`) | entries on the card | find, add (gap search, extension), remove, unlink, rename, mkdir | table, cache |
| Partitions, stdio (`fs/partition.c`, `libfat.c`, `fs_api.c`) | mounted partitions, open count, 16 FILE and 32 DIR slots | mount, unmount, fopen ... | all of the above |
| SD/MMC driver (`base/mmc/`) | card state, block count | initialise, read and write blocks | controller, DMA |
| Heap (`base/clib/memory.c`) | list of blocks with headers | alloc, free, realloc, calloc | everybody |
| Interrupts, timer, DMA (`base/`) | mask, pending bits, handler table | register, enable, dispatch | drivers |

Which behaviours are hard:

* **Two contexts on the CPU.** The interrupt handler of the NDS's commands
  calls the escape-key callback (the console) with interrupts enabled. The
  callback draws and flips, so that its requests nest inside whatever the main
  program was doing, in the middle of `IQE_UPDATE` included.
* **Two processors on one ring.** The NDS takes slots, clears the request bit
  and frees buffers between any two steps of the CPU.
* **Two ways to a sector.** Directory, table and partial accesses go through
  the cache; whole sectors of file data go to the card directly and the cache
  is told afterwards, or not.
* **Failing transfers.** The card may fail any transfer, in part. The callers
  differ in what they do about it, and mostly ignore it.
* **Long sequences.** `firstFree` is a hint that several calls move; open,
  truncate, write, unlink and close of several files work on one table.

What makes the components correct: a buffer belongs to the NDS exactly while
one request is about it, and every request is served; the program never draws
into a buffer being shown; a reader sees what was last written to a sector,
whatever is evicted, flushed or fails; no cluster is in two files or in none.

## 2. Modules

```
IqeQueue <- NdsScreen          NdsInput          MmcDriver          Heap

BlockStore (abstract)          FatTable <- FatEntry     the bytes of a table entry
   ^ refined by                         <- FatAlloc     several files, one table
FatCache                                <- FatFile      one file: positions, sizes
                                        <- FatDir       one directory, power cuts
```

`MC*` modules and `.cfg` files hold the instances for TLC, `*_proofs` modules
the theorems: NdsScreen_proofs those of IqeQueue too, FatAlloc_proofs those of
FatEntry and FatCache (the bytes of an entry, the refinement of BlockStore), and
FatTable_proofs the lemmas that FatAlloc_proofs, FatFile_proofs and FatDir_proofs
share. The order in which the components rest on each other at run time
is FatDir and FatFile over FatAlloc over FatCache over MmcDriver. They are not
composed into one state space: each takes from the one below what that one
is shown to promise (a file sees a table, not its bytes; a cache sees transfers
that succeed, fail or fail in part). The one composition that shares state
tightly, the flips over the ring, is a module that extends the ring, and its
steps are proved to be steps of the ring (`ScreensUseRing`).

**IqeQueue** (`base/nds/game.c`). `isused`, `slot`, `w`, `r`, `nest`, `signal`
are the code's variables. Each context, `main` and `esc`, has a place in
`IQE_UPDATE` (`pc`) and its two locals (`arg`, `wTmp`). The ioctl is cut where
an interrupt can come: `Check` (the test of `isused`), `Reserve` (first locked
section), `Fill` (the slot, and its write-back), `Unnest` (second locked
section), `Signal` (the nesting count is read and the bit raised). A section
under `spin_lock_irqsave` is one step. `NdsPoll` is 0xc4, `NdsFetch` 0xc0,
`NdsOver` and `NdsOverBad` the two outcomes of a transfer-over, `NdsUnknown` a
command that the handler does not know, `EscEnter` and `EscReturn` the callback. `main` does not run while the callback is active.

**NdsScreen** (`base/nds/av.c`, `test.c`) extends it by `ds2_flipScreen`:
`FlipUpdate` is `update_buf`, `FlipGet` the look-up and its repetition,
`FlipAssign` the move of the handle (a step of its own: the buffer was looked up
before), `FlipDrain` the wait of `done = 2`. The console flips one screen with
`done = 1`, as `ConsoleFlush` does. The NDS follows the protocol here; what a bad
or an unknown command does is asked of the ring alone.

**NdsInput** (`game.c` 0xc3, `test.c`, `key/key.c`). `w` and `r` are
`key_write_num` and `key_read_num` and wrap at `Word`. A command is one step
(`KeyCommand`), except that the escape key starts a second reader inside it.
`ds2_getrawInput` takes no lock, so that each of its loads and stores is a step:
`Load` (the write number), `Look` (the read number, and `i > 1`), `Reload` (the
write number once more, unless the compiler kept the first), `Advance` (the read
number is stored), `LookUp` (the slot's address is computed, from the read number
loaded again or from the one the compiler kept) and `Copy`. The loads of line 541
are taken in the order they are written in. A filter (`GetKey`, `GetKey1`) is one
step: nobody but the escape function has its variables at hand, whose own filter is
taken to run before it or after it, not in its middle. Whether the repeat time has passed is left open.

**FatCache** (`fs/cache.c`, `disc.c`) has a record per page, the card and the
last reply. The library has no threads, so a call is one action; what the
card makes of it is a choice inside it (`MissWriteFails`, `MissReadFails`, the
prefix that a direct write or a flush gets to). `WriteSectors`, `ReadSectors`
and `ClearSector` are the transfers of `fatfile.c` and
`file_allocation_table.c` that go around the cache; none of their callers looks at
the result. Where a caller takes a failure for a success, the reply has a tag
of its own (`guess`, `short`), which is history: the code does not have it. A sector is a function
from pieces to values, so that a partial write differs from a whole one.

**BlockStore** is what callers rely on: `view`, what a reader of the cache
sees, and `durable`, what the card holds. Between writes, `durable` may only
catch up with `view`. `lost` names the sectors for which the promise is off;
every operation says which sectors it may add, at most one for a failed
transfer. A read around the cache that failed gives anything at all, and a flush
that failed leaves anything behind: the store promises nobody to hear of it, as the
code tells nobody. FatCache implements it with `view` the page of a sector if there
is one and the card's sector if not, and `durable` the card.

**FatTable** (`fs/file_allocation_table.c`) has no state of its own: `Put`
(`writeFatEntry`), `LinkFree` and `ClearLinks` are functions of the table and
`firstFree` with the code's search order and its quirks: the hint one past the
last cluster, the link that is not written from the last cluster. The loop of
`clearLinks` is not followed step by step; the clusters it frees are the least
set that holds the first and is closed under links (`Chain`), a form that the
prover can use.

**FatEntry** says what bytes stand for that table: the entries of 12, 16 and
32 bits, with the neighbour's half byte and the entry that straddles two
sectors. Writing an entry and reading the table back is `Put`.

**FatAlloc** (`fatfile.c`, `fatdir.c`) is the allocation of several files:
`Open` (with truncation), `Extend`, `Rewind`, `Close`, `Unlink`. Directory
entries (`dir`) and open handles (`handle`) are apart, as the entry only learns
of the handle's start cluster when the file is closed.

**FatFile** (`fatfile.c`) is one file in detail, on a card where others come and
go (`OtherTakes`, `OtherGivesBack`). A handle has the code's two positions
(`rw`, `app`: a cluster and an offset in it, an offset of `ClusterSize` asking
for the next cluster first), `cur`, `size`, `start` and the flags of its mode.
`Written` follows `_FAT_write_r` with the extension that precedes it
(`Extended`, `file_extend_r`) piece by piece; `ReadOf`, `Seek`, `Open`, `Close`
likewise. Bytes are not kept: a transfer is the sequence of *places* on the card
it touches, and the properties ask whether these are the places of the bytes
that were meant.

**FatDir** (`directory.c`, `fatdir.c`, `fatfile.c`, `cache.c`). A directory is a
chain of clusters of slots; an entry is a run of slots, those of a long name and
the alias. A call is cut into steps where a power cut makes a difference:
`Open`, `OpenCluster`, `Unlink`, `UnlinkEntry`, `Rename`, `RenameEntry`,
`Mkdir`, `MkdirEntry`, `Close`, each followed by `Flush` where the code flushes.
`mem` is what the cache shows, `card` what is on the card: `EvictSlots` and
`EvictTable` copy a sector at any time, as an eviction does, and `PowerCut`
mounts the card as it is. `FindEntryGap` keeps the code's counting of free slots
up to the end marker. A position that leaves the last cluster goes wherever
`linkFreeClusterCleared` says (`Lengthened`), be it linked to the directory or
not: a *walk* is the clusters it went through, which are the directory's unless
the link was not written.

**MmcDriver** (`base/mmc`, `fs/disc_io/io_ds2_mmcf.h`). `InitStep` is one turn of
`mmc_init_card_state` (CMD0, CMD8, CMD55/ACMD41, CMD1, CMD2, CMD3, CMD9), then
`SelectCard`, `Switch`, `BeforeWidth`, `SetBusWidth`; a block transfer is
`SendStatus`, `SetBlocklen`, `MoveData`, `Stop`. One step is one command with its
response. The data phase that follows any response, one with an error included,
and the wait for the end of programming are steps of their own (`DataEnds`,
`SwitchEnds`, `ProgEnds`), since `_mmc_exec_cmd` waits for them without a limit
(`Hang`). A command may be lost, its response may be lost, its data may be damaged
or not come, and the card may be pulled and put in again. A damaged response is a
lost one: the result of `_mmc_exec_cmd` is dropped, and without a response
`request->result` stays `MMC_NO_RESPONSE`. The card's side (`Obey`, `Reply`, `Ignore`) is
external and goes no further than the driver can tell.

**Heap** (`base/clib/memory.c`). `hdr` is the chain of headers by address,
`first` and `endOfHeap` the rounded arena; all arithmetic is modulo `Word`.
`Alloc`, `Calloc`, `Free` and `Realloc` are the four calls, `LocAlloc`,
`CurrentNodeAlloc` and `Freed` the functions below them. Where the code would go
on with a broken chain or a NULL pointer, the model stops.

**History variables.** The code has windows in which it goes wrong by its own
construction. `upset`, in NdsScreen `cuts` and in FatCache `lost` record that
one was hit. The invariants speak of the behaviours in which it was not, or name
exactly the window they except: they say that nothing else goes wrong. They do
not catch the window itself, which PROJECT.json says of each hazard where it is
so. The windows are steps of the models, not left out:

| Record | Code | What happens there |
|---|---|---|
| IqeQueue `twice` | `game.c:556` | the callback queues the buffer between main's test and main's lock |
| `window` | `game.c:571` | the NDS takes a slot that is reserved and not filled |
| `reset` | `game.c:273` | a bad transfer-over frees all buffers |
| `unknown` | `game.c:496` | a command that the handler does not know clears the request bit |
| NdsScreen `ioctl` | `game.c:623` | the callback starts inside main's ioctl: its own requests are not signalled and its flip waits for ever |
| `assign` | `av.c:110` | the callback starts between look-up and assignment of a buffer |
| NdsInput `empty` | `test.c:541` | a read before the first key copies the slot that this key goes to; so does one after the counters went all the way round |
| `dropped` | `game.c:319` | the escape key finds the ring full and takes the newest sample out |
| `overtaken` | `test.c:546` | the escape function reads on while the program copies a slot, or goes by a read number it has kept |
| `stale` | `test.c:543` | it reads on while the program goes by a write number it loaded before |
| `mixed` | `key.c:83` | a press and a release in one sample: `getKey1` tells of the press only |
| `shared` | `key.c:27` | `getKey` changes the keys that `getKey1` compares with |
| FatCache `lost`, `guess`, `short` | `cache.c:138`, `cache.c:254`, `cache.c:209`, `fatfile.c:651`, `fatfile.c:365`, `file_allocation_table.c:284` | copies of a sector are driven apart; a failed direct read or flush counts as done |
| Fat* `tail`, `beyond` | `file_allocation_table.c:252`, `:240` | no link from the last cluster; the entry past the table is handed out |
| `empty` | `fatfile.c:200` | an open goes on without a cluster |
| FatAlloc `unlinked`, FatDir `stray` | `fatdir.c:164`, `fatfile.c:265` | the open file is unlinked or renamed |
| FatFile `full` | `fatfile.c:604` | a write that ended for want of a cluster leaves its position at the start of the last one |
| `longer`, `zero` | `fatfile.c:606`, `:602` | growing failed with clusters linked; a write of no bytes links one |
| `stale` | `fatfile.c:581` | an append reaches the position sought past the end, which `rwPosition` does not denote |
| `short` | `fatfile.c:320` | a read runs into the end of the chain |
| FatDir `gap` | `directory.c:655` | an entry on the end marker behind deleted slots: its end is not the alias |
| `outside` | `directory.c:233` | a position moved into a cluster that came back unlinked: the entry, or the end marker, is written outside the directory, and the call succeeds |
| `leak` | `fatdir.c:408` | `mkdir` failed with its cluster taken |
| `torn` | `cache.c:129` | a power cut left entry and table at odds, or slots that are not those of an entry as it was written, or a name listed twice (by a cut inside a rename, `fatdir.c:314`) |
| MmcDriver `csd` | `mmc_core.c:86`, `mmc_protocol.c:111` | a card with a CSD of structure 2 is taken for one of high capacity, with as many blocks as the `c_size` of an earlier card says |
| `width` | `mmc_protocol.c:90` | the card never learned that the bus is four bits wide |
| `stuck` | `mmc_api.c:241` | a transfer is given up with the card in the middle of it |
| `unselected` | `mmc_protocol.c:61` | the card was not selected and nobody looked |
| `failed` | `mmc_api.c:62` | a transfer is asked for though the last initialisation failed |
| `pulled`, `data` | `mmc_hardware.c:493`, `:742` | the card is taken out; data that was damaged, or did not come, is not noticed |
| Heap `past`, `prev` | `memory.c:235` | a header outside its block; a neighbour left with a link to nothing |
| `fits`, `wrap`, `null` | `memory.c:227`, `:103`, `:264` | a size wraps in the comparison, in the rounding; NULL is cleared or freed |

## 3. What the runs check

| Run | Bounds | Shows |
|---|---|---|
| `iqe` | 3 buffers, ring of 3, 4 requests | `TypeOK`; `OneRequestPerUsedBuffer`; `PendingBound`; `PendingIsSignalled`; and that every used buffer becomes free (`QueuedIsServed`) |
| `screen` | 4 video buffers and c0, ring of 5, 3 requests | `ScreenTypeOK`; `DrawTargetIdle`: after a flip that switched or waited no request and no transfer is about the buffer being drawn; `FlipReturns` |
| `input` | 3 key states, ring of 2, counters of 6 values | `InputTypeOK`; `CopyIsWhole`: no sample changes while it is copied; `ReadIsFresh`: a read returns a sample that was the newest during it; `ViewFollows`: the events tell which keys are down |
| `cache` | 2 pages, 3 sectors, 2 contents, runs of up to 2 sectors, 2 uses of a page between flushes | `CacheTypeOK`; `OnePagePerSector`; `CleanPageIsOnDisc`; the refinement of BlockStore (`StoreSpec`), failures that nobody hears of included |
| `cache_check` | as `cache` | finding 1 |
| `alloc` | 4 clusters, 2 files, one trap; sectors of 4 bytes for the entries | `AllocTypeOK`; `NoCrossLink`; `NoLostCluster`; `FullOnlyWhenFull`; as an ASSUME, that the three entry formats make a table |
| `alloc_link` | as `alloc` | finding 2 |
| `file` | 3 clusters of 2 sectors of 2 bytes, six modes, transfers of 0, 3, 8 bytes, seeks to 0, 1, 4, 5, 9 | `FileTypeOK`; `PositionsMeet`: the card position is the file position; `ChainFitsSize`; `TransfersMeetFile`: a transfer touches the bytes meant, in order; `ShortOnlyWhenFull` |
| `dir` | 3 clusters of 2 slots, two names of one slot and one of two, one power cut | `DirTypeOK`; `ListingIsRight`; `ClustersAreOwned`; `UntouchedIsSafe`: a power cut harms no file untouched since the last flush |
| `dir_gap` | as `dir` with 4 clusters, no power cut | finding 3 |
| `mmc` | 4 kinds of card, 3 blocks of 2 bytes, stale counts of 2 and 5, 2 tries of ACMD41, 2 faults | `MmcTypeOK`; `CardKnownAndFree`; `SuccessIsRight`; `LostCardIsNoticed`; `CallsReturn` |
| `heap` | 64 addresses, arena from 3 to 21, headers of 2; sizes 0, 1, 4, 8 and two that wrap | `HeapTypeOK`; `ChainSound`; `FreeIsMerged`; `HeldIsReserved`; `RefusedOnlyWhenFull`; `ReallocKeepsContents` |

Why the bounds are enough for what is asked.

* `iqe`: the ring is as small as the buffers allow, so that it is full and
  wraps; four requests let each context have one in the ring and one in
  progress. One answer that no NDS should send is enough, since the properties
  except what follows it. `screen`: three requests are a flip of both screens and a nested one;
  the bound leaves room for those a started flip still owes, or it would itself
  keep a flip from returning.
* `input`: the two keys are alike (symmetry). A ring of two is full after two
  keys; the counters wrap after three rounds of it (more than two, so that a difference of up to a ring is positive
  as a signed number), and none, one and another key are a press, a release and both
  at once.
* `cache`: the third sector always evicts; two pages let a run of two sectors
  have none, its first, its second or both cached.
* `alloc`: four clusters and two files fill the card, go around the end of the
  table, and free a chain in front of, behind and around `firstFree`. Files
  are interchangeable there, hence the symmetry; it is a run without liveness.
  Once more traps than `MaxTraps` were met the table is left alone, since what
  follows is damage of a known cause.
* `file`: the lengths and positions end inside a sector, at its end and at a
  cluster's end, cross one and two clusters, and go past the end; a third
  cluster can be taken by another file. `MaxTraps = 0`: the step that meets a trap
  is taken, and nothing after it.
* `dir`: two slots to a cluster make a long name fill one, and any gap that a
  short name leaves too short for it; the directory is extended. Three clusters are
  the directory and two more for its extension and the files: with three names the
  card is full, so that opens and directories go without a cluster (`empty`,
  `leak`), and the directory comes to end in the last cluster, behind which its
  positions leave it (`outside`). The two short names are interchangeable, hence the
  symmetry, in a run without liveness. After the power cut the cache no longer
  evicts on its own (its contents cannot get lost any more), and after a trap
  other than `leak` and `empty` no new call begins.
* `mmc`: two faults are one in each of two calls, or a lost command and the lost
  response to its repetition; blocks of two bytes tell an address in bytes from
  one in blocks; the stale counts are one below and one above the card's.
* `heap`: four empty blocks, or three with contents, so that a block has two
  neighbours, free or not; `Word - 1` wraps in the rounding and `Word - Header`
  in the sum.

Deadlock is not checked: the bounds on requests, page counts, traps and faults
end behaviours, and the cache, files, directory and heap are sequential
libraries that wait for nobody. What could wait for ever is asked by the
liveness properties.

**Fairness.** `iqe` and `screen`: strong fairness of each context's own steps,
since the interrupted program executes between any two interrupts, however
many come. Weak fairness of the NDS: it serves a ring it was told of. That the NDS
asks again (0xc4) until the answer is zero once it has seen the bit is an
assumption about its firmware, which is not in the repository; the handshake at
start-up (`game.c:1127-1143`) relies on the same. Weak fairness of the return
from the callback: the user leaves the console (`ConsoleView` ends with a key).
`mmc`: weak fairness of the driver inside a call, which is the CPU, and of the
card's power-up: `mmc_protocol.c:242` repeats CMD1 without a limit, so that a
card that never comes up keeps the driver for ever. That the data phase ends is
not assumed: where nothing the wait is for is on its way, or data is lost, it may
end or hang, and `CallsReturn` names the reasons there can be for a hang (a card
that was pulled, lost data, is not known for what it is, or was asked for more
than it has). What is assumed is that a card which got a whole, valid request
moves its data and ends its programming. No fairness is assumed for
requests of the program, for keys, faults or cards.

### Findings

1. `cache.c:209`: after a direct write the check returns at the first sector
   that is not cached, so that a later one keeps its stale dirty page, which
   a flush then writes over the new data; `cache.c:190-191` says otherwise.
2. `file_allocation_table.c:240` and `:252`: a cluster is returned that is
   neither marked nor linked, first when the card was found full before, second
   when the file ends in the last cluster; lines 204-206 say otherwise.
3. `directory.c:655`: at the end marker the gap begins at the marker although
   the deleted slots before it were counted. The entry's end falls short of its
   alias, and closing the file writes its size and cluster into a slot of its
   long name; `directory.h:148-150` says otherwise.

Seen on the way, in the models as steps, without a run of their own:

* `av.c:107`: a flip of both screens with `done = 2` returns after the upper
  screen; `ds2io.h:120` promises both (`FlipDrain`).
* `cache.c:254`: a failed flush returns `CACHE_FREE`, which callers take for
  true; `cache.c:245` says that all pages are flushed and clean (`Flush`).
* `fatfile.c:365`, `:390`, `:410`: the result of a direct read is ignored, and
  `read` returns the length with whatever the buffer holds (`ReadSectors`).
* `directory.c:233-241`: when the directory ends in the last cluster, or the card
  was found full before, the cluster for its extension comes back unlinked.
  `addEntry` moves into it, writes the entry there and returns true; the
  entry is in no directory (`Lengthened`, `outside`).
* `test.c:543`: the read number is stored from a write number loaded before. When
  the escape function read on in between, it moves back, and more than a ring
  waits (`Advance`, `stale`).
* `game.c:496`: a command that the handler does not know clears the request bit
  like 0xc0, and a request signalled just before stays unsignalled (`NdsUnknown`).
* `mmc_protocol.c:111`: for a CSD of structure 2 or 3 the number of blocks is
  computed from a `c_size` that was not read (`BlockNum`).
* `mmc_hardware.c:706-754`, `dma.c:118`: the data phase is entered whatever the
  response says, and waited for without a limit (`Hang`).
* `mmc_api.c:62`, `:143`: `MMC_Initialize` resets the addressing before it looks for
  a card, and transfers do not ask whether it succeeded (`Call`, `failed`).
* `fatfile.c:604-613`: a write that finds the card full returns with its
  position at the start of the last cluster (`full`).
* `mmc_hardware.c:493`: errors of the data phase are not passed on (`data`).
* `fatdir.c:314`: a rename whose removal fails returns without a flush
  (`RenameEntry`). A power cut between the two entries leaves both on the card,
  and a second one can leave a name that is listed twice (`torn`).
* `fatdir.c:164`: unlinking a file that was truncated when it was opened frees the
  chain of the cluster that its entry still names. The truncation has freed that
  chain, and part of it may be the directory's own by then, which is cut off
  there (`Unlink` with `stray`).
* `memory.c:235`: a realloc that grows into its right neighbour does not count
  the header and does not tell the next block (`past`, `prev`).
* `key.c:83`: presses and releases in one sample lose the releases; `getKey` does
  not remember a release until the next press (`mixed`, `shared`).
* `file_allocation_table.c:100`: the top four bits of a FAT32 entry are not masked
  off (`Stored32`).
* `directory.c:732-737` and `:863-874`: the comparison of alias tails is
  commented out; aliases are not modelled.

## 4. What is proved

For every value of the constants that satisfies the ASSUMEs of the modules
(finite set of buffers, ring at least as large; at least two pages; a word that
is a multiple of the ring; sectors of a multiple of four bytes; a heap whose
header is a multiple of its unit; and so on).

*NdsScreen_proofs, the ring.* `TypeCorrect`, `RingNeverOverruns`,
`UsedBuffersHaveOneRequest`, `NoLostWakeup`. `OneRequestPerUsedBuffer` is not
inductive: it counts requests, and a step needs to know which request belongs
to which buffer. The inductive invariant `IInv` adds what each context knows of
its own request (`CtxInv`: its number is behind `w`, two contexts never
hold the same one, the nesting count is the number of contexts inside) and a
pairing of pending numbers and used buffers (`RingInv`). That the ring cannot
wrap onto itself follows from the pairing by a pigeonhole lemma; that two
pending numbers have different slots from arithmetic modulo the ring's size.
`NoLostWakeup` has an invariant of its own (`SignalInv`); only an unknown command
loses a wake-up.

*NdsScreen_proofs, the flips.* `ScreensUseRing`: each step of a flip is a step or a
stutter of the ring, so that all of the above holds of it. `ScreenTypeCorrect`;
`DrawTargetsAreIdle`, whose invariant (`FlipInv`, `DrawInv`, on top of `IInv`)
says in which phases of a flip the handle's buffer, the looked-up one or both
are known idle, and that nothing but a flip of that screen makes an idle buffer
busy.

*NdsInput_proofs.* `InputTypeCorrect`, `CopiesAreWhole`, `ReadsAreFresh`,
`EventsTell`. `RingInv` counts waiting samples modulo the word and says that
the newest is in the slot before the write number, short of a `stale` store; `CopyInv` that the slot being
copied is not one that the next command writes; `FreshInv` that the samples
still in the ring came during the read.

*FatAlloc_proofs, the cache.* `CacheTypeCorrect`, `NoDoubledSector`, `CleanPagesMatch`.
The three invariants are inductive only together. The proof has a lemma
for a step that replaces one page (`OneReplaced`), of which a hit, a load and a
failed load are instances, and one each for flush, direct write, clearing and
invalidation. `CacheImplementsStore` is the refinement that the run `cache`
checks on two pages. The view is defined by a CHOOSE over pages, which
`OnePagePerSector` makes a function of the sector (`ViewOfFacts`); then each
action is shown to be an operation of the store. A direct read shows the card or,
when it failed, nothing that could be relied on; a flush that met no failure makes
all durable.

*FatTable_proofs* holds what FatAlloc, FatFile and FatDir need of the table: that
the search of `linkFreeCluster` finds a free entry or there is none, what
linking and freeing leave alone, that a chain is closed and holds nothing it
need not. It also holds the induction of these proofs, see below.

*FatAlloc_proofs, the table.* `AllocTypeCorrect`; `FullReportsAreTrue`; `ClustersHaveOneOwner`,
from `SingleInv`: every cluster has one predecessor, be it a link, an entry or a
handle, and no first cluster is linked to. That two chains are then disjoint
follows without induction: `Chain` is the least closed set, and what
one chain has outside the other is closed too. `NothingIsLost`, from `LostInv`:
every cluster in use has a predecessor (`Covered`) and the chains are where
their files are (`Placed`). `EntriesMakeTable`: for each format of an entry,
writing it changes the bytes of that entry only, and reads as what was written,
straddling entries of 12 bits included.

*FatFile_proofs.* `FileTypeCorrect`, `FilePositionsMeet`, `FileChainFits`,
`FileShortOnlyWhenFull`, `FileTransfersMeet`: all invariants of the run `file`.
None is inductive alone. `FileInv` joins them: the table is clean, the hint is good
and no two chains meet (`Owned`); a handle that does not write leaves the entry
as it is (`Kept`); the file's chain is a path of exactly as many clusters as its
size needs (`Fitted`); the two positions stand where the bytes they are for are
(`Placed`). The first two hold whatever was met, the others while nothing but
`stale` was. The argument:

1. A chain as a *path*: its first `m` clusters (`Nth`) are in use, linked one to
   the next, and the last one ends it. As no cluster has two predecessors (`Alone`)
   a path does not come back to a cluster, so that its length is that of the
   chain as a set (`PathIsChain`) and at most that of the table; it
   depends on its own clusters only (`PathFrame`), which is why another file's
   allocations and frees do not matter; and a free cluster behind its
   last one makes it one longer (`PathGrows`).
2. Arithmetic: the number of clusters that fits a size is unique
   (`FitsIsUnique`), hence it is `Needed`, however it was reached.
3. A transfer is a run of turns, a piece and a move to the next cluster.
   `Aligned` says of every state of the run that it stands at the byte it
   should and has touched the places of the bytes before it, in their order;
   `OnCard` that it stops only where no cluster is free; `Progress` that the
   turns the model allows it suffice. A read within the file is shown to be the
   same run as a write that links nothing (`RunWithin`). An append or a write past
   the end is such a run for the zeroes and one behind it.
4. Seek walks along the chain as many clusters as lie between the two
   positions (`SoughtStands`), one fewer at the very end.

*FatDir_proofs.* `DirTypesHold`, `ListingHolds`, `ClustersHold`, `UntouchedHolds`: all
invariants of the run `dir`. What a directory lists depends on runs of slots over
a chain of clusters, which calls change while the card has something older, so
that the inductive invariant says where everything is. `DirInvariant` is that
`DirInv` is one; it has a part for each question:

1. `PathInv`: in the cache and on the card the directory is a path of the table
   (`Pathed`): linked one to the next, no cluster twice, and every other cluster
   in use links to none. Only a stray unlink frees one of them, and only the last
   cluster (`tail`) is ever used without being linked.
2. `ListInv`: the slots hold the entries and nothing else (`Filed`): each entry has
   a run of its slots as `addEntry` writes them, no two have one name, no slot in
   use is outside of a run, and no end marker lies before one. The entries are
   those of the names, and what the call under way and the open file remember is
   one of them (`Lists`).
3. `OwnInv`: every cluster in use outside of the path is one owner's (`Owns`). The
   owners are the entries, the open file's in its entry's stead, and the call's:
   a directory being made has its cluster before its entry, a file being removed
   has its entry but no cluster. The entry of the open file may name a cluster
   that truncation freed and that became the directory's own since; it then lies
   before it, which is why the end of an open file's entry stays in the directory, if it
   was written there (`outside`).
4. `StepInv`: which traps a call in the middle of its steps may have met.

The scan of `getNextEntry` is a recursion over the slots. `FiledListing` ties it to
its outcome: in slots that are `Filed` with some entries it lists exactly those.
No other proof looks into the scan; each call is shown to keep `Filed`, for the
entries it should leave (`AddedIs`, `FiledChanged`, `FiledRemoved`). The gap
for a new entry is where `Filed` is at stake: it lies before the end marker among
deleted slots, or at the marker, in a directory that was made longer by a cluster
or two and that has a new marker behind the gap, if there is a slot for one; a
walk that left the directory says so (`outside`), and nothing is claimed of
what was written behind it.

`UntouchedHolds` is about the card, which no step of a call writes in order: any
page may be evicted at any time, the table's too. So nothing is said of the card
as a whole. `SafeInv` says of a file that nobody touched since the last flush
that its slots on the card are those `addEntry` wrote (`Settled`), that the card's
table has its cluster in use, and that no slot on the card names that cluster but
those of entries which the program lists too. The slots are counted along the path
that the program sees (`Kept`), of which the card's path is a beginning: what lies
behind it cannot be read yet, but will be once the table is evicted. An
eviction replaces slots by those that the program sees, and the run of an untouched
entry is the same in both (`SettledMix`); a call leaves the card, or clears a
cluster that it appends (`Grows`), and its entries are about other names and,
by `Owns`, other clusters (`Moves`); after a flush and after a power cut
both are the same (`Fresh`).

*Heap_proofs.* `HeapTypeCorrect`, `ChainsAreSound`, `FreeBlocksAreMerged`,
`HeldBlocksAreReserved`, `RefusalsAreTrue`, `ReallocsKeepContents`: all
invariants of the run `heap`. `HeapInv` is the first four together, `LastCall`
what the history says of the last call. Soundness is stated of each block and the
next one (`Sound`: a block ends where the next begins, and that one knows it),
and the blocks, which the model collects by following `next`, are shown to be the
least set that holds the first and is closed under it, so that a step has to be
looked at around the block it changes only:
splitting (`Divide`) and merging (`Join`) keep `Sound` and, in the order
in which the code does them, `Tight` (no two free neighbours). That a refusal is
true needs `Tight`: a run of free bytes between held blocks is then a single
block, and the walk over the blocks has looked at it. Requests that wrap and the
broken realloc are the excepted traps; the arithmetic modulo the word is not
idealised.

*MmcDriver_proofs.* `MmcTypeCorrect`, `CardsAreKnown`, `SuccessesAreRight`,
`LostCardsAreNoticed`. Between commands the driver relies on what it learned
long ago; the invariant has it in three parts: what the initialisation knows at each
state (`LearnInv`), what a card that is not upset is relied on for later
(`RelyInv`), and what a transfer under way has established (`CallInv`), through
its data phase up to the response that is only looked at afterwards.

**Induction.** The induction theorems of the library take a predicate as a
parameter, which the installed provers cannot instantiate. That the natural
numbers are well-founded can be said with a set in the predicate's place: a set
that has 0 and with every number the next one has them all (`SetInduction`,
from the well-foundedness of `<` as a set of pairs). An induction then names
the set of numbers for which the claim holds, and a recursive function such as
`Nth`, `Run` or `Walked` is tied to the values one expects by the iteration that
exists by that induction (`Iterates`, `IteratesForEver`).

**Only model-checked.** The liveness properties `QueuedIsServed`, `FlipReturns`
and `CallsReturn`, which are out of the prover's reach, and the three findings,
which are runs that end in a violation. Every other property of a run is stated
by a theorem.

## 5. What is not modelled, and why

* Pixels, samples, the characters of names and their aliases, paths and the
  current directory, byte contents of files: the properties do not tell them
  apart. A frame dropped by `done = 0` is a branch of `FlipUpdate` without a
  property.
* Audio counters (`nds_audio_w`, `nds_audio_r`): what fills and drains them is the
  NDS's own clock. Their buffers are among those of IqeQueue.
* The chunked transfer of `data_line_interrupt` and the register sequences of
  interrupts, timers, DMA, power and single commands: hardware I/O whose
  outcomes (a transfer is over, or bad; a command or its response is lost; a wait
  does not end) are steps of the models above them.
* The text ring of the console: formatting. The slots of `fs_api.c`: a search
  for a free index. Mounting: the geometry is read once, and an unmount is
  `Invalidate`.
* Read errors of the table (`file_allocation_table.c:64`), whose entries then
  count as free: FatCache has the failing transfers, FatAlloc takes the table as
  readable.
* `plug.c`: the hand-over to another program, after which nothing of the state
  is used. `fatfile_ex.c`, `fatdir_ex.c` and `mmc_hotplug.c`: not in the build.
* zlib, libc, start-up code, register headers and the example: vendored,
  stateless, declarations only, or a demonstration. They are most of the
  repository's lines.

## 6. What is left

1. Table reads that fail, in FatAlloc: which files a read error can damage.
2. Audio counters with the commands 0xc4 and the fill level, composed with
   IqeQueue.
3. `data_line_interrupt`: the pointer and the remaining length that the next
   command may change while a transfer is under way.
