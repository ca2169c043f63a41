------------------------------ MODULE FatTable ------------------------------
(***************************************************************************)
(* The file allocation table as a value, and the functions of              *)
(* src/libsrc/fs/file_allocation_table.c that read and change it.          *)
(* A cluster's entry holds the next cluster of its file, EOF, or FREE.     *)
(* The three formats of an entry on the card are left out, and so are card *)
(* errors: the table is read and written through FatCache.                 *)
(***************************************************************************)
EXTENDS Integers, FiniteSets

CONSTANTS
    LastCluster,    \* fat.lastCluster
    EOF             \* CLUSTER_EOF

FREE == 0           \* CLUSTER_FREE
FIRST == 2          \* CLUSTER_FIRST
Clusters == FIRST .. LastCluster

ASSUME TableAssumption ==
    /\ LastCluster \in Nat /\ LastCluster >= FIRST
    /\ EOF \notin Nat

\* Entries 0 and 1 are reserved and read as end of file.  The program can be
\* made to look at the entry past lastCluster too.
Entries == 0 .. LastCluster + 1

\* An empty table.
EmptyTable == [c \in Entries |-> IF c < FIRST THEN EOF ELSE FREE]

\* writeFatEntry refuses the reserved entries and those past lastCluster.
Put(lk, c, v) == IF c \in Clusters THEN [lk EXCEPT ![c] = v] ELSE lk

Least(S) == CHOOSE c \in S : \A d \in S : c <= d

\* Mutant: the search stops at the end of the table.
FirstFromNoWrap(free, from) ==
    IF \E c \in free : c > from THEN Least({c \in free : c > from}) ELSE LastCluster + 2

\* The first free cluster behind `from', else the first of all: the search
\* goes around once.  LastCluster + 2 stands for finding none.
FirstFrom(free, from) ==
    IF \E c \in free : c > from THEN Least({c \in free : c > from})
    ELSE IF free # {} THEN Least(free) ELSE LastCluster + 2

\* The search of linkFreeCluster for a free entry: the first entry is looked
\* at even when it lies past lastCluster.
Search(lk, from) ==
    IF lk[from] = FREE THEN from
    ELSE FirstFrom({c \in Clusters : lk[c] = FREE}, from)

Result(lk, ff, c) == [link |-> lk, firstFree |-> ff, cluster |-> c]

\* Mutant: the new cluster's own entry is not written.
TakenNoMark(lk, c, new) ==
    IF new > LastCluster + 1 THEN Result(lk, LastCluster + 1, FREE)
    ELSE Result(Put(lk, c, new), new, new)

\* Mutant: a fruitless search leaves firstFree where its index ended up after
\* one more step.
TakenPastEnd(lk, c, new) ==
    IF new > LastCluster + 1 THEN Result(lk, new, FREE)
    ELSE Result(Put(Put(lk, c, new), new, EOF), new, new)

\* What linkFreeCluster does with the cluster its search found.  The link is
\* only written into clusters below lastCluster.
Taken(lk, c, new) ==
    IF new > LastCluster + 1 THEN Result(lk, LastCluster + 1, FREE)
    ELSE Result(Put(IF c < LastCluster THEN Put(lk, c, new) ELSE lk, new, EOF), new, new)

\* _FAT_fat_linkFreeCluster.  firstFree is never below CLUSTER_FIRST here.
LinkFree(lk, ff, c) ==
    IF c > LastCluster THEN Result(lk, ff, FREE)
    ELSE IF lk[c] \in Clusters THEN Result(lk, ff, lk[c])
    ELSE Taken(lk, c, Search(lk, ff))

\* Sets that c belongs to and no link leads out of.
ClosedSets(lk, c) ==
    {S \in SUBSET Clusters : ({c} \cup {lk[d] : d \in S}) \cap Clusters \subseteq S}

\* The clusters met by following the table from c.
Chain(lk, c) == {d \in Clusters : \A S \in ClosedSets(lk, c) : d \in S}

\* Mutant: only the first cluster of a file is freed.
ClearHead(lk, ff, c) ==
    IF c \notin Clusters THEN Result(lk, ff, c)
    ELSE Result(Put(lk, c, FREE), IF c < ff THEN c ELSE ff, c)

\* _FAT_fat_clearLinks.  Only the first cluster of the chain can lower
\* firstFree.
ClearLinks(lk, ff, c) ==
    IF c \notin Clusters THEN Result(lk, ff, c)
    ELSE LET chain == Chain(lk, c) IN
         Result([e \in Entries |-> IF e \in chain THEN FREE ELSE lk[e]],
                IF c < ff THEN c ELSE ff, c)

\* The traps of one call that was given c and returned res.
Traps(c, res) ==
    (IF c = LastCluster /\ res.cluster # FREE THEN {"tail"} ELSE {})
    \cup (IF res.cluster > LastCluster THEN {"beyond"} ELSE {})
=============================================================================
