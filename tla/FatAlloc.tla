------------------------------ MODULE FatAlloc ------------------------------
(***************************************************************************)
(* Cluster allocation of the FAT library (src/libsrc/fs/                   *)
(* file_allocation_table.c) and the calls of fatfile.c and fatdir.c that   *)
(* drive it: open, write past the end of a cluster, rewind, close, unlink. *)
(*                                                                         *)
(* A cluster's entry in the table holds the next cluster of its file, EOF, *)
(* or FREE.  Files are found through the start cluster their directory     *)
(* entry names; an open file has a start cluster and a write position of   *)
(* its own, and the directory entry only learns of them at close.          *)
(* The table is read and written through FatCache, without card errors.    *)
(***************************************************************************)
EXTENDS FatTable

CONSTANTS
    Files,          \* the names files can have
    Absent,         \* no directory entry; no open handle
    MaxTraps        \* bound: the table is left alone once more traps were met

Handle == [start : Entries, pos : Entries]

ASSUME AllocAssumption ==
    /\ MaxTraps \in Nat
    /\ Absent \notin Nat \cup {EOF} \cup Handle

VARIABLES
    link,       \* the table, one entry past lastCluster included
    firstFree,  \* fat.firstFree
    dir,        \* start cluster in each file's directory entry
    handle,     \* each file's open handle: start cluster, write position
    upset       \* history: which of the code's own traps were stepped into

allocVars == <<link, firstFree, dir, handle, upset>>

\* tail: the last cluster of a file was lastCluster, so it got no link.
\* beyond: the entry past lastCluster was handed out.
\* empty: an open went on without a cluster.
\* unlinked: an open file was unlinked.
Trap == {"tail", "beyond", "empty", "unlinked"}

AllocInit ==
    /\ link = EmptyTable
    /\ firstFree = FIRST
    /\ dir = [f \in Files |-> Absent]
    /\ handle = [f \in Files |-> Absent]
    /\ upset = {}

-----------------------------------------------------------------------------
(* fatfile.c and fatdir.c                                                  *)

Going == Cardinality(upset) <= MaxTraps

\* _FAT_open_r for writing.  A file that does not exist is created without a
\* cluster; truncation frees the old chain; a missing cluster is allocated,
\* and whether there was one is not looked at.
Open(f, trunc) ==
    LET old == IF dir[f] = Absent THEN FREE ELSE dir[f]
        cut == IF trunc /\ old # FREE THEN ClearLinks(link, firstFree, old)
               ELSE Result(link, firstFree, old)
        new == LinkFree(cut.link, cut.firstFree, FREE)
    IN
    /\ Going
    /\ handle[f] = Absent
    /\ dir' = [dir EXCEPT ![f] = old]
    /\ IF trunc \/ old = FREE
       THEN /\ link' = new.link /\ firstFree' = new.firstFree
            /\ handle' = [handle EXCEPT ![f] = [start |-> new.cluster, pos |-> new.cluster]]
            /\ upset' = upset \cup Traps(FREE, new)
                          \cup (IF new.cluster = FREE THEN {"empty"} ELSE {})
       ELSE /\ handle' = [handle EXCEPT ![f] = [start |-> old, pos |-> old]]
            /\ UNCHANGED <<link, firstFree, upset>>

\* _FAT_write_r at the end of a cluster: go to the next one, which is
\* allocated at the end of the chain; without space the write ends (ENOSPC).
Extend(f) ==
    LET c == handle[f].pos
        new == LinkFree(link, firstFree, c)
    IN
    /\ Going
    /\ handle[f] # Absent
    /\ IF link[c] \in {EOF, FREE}
       THEN /\ link' = new.link /\ firstFree' = new.firstFree
            /\ handle' = IF new.cluster = FREE THEN handle
                         ELSE [handle EXCEPT ![f].pos = new.cluster]
            /\ upset' = upset \cup Traps(c, new)
       ELSE /\ handle' = [handle EXCEPT ![f].pos = link[c]]
            /\ UNCHANGED <<link, firstFree, upset>>
    /\ UNCHANGED dir

\* _FAT_seek_r to the start.
Rewind(f) ==
    /\ handle[f] # Absent
    /\ handle' = [handle EXCEPT ![f].pos = handle[f].start]
    /\ UNCHANGED <<link, firstFree, dir, upset>>

\* _FAT_close_r: the directory entry, unless deleted, learns the start.
Close(f) ==
    /\ handle[f] # Absent
    /\ dir' = IF dir[f] = Absent THEN dir ELSE [dir EXCEPT ![f] = handle[f].start]
    /\ handle' = [handle EXCEPT ![f] = Absent]
    /\ UNCHANGED <<link, firstFree, upset>>

\* _FAT_unlink_r: the chain the directory entry names is freed, open or not.
Unlink(f) ==
    LET cut == ClearLinks(link, firstFree, dir[f])
    IN
    /\ Going
    /\ dir[f] # Absent
    /\ link' = cut.link /\ firstFree' = cut.firstFree
    /\ dir' = [dir EXCEPT ![f] = Absent]
    /\ upset' = upset \cup (IF handle[f] = Absent THEN {} ELSE {"unlinked"})
    /\ UNCHANGED handle

AllocNext ==
    \E f \in Files :
        \/ \E trunc \in BOOLEAN : Open(f, trunc)
        \/ Extend(f)
        \/ Rewind(f)
        \/ Close(f)
        \/ Unlink(f)

AllocSpec == AllocInit /\ [][AllocNext]_allocVars

-----------------------------------------------------------------------------
\* Where a file's chain starts: in its handle, else in its directory entry.
Start(f) == IF handle[f] # Absent THEN handle[f].start ELSE dir[f]

\* Type invariant; the reserved entries never change and firstFree is at most
\* one past the table.
AllocTypeOK ==
    /\ link \in [Entries -> Entries \cup {EOF}]
    /\ \A c \in Entries : c < FIRST => link[c] = EOF
    /\ firstFree \in FIRST .. LastCluster + 1
    /\ dir \in [Files -> Entries \cup {Absent}]
    /\ handle \in [Files -> Handle \cup {Absent}]
    /\ upset \subseteq Trap

\* No cluster belongs to two files, or twice to one: it is the start of one
\* file or the successor of one cluster, and its entry says that it is in use.
NoCrossLink ==
    upset \cap {"beyond", "unlinked"} = {} =>
        \A c \in Clusters :
            LET starts == {f \in Files : Start(f) = c}
                before == {d \in Clusters : link[d] = c}
            IN  /\ Cardinality(starts) + Cardinality(before) <= 1
                /\ starts \cup before # {} => link[c] # FREE

\* Every cluster in use is reached from some file: nothing leaks, and what was
\* written can be found again.
NoLostCluster ==
    upset = {} =>
        {c \in Clusters : link[c] # FREE} = UNION {Chain(link, Start(f)) : f \in {g \in Files : Start(g) # Absent}}

\* The calls of linkFreeCluster the program can make next.
Asked == {FREE} \cup {handle[f].pos : f \in {g \in Files : handle[g] # Absent}}

\* A call reports a full card only when there is no free cluster, although
\* firstFree may point past free ones: clearLinks lowers it to the first
\* cluster of a chain only.
FullOnlyWhenFull ==
    \A c \in Asked :
        (c <= LastCluster /\ LinkFree(link, firstFree, c).cluster = FREE)
            => \A d \in Clusters : link[d] # FREE

\* file_allocation_table.c:204-207: linkFreeCluster takes a free cluster, "sets it
\* to end of file, links the input cluster to it then returns the cluster number".
LinkFreeAsCommented ==
    upset = {} => \A c \in Asked :
        LET res == LinkFree(link, firstFree, c) IN
        res.cluster # FREE =>
            /\ res.link[res.cluster] # FREE
            /\ c >= FIRST => res.link[c] = res.cluster
=============================================================================
