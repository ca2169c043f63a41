--------------------------- MODULE FatAlloc_proofs ---------------------------
(***************************************************************************)
(* Proofs about the allocation of clusters and about the sectors below it. *)
(*                                                                         *)
(* First FatAlloc, for every number of clusters, every set of files and    *)
(* every bound on the traps: the type invariant, which alone gives         *)
(* FullOnlyWhenFull; single predecessors, which give NoCrossLink; and with *)
(* them that every cluster in use is reached.                              *)
(*                                                                         *)
(* Then the bytes on the card: writing an entry of the table and reading   *)
(* the table back is the Put of FatTable, in each of the three formats,    *)
(* for every sector size, every content of the card and every cluster.     *)
(*                                                                         *)
(* Last the cache that holds those sectors: the invariants of FatCache,    *)
(* and that it implements BlockStore, for every number of pages, sectors   *)
(* and pieces of a sector.  The three invariants are proved together: an   *)
(* eviction keeps a clean page's content on the card (CleanPageIsOnDisc)   *)
(* because no other page holds its sector (OnePagePerSector), and a dirty  *)
(* page is never free (CacheTypeOK), so that what is written back has a    *)
(* place on the card.                                                      *)
(***************************************************************************)
EXTENDS FatAlloc, FatEntry, FatCache, FatTable_proofs

LEMMA AllocNumbers ==
    /\ LastCluster \in Nat /\ LastCluster >= 2
    /\ FIRST = 2 /\ FREE = 0
    /\ EOF \notin Nat /\ Absent \notin Nat /\ Absent # EOF
    /\ Clusters = 2 .. LastCluster /\ Entries = 0 .. LastCluster + 1
    /\ Clusters \subseteq Entries /\ FREE \in Entries /\ FREE \notin Clusters
    /\ EOF \notin Clusters /\ EOF \notin Entries /\ EOF # FREE
    /\ Absent \notin Clusters /\ Absent \notin Entries
    /\ \A c \in Entries : [start |-> c, pos |-> c] # Absent
BY TableAssumption, AllocAssumption DEF FIRST, FREE, Clusters, Entries, Handle

-----------------------------------------------------------------------------
(* The type invariant                                                      *)

LEMMA AllocTypeInit == AllocInit => AllocTypeOK
BY AllocNumbers DEF AllocInit, AllocTypeOK, EmptyTable

\* Every action of every file keeps the types.
LEMMA AllocTypeStep ==
    ASSUME AllocTypeOK, AllocNext
    PROVE  AllocTypeOK'
<1>. USE DEF AllocTypeOK
<1>1. link \in Tables
  BY DEF Tables, Links
<1>2. PICK f \in Files : \/ \E trunc \in BOOLEAN : Open(f, trunc)
                         \/ Extend(f) \/ Rewind(f) \/ Close(f) \/ Unlink(f)
  BY DEF AllocNext
<1>3. \A lk \in Tables : /\ lk \in [Entries -> Entries \cup {EOF}]
                         /\ \A c \in Entries : c < FIRST => lk[c] = EOF
  BY DEF Tables, Links
<1>4. ASSUME NEW trunc \in BOOLEAN, Open(f, trunc)
      PROVE  AllocTypeOK'
  <2>. DEFINE old == IF dir[f] = Absent THEN FREE ELSE dir[f]
              cut == IF trunc /\ old # FREE THEN ClearLinks(link, firstFree, old)
                     ELSE Result(link, firstFree, old)
              new == LinkFree(cut.link, cut.firstFree, FREE)
  <2>1. old \in Entries
    BY AllocNumbers
  <2>2. cut.link \in Tables /\ cut.firstFree \in FIRST .. LastCluster + 1
    <3>1. CASE trunc /\ old # FREE
      BY <1>1, <2>1, <3>1, ClearLinksType
    <3>2. CASE ~(trunc /\ old # FREE)
      BY <1>1, <3>2 DEF Result
    <3>. QED BY <3>1, <3>2
  <2>3. /\ new.link \in Tables /\ new.firstFree \in FIRST .. LastCluster + 1
        /\ new.cluster \in Entries
    <3>. HIDE DEF cut
    <3>. QED BY <2>2, LinkFreeType, AllocNumbers
  <2>4. dir' = [dir EXCEPT ![f] = old]
    BY <1>4 DEF Open
  <2>5. CASE trunc \/ old = FREE
    <3>1. /\ link' = new.link /\ firstFree' = new.firstFree
          /\ handle' = [handle EXCEPT ![f] = [start |-> new.cluster, pos |-> new.cluster]]
          /\ upset' = upset \cup Traps(FREE, new)
                        \cup (IF new.cluster = FREE THEN {"empty"} ELSE {})
      BY <1>4, <2>5 DEF Open
    <3>. HIDE DEF old, new
    <3>2. [start |-> new.cluster, pos |-> new.cluster] \in Handle
      BY <2>3 DEF Handle
    <3>3. upset' \subseteq Trap
      BY <3>1 DEF Traps, Trap
    <3>. QED BY <1>3, <2>1, <2>3, <2>4, <3>1, <3>2, <3>3
  <2>6. CASE ~(trunc \/ old = FREE)
    <3>1. /\ handle' = [handle EXCEPT ![f] = [start |-> old, pos |-> old]]
          /\ UNCHANGED <<link, firstFree, upset>>
      BY <1>4, <2>6 DEF Open
    <3>. HIDE DEF old
    <3>2. [start |-> old, pos |-> old] \in Handle
      BY <2>1 DEF Handle
    <3>. QED BY <2>1, <2>4, <3>1, <3>2
  <2>. QED BY <2>5, <2>6
<1>5. ASSUME Extend(f)
      PROVE  AllocTypeOK'
  <2>. DEFINE c == handle[f].pos
              new == LinkFree(link, firstFree, c)
  <2>1. handle[f] \in Handle /\ c \in Entries
    BY <1>5 DEF Extend, Handle
  <2>2. /\ new.link \in Tables /\ new.firstFree \in FIRST .. LastCluster + 1
        /\ new.cluster \in Entries
    BY <1>1, <2>1, LinkFreeType
  <2>3. \A p \in Entries : [handle EXCEPT ![f].pos = p] \in [Files -> Handle \cup {Absent}]
    BY <2>1 DEF Handle
  <2>4. CASE link[c] \in {EOF, FREE}
    <3>1. /\ link' = new.link /\ firstFree' = new.firstFree /\ dir' = dir
          /\ handle' = IF new.cluster = FREE THEN handle
                       ELSE [handle EXCEPT ![f].pos = new.cluster]
          /\ upset' = upset \cup Traps(c, new)
      BY <1>5, <2>4 DEF Extend
    <3>. HIDE DEF c, new
    <3>2. upset' \subseteq Trap
      BY <3>1 DEF Traps, Trap
    <3>. QED BY <1>3, <2>2, <2>3, <3>1, <3>2
  <2>5. CASE link[c] \notin {EOF, FREE}
    <3>1. /\ handle' = [handle EXCEPT ![f].pos = link[c]]
          /\ UNCHANGED <<link, firstFree, dir, upset>>
      BY <1>5, <2>5 DEF Extend
    <3>2. link[c] \in Entries
      BY <2>1, <2>5
    <3>. QED BY <2>3, <3>1, <3>2
  <2>. QED BY <2>4, <2>5
<1>6. ASSUME Rewind(f)
      PROVE  AllocTypeOK'
  BY <1>6 DEF Rewind, Handle
<1>7. ASSUME Close(f)
      PROVE  AllocTypeOK'
  BY <1>7 DEF Close, Handle
<1>8. ASSUME Unlink(f)
      PROVE  AllocTypeOK'
  <2>. DEFINE cut == ClearLinks(link, firstFree, dir[f])
  <2>1. dir[f] \in Entries
    BY <1>8 DEF Unlink
  <2>2. cut.link \in Tables /\ cut.firstFree \in FIRST .. LastCluster + 1
    BY <1>1, <2>1, ClearLinksType
  <2>3. /\ link' = cut.link /\ firstFree' = cut.firstFree
        /\ dir' = [dir EXCEPT ![f] = Absent] /\ handle' = handle
        /\ upset' = upset \cup (IF handle[f] = Absent THEN {} ELSE {"unlinked"})
    BY <1>8 DEF Unlink
  <2>. HIDE DEF cut
  <2>. QED BY <1>3, <2>2, <2>3 DEF Trap
<1>. QED BY <1>2, <1>4, <1>5, <1>6, <1>7, <1>8

LEMMA AllocTypeStutter == AllocTypeOK /\ UNCHANGED allocVars => AllocTypeOK'
BY DEF AllocTypeOK, allocVars

\* The table, firstFree, the directory and the handles keep their types for
\* every number of clusters; the reserved entries are never written, and
\* firstFree, which linkFreeCluster and clearLinks move, ends at most one past
\* the table.
THEOREM AllocTypeCorrect == AllocSpec => []AllocTypeOK
<1>1. AllocTypeOK /\ [AllocNext]_allocVars => AllocTypeOK'
  BY AllocTypeStep, AllocTypeStutter
<1>. QED BY <1>1, AllocTypeInit, PTL DEF AllocSpec

\* Wherever firstFree stands, linkFreeCluster reports a full card only when
\* every cluster is in use: the search goes around the whole table.
THEOREM FullReportsAreTrue == AllocSpec => []FullOnlyWhenFull
<1>1. AllocTypeOK => FullOnlyWhenFull
  <2>. SUFFICES ASSUME AllocTypeOK, NEW c \in Asked, c <= LastCluster,
                       LinkFree(link, firstFree, c).cluster = FREE
                PROVE  \A d \in Clusters : link[d] # FREE
    BY DEF FullOnlyWhenFull
  <2>1. c \in Entries
    BY AllocNumbers DEF Asked, AllocTypeOK, Handle
  <2>2. link \in Links /\ firstFree \in FIRST .. LastCluster + 1
    BY DEF AllocTypeOK, Links
  <2>3. \A l, ff, n : Result(l, ff, n).cluster = n
    BY DEF Result
  <2>4. FREE \notin Clusters /\ FREE \notin FIRST .. LastCluster + 1 /\ ~(c > LastCluster)
    BY <2>1, AllocNumbers
  <2>. DEFINE res == LinkFree(link, firstFree, c)
  <2>5. \/ \E v \in Clusters : res = Result(link, firstFree, v)
        \/ \E n \in FIRST .. LastCluster + 1 : res = Result(Linked(link, c, n), n, n)
        \/ \A d \in Clusters : link[d] # FREE
    BY <2>1, <2>2, <2>4, LinkFreeIs
  <2>. HIDE DEF res
  <2>6. res.cluster = FREE
    BY DEF res
  <2>. QED BY <2>3, <2>4, <2>5, <2>6
<1>. QED BY <1>1, AllocTypeCorrect, PTL

-----------------------------------------------------------------------------
(* Single predecessors                                                     *)

\* A cluster is the start of one file or the successor of one cluster, and
\* then it is in use.  lk is a table, st gives every file's start.
Single(lk, st) ==
    \A c \in Clusters :
        /\ \A f, g \in Files : st[f] = c /\ st[g] = c => f = g
        /\ \A d, e \in Clusters : lk[d] = c /\ lk[e] = c => d = e
        /\ \A f \in Files, d \in Clusters : ~(st[f] = c /\ lk[d] = c)
        /\ \A f \in Files : st[f] = c => lk[c] # FREE
        /\ \A d \in Clusters : lk[d] = c => lk[c] # FREE

Starts == [f \in Files |-> Start(f)]
StartFcns == [Files -> Entries \cup {Absent}]

\* Freeing a file's chain.
LEMMA SingleCut ==
    ASSUME NEW lk \in Links, NEW st \in StartFcns, Single(lk, st),
           NEW f \in Files, NEW v \in Entries \cup {Absent}, v \notin Clusters, NEW ff
    PROVE  Single(ClearLinks(lk, ff, st[f]).link, [st EXCEPT ![f] = v])
<1>. DEFINE chain == Chain(lk, st[f])
            cut == ClearLinks(lk, ff, st[f]).link
            st2 == [st EXCEPT ![f] = v]
<1>1. \A d \in Clusters : cut[d] = IF d \in chain THEN FREE ELSE lk[d]
  BY ClearedIs
<1>2. \A d \in chain : d \in Clusters /\ (d = st[f] \/ \E e \in chain : e \in Clusters /\ lk[e] = d)
  BY ChainIsClosed, ChainHasPredecessors
<1>3. \A g \in Files : st2[g] \in Clusters => g # f /\ st2[g] = st[g]
  BY DEF StartFcns
<1>4. \A d \in Clusters : cut[d] \in Clusters => d \notin chain /\ cut[d] = lk[d]
  BY <1>1, AllocNumbers
<1>. HIDE DEF chain, cut, st2
<1>5. ASSUME NEW c \in Clusters, NEW g \in Files, st2[g] = c
      PROVE  cut[c] # FREE
  <2>1. c \notin chain
    BY <1>2, <1>3, <1>5 DEF Single
  <2>. QED BY <1>1, <1>3, <1>5, <2>1 DEF Single
<1>6. ASSUME NEW c \in Clusters, NEW d \in Clusters, cut[d] = c
      PROVE  cut[c] # FREE
  <2>1. d \notin chain /\ lk[d] = c
    BY <1>4, <1>6
  <2>2. c \notin chain
    BY <1>2, <2>1 DEF Single
  <2>. QED BY <1>1, <2>1, <2>2 DEF Single
<1>7. ASSUME NEW c \in Clusters
      PROVE  /\ \A g, h \in Files : st2[g] = c /\ st2[h] = c => g = h
             /\ \A d, e \in Clusters : cut[d] = c /\ cut[e] = c => d = e
             /\ \A g \in Files, d \in Clusters : ~(st2[g] = c /\ cut[d] = c)
  BY <1>3, <1>4 DEF Single
<1>8. Single(cut, st2)
  BY <1>5, <1>6, <1>7 DEF Single
<1>. QED BY <1>8 DEF cut, st2

\* A free cluster becomes the start of a file that has none.
LEMMA SingleFresh ==
    ASSUME NEW lk \in Links, NEW st \in StartFcns, Single(lk, st),
           NEW f \in Files, st[f] \notin Clusters, NEW n \in Clusters, lk[n] = FREE
    PROVE  Single(Put(lk, n, EOF), [st EXCEPT ![f] = n])
<1>. DEFINE new == Put(lk, n, EOF)
            st2 == [st EXCEPT ![f] = n]
<1>1. \A d \in Clusters : new[d] = IF d = n THEN EOF ELSE lk[d]
  BY AllocNumbers DEF Put, Links
<1>2. \A g \in Files : st2[g] = IF g = f THEN n ELSE st[g]
  BY DEF StartFcns
<1>3. \A g \in Files : st[g] # n
  BY DEF Single
<1>4. \A d \in Clusters : lk[d] # n
  BY DEF Single
<1>. HIDE DEF new, st2
<1>5. Single(new, st2)
  BY <1>1, <1>2, <1>3, <1>4, AllocNumbers DEF Single
<1>. QED BY <1>5 DEF new, st2

\* A free cluster becomes the successor of one that had none, or of nobody.
LEMMA SingleGrows ==
    ASSUME NEW lk \in Links, NEW st \in StartFcns, Single(lk, st),
           NEW p \in Entries, lk[p] \notin Clusters, NEW n \in Clusters, lk[n] = FREE
    PROVE  Single(Linked(lk, p, n), st)
<1>. DEFINE new == Linked(lk, p, n)
<1>1. \A d \in Clusters : new[d] = IF d = n THEN EOF
                                   ELSE IF d = p /\ p < LastCluster THEN n ELSE lk[d]
  BY GrownIs
<1>2. \A g \in Files : st[g] # n
  BY DEF Single
<1>3. \A d \in Clusters : lk[d] # n
  BY DEF Single
<1>. HIDE DEF new
<1>4. \A d \in Clusters, c \in Clusters : new[d] = c =>
          d # n /\ (lk[d] = c \/ (d = p /\ c = n))
  BY <1>1, AllocNumbers
<1>5. \A c \in Clusters : lk[c] # FREE => new[c] # FREE
  BY <1>1, AllocNumbers
<1>6. new[n] # FREE
  BY <1>1, AllocNumbers
<1>7. Single(new, st)
  BY <1>2, <1>3, <1>4, <1>5, <1>6 DEF Single
<1>. QED BY <1>7 DEF new

\* A file that loses its name.
LEMMA SingleDrops ==
    ASSUME NEW lk \in Links, NEW st \in StartFcns, Single(lk, st),
           NEW f \in Files, NEW v \in Entries \cup {Absent}, v \notin Clusters
    PROVE  Single(lk, [st EXCEPT ![f] = v])
<1>1. \A g \in Files : [st EXCEPT ![f] = v][g] = IF g = f THEN v ELSE st[g]
  BY DEF StartFcns
<1>. QED BY <1>1 DEF Single

SingleInv == upset \cap {"beyond", "unlinked"} = {} => Single(link, Starts)

LEMMA StartsType ==
    ASSUME AllocTypeOK
    PROVE  Starts \in StartFcns /\ link \in Links /\ firstFree \in FIRST .. LastCluster + 1
BY DEF AllocTypeOK, Starts, Start, StartFcns, Handle, Links

\* What one linkFreeCluster of a file's last cluster does, short of the trap
\* "beyond".
LEMMA AllocateSingle ==
    ASSUME NEW lk \in Links, NEW ff \in FIRST .. LastCluster + 1, NEW p \in Entries,
           NEW st \in StartFcns, Single(lk, st),
           lk[p] \notin Clusters, LinkFree(lk, ff, p).cluster <= LastCluster
    PROVE  Single(LinkFree(lk, ff, p).link, st)
<1>1. \A l, f, n : Result(l, f, n).link = l /\ Result(l, f, n).cluster = n
  BY DEF Result
<1>. DEFINE res == LinkFree(lk, ff, p)
<1>2. \/ \E f, n : res = Result(lk, f, n)
      \/ \E n \in FIRST .. LastCluster + 1 : lk[n] = FREE /\ res = Result(Linked(lk, p, n), n, n)
  BY LinkFreeIs
<1>. HIDE DEF res
<1>3. CASE \E f, n : res = Result(lk, f, n)
  BY <1>1, <1>3 DEF res
<1>4. ASSUME NEW n \in FIRST .. LastCluster + 1, lk[n] = FREE, res = Result(Linked(lk, p, n), n, n)
      PROVE  Single(res.link, st)
  <2>1. n \in Clusters
    BY <1>1, <1>4, AllocNumbers DEF res
  <2>2. Single(Linked(lk, p, n), st)
    BY <1>4, <2>1, SingleGrows
  <2>. QED BY <1>1, <1>4, <2>2
<1>. QED BY <1>2, <1>3, <1>4 DEF res

\* The same for a file that gets its first cluster.
LEMMA AllocateFirst ==
    ASSUME NEW lk \in Tables, NEW ff \in FIRST .. LastCluster + 1,
           NEW st \in StartFcns, Single(lk, st), NEW f \in Files, st[f] \notin Clusters,
           LinkFree(lk, ff, FREE).cluster <= LastCluster
    PROVE  LET res == LinkFree(lk, ff, FREE) IN
           Single(res.link, [st EXCEPT ![f] = res.cluster])
<1>1. \A l, g, n : Result(l, g, n).link = l /\ Result(l, g, n).cluster = n
  BY DEF Result
<1>2. lk \in Links /\ lk[FREE] = EOF /\ FREE \in Entries /\ ~(FREE > LastCluster)
  BY AllocNumbers DEF Tables
<1>. DEFINE res == LinkFree(lk, ff, FREE)
<1>3. \/ res = Result(lk, LastCluster + 1, FREE)
      \/ \E n \in FIRST .. LastCluster + 1 : lk[n] = FREE /\ res = Result(Linked(lk, FREE, n), n, n)
  BY <1>2, LinkFreeIs, AllocNumbers
<1>. HIDE DEF res
<1>4. ASSUME res = Result(lk, LastCluster + 1, FREE)
      PROVE  Single(res.link, [st EXCEPT ![f] = res.cluster])
  <2>1. Single(lk, [st EXCEPT ![f] = FREE])
    BY <1>2, SingleDrops, AllocNumbers
  <2>2. res.link = lk /\ res.cluster = FREE
    BY <1>1, <1>4
  <2>. QED BY <2>1, <2>2
<1>5. ASSUME NEW n \in FIRST .. LastCluster + 1, lk[n] = FREE, res = Result(Linked(lk, FREE, n), n, n)
      PROVE  Single(res.link, [st EXCEPT ![f] = res.cluster])
  <2>1. n \in Clusters
    BY <1>1, <1>5, AllocNumbers DEF res
  <2>2. Linked(lk, FREE, n) = Put(lk, n, EOF)
    BY AllocNumbers DEF Linked, Put
  <2>3. Single(Put(lk, n, EOF), [st EXCEPT ![f] = n])
    BY <1>2, <1>5, <2>1, SingleFresh
  <2>4. res.link = Put(lk, n, EOF) /\ res.cluster = n
    BY <1>1, <1>5, <2>2
  <2>. QED BY <2>3, <2>4
<1>6. Single(res.link, [st EXCEPT ![f] = res.cluster])
  <2>1. CASE res = Result(lk, LastCluster + 1, FREE)
    BY <1>4, <2>1
  <2>2. CASE \E n \in FIRST .. LastCluster + 1 :
               lk[n] = FREE /\ res = Result(Linked(lk, FREE, n), n, n)
    BY <1>5, <2>2
  <2>. QED BY <1>3, <2>1, <2>2
<1>. QED BY <1>6 DEF res

LEMMA BeyondIsTold ==
    ASSUME NEW c, NEW res, res.cluster \in Entries, "beyond" \notin Traps(c, res)
    PROVE  res.cluster <= LastCluster
BY AllocNumbers DEF Traps

LEMMA SingleInit == AllocInit => SingleInv
BY AllocNumbers DEF AllocInit, SingleInv, Single, Starts, Start, EmptyTable

LEMMA SingleOpen ==
    ASSUME AllocTypeOK, SingleInv, NEW f \in Files, NEW trunc \in BOOLEAN, Open(f, trunc)
    PROVE  SingleInv'
<1>. DEFINE old == IF dir[f] = Absent THEN FREE ELSE dir[f]
            cut == IF trunc /\ old # FREE THEN ClearLinks(link, firstFree, old)
                   ELSE Result(link, firstFree, old)
            new == LinkFree(cut.link, cut.firstFree, FREE)
<1>. SUFFICES ASSUME upset' \cap {"beyond", "unlinked"} = {}
              PROVE  Single(link', Starts')
  BY DEF SingleInv
<1>1. upset \subseteq upset' /\ handle[f] = Absent
  BY DEF Open
<1>2. Single(link, Starts)
  BY <1>1 DEF SingleInv
<1>3. dir' = [dir EXCEPT ![f] = old] /\ old \in Entries
  BY AllocNumbers DEF Open, AllocTypeOK
<1>4. Starts[f] = dir[f] /\ Starts \in StartFcns /\ link \in Tables /\ link \in Links
  BY <1>1, StartsType DEF Starts, Start, AllocTypeOK, Tables, Links
<1>5. \A h \in Entries : handle' = [handle EXCEPT ![f] = [start |-> h, pos |-> h]]
                => Starts' = [Starts EXCEPT ![f] = h]
  <2>. SUFFICES ASSUME NEW h \in Entries, handle' = [handle EXCEPT ![f] = [start |-> h, pos |-> h]]
                PROVE  Starts' = [Starts EXCEPT ![f] = h]
    OBVIOUS
  <2>0. [start |-> h, pos |-> h] # Absent
    BY AllocNumbers
  <2>1. \A g \in Files : Start(g)' = IF g = f THEN h ELSE Start(g)
    BY <1>3, <2>0 DEF Start, AllocTypeOK
  <2>. QED BY <2>1 DEF Starts
<1>6. CASE trunc \/ old = FREE
  <2>1. /\ link' = new.link
        /\ handle' = [handle EXCEPT ![f] = [start |-> new.cluster, pos |-> new.cluster]]
        /\ upset' = upset \cup Traps(FREE, new)
                      \cup (IF new.cluster = FREE THEN {"empty"} ELSE {})
    BY <1>6 DEF Open
  <2>2. \E v \in {FREE, Absent} : Single(cut.link, [Starts EXCEPT ![f] = v])
    <3>1. CASE trunc /\ old # FREE
      <4>1. Starts[f] = old
        BY <1>4, <3>1
      <4>2. Single(ClearLinks(link, firstFree, Starts[f]).link, [Starts EXCEPT ![f] = FREE])
        BY <1>2, <1>4, SingleCut, AllocNumbers
      <4>. QED BY <3>1, <4>1, <4>2
    <3>2. CASE ~(trunc /\ old # FREE)
      <4>1. Single(link, [Starts EXCEPT ![f] = FREE])
        BY <1>2, <1>4, SingleDrops, AllocNumbers
      <4>. QED BY <3>2, <4>1 DEF Result
    <3>. QED BY <3>1, <3>2
  <2>3. cut.link \in Tables /\ cut.firstFree \in FIRST .. LastCluster + 1
    <3>1. CASE trunc /\ old # FREE
      BY <1>3, <1>4, <3>1, ClearLinksType DEF AllocTypeOK
    <3>2. CASE ~(trunc /\ old # FREE)
      BY <1>4, <3>2 DEF Result, AllocTypeOK
    <3>. QED BY <3>1, <3>2
  <2>. HIDE DEF cut
  <2>4. new.cluster \in Entries
    BY <2>3, LinkFreeType, AllocNumbers
  <2>5. new.cluster <= LastCluster
    <3>. HIDE DEF new
    <3>. QED BY <2>1, <2>4, BeyondIsTold
  <2>6. PICK v \in {FREE, Absent} : Single(cut.link, [Starts EXCEPT ![f] = v])
    BY <2>2
  <2>. DEFINE st == [Starts EXCEPT ![f] = v]
  <2>7. st \in StartFcns /\ st[f] \notin Clusters
        /\ \A h : [st EXCEPT ![f] = h] = [Starts EXCEPT ![f] = h]
    BY <1>4, AllocNumbers DEF StartFcns
  <2>. HIDE DEF st
  <2>8. Single(new.link, [st EXCEPT ![f] = new.cluster])
    BY <2>3, <2>5, <2>6, <2>7, AllocateFirst DEF st
  <2>. HIDE DEF new
  <2>9. Starts' = [Starts EXCEPT ![f] = new.cluster]
    BY <1>5, <2>1, <2>4
  <2>. QED BY <2>1, <2>7, <2>8, <2>9
<1>7. CASE ~(trunc \/ old = FREE)
  <2>1. link' = link /\ handle' = [handle EXCEPT ![f] = [start |-> old, pos |-> old]]
    BY <1>7 DEF Open
  <2>2. Starts' = [Starts EXCEPT ![f] = old]
    BY <1>3, <1>5, <2>1
  <2>3. Starts' = Starts
    BY <1>4, <1>7, <2>2 DEF StartFcns
  <2>. QED BY <1>2, <2>1, <2>3
<1>. QED BY <1>6, <1>7

LEMMA SingleExtend ==
    ASSUME AllocTypeOK, SingleInv, NEW f \in Files, Extend(f)
    PROVE  SingleInv'
<1>. DEFINE c == handle[f].pos
            new == LinkFree(link, firstFree, c)
<1>. SUFFICES ASSUME upset' \cap {"beyond", "unlinked"} = {}
              PROVE  Single(link', Starts')
  BY DEF SingleInv
<1>1. upset \subseteq upset' /\ handle[f] \in Handle /\ c \in Entries
  BY DEF Extend, AllocTypeOK, Handle
<1>2. Single(link, Starts)
  BY <1>1 DEF SingleInv
<1>3. Starts \in StartFcns /\ link \in Tables /\ link \in Links
      /\ firstFree \in FIRST .. LastCluster + 1
  BY StartsType DEF AllocTypeOK, Tables, Links
<1>4. Starts' = Starts
  <2>1. \E p \in Entries : handle' = handle \/ handle' = [handle EXCEPT ![f].pos = p]
    <3>1. new.cluster \in Entries
      BY <1>1, <1>3, LinkFreeType
    <3>2. link[c] \in Entries \cup {EOF}
      BY <1>1 DEF AllocTypeOK
    <3>. HIDE DEF new
    <3>3. CASE link[c] \in {EOF, FREE}
      <4>1. handle' = IF new.cluster = FREE THEN handle
                      ELSE [handle EXCEPT ![f].pos = new.cluster]
        BY <3>3 DEF Extend, new
      <4>. QED BY <3>1, <4>1
    <3>4. CASE link[c] \notin {EOF, FREE}
      <4>1. handle' = [handle EXCEPT ![f].pos = link[c]]
        BY <3>4 DEF Extend
      <4>. QED BY <3>2, <3>4, <4>1
    <3>. QED BY <3>3, <3>4
  <2>2. \A g \in Files : /\ handle'[g] = Absent <=> handle[g] = Absent
                         /\ handle[g] # Absent => handle'[g].start = handle[g].start
    BY <1>1, <2>1, AllocAssumption DEF AllocTypeOK, Handle
  <2>3. dir' = dir
    BY DEF Extend
  <2>. QED BY <2>2, <2>3 DEF Starts, Start
<1>5. CASE link[c] \in {EOF, FREE}
  <2>1. link' = new.link /\ upset' = upset \cup Traps(c, new)
    BY <1>5 DEF Extend
  <2>2. new.cluster \in Entries
    BY <1>1, <1>3, LinkFreeType
  <2>3. new.cluster <= LastCluster
    <3>. HIDE DEF c, new
    <3>. QED BY <2>1, <2>2, BeyondIsTold
  <2>4. link[c] \notin Clusters
    BY <1>5, AllocNumbers
  <2>5. Single(new.link, Starts)
    BY <1>1, <1>2, <1>3, <2>3, <2>4, AllocateSingle
  <2>. QED BY <1>4, <2>1, <2>5
<1>6. CASE link[c] \notin {EOF, FREE}
  BY <1>2, <1>4, <1>6 DEF Extend
<1>. QED BY <1>5, <1>6

LEMMA SingleRewind ==
    ASSUME AllocTypeOK, SingleInv, NEW f \in Files, Rewind(f)
    PROVE  SingleInv'
<1>1. \A g \in Files : Start(g)' = Start(g)
  BY AllocAssumption DEF Rewind, AllocTypeOK, Start, Handle
<1>2. Starts' = Starts
  BY <1>1 DEF Starts
<1>. QED BY <1>2 DEF SingleInv, Rewind

LEMMA SingleClose ==
    ASSUME AllocTypeOK, SingleInv, NEW f \in Files, Close(f)
    PROVE  SingleInv'
<1>1. \A g \in Files : Start(g)' = IF g = f /\ dir[f] = Absent THEN Absent ELSE Start(g)
  BY DEF Close, AllocTypeOK, Start
<1>2. Starts' = IF dir[f] = Absent THEN [Starts EXCEPT ![f] = Absent] ELSE Starts
  BY <1>1 DEF Starts
<1>3. Single(link, Starts) => Single(link, [Starts EXCEPT ![f] = Absent])
  BY StartsType, SingleDrops, AllocNumbers
<1>. QED BY <1>2, <1>3 DEF SingleInv, Close

LEMMA SingleUnlink ==
    ASSUME AllocTypeOK, SingleInv, NEW f \in Files, Unlink(f)
    PROVE  SingleInv'
<1>. SUFFICES ASSUME upset' \cap {"beyond", "unlinked"} = {}
              PROVE  Single(link', Starts')
  BY DEF SingleInv
<1>1. upset \subseteq upset' /\ handle[f] = Absent /\ handle' = handle
      /\ dir' = [dir EXCEPT ![f] = Absent]
  BY DEF Unlink
<1>2. \A g \in Files : Start(g)' = IF g = f THEN Absent ELSE Start(g)
  BY <1>1 DEF Start, AllocTypeOK
<1>3. Starts' = [Starts EXCEPT ![f] = Absent] /\ Starts[f] = dir[f]
  BY <1>1, <1>2 DEF Starts, Start
<1>4. link' = ClearLinks(link, firstFree, Starts[f]).link
  BY <1>3 DEF Unlink
<1>5. Single(ClearLinks(link, firstFree, Starts[f]).link, [Starts EXCEPT ![f] = Absent])
  BY <1>1, StartsType, SingleCut, AllocNumbers DEF SingleInv
<1>. QED BY <1>3, <1>4, <1>5

LEMMA SingleStep ==
    ASSUME AllocTypeOK, SingleInv, [AllocNext]_allocVars
    PROVE  SingleInv'
<1>1. CASE AllocNext
  <2>1. PICK f \in Files : \/ \E trunc \in BOOLEAN : Open(f, trunc)
                           \/ Extend(f) \/ Rewind(f) \/ Close(f) \/ Unlink(f)
    BY <1>1 DEF AllocNext
  <2>. QED BY <2>1, SingleOpen, SingleExtend, SingleRewind, SingleClose, SingleUnlink
<1>2. CASE UNCHANGED allocVars
  BY <1>2 DEF SingleInv, Starts, Start, allocVars
<1>. QED BY <1>1, <1>2

LEMMA SingleAlways == AllocSpec => []SingleInv
<1>1. AllocTypeOK /\ SingleInv /\ [AllocNext]_allocVars => SingleInv'
  BY SingleStep
<1>. QED BY <1>1, AllocTypeCorrect, SingleInit, PTL DEF AllocSpec

LEMMA AtMostOne ==
    ASSUME NEW S, \A x, y \in S : x = y
    PROVE  Cardinality(S) = IF S = {} THEN 0 ELSE 1
<1>1. CASE S = {}
  BY <1>1, FS_EmptySet
<1>2. CASE S # {}
  <2>1. PICK x \in S : TRUE
    BY <1>2
  <2>2. S = {x}
    BY <2>1
  <2>. QED BY <1>2, <2>2, FS_Singleton
<1>. QED BY <1>1, <1>2

\* Whatever sequence of opens, truncations, writes, rewinds, closes and
\* unlinks of any number of files, on a card of any size: no cluster comes
\* into two chains or twice into one, as long as the entry past the table is
\* not handed out and no open file is unlinked.
THEOREM ClustersHaveOneOwner == AllocSpec => []NoCrossLink
<1>1. SingleInv => NoCrossLink
  <2>. SUFFICES ASSUME SingleInv, upset \cap {"beyond", "unlinked"} = {}, NEW c \in Clusters
                PROVE  LET starts == {f \in Files : Start(f) = c}
                           before == {d \in Clusters : link[d] = c}
                       IN  /\ Cardinality(starts) + Cardinality(before) <= 1
                           /\ starts \cup before # {} => link[c] # FREE
    BY DEF NoCrossLink
  <2>. DEFINE starts == {f \in Files : Start(f) = c}
              before == {d \in Clusters : link[d] = c}
  <2>1. \A f \in starts : f \in Files /\ Starts[f] = c
    BY DEF Starts
  <2>2. \A d \in before : d \in Clusters /\ link[d] = c
    OBVIOUS
  <2>. HIDE DEF starts, before
  <2>3. /\ \A f, g \in starts : f = g
        /\ \A d, e \in before : d = e
        /\ starts = {} \/ before = {}
        /\ starts \cup before # {} => link[c] # FREE
    BY <2>1, <2>2 DEF SingleInv, Single
  <2>4. /\ Cardinality(starts) = IF starts = {} THEN 0 ELSE 1
        /\ Cardinality(before) = IF before = {} THEN 0 ELSE 1
    BY <2>3, AtMostOne
  <2>. QED BY <2>3, <2>4 DEF starts, before
<1>. QED BY <1>1, SingleAlways, PTL

-----------------------------------------------------------------------------
(* Nothing is lost                                                         *)

\* Links name clusters of the table, and a cluster is in use exactly when some
\* file's chain holds it.
Covered(lk, st) ==
    /\ \A c \in Clusters : lk[c] \in Clusters \cup {EOF, FREE}
    /\ \A f \in Files : st[f] \in Clusters \cup {Absent}
    /\ \A c \in Clusters : lk[c] # FREE <=> \E f \in Files : c \in Chain(lk, st[f])

LEMMA NoStartNoChain ==
    ASSUME NEW lk, NEW c, c \notin Clusters
    PROVE  Chain(lk, c) = {}
<1>. DEFINE S == {}
<1>1. S \in SUBSET Clusters /\ \A d \in S : lk[d] \in Clusters => lk[d] \in S
  OBVIOUS
<1>. HIDE DEF S
<1>2. Chain(lk, c) \subseteq S
  BY <1>1, ChainIsLeast
<1>. QED BY <1>2 DEF S

\* The chains of two files have nothing in common: what one has of the other
\* would begin with a cluster that has two predecessors.
LEMMA ChainsAreApart ==
    ASSUME NEW lk, NEW st, Single(lk, st), NEW f \in Files, NEW g \in Files, f # g
    PROVE  Chain(lk, st[f]) \cap Chain(lk, st[g]) = {}
<1>1. CASE st[f] \notin Clusters \/ st[g] \notin Clusters
  BY <1>1, NoStartNoChain
<1>2. CASE st[f] \in Clusters /\ st[g] \in Clusters
  <2>. DEFINE A == Chain(lk, st[f])
              B == Chain(lk, st[g])
              S == A \ B
  <2>1. /\ A \subseteq Clusters /\ B \subseteq Clusters
        /\ \A d \in A : lk[d] \in Clusters => lk[d] \in A
        /\ st[f] \in A
    BY <1>2, ChainIsClosed
  <2>2. \A d \in B : d = st[g] \/ \E e \in B : lk[e] = d
    BY ChainHasPredecessors
  <2>3. st[f] \notin B
    <3>. HIDE DEF B
    <3>. QED BY <1>2, <2>1, <2>2 DEF Single
  <2>4. \A d \in S : lk[d] \in Clusters => lk[d] \in S
    <3>. HIDE DEF A, B
    <3>. QED BY <1>2, <2>1, <2>2 DEF Single
  <2>5. S \in SUBSET Clusters /\ st[f] \in S
    BY <2>1, <2>3
  <2>. HIDE DEF S
  <2>6. A \subseteq S
    BY <2>4, <2>5, ChainIsLeast
  <2>. QED BY <2>6 DEF S
<1>. QED BY <1>1, <1>2

\* Freeing a file's chain leaves the others as they are.
LEMMA CoveredCut ==
    ASSUME NEW lk \in Links, NEW st \in StartFcns, Single(lk, st), Covered(lk, st),
           NEW f \in Files, NEW ff
    PROVE  LET cut == ClearLinks(lk, ff, st[f]).link IN
           /\ Covered(cut, [st EXCEPT ![f] = Absent])
           /\ \A g \in Files \ {f} : Chain(cut, st[g]) = Chain(lk, st[g])
<1>. DEFINE cut == ClearLinks(lk, ff, st[f]).link
            st2 == [st EXCEPT ![f] = Absent]
            chain == Chain(lk, st[f])
<1>1. \A d \in Clusters : cut[d] = IF d \in chain THEN FREE ELSE lk[d]
  BY ClearedIs
<1>2. \A g \in Files : st2[g] = IF g = f THEN Absent ELSE st[g]
  BY DEF StartFcns
<1>3. ASSUME NEW g \in Files \ {f}
      PROVE  Chain(cut, st[g]) = Chain(lk, st[g])
  <2>1. \A d \in Chain(lk, st[g]) : d \in Clusters /\ d \notin chain
    BY ChainsAreApart, ChainIsClosed
  <2>2. \A d \in Chain(lk, st[g]) : cut[d] = lk[d]
    BY <1>1, <2>1
  <2>. HIDE DEF cut
  <2>. QED BY <2>2, ChainFrame
<1>4. Chain(cut, st2[f]) = {}
  BY <1>2, NoStartNoChain, AllocNumbers
<1>5. \A g \in Files : Chain(cut, st2[g]) = IF g = f THEN {} ELSE Chain(lk, st[g])
  BY <1>2, <1>3, <1>4
<1>6. \A g \in Files \ {f} : Chain(lk, st[g]) \cap chain = {}
  BY ChainsAreApart
<1>. HIDE DEF cut, st2, chain
<1>7. Covered(cut, st2)
  <2>1. \A c \in Clusters : cut[c] \in Clusters \cup {EOF, FREE}
    BY <1>1 DEF Covered
  <2>2. \A g \in Files : st2[g] \in Clusters \cup {Absent}
    BY <1>2 DEF Covered
  <2>3. \A c \in Clusters : cut[c] # FREE <=> (lk[c] # FREE /\ c \notin chain)
    BY <1>1
  <2>4. \A c \in Clusters : (\E g \in Files : c \in Chain(cut, st2[g]))
            <=> (\E g \in Files : c \in Chain(lk, st[g])) /\ c \notin chain
    BY <1>5, <1>6 DEF chain
  <2>. QED BY <2>1, <2>2, <2>3, <2>4 DEF Covered
<1>. QED BY <1>3, <1>7 DEF cut, st2

\* No chain holds a free cluster.
LEMMA ChainsAreUsed ==
    ASSUME NEW lk, NEW st, Covered(lk, st), NEW n \in Clusters, lk[n] = FREE
    PROVE  \A g \in Files : n \notin Chain(lk, st[g])
BY DEF Covered

LEMMA CoveredFresh ==
    ASSUME NEW lk \in Links, NEW st \in StartFcns, Covered(lk, st),
           NEW f \in Files, st[f] = Absent, NEW n \in Clusters, lk[n] = FREE
    PROVE  LET new == Put(lk, n, EOF) IN
           /\ Covered(new, [st EXCEPT ![f] = n])
           /\ \A g \in Files \ {f} : Chain(new, st[g]) = Chain(lk, st[g])
           /\ n \in Chain(new, n)
<1>. DEFINE new == Put(lk, n, EOF)
            st2 == [st EXCEPT ![f] = n]
<1>1. \A d \in Clusters : new[d] = IF d = n THEN EOF ELSE lk[d]
  BY AllocNumbers DEF Put, Links
<1>2. \A g \in Files : st2[g] = IF g = f THEN n ELSE st[g]
  BY DEF StartFcns
<1>. HIDE DEF new, st2
<1>3. \A g \in Files : Chain(new, st[g]) = Chain(lk, st[g])
  <2>. SUFFICES ASSUME NEW g \in Files
                PROVE  Chain(new, st[g]) = Chain(lk, st[g])
    OBVIOUS
  <2>1. \A d \in Chain(lk, st[g]) : d \in Clusters /\ d # n
    BY ChainIsClosed, ChainsAreUsed
  <2>2. \A d \in Chain(lk, st[g]) : new[d] = lk[d]
    BY <1>1, <2>1
  <2>. QED BY <2>2, ChainFrame
<1>4. Chain(new, n) = {n}
  <2>. DEFINE S == {n}
  <2>1. /\ S \in SUBSET Clusters /\ n \in S
        /\ \A d \in S : new[d] \in Clusters => new[d] \in S
    BY <1>1, AllocNumbers
  <2>. HIDE DEF S
  <2>2. Chain(new, n) \subseteq S
    BY <2>1, ChainIsLeast
  <2>. QED BY <2>2, ChainIsClosed DEF S
<1>5. Chain(lk, st[f]) = {}
  BY NoStartNoChain, AllocNumbers
<1>6. Covered(new, st2)
  <2>1. \A c \in Clusters : new[c] \in Clusters \cup {EOF, FREE}
    BY <1>1 DEF Covered
  <2>2. \A g \in Files : st2[g] \in Clusters \cup {Absent}
    BY <1>2 DEF Covered
  <2>3. \A c \in Clusters : new[c] # FREE <=> (lk[c] # FREE \/ c = n)
    BY <1>1, AllocNumbers
  <2>4. \A c \in Clusters : (\E g \in Files : c \in Chain(new, st2[g]))
            <=> (\E g \in Files : c \in Chain(lk, st[g])) \/ c = n
    BY <1>2, <1>3, <1>4, <1>5
  <2>. QED BY <2>1, <2>2, <2>3, <2>4 DEF Covered
<1>. QED BY <1>3, <1>4, <1>6 DEF new, st2

LEMMA CoveredGrows ==
    ASSUME NEW lk \in Links, NEW st \in StartFcns, Single(lk, st), Covered(lk, st),
           NEW f \in Files, NEW p \in Chain(lk, st[f]), p < LastCluster,
           lk[p] \notin Clusters, NEW n \in Clusters, lk[n] = FREE
    PROVE  LET new == Linked(lk, p, n) IN
           /\ Covered(new, st)
           /\ \A g \in Files \ {f} : Chain(new, st[g]) = Chain(lk, st[g])
           /\ Chain(new, st[f]) = Chain(lk, st[f]) \cup {n}
<1>. DEFINE new == Linked(lk, p, n)
<1>0. p \in Clusters /\ p \in Entries
  BY ChainIsClosed, AllocNumbers
<1>1. \A d \in Clusters : new[d] = IF d = n THEN EOF ELSE IF d = p THEN n ELSE lk[d]
  BY <1>0, GrownIs
<1>. HIDE DEF new
<1>2. p # n
  BY ChainsAreUsed
<1>3. ASSUME NEW g \in Files \ {f}
      PROVE  Chain(new, st[g]) = Chain(lk, st[g])
  <2>1. \A d \in Chain(lk, st[g]) : d \in Clusters /\ d # n /\ d # p
    BY ChainIsClosed, ChainsAreUsed, ChainsAreApart
  <2>2. \A d \in Chain(lk, st[g]) : new[d] = lk[d]
    BY <1>1, <2>1
  <2>. QED BY <2>2, ChainFrame
<1>4. Chain(new, st[f]) = Chain(lk, st[f]) \cup {n}
  <2>1. /\ lk[n] \notin Clusters /\ new[p] = n /\ new[n] \notin Clusters
        /\ \A d \in Clusters \ {p, n} : new[d] = lk[d]
    BY <1>0, <1>1, <1>2, AllocNumbers
  <2>. QED BY <1>2, <2>1, ChainGrows
<1>5. Covered(new, st)
  <2>1. \A c \in Clusters : new[c] \in Clusters \cup {EOF, FREE}
    BY <1>1 DEF Covered
  <2>2. \A g \in Files : st[g] \in Clusters \cup {Absent}
    BY DEF Covered
  <2>3. \A c \in Clusters : new[c] # FREE <=> (lk[c] # FREE \/ c = n)
    <3>1. lk[p] # FREE
      BY <1>0 DEF Covered
    <3>. QED BY <1>1, <3>1, AllocNumbers
  <2>4. \A c \in Clusters : (\E g \in Files : c \in Chain(new, st[g]))
            <=> (\E g \in Files : c \in Chain(lk, st[g])) \/ c = n
    BY <1>3, <1>4
  <2>. QED BY <2>1, <2>2, <2>3, <2>4 DEF Covered
<1>. QED BY <1>3, <1>4, <1>5 DEF new

\* An open file has a name, and its position is in its chain.
Placed(lk) ==
    \A f \in Files : handle[f] # Absent =>
        /\ dir[f] # Absent
        /\ handle[f].pos \in Chain(lk, handle[f].start)

LostInv == upset = {} => Covered(link, Starts) /\ Placed(link)

LEMMA LostInit == AllocInit => LostInv
<1>. SUFFICES ASSUME AllocInit PROVE Covered(link, Starts) /\ Placed(link)
  BY DEF LostInv
<1>1. \A f \in Files : Starts[f] = Absent /\ handle[f] = Absent
  BY DEF AllocInit, Starts, Start
<1>2. \A c \in Clusters : link[c] = FREE
  BY AllocNumbers DEF AllocInit, EmptyTable
<1>3. \A f \in Files : Chain(link, Starts[f]) = {}
  BY <1>1, NoStartNoChain, AllocNumbers
<1>. QED BY <1>1, <1>2, <1>3 DEF Covered, Placed

\* A file's first cluster, short of all traps.
LEMMA FirstClusterIs ==
    ASSUME NEW lk \in Tables, NEW ff \in FIRST .. LastCluster + 1,
           LinkFree(lk, ff, FREE).cluster <= LastCluster, LinkFree(lk, ff, FREE).cluster # FREE
    PROVE  \E n \in Clusters : /\ lk[n] = FREE
                               /\ LinkFree(lk, ff, FREE).cluster = n
                               /\ LinkFree(lk, ff, FREE).link = Put(lk, n, EOF)
<1>1. \A l, g, n : Result(l, g, n).link = l /\ Result(l, g, n).cluster = n
  BY DEF Result
<1>2. lk \in Links /\ lk[FREE] = EOF /\ FREE \in Entries /\ ~(FREE > LastCluster)
  BY AllocNumbers DEF Tables
<1>3. PICK n \in FIRST .. LastCluster + 1 :
              lk[n] = FREE /\ LinkFree(lk, ff, FREE) = Result(Linked(lk, FREE, n), n, n)
  BY <1>1, <1>2, LinkFreeIs, AllocNumbers
<1>4. Linked(lk, FREE, n) = Put(lk, n, EOF)
  BY AllocNumbers DEF Linked, Put
<1>. QED BY <1>1, <1>3, <1>4, AllocNumbers

LEMMA LostOpen ==
    ASSUME AllocTypeOK, SingleInv, LostInv, NEW f \in Files, NEW trunc \in BOOLEAN, Open(f, trunc)
    PROVE  LostInv'
<1>. DEFINE old == IF dir[f] = Absent THEN FREE ELSE dir[f]
            cut == IF trunc /\ old # FREE THEN ClearLinks(link, firstFree, old)
                   ELSE Result(link, firstFree, old)
            new == LinkFree(cut.link, cut.firstFree, FREE)
<1>. SUFFICES ASSUME upset' = {}
              PROVE  Covered(link', Starts') /\ Placed(link)'
  BY DEF LostInv
<1>1. upset = {} /\ handle[f] = Absent /\ dir' = [dir EXCEPT ![f] = old]
  BY DEF Open
<1>2. Single(link, Starts) /\ Covered(link, Starts) /\ Placed(link)
  BY <1>1 DEF SingleInv, LostInv
<1>3. Starts[f] = dir[f] /\ Starts \in StartFcns /\ link \in Tables /\ link \in Links
      /\ firstFree \in FIRST .. LastCluster + 1
  BY <1>1, StartsType DEF Starts, Start, AllocTypeOK, Tables, Links
<1>4. dir[f] \in Clusters \cup {Absent}
  BY <1>2, <1>3 DEF Covered
\* What is to show of the new start and table.
<1>5. ASSUME NEW h \in Clusters,
             handle' = [handle EXCEPT ![f] = [start |-> h, pos |-> h]],
             Covered(link', [Starts EXCEPT ![f] = h]),
             \A g \in Files \ {f} : Chain(link', Starts[g]) = Chain(link, Starts[g])
      PROVE  Covered(link', Starts') /\ Placed(link)'
  <2>1. [start |-> h, pos |-> h] # Absent /\ old # Absent
    BY <1>5, <1>4, AllocNumbers
  <2>2. \A g \in Files : Start(g)' = IF g = f THEN h ELSE Start(g)
    BY <1>1, <1>5, <2>1 DEF Start, AllocTypeOK
  <2>3. Starts' = [Starts EXCEPT ![f] = h]
    BY <2>2 DEF Starts
  <2>4. ASSUME NEW g \in Files \ {f}, handle'[g] # Absent
        PROVE  dir'[g] # Absent /\ handle'[g].pos \in Chain(link', handle'[g].start)
    <3>1. handle'[g] = handle[g] /\ dir'[g] = dir[g] /\ handle[g] # Absent
      BY <1>1, <1>5, <2>4 DEF AllocTypeOK
    <3>2. Starts[g] = handle[g].start
      BY <3>1 DEF Starts, Start
    <3>. QED BY <1>2, <1>5, <3>1, <3>2 DEF Placed
  <2>5. handle'[f].pos = h /\ handle'[f].start = h /\ dir'[f] # Absent
    BY <1>1, <1>5, <2>1 DEF AllocTypeOK
  <2>6. h \in Chain(link', h)
    BY ChainIsClosed
  <2>7. Placed(link)'
    BY <2>4, <2>5, <2>6 DEF Placed
  <2>. QED BY <1>5, <2>3, <2>7
<1>6. CASE trunc \/ old = FREE
  <2>1. /\ link' = new.link
        /\ handle' = [handle EXCEPT ![f] = [start |-> new.cluster, pos |-> new.cluster]]
        /\ upset' = upset \cup Traps(FREE, new)
                      \cup (IF new.cluster = FREE THEN {"empty"} ELSE {})
    BY <1>6 DEF Open
  <2>2. cut.link \in Tables /\ cut.firstFree \in FIRST .. LastCluster + 1
    <3>1. CASE trunc /\ old # FREE
      BY <1>3, <1>4, <3>1, ClearLinksType, AllocNumbers
    <3>2. CASE ~(trunc /\ old # FREE)
      BY <1>3, <3>2 DEF Result
    <3>. QED BY <3>1, <3>2
  <2>3. LET st == [Starts EXCEPT ![f] = Absent] IN
        /\ Covered(cut.link, st)
        /\ \A g \in Files \ {f} : Chain(cut.link, Starts[g]) = Chain(link, Starts[g])
    <3>1. CASE trunc /\ old # FREE
      <4>1. cut.link = ClearLinks(link, firstFree, Starts[f]).link
        BY <1>3, <3>1
      <4>. HIDE DEF cut
      <4>. QED BY <1>2, <1>3, <4>1, CoveredCut
    <3>2. CASE ~(trunc /\ old # FREE)
      <4>1. dir[f] = Absent
        BY <1>4, <1>6, <3>2, AllocNumbers
      <4>2. [Starts EXCEPT ![f] = Absent] = Starts
        BY <1>3, <4>1 DEF StartFcns
      <4>3. cut.link = link
        BY <3>2 DEF Result
      <4>. QED BY <1>2, <4>2, <4>3
    <3>. QED BY <3>1, <3>2
  <2>. HIDE DEF cut
  <2>4. new.cluster <= LastCluster /\ new.cluster # FREE
    <3>1. new.cluster \in Entries
      BY <2>2, LinkFreeType, AllocNumbers
    <3>. HIDE DEF new
    <3>. QED BY <2>1, <3>1, BeyondIsTold
  <2>5. PICK n \in Clusters : /\ cut.link[n] = FREE /\ new.cluster = n
                              /\ new.link = Put(cut.link, n, EOF)
    BY <2>2, <2>4, FirstClusterIs
  <2>. HIDE DEF new
  <2>. DEFINE st == [Starts EXCEPT ![f] = Absent]
  <2>6. st \in StartFcns /\ st[f] = Absent
        /\ (\A g \in Files \ {f} : st[g] = Starts[g])
        /\ [st EXCEPT ![f] = n] = [Starts EXCEPT ![f] = n]
    BY <1>3 DEF StartFcns
  <2>7. cut.link \in Links /\ Covered(cut.link, st)
    BY <2>2, <2>3 DEF Tables
  <2>. HIDE DEF st
  <2>8. /\ Covered(link', [st EXCEPT ![f] = n])
        /\ \A g \in Files \ {f} : Chain(link', st[g]) = Chain(cut.link, st[g])
    BY <2>1, <2>5, <2>6, <2>7, CoveredFresh
  <2>9. \A g \in Files \ {f} : Chain(link', Starts[g]) = Chain(link, Starts[g])
    BY <2>3, <2>6, <2>8
  <2>10. handle' = [handle EXCEPT ![f] = [start |-> n, pos |-> n]]
    BY <2>1, <2>5
  <2>11. Covered(link', [Starts EXCEPT ![f] = n])
    BY <2>6, <2>8
  <2>. QED BY <1>5, <2>9, <2>10, <2>11
<1>7. CASE ~(trunc \/ old = FREE)
  <2>1. link' = link /\ handle' = [handle EXCEPT ![f] = [start |-> old, pos |-> old]]
    BY <1>7 DEF Open
  <2>2. old = Starts[f] /\ old \in Clusters
    BY <1>3, <1>4, <1>7, AllocNumbers
  <2>3. [Starts EXCEPT ![f] = old] = Starts
    BY <1>3, <2>2 DEF StartFcns
  <2>. HIDE DEF old
  <2>. QED BY <1>2, <1>5, <2>1, <2>2, <2>3
<1>. QED BY <1>6, <1>7

LEMMA LostExtend ==
    ASSUME AllocTypeOK, SingleInv, LostInv, NEW f \in Files, Extend(f)
    PROVE  LostInv'
<1>. DEFINE p == handle[f].pos
            new == LinkFree(link, firstFree, p)
<1>. SUFFICES ASSUME upset' = {}
              PROVE  Covered(link', Starts') /\ Placed(link)'
  BY DEF LostInv
<1>1. upset = {} /\ handle[f] \in Handle /\ p \in Entries /\ dir' = dir /\ handle[f] # Absent
  BY DEF Extend, AllocTypeOK, Handle
<1>2. Single(link, Starts) /\ Covered(link, Starts) /\ Placed(link)
  BY <1>1 DEF SingleInv, LostInv
<1>3. Starts \in StartFcns /\ link \in Tables /\ link \in Links
      /\ firstFree \in FIRST .. LastCluster + 1
  BY StartsType DEF AllocTypeOK, Tables, Links
<1>4. Starts[f] = handle[f].start /\ p \in Chain(link, Starts[f]) /\ p \in Clusters
  BY <1>1, <1>2, ChainIsClosed DEF Placed, Starts, Start
<1>5. link[p] \in Clusters \cup {EOF}
  BY <1>2, <1>4 DEF Covered
\* What is to show of the new position and table.
<1>6. ASSUME NEW q \in Entries, handle' = [handle EXCEPT ![f].pos = q],
             Covered(link', Starts), q \in Chain(link', Starts[f]),
             \A g \in Files \ {f} : Chain(link', Starts[g]) = Chain(link, Starts[g])
      PROVE  Covered(link', Starts') /\ Placed(link)'
  <2>1. \A g \in Files : /\ handle'[g] = Absent <=> handle[g] = Absent
                         /\ handle[g] # Absent => handle'[g].start = handle[g].start
                         /\ g # f => handle'[g] = handle[g]
    BY <1>1, <1>6, AllocAssumption DEF AllocTypeOK, Handle
  <2>2. handle'[f].pos = q
    BY <1>1, <1>6 DEF AllocTypeOK, Handle
  <2>3. Starts' = Starts
    BY <1>1, <2>1 DEF Starts, Start
  <2>4. \A g \in Files : handle[g] # Absent => Starts[g] = handle[g].start
    BY DEF Starts, Start
  <2>5. ASSUME NEW g \in Files, handle'[g] # Absent
        PROVE  dir'[g] # Absent /\ handle'[g].pos \in Chain(link', handle'[g].start)
    BY <1>1, <1>2, <1>4, <1>6, <2>1, <2>2, <2>4, <2>5 DEF Placed
  <2>6. Placed(link)'
    BY <2>5 DEF Placed
  <2>. QED BY <1>6, <2>3, <2>6
<1>7. CASE link[p] \in Clusters
  <2>1. link' = link /\ handle' = [handle EXCEPT ![f].pos = link[p]]
    BY <1>7, AllocNumbers DEF Extend
  <2>2. link[p] \in Chain(link, Starts[f]) /\ link[p] \in Entries
    BY <1>4, <1>7, ChainIsClosed, AllocNumbers
  <2>. QED BY <1>2, <1>6, <2>1, <2>2
<1>8. CASE link[p] = EOF
  <2>1. /\ link' = new.link /\ upset' = upset \cup Traps(p, new)
        /\ handle' = IF new.cluster = FREE THEN handle ELSE [handle EXCEPT ![f].pos = new.cluster]
    BY <1>8 DEF Extend
  <2>2. new.cluster \in Entries
    BY <1>1, <1>3, LinkFreeType
  <2>3. new.cluster <= LastCluster /\ (p = LastCluster => new.cluster = FREE)
    <3>1. "tail" \notin Traps(p, new)
      BY <2>1
    <3>. HIDE DEF p, new
    <3>2. new.cluster <= LastCluster
      BY <2>1, <2>2, BeyondIsTold
    <3>. QED BY <3>1, <3>2 DEF Traps
  <2>4. \A l, g, n : Result(l, g, n).link = l /\ Result(l, g, n).cluster = n
    BY DEF Result
  <2>5. \/ new = Result(link, LastCluster + 1, FREE)
        \/ \E n \in FIRST .. LastCluster + 1 :
              link[n] = FREE /\ new = Result(Linked(link, p, n), n, n)
    <3>1. p \in Entries /\ ~(p > LastCluster) /\ link[p] \notin Clusters
      BY <1>4, <1>8, AllocNumbers
    <3>. HIDE DEF p
    <3>. QED BY <1>3, <3>1, LinkFreeIs
  <2>8. p \in Chain(link, Starts[f]) /\ p \in Clusters
    BY <1>4
  <2>. HIDE DEF p, new
  <2>6. CASE new = Result(link, LastCluster + 1, FREE)
    <3>1. link' = link /\ handle' = handle
      BY <2>1, <2>4, <2>6
    <3>. QED BY <1>1, <1>2, <3>1 DEF Starts, Start, Placed
  <2>7. ASSUME NEW n \in FIRST .. LastCluster + 1, link[n] = FREE,
               new = Result(Linked(link, p, n), n, n)
        PROVE  Covered(link', Starts') /\ Placed(link)'
    <3>1. new.cluster = n /\ new.link = Linked(link, p, n)
      BY <2>4, <2>7
    <3>2. n \in Clusters /\ n # FREE /\ n \in Entries
      BY <2>3, <3>1, AllocNumbers
    <3>3. p < LastCluster /\ link[p] \notin Clusters
      BY <1>8, <2>3, <2>8, <3>1, <3>2, AllocNumbers
    <3>4. /\ Covered(Linked(link, p, n), Starts)
          /\ \A g \in Files \ {f} : Chain(Linked(link, p, n), Starts[g]) = Chain(link, Starts[g])
          /\ Chain(Linked(link, p, n), Starts[f]) = Chain(link, Starts[f]) \cup {n}
      BY <1>2, <1>3, <2>7, <2>8, <3>2, <3>3, CoveredGrows
    <3>5. link' = Linked(link, p, n) /\ handle' = [handle EXCEPT ![f].pos = n]
      BY <2>1, <3>1, <3>2
    <3>. QED BY <1>6, <3>2, <3>4, <3>5
  <2>. QED BY <2>5, <2>6, <2>7
<1>. QED BY <1>5, <1>7, <1>8

LEMMA LostRewind ==
    ASSUME AllocTypeOK, LostInv, NEW f \in Files, Rewind(f)
    PROVE  LostInv'
<1>. SUFFICES ASSUME upset' = {}
              PROVE  Covered(link', Starts') /\ Placed(link)'
  BY DEF LostInv
<1>1. link' = link /\ dir' = dir /\ Covered(link, Starts) /\ Placed(link) /\ handle[f] # Absent
      /\ handle' = [handle EXCEPT ![f].pos = handle[f].start]
  BY DEF Rewind, LostInv
<1>2. \A g \in Files : /\ handle'[g] = Absent <=> handle[g] = Absent
                       /\ handle[g] # Absent => handle'[g].start = handle[g].start
                       /\ g # f => handle'[g] = handle[g]
  BY <1>1, AllocAssumption DEF AllocTypeOK, Handle
<1>3. handle'[f].pos = handle[f].start
  BY <1>1 DEF AllocTypeOK, Handle
<1>4. Starts' = Starts
  BY <1>1, <1>2 DEF Starts, Start
<1>5. handle[f].start \in Clusters
  BY <1>1, AllocNumbers DEF Covered, Starts, Start, AllocTypeOK, Handle
<1>6. handle[f].start \in Chain(link, handle[f].start)
  BY <1>5, ChainIsClosed
<1>. QED BY <1>1, <1>2, <1>3, <1>4, <1>6 DEF Placed

LEMMA LostClose ==
    ASSUME AllocTypeOK, LostInv, NEW f \in Files, Close(f)
    PROVE  LostInv'
<1>. SUFFICES ASSUME upset' = {}
              PROVE  Covered(link', Starts') /\ Placed(link)'
  BY DEF LostInv
<1>1. link' = link /\ Covered(link, Starts) /\ Placed(link) /\ handle[f] # Absent
      /\ handle' = [handle EXCEPT ![f] = Absent]
  BY DEF Close, LostInv
<1>2. dir[f] # Absent
  BY <1>1 DEF Placed
<1>3. dir' = [dir EXCEPT ![f] = handle[f].start]
  BY <1>2 DEF Close
<1>4. \A g \in Files : Start(g)' = Start(g)
  BY <1>1, <1>3 DEF Start, AllocTypeOK
<1>5. Starts' = Starts
  BY <1>4 DEF Starts
<1>6. \A g \in Files : handle'[g] # Absent => g # f /\ handle'[g] = handle[g] /\ dir'[g] = dir[g]
  BY <1>1, <1>3 DEF AllocTypeOK
<1>. QED BY <1>1, <1>5, <1>6 DEF Placed

LEMMA LostUnlink ==
    ASSUME AllocTypeOK, SingleInv, LostInv, NEW f \in Files, Unlink(f)
    PROVE  LostInv'
<1>. SUFFICES ASSUME upset' = {}
              PROVE  Covered(link', Starts') /\ Placed(link)'
  BY DEF LostInv
<1>1. upset = {} /\ handle[f] = Absent /\ handle' = handle /\ dir' = [dir EXCEPT ![f] = Absent]
  BY DEF Unlink
<1>2. Single(link, Starts) /\ Covered(link, Starts) /\ Placed(link)
      /\ Starts \in StartFcns /\ link \in Links
  BY <1>1, StartsType DEF SingleInv, LostInv
<1>3. \A g \in Files : Start(g)' = IF g = f THEN Absent ELSE Start(g)
  BY <1>1 DEF Start, AllocTypeOK
<1>4. Starts' = [Starts EXCEPT ![f] = Absent] /\ Starts[f] = dir[f]
  BY <1>1, <1>3 DEF Starts, Start
<1>5. link' = ClearLinks(link, firstFree, Starts[f]).link
  BY <1>4 DEF Unlink
<1>6. /\ Covered(link', Starts')
      /\ \A g \in Files \ {f} : Chain(link', Starts[g]) = Chain(link, Starts[g])
  BY <1>2, <1>4, <1>5, CoveredCut
<1>7. \A g \in Files : handle[g] # Absent =>
          g # f /\ dir'[g] = dir[g] /\ Starts[g] = handle[g].start
  BY <1>1 DEF AllocTypeOK, Starts, Start
<1>. QED BY <1>1, <1>2, <1>6, <1>7 DEF Placed

LEMMA LostStep ==
    ASSUME AllocTypeOK, SingleInv, LostInv, [AllocNext]_allocVars
    PROVE  LostInv'
<1>1. CASE AllocNext
  <2>1. PICK f \in Files : \/ \E trunc \in BOOLEAN : Open(f, trunc)
                           \/ Extend(f) \/ Rewind(f) \/ Close(f) \/ Unlink(f)
    BY <1>1 DEF AllocNext
  <2>. QED BY <2>1, LostOpen, LostExtend, LostRewind, LostClose, LostUnlink
<1>2. CASE UNCHANGED allocVars
  BY <1>2 DEF LostInv, Starts, Start, Placed, allocVars
<1>. QED BY <1>1, <1>2

\* As long as none of the traps was stepped into, the clusters in use are
\* exactly those that some file's chain reaches: truncation, rewinding,
\* extension and deletion of any number of files lose none and free none too
\* many.
THEOREM NothingIsLost == AllocSpec => []NoLostCluster
<1>1. AllocTypeOK /\ LostInv => NoLostCluster
  <2>. SUFFICES ASSUME AllocTypeOK, Covered(link, Starts)
                PROVE  {c \in Clusters : link[c] # FREE}
                         = UNION {Chain(link, Start(f)) : f \in {g \in Files : Start(g) # Absent}}
    BY DEF NoLostCluster, LostInv
  <2>1. \A f \in Files : Starts[f] = Start(f)
    BY DEF Starts
  <2>2. \A f \in Files : Start(f) = Absent => Chain(link, Start(f)) = {}
    BY NoStartNoChain, AllocNumbers
  <2>3. \A f \in Files : Chain(link, Start(f)) \subseteq Clusters
    BY ChainIsClosed
  <2>4. \A c \in Clusters : link[c] # FREE <=> \E f \in Files : c \in Chain(link, Start(f))
    BY <2>1 DEF Covered
  <2>. QED BY <2>2, <2>3, <2>4
<1>2. AllocTypeOK /\ SingleInv /\ LostInv /\ [AllocNext]_allocVars => LostInv'
  BY LostStep
<1>. QED BY <1>1, <1>2, LostInit, AllocTypeCorrect, SingleAlways, PTL DEF AllocSpec

-----------------------------------------------------------------------------
(* The entries of the table as bytes                                       *)

LEMMA EntryNumbers ==
    /\ LastCluster \in Nat /\ Clusters = 2 .. LastCluster /\ Entries = 0 .. LastCluster + 1
    /\ Clusters \subseteq Nat /\ Entries \subseteq Nat
    /\ EOF \notin Nat
    /\ BytesPerRead \in Nat /\ BytesPerRead > 0 /\ BytesPerRead % 4 = 0
BY TableAssumption, EntryAssumption DEF Clusters, Entries, FIRST

-----------------------------------------------------------------------------
(* Places                                                                  *)

\* Byte n of the table.
Place(n) == <<n \div BytesPerRead, n % BytesPerRead>>

LEMMA PlaceType == ASSUME NEW n \in Nat PROVE Place(n) \in Places
BY EntryNumbers, DivMod DEF Place, Places

LEMMA PlaceInjective ==
    ASSUME NEW m \in Nat, NEW n \in Nat, Place(m) = Place(n)
    PROVE  m = n
<1>1. m \div BytesPerRead = n \div BytesPerRead /\ m % BytesPerRead = n % BytesPerRead
  BY DEF Place
<1>2. /\ m = BytesPerRead * (m \div BytesPerRead) + (m % BytesPerRead)
      /\ n = BytesPerRead * (n \div BytesPerRead) + (n % BytesPerRead)
  BY EntryNumbers, DivMod
<1>. QED BY <1>1, <1>2

\* The byte after byte n.
LEMMA OnwardsIs == ASSUME NEW n \in Nat PROVE Onwards(Place(n)) = Place(n + 1)
<1>. DEFINE b == BytesPerRead
            q == n \div BytesPerRead
            r == n % BytesPerRead
<1>1. b \in Nat /\ b > 0 /\ q \in Nat /\ r \in 0 .. b - 1 /\ n = b * q + r
  BY EntryNumbers, DivMod
<1>2. Onwards(Place(n)) = IF r + 1 >= b THEN <<q + 1, 0>> ELSE <<q, r + 1>>
  BY DEF Onwards, Place
<1>. HIDE DEF q, r
<1>3. CASE r + 1 >= b
  <2>1. n + 1 = b * (q + 1) + 0
    BY <1>1, <1>3
  <2>2. (n + 1) \div b = q + 1 /\ (n + 1) % b = 0
    <3>. HIDE DEF b
    <3>. QED BY <1>1, <2>1, DivModUnique
  <2>. QED BY <1>1, <1>2, <1>3, <2>2 DEF Place
<1>4. CASE ~(r + 1 >= b)
  <2>1. n + 1 = b * q + (r + 1) /\ r + 1 \in 0 .. b - 1
    BY <1>1, <1>4
  <2>2. (n + 1) \div b = q /\ (n + 1) % b = r + 1
    <3>. HIDE DEF b
    <3>. QED BY <1>1, <2>1, DivModUnique
  <2>. QED BY <1>1, <1>2, <1>4, <2>2 DEF Place
<1>. QED BY <1>3, <1>4

\* Entries of a width that divides the sector: they begin at a multiple of it,
\* and their bytes follow in the same sector.
LEMMA AlignedPlace ==
    ASSUME NEW w \in {2, 4}, NEW c \in Nat, NEW i \in 0 .. w - 1
    PROVE  Place(c * w + i) = <<(c * w) \div BytesPerRead, (c % (BytesPerRead \div w)) * w + i>>
<1>. DEFINE b == BytesPerRead
            k == BytesPerRead \div w
            q == c \div k
            r == c % k
<1>1. k \in Nat /\ k > 0 /\ b = w * k /\ b \in Nat /\ b > 0
  <2>1. CASE w = 2
    BY <2>1, EntryNumbers
  <2>2. CASE w = 4
    BY <2>2, EntryNumbers
  <2>. QED BY <2>1, <2>2
<1>. HIDE DEF b, k
<1>2. q \in Nat /\ r \in 0 .. k - 1 /\ c = k * q + r
  BY <1>1, DivMod
<1>. HIDE DEF q, r
<1>3. ASSUME NEW j \in 0 .. w - 1
      PROVE  (c * w + j) \div b = q /\ (c * w + j) % b = r * w + j
  <2>1. r * w + j \in 0 .. b - 1
    <3>1. CASE w = 2
      BY <1>1, <1>2, <1>3, <3>1
    <3>2. CASE w = 4
      BY <1>1, <1>2, <1>3, <3>2
    <3>. QED BY <3>1, <3>2
  <2>2. c * w + j = b * q + (r * w + j)
    <3>1. c * w = (k * q) * w + r * w
      BY <1>1, <1>2
    <3>2. b * q = (k * q) * w
      BY <1>1, <1>2
    <3>. QED BY <1>1, <1>2, <1>3, <3>1, <3>2
  <2>. QED BY <1>1, <1>2, <2>1, <2>2, DivModUnique
<1>4. (c * w) \div b = q
  <2>1. c * w + 0 = c * w
    OBVIOUS
  <2>. QED BY <1>3, <2>1
<1>. QED BY <1>3, <1>4 DEF Place, b, k, r

\* The bytes of an entry.
LEMMA PackedIs ==
    ASSUME NEW c \in Nat
    PROVE  /\ Packed(c) = Place((c * 3) \div 2)
           /\ Onwards(Packed(c)) = Place((c * 3) \div 2 + 1)
<1>1. Packed(c) = Place((c * 3) \div 2) /\ (c * 3) \div 2 \in Nat
  BY DEF Packed, Place
<1>. QED BY <1>1, OnwardsIs

LEMMA AlignedIs ==
    ASSUME NEW w \in {2, 4}, NEW c \in Nat
    PROVE  /\ Aligned(w, c) = Place(c * w)
           /\ \A i \in 1 .. w - 1 : In(Aligned(w, c), i) = Place(c * w + i)
<1>. DEFINE s == (c * w) \div BytesPerRead
            o == (c % (BytesPerRead \div w)) * w
<1>1. Aligned(w, c) = <<s, o>> /\ \A i : In(Aligned(w, c), i) = <<s, o + i>>
  BY DEF Aligned, In
<1>2. ASSUME NEW i \in 0 .. w - 1
      PROVE  Place(c * w + i) = <<s, o + i>>
  BY AlignedPlace
<1>3. o \in Int
  <2>. DEFINE k == BytesPerRead \div w
  <2>1. k \in Nat /\ k > 0
    <3>1. CASE w = 2
      BY <3>1, EntryNumbers
    <3>2. CASE w = 4
      BY <3>2, EntryNumbers
    <3>. QED BY <3>1, <3>2
  <2>. HIDE DEF k
  <2>2. c % k \in Int
    BY <2>1, DivMod
  <2>. QED BY <2>2 DEF k
<1>. HIDE DEF s, o
<1>4. Place(c * w) = <<s, o>>
  <2>1. Place(c * w + 0) = <<s, o + 0>>
    BY <1>2
  <2>2. c * w + 0 = c * w /\ o + 0 = o
    BY <1>3
  <2>. QED BY <2>1, <2>2
<1>5. \A i \in 1 .. w - 1 : Place(c * w + i) = <<s, o + i>>
  BY <1>2
<1>. QED BY <1>1, <1>4, <1>5

-----------------------------------------------------------------------------
(* Bytes                                                                   *)

Cards == [Places -> Byte]

\* What a write of a byte leaves of the others.
LEMMA OtherBytes ==
    ASSUME NEW card \in Cards, NEW m \in Nat, NEW n \in Nat, NEW x, n # m
    PROVE  [card EXCEPT ![Place(m)] = x][Place(n)] = card[Place(n)]
BY PlaceType, PlaceInjective DEF Cards

LEMMA ByteType == ASSUME NEW card \in Cards, NEW n \in Nat PROVE card[Place(n)] \in 0 .. 255
BY PlaceType DEF Cards, Byte

\* v as the number that is written.
LEMMA EofIs == CLUSTER_EOF \in Nat /\ CLUSTER_EOF % 4096 = 4095 /\ CLUSTER_EOF % 65536 = 65535
BY SMT DEF CLUSTER_EOF

LEMMA EofFromIs ==
    ASSUME NEW format \in Formats
    PROVE  EofFrom(format) \in Nat /\ EofFrom(format) <= CLUSTER_EOF
BY SMT DEF EofFrom, CLUSTER_EOF

LEMMA NumberIs ==
    ASSUME NEW format \in Formats, NEW v \in Values(format)
    PROVE  /\ Number(v) \in 0 .. CLUSTER_EOF
           /\ v = EOF => Number(v) = CLUSTER_EOF
           /\ v # EOF => Number(v) = v /\ v \in Nat /\ v < EofFrom(format)
<1>1. EofFrom(format) \in Nat /\ EofFrom(format) <= CLUSTER_EOF /\ CLUSTER_EOF \in Nat
  BY EofIs, EofFromIs
<1>2. EOF \notin Nat /\ v \in (0 .. EofFrom(format) - 1) \cup {EOF}
  BY EntryNumbers DEF Values
<1>3. CASE v = EOF
  BY <1>1, <1>3 DEF Number
<1>4. CASE v # EOF
  <2>1. v \in Nat /\ v < EofFrom(format)
    BY <1>1, <1>2, <1>4
  <2>2. Number(v) = v
    BY <1>4 DEF Number
  <2>. QED BY <1>1, <1>4, <2>1, <2>2
<1>. QED BY <1>3, <1>4

\* The number that is kept of it: its lower bits.
LEMMA ReadsAs ==
    ASSUME NEW format \in Formats, NEW v \in Values(format), NEW s \in Nat,
           format = "FAT12" => s = Number(v) % 4096,
           format = "FAT16" => s = Number(v) % 65536,
           format = "FAT32" => s = Number(v)
    PROVE  (IF s >= EofFrom(format) THEN EOF ELSE s) = v
<1>1. CASE v = EOF
  <2>1. Number(v) = CLUSTER_EOF
    BY <1>1, NumberIs
  <2>2. s >= EofFrom(format)
    <3>1. CASE format = "FAT12"
      BY SMT, <2>1, <3>1, EofIs DEF EofFrom
    <3>2. CASE format = "FAT16"
      BY SMT, <2>1, <3>2, EofIs DEF EofFrom
    <3>3. CASE format = "FAT32"
      BY <2>1, <3>3, EofIs, EofFromIs
    <3>. QED BY <3>1, <3>2, <3>3 DEF Formats
  <2>. QED BY <1>1, <2>2
<1>2. CASE v # EOF
  <2>1. Number(v) = v /\ v \in Nat /\ v < EofFrom(format)
    BY <1>2, NumberIs
  <2>2. s = v
    <3>1. CASE format = "FAT12"
      BY SMT, <2>1, <3>1 DEF EofFrom
    <3>2. CASE format = "FAT16"
      BY SMT, <2>1, <3>2 DEF EofFrom
    <3>3. CASE format = "FAT32"
      BY <2>1, <3>3
    <3>. QED BY <3>1, <3>2, <3>3 DEF Formats
  <2>3. ~(s >= EofFrom(format))
    BY <2>1, <2>2, EofFromIs
  <2>. QED BY <2>2, <2>3
<1>. QED BY <1>1, <1>2

-----------------------------------------------------------------------------
(* Entries of 12 bits                                                      *)

LEMMA Written12 ==
    ASSUME NEW card \in Cards, NEW a \in Nat, NEW odd \in BOOLEAN, NEW n \in Nat
    PROVE  LET new == Write12(card, Place(a), odd, n)
               x == card[Place(a)]
               y == card[Place(a + 1)]
           IN  /\ new[Place(a)] = IF odd THEN (n % 16) * 16 + (x % 16) ELSE n % 256
               /\ new[Place(a + 1)] = IF odd THEN (n \div 16) % 256
                                      ELSE ((n \div 256) % 16) + (y \div 16) * 16
               /\ \A m \in Nat \ {a, a + 1} : new[Place(m)] = card[Place(m)]
<1>1. Onwards(Place(a)) = Place(a + 1) /\ a + 1 \in Nat
  BY OnwardsIs
<1>2. Place(a) \in Places /\ Place(a + 1) \in Places /\ Place(a + 1) # Place(a)
  BY <1>1, PlaceType, PlaceInjective
<1>3. \A m \in Nat \ {a, a + 1} : Place(m) # Place(a) /\ Place(m) # Place(a + 1)
  BY <1>1, PlaceInjective
<1>4. card \in [Places -> Byte]
  BY DEF Cards
<1>. DEFINE p == Place(a)
            q == Place(a + 1)
<1>5. \A m \in Nat : Place(m) \in Places
  BY PlaceType
<1>6. CASE odd
  <2>. DEFINE u == (n % 16) * 16 + (card[p] % 16)
              v == (n \div 16) % 256
  <2>1. Write12(card, p, odd, n) = [card EXCEPT ![p] = u, ![q] = v]
    BY <1>1, <1>6 DEF Write12
  <2>. HIDE DEF u, v
  <2>2. /\ [card EXCEPT ![p] = u, ![q] = v][p] = u
        /\ [card EXCEPT ![p] = u, ![q] = v][q] = v
        /\ \A m \in Nat \ {a, a + 1} : [card EXCEPT ![p] = u, ![q] = v][Place(m)] = card[Place(m)]
    BY <1>2, <1>3, <1>4, <1>5
  <2>. QED BY <1>6, <2>1, <2>2 DEF u, v
<1>7. CASE ~odd
  <2>. DEFINE u == n % 256
              v == ((n \div 256) % 16) + (card[q] \div 16) * 16
  <2>1. Write12(card, p, odd, n) = [card EXCEPT ![p] = u, ![q] = v]
    BY <1>1, <1>2, <1>4, <1>7 DEF Write12
  <2>. HIDE DEF u, v
  <2>2. /\ [card EXCEPT ![p] = u, ![q] = v][p] = u
        /\ [card EXCEPT ![p] = u, ![q] = v][q] = v
        /\ \A m \in Nat \ {a, a + 1} : [card EXCEPT ![p] = u, ![q] = v][Place(m)] = card[Place(m)]
    BY <1>2, <1>3, <1>4, <1>5
  <2>. QED BY <1>7, <2>1, <2>2 DEF u, v
<1>. QED BY <1>6, <1>7

LEMMA UpperPart ==
    ASSUME NEW n \in Nat, NEW x \in 0 .. 255
    PROVE  (((n % 16) * 16 + (x % 16)) + 256 * ((n \div 16) % 256)) \div 16 = n % 4096
BY SMT

LEMMA LowerPart ==
    ASSUME NEW n \in Nat, NEW y \in 0 .. 255
    PROVE  ((n % 256) + 256 * (((n \div 256) % 16) + (y \div 16) * 16)) % 4096 = n % 4096
BY SMT

\* First bytes of entries.
LEMMA Firsts12 ==
    ASSUME NEW c \in Nat, NEW d \in Nat, d # c
    PROVE  LET a == (c * 3) \div 2
               b == (d * 3) \div 2
           IN  /\ a \in Nat /\ b \in Nat /\ (c % 2 = 1) \in BOOLEAN
               /\ \/ /\ c % 2 # 1 /\ d = c + 1 /\ d % 2 = 1 /\ b = a + 1
                  \/ /\ c % 2 = 1 /\ c = d + 1 /\ d % 2 # 1 /\ a = b + 1
                  \/ {b, b + 1} \cap {a, a + 1} = {}
<1>1. CASE c % 2 = 0
  <2>1. PICK k \in Nat : c = 2 * k
    BY <1>1, DivMod
  <2>2. (c * 3) \div 2 = 3 * k
    BY <2>1
  <2>3. CASE d % 2 = 0
    <3>1. PICK j \in Nat : d = 2 * j
      BY <2>3, DivMod
    <3>. QED BY <1>1, <2>1, <2>2, <3>1
  <2>4. CASE d % 2 # 0
    <3>1. PICK j \in Nat : d = 2 * j + 1
      BY <2>4, DivMod
    <3>. QED BY <1>1, <2>1, <2>2, <2>4, <3>1
  <2>. QED BY <2>3, <2>4
<1>2. CASE c % 2 # 0
  <2>1. PICK k \in Nat : c = 2 * k + 1
    BY <1>2, DivMod
  <2>2. (c * 3) \div 2 = 3 * k + 1
    BY <2>1
  <2>3. CASE d % 2 = 0
    <3>1. PICK j \in Nat : d = 2 * j
      BY <2>3, DivMod
    <3>. QED BY <1>2, <2>1, <2>2, <2>3, <3>1
  <2>4. CASE d % 2 # 0
    <3>1. PICK j \in Nat : d = 2 * j + 1
      BY <2>4, DivMod
    <3>. QED BY <1>2, <2>1, <2>2, <3>1
  <2>. QED BY <2>3, <2>4
<1>. QED BY <1>1, <1>2

LEMMA Read12 ==
    ASSUME NEW card \in Cards, NEW c \in Nat, NEW n \in Nat
    PROVE  LET odd == c % 2 = 1 IN
           Stored12(Write12(card, Packed(c), odd, n), Packed(c), odd) = n % 4096
<1>. DEFINE odd == c % 2 = 1
            a == (c * 3) \div 2
            new == Write12(card, Place(a), odd, n)
            x == card[Place(a)]
            y == card[Place(a + 1)]
<1>1. a \in Nat /\ a + 1 \in Nat /\ odd \in BOOLEAN
  OBVIOUS
<1>2. Packed(c) = Place(a) /\ Onwards(Place(a)) = Place(a + 1)
  BY PackedIs
<1>3. x \in 0 .. 255 /\ y \in 0 .. 255
  BY <1>1, ByteType
<1>. HIDE DEF odd, a
<1>4. /\ new[Place(a)] = IF odd THEN (n % 16) * 16 + (x % 16) ELSE n % 256
      /\ new[Place(a + 1)] = IF odd THEN (n \div 16) % 256
                             ELSE ((n \div 256) % 16) + (y \div 16) * 16
  BY <1>1, Written12
<1>. HIDE DEF new, x, y
<1>5. Stored12(new, Place(a), odd) =
          IF odd THEN (new[Place(a)] + 256 * new[Place(a + 1)]) \div 16
          ELSE (new[Place(a)] + 256 * new[Place(a + 1)]) % 4096
  BY <1>2 DEF Stored12
<1>6. Stored12(new, Place(a), odd) = n % 4096
  <2>1. (((n % 16) * 16 + (x % 16)) + 256 * ((n \div 16) % 256)) \div 16 = n % 4096
    BY <1>3, UpperPart
  <2>2. ((n % 256) + 256 * (((n \div 256) % 16) + (y \div 16) * 16)) % 4096 = n % 4096
    BY <1>3, LowerPart
  <2>. QED BY <1>4, <1>5, <2>1, <2>2
<1>. QED BY <1>2, <1>6 DEF new, odd

LEMMA Frame12 ==
    ASSUME NEW card \in Cards, NEW c \in Nat, NEW d \in Nat, d # c, NEW n \in Nat
    PROVE  Stored12(Write12(card, Packed(c), c % 2 = 1, n), Packed(d), d % 2 = 1)
             = Stored12(card, Packed(d), d % 2 = 1)
<1>. DEFINE odd == c % 2 = 1
            even == d % 2 # 1
            a == (c * 3) \div 2
            b == (d * 3) \div 2
            new == Write12(card, Place(a), odd, n)
            x == card[Place(a)]
            y == card[Place(a + 1)]
<1>0. a \in Nat /\ odd \in BOOLEAN
  BY Firsts12
<1>1. /\ a \in Nat /\ b \in Nat /\ a + 1 \in Nat /\ b + 1 \in Nat
      /\ \/ ~odd /\ ~even /\ b = a + 1
         \/ odd /\ even /\ a = b + 1
         \/ {b, b + 1} \cap {a, a + 1} = {}
  BY Firsts12
<1>2. /\ Packed(c) = Place(a) /\ Packed(d) = Place(b)
      /\ Onwards(Packed(d)) = Place(b + 1)
  BY PackedIs
<1>3. x \in 0 .. 255 /\ y \in 0 .. 255 /\ card[Place(b)] \in 0 .. 255 /\ card[Place(b + 1)] \in 0 .. 255
  BY <1>1, ByteType
<1>. HIDE DEF odd, even, a, b
<1>4. /\ new[Place(a)] = IF odd THEN (n % 16) * 16 + (x % 16) ELSE n % 256
      /\ new[Place(a + 1)] = IF odd THEN (n \div 16) % 256
                             ELSE ((n \div 256) % 16) + (y \div 16) * 16
  BY <1>0, Written12
<1>9. \A m \in Nat \ {a, a + 1} : new[Place(m)] = card[Place(m)]
  BY <1>0, Written12
<1>. HIDE DEF new
<1>5. \A t : Stored12(t, Packed(d), ~even) =
          IF ~even THEN (t[Place(b)] + 256 * t[Place(b + 1)]) \div 16
          ELSE (t[Place(b)] + 256 * t[Place(b + 1)]) % 4096
  BY <1>2 DEF Stored12
<1>6. CASE ~odd /\ ~even /\ b = a + 1
  <2>1. b + 1 \in Nat \ {a, a + 1}
    BY <1>1, <1>6
  <2>2. /\ new[Place(b)] = ((n \div 256) % 16) + (card[Place(b)] \div 16) * 16
        /\ new[Place(b + 1)] = card[Place(b + 1)]
    BY <1>4, <1>6, <1>9, <2>1
  <2>3. (new[Place(b)] + 256 * new[Place(b + 1)]) \div 16
          = (card[Place(b)] + 256 * card[Place(b + 1)]) \div 16
    <3>. DEFINE k == card[Place(b)]
                z == card[Place(b + 1)]
    <3>1. k \in 0 .. 255 /\ z \in 0 .. 255
      BY <1>3
    <3>. HIDE DEF k, z
    <3>2. ((((n \div 256) % 16) + (k \div 16) * 16) + 256 * z) \div 16 = (k + 256 * z) \div 16
      BY SMT, <3>1
    <3>. QED BY <2>2, <3>2 DEF k, z
  <2>4. Stored12(new, Packed(d), ~even) = Stored12(card, Packed(d), ~even)
    BY <1>5, <1>6, <2>3
  <2>. QED BY <1>2, <2>4 DEF new, odd, even
<1>7. CASE odd /\ even /\ a = b + 1
  <2>1. b \in Nat \ {a, a + 1}
    BY <1>1, <1>7
  <2>2. /\ new[Place(b)] = card[Place(b)]
        /\ new[Place(b + 1)] = (n % 16) * 16 + (card[Place(b + 1)] % 16)
    BY <1>4, <1>7, <1>9, <2>1
  <2>3. (new[Place(b)] + 256 * new[Place(b + 1)]) % 4096
          = (card[Place(b)] + 256 * card[Place(b + 1)]) % 4096
    <3>. DEFINE k == card[Place(b + 1)]
                z == card[Place(b)]
    <3>1. k \in 0 .. 255 /\ z \in 0 .. 255
      BY <1>3
    <3>. HIDE DEF k, z
    <3>2. (z + 256 * ((n % 16) * 16 + (k % 16))) % 4096 = (z + 256 * k) % 4096
      BY SMT, <3>1
    <3>. QED BY <2>2, <3>2 DEF k, z
  <2>4. Stored12(new, Packed(d), ~even) = Stored12(card, Packed(d), ~even)
    BY <1>5, <1>7, <2>3
  <2>. QED BY <1>2, <2>4 DEF new, odd, even
<1>8. CASE {b, b + 1} \cap {a, a + 1} = {}
  <2>1. new[Place(b)] = card[Place(b)] /\ new[Place(b + 1)] = card[Place(b + 1)]
    BY <1>1, <1>8, <1>9
  <2>2. Stored12(new, Packed(d), ~even) = Stored12(card, Packed(d), ~even)
    BY <1>5, <2>1
  <2>. QED BY <1>2, <2>2 DEF new, odd, even
<1>. QED BY <1>1, <1>6, <1>7, <1>8

-----------------------------------------------------------------------------
(* Entries of 16 and of 32 bits                                            *)

LEMMA Entry16 ==
    ASSUME NEW card \in Cards, NEW c \in Nat, NEW n \in Nat
    PROVE  LET new == Write16(card, Aligned(2, c), n) IN
           /\ Stored16(new, Aligned(2, c)) = n % 65536
           /\ \A d \in Nat \ {c} : Stored16(new, Aligned(2, d)) = Stored16(card, Aligned(2, d))
<1>. DEFINE new == Write16(card, Aligned(2, c), n)
            p == Place(c * 2)
            q == Place(c * 2 + 1)
<1>1. \A d \in Nat : /\ d * 2 \in Nat /\ d * 2 + 1 \in Nat
                     /\ Aligned(2, d) = Place(d * 2) /\ In(Aligned(2, d), 1) = Place(d * 2 + 1)
  BY AlignedIs
<1>2. \A d \in Nat \ {c} : {d * 2, d * 2 + 1} \cap {c * 2, c * 2 + 1} = {}
  OBVIOUS
<1>3. \A d \in Nat \ {c} : {Place(d * 2), Place(d * 2 + 1)} \cap {p, q} = {}
  BY <1>1, <1>2, PlaceInjective
<1>4. p # q /\ p \in Places /\ q \in Places
  <2>1. c * 2 # c * 2 + 1
    OBVIOUS
  <2>. QED BY <1>1, <2>1, PlaceInjective, PlaceType
<1>5. new = [card EXCEPT ![p] = Bytes(n)[1], ![q] = Bytes(n)[2]]
  BY <1>1 DEF Write16
<1>. HIDE DEF p, q, new
<1>6. /\ new[p] = Bytes(n)[1] /\ new[q] = Bytes(n)[2]
      /\ \A r \in Places \ {p, q} : new[r] = card[r]
  BY <1>4, <1>5 DEF Cards
<1>7. Stored16(new, Aligned(2, c)) = Bytes(n)[1] + 256 * Bytes(n)[2]
  BY <1>1, <1>6 DEF Stored16, p, q
<1>8. Bytes(n)[1] + 256 * Bytes(n)[2] = n % 65536
  BY SMT DEF Bytes
<1>9. ASSUME NEW d \in Nat \ {c}
      PROVE  Stored16(new, Aligned(2, d)) = Stored16(card, Aligned(2, d))
  <2>1. Place(d * 2) \in Places \ {p, q} /\ Place(d * 2 + 1) \in Places \ {p, q}
    BY <1>1, <1>3, PlaceType
  <2>. QED BY <1>1, <1>6, <2>1 DEF Stored16
<1>. QED BY <1>7, <1>8, <1>9 DEF new

LEMMA BytesAre ==
    ASSUME NEW n \in Nat, n <= CLUSTER_EOF
    PROVE  /\ Whole(Bytes(n)[1], Bytes(n)[2], Bytes(n)[3], Bytes(n)[4]) = n
           /\ ~(Bytes(n)[4] > 15)
<1>. DEFINE q1 == n \div 256
            q2 == q1 \div 256
            q3 == q2 \div 256
<1>1. n = 256 * q1 + (n % 256) /\ q1 \in Nat
  BY SMT
<1>2. q1 = 256 * q2 + (q1 % 256) /\ q2 \in Nat
  BY SMT, <1>1
<1>3. q2 = 256 * q3 + (q2 % 256) /\ q3 \in Nat
  BY SMT, <1>2
<1>4. n \div 65536 = q2 /\ n \div 16777216 = q3
  BY SMT
<1>5. q3 <= 15
  <2>1. n \div 16777216 \in Nat /\ 16777216 * (n \div 16777216) <= n
    BY SMT
  <2>2. n <= 268435455
    BY SMT DEF CLUSTER_EOF
  <2>3. n \div 16777216 <= 15
    BY SMT, <2>1, <2>2
  <2>. QED BY <1>4, <2>3
<1>6. q3 % 256 = q3
  BY SMT, <1>3, <1>5
<1>. HIDE DEF q1, q2, q3
<1>. QED BY SMT, <1>1, <1>2, <1>3, <1>4, <1>5, <1>6 DEF Bytes, Whole, q1

\* A number of 28 bits is read as it was written.
LEMMA Entry32 ==
    ASSUME NEW card \in Cards, NEW c \in Nat, NEW n \in 0 .. CLUSTER_EOF
    PROVE  LET new == Write32(card, Aligned(4, c), n) IN
           /\ Stored32(new, Aligned(4, c)) = n
           /\ \A d \in Nat \ {c} : Stored32(new, Aligned(4, d)) = Stored32(card, Aligned(4, d))
<1>. DEFINE new == Write32(card, Aligned(4, c), n)
            p0 == Place(c * 4)
            p1 == Place(c * 4 + 1)
            p2 == Place(c * 4 + 2)
            p3 == Place(c * 4 + 3)
<1>1. ASSUME NEW d \in Nat
      PROVE  /\ Aligned(4, d) = Place(d * 4) /\ In(Aligned(4, d), 1) = Place(d * 4 + 1)
             /\ In(Aligned(4, d), 2) = Place(d * 4 + 2) /\ In(Aligned(4, d), 3) = Place(d * 4 + 3)
  <2>1. 1 \in 1 .. 4 - 1 /\ 2 \in 1 .. 4 - 1 /\ 3 \in 1 .. 4 - 1
    OBVIOUS
  <2>2. Aligned(4, d) = Place(d * 4) /\ \A i \in 1 .. 4 - 1 : In(Aligned(4, d), i) = Place(d * 4 + i)
    BY AlignedIs
  <2>. QED BY <2>1, <2>2
<1>2. ASSUME NEW d \in Nat \ {c}, NEW m \in {d * 4, d * 4 + 1, d * 4 + 2, d * 4 + 3}
      PROVE  Place(m) \in Places \ {p0, p1, p2, p3}
  <2>1. m \in Nat /\ \A k \in {c * 4, c * 4 + 1, c * 4 + 2, c * 4 + 3} : k \in Nat /\ m # k
    OBVIOUS
  <2>. QED BY <2>1, PlaceInjective, PlaceType
<1>3. /\ p0 \in Places /\ p1 \in Places /\ p2 \in Places /\ p3 \in Places
      /\ p0 # p1 /\ p0 # p2 /\ p0 # p3 /\ p1 # p2 /\ p1 # p3 /\ p2 # p3
  <2>1. /\ c * 4 \in Nat /\ c * 4 + 1 \in Nat /\ c * 4 + 2 \in Nat /\ c * 4 + 3 \in Nat
        /\ c * 4 # c * 4 + 1 /\ c * 4 # c * 4 + 2 /\ c * 4 # c * 4 + 3
        /\ c * 4 + 1 # c * 4 + 2 /\ c * 4 + 1 # c * 4 + 3 /\ c * 4 + 2 # c * 4 + 3
    OBVIOUS
  <2>. QED BY <2>1, PlaceInjective, PlaceType
<1>4. /\ Aligned(4, c) = p0 /\ In(p0, 1) = p1 /\ In(p0, 2) = p2 /\ In(p0, 3) = p3
  BY <1>1
<1>. HIDE DEF p0, p1, p2, p3
<1>5. new = [card EXCEPT ![p0] = Bytes(n)[1], ![p1] = Bytes(n)[2],
                         ![p2] = Bytes(n)[3], ![p3] = Bytes(n)[4]]
  BY <1>4 DEF Write32
<1>. HIDE DEF new
<1>6. /\ new[p0] = Bytes(n)[1] /\ new[p1] = Bytes(n)[2]
      /\ new[p2] = Bytes(n)[3] /\ new[p3] = Bytes(n)[4]
      /\ \A r \in Places \ {p0, p1, p2, p3} : new[r] = card[r]
  BY <1>3, <1>5 DEF Cards
<1>7. Stored32(new, Aligned(4, c)) = n
  BY <1>4, <1>6, EofIs, BytesAre DEF Stored32
<1>8. ASSUME NEW d \in Nat \ {c}
      PROVE  Stored32(new, Aligned(4, d)) = Stored32(card, Aligned(4, d))
  <2>1. /\ new[Place(d * 4)] = card[Place(d * 4)]
        /\ new[Place(d * 4 + 1)] = card[Place(d * 4 + 1)]
        /\ new[Place(d * 4 + 2)] = card[Place(d * 4 + 2)]
        /\ new[Place(d * 4 + 3)] = card[Place(d * 4 + 3)]
    BY <1>2, <1>6
  <2>. QED BY <1>1, <2>1 DEF Stored32
<1>. QED BY <1>7, <1>8 DEF new

-----------------------------------------------------------------------------
(* The table                                                               *)

LEMMA EntryRead ==
    ASSUME NEW format \in Formats, NEW card \in Cards, NEW c \in Clusters, NEW v \in Values(format)
    PROVE  NextCluster(format, WriteFatEntry(format, card, c, v), c) = v
<1>. DEFINE n == Number(v)
<1>1. c \in Nat /\ n \in 0 .. CLUSTER_EOF /\ n \in Nat
  BY EntryNumbers, NumberIs, EofIs
<1>. HIDE DEF n
<1>2. n % 4096 \in Nat /\ n % 65536 \in Nat
  BY SMT, <1>1
<1>3. CASE format = "FAT12"
  <2>1. WriteFatEntry(format, card, c, v) = Write12(card, Packed(c), c % 2 = 1, n)
    BY <1>3 DEF WriteFatEntry, n
  <2>2. Stored12(Write12(card, Packed(c), c % 2 = 1, n), Packed(c), c % 2 = 1) = n % 4096
    BY <1>1, Read12
  <2>. DEFINE s == n % 4096
  <2>3. s \in Nat /\ (format = "FAT12" => s = Number(v) % 4096)
    BY <1>2 DEF n
  <2>. HIDE DEF s
  <2>4. (IF s >= EofFrom(format) THEN EOF ELSE s) = v
    BY <1>3, <2>3, ReadsAs
  <2>. QED BY <1>3, <2>1, <2>2, <2>4 DEF NextCluster, s
<1>4. CASE format = "FAT16"
  <2>1. WriteFatEntry(format, card, c, v) = Write16(card, Aligned(2, c), n)
    BY <1>4 DEF WriteFatEntry, n
  <2>2. Stored16(Write16(card, Aligned(2, c), n), Aligned(2, c)) = n % 65536
    BY <1>1, Entry16
  <2>. DEFINE s == n % 65536
  <2>3. s \in Nat /\ (format = "FAT16" => s = Number(v) % 65536)
    BY <1>2 DEF n
  <2>. HIDE DEF s
  <2>4. (IF s >= EofFrom(format) THEN EOF ELSE s) = v
    BY <1>4, <2>3, ReadsAs
  <2>. QED BY <1>4, <2>1, <2>2, <2>4 DEF NextCluster, s
<1>5. CASE format = "FAT32"
  <2>1. WriteFatEntry(format, card, c, v) = Write32(card, Aligned(4, c), n)
    BY <1>5 DEF WriteFatEntry, n
  <2>2. Stored32(Write32(card, Aligned(4, c), n), Aligned(4, c)) = n
    BY <1>1, Entry32
  <2>3. (IF n >= EofFrom(format) THEN EOF ELSE n) = v
    BY <1>1, <1>5, ReadsAs DEF n
  <2>. QED BY <1>5, <2>1, <2>2, <2>3 DEF NextCluster
<1>. QED BY <1>3, <1>4, <1>5 DEF Formats

LEMMA EntryFrame ==
    ASSUME NEW format \in Formats, NEW card \in Cards, NEW c \in Clusters, NEW v \in Values(format),
           NEW d \in Nat, d # c
    PROVE  NextCluster(format, WriteFatEntry(format, card, c, v), d) = NextCluster(format, card, d)
<1>. DEFINE n == Number(v)
<1>1. c \in Nat /\ n \in 0 .. CLUSTER_EOF /\ n \in Nat /\ d \in Nat \ {c}
  BY EntryNumbers, NumberIs, EofIs
<1>. HIDE DEF n
<1>2. CASE format = "FAT12"
  <2>1. WriteFatEntry(format, card, c, v) = Write12(card, Packed(c), c % 2 = 1, n)
    BY <1>2 DEF WriteFatEntry, n
  <2>. QED BY <1>1, <1>2, <2>1, Frame12 DEF NextCluster
<1>3. CASE format = "FAT16"
  <2>1. WriteFatEntry(format, card, c, v) = Write16(card, Aligned(2, c), n)
    BY <1>3 DEF WriteFatEntry, n
  <2>. QED BY <1>1, <1>3, <2>1, Entry16 DEF NextCluster
<1>4. CASE format = "FAT32"
  <2>1. WriteFatEntry(format, card, c, v) = Write32(card, Aligned(4, c), n)
    BY <1>4 DEF WriteFatEntry, n
  <2>. QED BY <1>1, <1>4, <2>1, Entry32 DEF NextCluster
<1>. QED BY <1>2, <1>3, <1>4 DEF Formats

\* Writing an entry, then reading the whole table: the entry has its value,
\* all others have theirs, neighbours in the same byte and across a sector's
\* end included; writes to reserved entries and past the table do nothing.
THEOREM EntriesMakeTable ==
    ASSUME NEW format \in Formats, NEW card \in Cards, NEW c \in Entries, NEW v \in Values(format)
    PROVE  Table(format, WriteFatEntry(format, card, c, v)) = Put(Table(format, card), c, v)
<1>. DEFINE new == WriteFatEntry(format, card, c, v)
<1>1. CASE c \in Clusters
  <2>1. NextCluster(format, new, c) = v
    BY <1>1, EntryRead
  <2>2. \A d \in Entries \ {c} : NextCluster(format, new, d) = NextCluster(format, card, d)
    BY <1>1, EntryFrame, EntryNumbers
  <2>. HIDE DEF new
  <2>3. Table(format, new) = [Table(format, card) EXCEPT ![c] = v]
    BY <2>1, <2>2 DEF Table
  <2>. QED BY <1>1, <2>3 DEF new, Put
<1>2. CASE c \notin Clusters
  BY <1>2 DEF WriteFatEntry, Put
<1>. QED BY <1>1, <1>2

-----------------------------------------------------------------------------
(* The cache                                                               *)

IInv == CacheTypeOK /\ OnePagePerSector /\ CleanPageIsOnDisc

PageType == [sector : Sectors \cup {Free}, count : Nat, dirty : BOOLEAN, data : Content]

LEMMA FreeIsNoSector == Free \notin Sectors
BY CacheAssumption DEF Sectors

LEMMA BlankType == Blank \in Content
BY CacheAssumption DEF Blank, Content

\* A run of whole sectors lies on the card, and its pieces are sectors.
LEMMA BufsType ==
    ASSUME NEW s \in Sectors, NEW buf \in Bufs(s)
    PROVE  /\ \A j \in DOMAIN buf : j \in Nat /\ s + j \in Sectors /\ buf[j] \in Content
           /\ DOMAIN buf \subseteq Nat
<1>1. PICK n \in 1 .. (IF s + MaxRun <= NumSectors THEN MaxRun ELSE NumSectors - s) :
          buf \in [0 .. n - 1 -> Content]
  BY DEF Bufs
<1>2. n \in Nat /\ s + n <= NumSectors
  BY CacheAssumption DEF Sectors
<1> QED
  BY <1>1, <1>2, CacheAssumption DEF Sectors

\* Writing a piece of a page keeps its type, sector and use count.
LEMMA UsedType ==
    ASSUME NEW op, NEW h \in Parts, NEW v \in Vals, NEW pg \in PageType
    PROVE  /\ Used(op, h, v, pg).data \in Content
           /\ Used(op, h, v, pg).sector = pg.sector
           /\ Used(op, h, v, pg).count = pg.count
           /\ Used(op, h, v, pg).dirty \in BOOLEAN
           /\ Used(op, h, v, pg) \in PageType
           /\ ~Used(op, h, v, pg).dirty => Used(op, h, v, pg) = pg
<1>1. Blank \in Content /\ pg.data \in Content
  BY BlankType DEF PageType
<1>2. [(IF op = "erase" THEN Blank ELSE pg.data) EXCEPT ![h] = v] \in Content
  BY <1>1 DEF Content
<1> QED
  BY <1>2 DEF Used, PageType

LEMMA LoadedType ==
    ASSUME CacheTypeOK, NEW p \in Pages, NEW s \in Sectors
    PROVE  /\ Counted(p) \in PageType
           /\ Counted(p).sector = page[p].sector
           /\ Counted(p).dirty = page[p].dirty
           /\ Counted(p).data = page[p].data
           /\ Loaded(p, s) \in PageType
           /\ Loaded(p, s).sector = s
           /\ Loaded(p, s).dirty = FALSE
           /\ Loaded(p, s).data = disc[s]
<1>1. page[p] \in PageType /\ disc[s] \in Content
  BY DEF CacheTypeOK, PageType
<1>2. /\ Counted(p) \in PageType
      /\ Counted(p).sector = page[p].sector
      /\ Counted(p).dirty = page[p].dirty
      /\ Counted(p).data = page[p].data
  BY <1>1 DEF Counted, PageType
<1>3. /\ Loaded(p, s) \in PageType
      /\ Loaded(p, s).sector = s
      /\ Loaded(p, s).dirty = FALSE
      /\ Loaded(p, s).data = disc[s]
  BY <1>1, <1>2 DEF Loaded, PageType
<1> QED
  BY <1>2, <1>3

\* What writing an evicted page back does to the card.
LEMMA WrittenBackFacts ==
    ASSUME CacheTypeOK, NEW p \in Pages
    PROVE  /\ WrittenBack(p) \in [Sectors -> Content]
           /\ \A t \in Sectors : t # page[p].sector => WrittenBack(p)[t] = disc[t]
           /\ page[p].sector # Free /\ page[p].dirty
                 => WrittenBack(p)[page[p].sector] = page[p].data
           /\ ~page[p].dirty => WrittenBack(p) = disc
BY DEF CacheTypeOK, WrittenBack

LEMMA InitInv == CacheInit => IInv
BY BlankType, FreeIsNoSector
   DEF CacheInit, IInv, CacheTypeOK, OnePagePerSector, CleanPageIsOnDisc, FreePage

-----------------------------------------------------------------------------
\* A step that replaces page p by x, and writes the card only where no other
\* page needs its content, keeps the invariant.
LEMMA OneReplaced ==
    ASSUME IInv, NEW p \in Pages, NEW x \in PageType,
           page' = [page EXCEPT ![p] = x],
           disc' \in [Sectors -> Content],
           lost' \subseteq Sectors, lost \subseteq lost',
           x.sector = Free => ~x.dirty,
           \A q \in Pages : x.sector # Free /\ page[q].sector = x.sector => q = p,
           \A t \in Sectors : t # page[p].sector => disc'[t] = disc[t],
           (x.sector # Free /\ ~x.dirty /\ x.sector \notin lost') => x.data = disc'[x.sector]
    PROVE  IInv'
<1>1. /\ page'[p] = x
      /\ \A q \in Pages : q # p => page'[q] = page[q]
      /\ \A q \in Pages : page[q] \in PageType
  BY DEF IInv, CacheTypeOK, PageType
<1>2. CacheTypeOK'
  <2>1. page' \in [Pages -> PageType]
    BY DEF IInv, CacheTypeOK, PageType
  <2> QED
    BY <1>1, <2>1 DEF IInv, CacheTypeOK, PageType
<1>3. OnePagePerSector'
  BY <1>1 DEF IInv, OnePagePerSector
<1>4. CleanPageIsOnDisc'
  <2> SUFFICES ASSUME NEW q \in Pages, page'[q].sector # Free, ~page'[q].dirty,
                      page'[q].sector \notin lost'
               PROVE  page'[q].data = disc'[page'[q].sector]
    BY DEF CleanPageIsOnDisc
  <2>1. CASE q = p
    BY <2>1, <1>1
  <2>2. CASE q # p
    <3>1. page'[q] = page[q] /\ page[q].sector \in Sectors /\ page[q].sector # page[p].sector
      BY <2>2, <1>1 DEF IInv, OnePagePerSector, PageType
    <3>2. page[q].data = disc[page[q].sector]
      BY <3>1 DEF IInv, CleanPageIsOnDisc
    <3> QED
      BY <3>1, <3>2
  <2> QED
    BY <2>1, <2>2
<1> QED
  BY <1>2, <1>3, <1>4 DEF IInv

LEMMA HitKeepsInv ==
    ASSUME IInv, NEW op, NEW s \in Sectors, NEW h \in Parts, NEW v \in Vals, Hit(op, s, h, v)
    PROVE  IInv'
<1>1. PICK p \in Holder(s) :
          /\ page' = [page EXCEPT ![p] = Used(op, h, v, Counted(p))]
          /\ UNCHANGED <<disc, lost>>
  BY DEF Hit
<1> DEFINE x == Used(op, h, v, Counted(p))
<1>2. p \in Pages /\ page[p].sector = s /\ s # Free
  BY <1>1, FreeIsNoSector DEF Holder
<1>3. /\ Counted(p) \in PageType
      /\ Counted(p).sector = s
      /\ Counted(p).dirty = page[p].dirty
      /\ Counted(p).data = page[p].data
  BY <1>2, LoadedType DEF IInv
<1>4. x \in PageType /\ x.sector = s /\ (~x.dirty => x = Counted(p))
  BY <1>3, UsedType
<1>5. \A q \in Pages : page[q].sector = x.sector => q = p
  BY <1>2, <1>4 DEF IInv, OnePagePerSector
<1>6. (~x.dirty /\ s \notin lost) => x.data = disc[s]
  BY <1>2, <1>3, <1>4 DEF IInv, CleanPageIsOnDisc
<1>7. disc \in [Sectors -> Content] /\ lost \subseteq Sectors
  BY DEF IInv, CacheTypeOK
<1> HIDE DEF x
<1>8. page' = [page EXCEPT ![p] = x] /\ disc' = disc /\ lost' = lost
  BY <1>1 DEF x
<1>9. /\ disc' \in [Sectors -> Content] /\ lost' \subseteq Sectors /\ lost \subseteq lost'
      /\ \A t \in Sectors : disc'[t] = disc[t]
      /\ (~x.dirty /\ x.sector \notin lost') => x.data = disc'[x.sector]
  BY <1>4, <1>6, <1>7, <1>8
<1> QED
  BY <1>2, <1>4, <1>5, <1>8, <1>9, OneReplaced

LEMMA MissKeepsInv ==
    ASSUME IInv, NEW op, NEW s \in Sectors, NEW h \in Parts, NEW v \in Vals, Miss(op, s, h, v)
    PROVE  IInv'
<1>1. PICK p \in Pages :
          /\ disc' = WrittenBack(p)
          /\ page' = [page EXCEPT ![p] = Used(op, h, v, Loaded(p, s))]
          /\ lost' = lost
  BY DEF Miss
<1> DEFINE x == Used(op, h, v, Loaded(p, s))
<1>2. \A q \in Pages : page[q].sector # s
  BY DEF Miss, Cached, Holder
<1>3. /\ Loaded(p, s) \in PageType
      /\ Loaded(p, s).sector = s
      /\ Loaded(p, s).data = disc[s]
  BY LoadedType DEF IInv
<1>4. x \in PageType /\ x.sector = s /\ (~x.dirty => x = Loaded(p, s))
  BY <1>3, UsedType
<1>5. /\ disc' \in [Sectors -> Content]
      /\ \A t \in Sectors : t # page[p].sector => disc'[t] = disc[t]
  BY <1>1, WrittenBackFacts DEF IInv
<1>6. ~x.dirty => x.data = disc'[s]
  BY <1>2, <1>3, <1>4, <1>5
<1>7. lost \subseteq Sectors
  BY DEF IInv, CacheTypeOK
<1> HIDE DEF x
<1>8. page' = [page EXCEPT ![p] = x] /\ s # Free
  BY <1>1, FreeIsNoSector DEF x
<1> QED
  BY <1>1, <1>2, <1>4, <1>5, <1>6, <1>7, <1>8, OneReplaced

LEMMA AccessFailsKeepsInv ==
    ASSUME IInv, NEW s \in Sectors, AccessFails(s)
    PROVE  IInv'
<1>1. CASE MissWriteFails(s)
  <2>1. PICK p \in Pages : page[p].dirty /\ disc' \in {disc, WrittenBack(p)}
    BY <1>1 DEF MissWriteFails
  <2>2. page' = page /\ lost' = lost
    BY <1>1 DEF MissWriteFails
  <2>3. /\ page[p] \in PageType
        /\ page = [page EXCEPT ![p] = page[p]]
        /\ lost \subseteq Sectors
        /\ page[p].sector # Free
    BY <2>1 DEF IInv, CacheTypeOK, PageType
  <2>4. /\ disc' \in [Sectors -> Content]
        /\ \A t \in Sectors : t # page[p].sector => disc'[t] = disc[t]
    BY <2>1, WrittenBackFacts DEF IInv, CacheTypeOK
  <2>5. \A q \in Pages : page[q].sector = page[p].sector => q = p
    BY <2>3 DEF IInv, OnePagePerSector
  <2> QED
    BY <2>1, <2>2, <2>3, <2>4, <2>5, OneReplaced
<1>2. CASE MissReadFails(s)
  <2>1. PICK p \in Pages, d \in Content :
            /\ disc' = WrittenBack(p)
            /\ page[p].sector = Free => d = page[p].data
            /\ page' = [page EXCEPT ![p].dirty = FALSE, ![p].data = d]
            /\ lost' = IF d = page[p].data THEN lost ELSE lost \cup {page[p].sector}
    BY <1>2 DEF MissReadFails
  <2> DEFINE x == [page[p] EXCEPT !.dirty = FALSE, !.data = d]
  <2>2. page[p] \in PageType /\ lost \subseteq Sectors /\ DOMAIN page = Pages
    BY DEF IInv, CacheTypeOK, PageType
  <2>3. /\ x \in PageType
        /\ x.sector = page[p].sector
        /\ x.dirty = FALSE
        /\ x.data = d
    BY <2>2 DEF PageType
  <2>4. page' = [page EXCEPT ![p] = x]
    BY <2>1, <2>2
  <2>5. /\ disc' \in [Sectors -> Content]
        /\ \A t \in Sectors : t # page[p].sector => disc'[t] = disc[t]
    BY <2>1, WrittenBackFacts DEF IInv
  <2>6. lost' \subseteq Sectors /\ lost \subseteq lost'
    BY <2>1, <2>2 DEF PageType
  <2>7. \A q \in Pages : x.sector # Free /\ page[q].sector = x.sector => q = p
    BY <2>3 DEF IInv, OnePagePerSector
  <2>8. (x.sector # Free /\ x.sector \notin lost') => x.data = disc'[x.sector]
    <3> SUFFICES ASSUME page[p].sector # Free, page[p].sector \notin lost'
                 PROVE  d = disc'[page[p].sector]
      BY <2>3
    <3>1. d = page[p].data /\ lost' = lost
      BY <2>1
    <3>2. CASE page[p].dirty
      BY <3>1, <3>2, <2>1, WrittenBackFacts DEF IInv
    <3>3. CASE ~page[p].dirty
      <4>1. WrittenBack(p) = disc
        BY <3>3, WrittenBackFacts DEF IInv
      <4> QED
        BY <3>1, <3>3, <4>1, <2>1 DEF IInv, CleanPageIsOnDisc
    <3> QED
      BY <3>2, <3>3
  <2> HIDE DEF x
  <2> QED
    BY <2>3, <2>4, <2>5, <2>6, <2>7, <2>8, OneReplaced
<1> QED
  BY <1>1, <1>2 DEF AccessFails

\* A page's sector after the dirty pages of P were written.
LEMMA SyncedFacts ==
    ASSUME IInv, NEW P \in SUBSET Pages
    PROVE  /\ Synced(P) \in [Sectors -> Content]
           /\ \A q \in Pages : page[q].sector # Free =>
                 Synced(P)[page[q].sector] =
                    IF q \in P /\ page[q].dirty THEN page[q].data ELSE disc[page[q].sector]
<1>1. \A q \in Pages : page[q] \in PageType
  BY DEF IInv, CacheTypeOK, PageType
<1>2. ASSUME NEW t \in Sectors
      PROVE  Synced(P)[t] \in Content
  <2>1. CASE \E p \in P : page[p].dirty /\ page[p].sector = t
    <3>1. (CHOOSE p \in P : page[p].dirty /\ page[p].sector = t) \in Pages
      BY <2>1
    <3> QED
      BY <2>1, <3>1, <1>1 DEF Synced, PageType
  <2>2. CASE ~ \E p \in P : page[p].dirty /\ page[p].sector = t
    BY <2>2 DEF Synced, IInv, CacheTypeOK
  <2> QED
    BY <2>1, <2>2
<1>3. Synced(P) \in [Sectors -> Content]
  BY <1>2 DEF Synced
<1>4. ASSUME NEW q \in Pages, page[q].sector # Free
      PROVE  Synced(P)[page[q].sector] =
                IF q \in P /\ page[q].dirty THEN page[q].data ELSE disc[page[q].sector]
  <2>1. page[q].sector \in Sectors
    BY <1>1, <1>4 DEF PageType
  <2>2. \A p \in P : page[p].sector = page[q].sector => p = q
    BY <1>4 DEF IInv, OnePagePerSector
  <2>3. CASE q \in P /\ page[q].dirty
    <3>1. (CHOOSE p \in P : page[p].dirty /\ page[p].sector = page[q].sector) = q
      BY <2>2, <2>3
    <3> QED
      BY <2>1, <2>3, <3>1 DEF Synced
  <2>4. CASE ~(q \in P /\ page[q].dirty)
    BY <2>1, <2>2, <2>4 DEF Synced
  <2> QED
    BY <2>3, <2>4
<1> QED
  BY <1>3, <1>4

LEMMA FlushKeepsInv ==
    ASSUME IInv, Flush
    PROVE  IInv'
<1>1. PICK n \in 0 .. NumPages :
          /\ page' = [p \in Pages |-> IF p < n THEN Cleaned(p) ELSE page[p]]
          /\ \/ disc' = Synced(0 .. n - 1)
             \/ n < NumPages /\ disc' = Synced(0 .. n)
          /\ n < NumPages => page[n].dirty
  BY DEF Flush
<1>2. lost' = lost
  BY DEF Flush
<1>3. PICK P \in SUBSET Pages :
          /\ disc' = Synced(P)
          /\ \A q \in Pages : q < n => q \in P
          /\ \A q \in P : q < n \/ (q = n /\ page[n].dirty)
  <2>1. CASE disc' = Synced(0 .. n - 1)
    <3>1. 0 .. n - 1 \in SUBSET Pages
      BY CacheAssumption DEF Pages
    <3> QED
      BY <2>1, <3>1 DEF Pages
  <2>2. CASE n < NumPages /\ disc' = Synced(0 .. n)
    <3>1. 0 .. n \in SUBSET Pages
      BY <2>2, CacheAssumption DEF Pages
    <3> QED
      BY <1>1, <2>2, <3>1 DEF Pages
  <2> QED
    BY <1>1, <2>1, <2>2
<1>4. \A q \in Pages : page[q] \in PageType
  BY DEF IInv, CacheTypeOK, PageType
<1>5. ASSUME NEW q \in Pages
      PROVE  /\ page'[q] \in PageType
             /\ page'[q].sector = page[q].sector
             /\ page'[q].data = page[q].data
             /\ page'[q].dirty => page[q].dirty /\ page'[q] = page[q]
             /\ page'[q].dirty \/ q < n \/ ~page[q].dirty
  <2>1. CASE q < n
    <3>1. page'[q] = Cleaned(q)
      BY <1>1, <2>1
    <3>2. page[q] \in PageType
      BY <1>4
    <3>3. /\ Cleaned(q) \in PageType
          /\ Cleaned(q).sector = page[q].sector
          /\ Cleaned(q).data = page[q].data
          /\ Cleaned(q).dirty = FALSE
      BY <3>2 DEF Cleaned, PageType
    <3> QED
      BY <2>1, <3>1, <3>3
  <2>2. CASE ~(q < n)
    BY <1>1, <1>4, <2>2 DEF PageType
  <2> QED
    BY <2>1, <2>2
<1>6. CacheTypeOK'
  <2>1. page' \in [Pages -> PageType]
    BY <1>1, <1>5
  <2>2. disc' \in [Sectors -> Content]
    BY <1>3, SyncedFacts
  <2> QED
    BY <1>2, <1>5, <2>1, <2>2 DEF IInv, CacheTypeOK, PageType
<1>7. OnePagePerSector'
  BY <1>5 DEF IInv, OnePagePerSector
<1>8. CleanPageIsOnDisc'
  <2> SUFFICES ASSUME NEW q \in Pages, page'[q].sector # Free, ~page'[q].dirty,
                      page'[q].sector \notin lost'
               PROVE  page'[q].data = disc'[page'[q].sector]
    BY DEF CleanPageIsOnDisc
  <2>1. disc'[page[q].sector] =
           IF q \in P /\ page[q].dirty THEN page[q].data ELSE disc[page[q].sector]
    BY <1>3, <1>5, SyncedFacts
  <2>2. CASE page[q].dirty
    <3>1. q \in P
      BY <1>3, <1>5, <2>2
    <3> QED
      BY <1>5, <2>1, <2>2, <3>1
  <2>3. CASE ~page[q].dirty
    BY <1>2, <1>5, <2>1, <2>3 DEF IInv, CleanPageIsOnDisc
  <2> QED
    BY <2>2, <2>3
<1> QED
  BY <1>6, <1>7, <1>8 DEF IInv

LEMMA WriteSectorsKeepsInv ==
    ASSUME IInv, NEW s \in Sectors, NEW buf \in Bufs(s), WriteSectors(s, buf)
    PROVE  IInv'
<1> DEFINE run == {s + j : j \in DOMAIN buf}
           noted == Noted(s, buf)
<1>1. PICK done \in {{s + j : j \in {i \in DOMAIN buf : i < k}} : k \in 0 .. MaxRun} :
          /\ disc' = [t \in Sectors |-> IF t \in done THEN buf[t - s] ELSE disc[t]]
          /\ page' = [p \in Pages |-> IF page[p].sector \in noted
                                      THEN Copied(page[p], buf[page[p].sector - s])
                                      ELSE page[p]]
          /\ lost' = (lost \ run) \cup (run \ done)
                        \cup {t \in run \ noted : Cached(t)}
  BY DEF WriteSectors
<1>2. done \subseteq run /\ noted \subseteq run
  BY DEF Noted
<1>3. \A t \in run : t \in Sectors /\ buf[t - s] \in Content
  <2> TAKE t \in run
  <2>1. PICK j \in DOMAIN buf : t = s + j
    OBVIOUS
  <2>2. t - s = j
    BY <2>1, BufsType DEF Sectors
  <2> QED
    BY <2>1, <2>2, BufsType
<1> HIDE DEF run, noted
<1>4. \A q \in Pages : page[q] \in PageType
  BY DEF IInv, CacheTypeOK, PageType
<1>5. ASSUME NEW q \in Pages
      PROVE  /\ page'[q] \in PageType
             /\ page'[q].sector = page[q].sector
             /\ page'[q].dirty => page[q].dirty
             /\ page[q].sector \in noted => page'[q].data = buf[page[q].sector - s]
             /\ page[q].sector \notin noted => page'[q] = page[q]
  <2>1. CASE page[q].sector \in noted
    <3>1. page'[q] = Copied(page[q], buf[page[q].sector - s])
      BY <1>1, <2>1
    <3>2. buf[page[q].sector - s] \in Content
      BY <1>2, <1>3, <2>1
    <3> QED
      BY <1>4, <2>1, <3>1, <3>2 DEF Copied, PageType
  <2>2. CASE page[q].sector \notin noted
    BY <1>1, <1>4, <2>2 DEF PageType
  <2> QED
    BY <2>1, <2>2
<1>6. CacheTypeOK'
  <2>1. page' \in [Pages -> PageType]
    BY <1>1, <1>5
  <2>2. disc' \in [Sectors -> Content]
    BY <1>1, <1>2, <1>3 DEF IInv, CacheTypeOK
  <2>3. lost' \subseteq Sectors
    BY <1>1, <1>3 DEF IInv, CacheTypeOK
  <2> QED
    BY <1>5, <2>1, <2>2, <2>3 DEF IInv, CacheTypeOK, PageType
<1>7. OnePagePerSector'
  BY <1>5 DEF IInv, OnePagePerSector
<1>8. CleanPageIsOnDisc'
  <2> SUFFICES ASSUME NEW q \in Pages, page'[q].sector # Free, ~page'[q].dirty,
                      page'[q].sector \notin lost'
               PROVE  page'[q].data = disc'[page'[q].sector]
    BY DEF CleanPageIsOnDisc
  <2> DEFINE t == page[q].sector
  <2>1. t \in Sectors /\ page'[q].sector = t
    BY <1>4, <1>5 DEF PageType
  <2>2. CASE t \in noted
    <3>1. t \in done
      BY <1>1, <1>2, <2>1, <2>2
    <3> QED
      BY <1>1, <1>5, <2>1, <2>2, <3>1
  <2>3. CASE t \notin noted
    <3>1. Cached(t)
      BY DEF Cached, Holder
    <3>2. t \notin run /\ t \notin lost
      BY <1>1, <2>1, <2>3, <3>1
    <3>3. disc'[t] = disc[t]
      BY <1>1, <1>2, <2>1, <3>2
    <3> QED
      BY <1>5, <2>1, <2>3, <3>2, <3>3 DEF IInv, CleanPageIsOnDisc
  <2> QED
    BY <2>2, <2>3
<1> QED
  BY <1>6, <1>7, <1>8 DEF IInv

LEMMA ClearSectorKeepsInv ==
    ASSUME IInv, NEW s \in Sectors, ClearSector(s)
    PROVE  IInv'
<1>1. PICK done \in SUBSET {s} :
          /\ disc' = [t \in Sectors |-> IF t \in done THEN Blank ELSE disc[t]]
          /\ lost' = IF Cached(s) \/ done = {} THEN lost \cup {s} ELSE lost \ {s}
          /\ page' = page
  BY DEF ClearSector
<1>2. CacheTypeOK'
  BY <1>1, BlankType DEF IInv, CacheTypeOK
<1>3. OnePagePerSector'
  BY <1>1 DEF IInv, OnePagePerSector
<1>4. CleanPageIsOnDisc'
  <2> SUFFICES ASSUME NEW q \in Pages, page[q].sector # Free, ~page[q].dirty,
                      page[q].sector \notin lost'
               PROVE  page[q].data = disc'[page[q].sector]
    BY <1>1 DEF CleanPageIsOnDisc
  <2>1. page[q].sector \in Sectors /\ Cached(page[q].sector)
    BY DEF IInv, CacheTypeOK, Cached, Holder
  <2>2. page[q].sector # s /\ page[q].sector \notin lost
    BY <1>1, <2>1
  <2> QED
    BY <1>1, <2>1, <2>2 DEF IInv, CleanPageIsOnDisc
<1> QED
  BY <1>2, <1>3, <1>4 DEF IInv

LEMMA InvalidateKeepsInv ==
    ASSUME IInv, Invalidate
    PROVE  IInv'
BY BlankType, FreeIsNoSector
   DEF Invalidate, IInv, CacheTypeOK, OnePagePerSector, CleanPageIsOnDisc, FreePage

LEMMA StepInv == IInv /\ [CacheNext]_cacheVars => IInv'
<1> SUFFICES ASSUME IInv, [CacheNext]_cacheVars
             PROVE  IInv'
  OBVIOUS
<1>0. Zero \in Vals
  BY CacheAssumption
<1>1. ASSUME NEW op, NEW s \in Sectors, NEW h \in Parts, NEW v \in Vals, Access(op, s, h, v)
      PROVE  IInv'
  BY <1>1, HitKeepsInv, MissKeepsInv DEF Access
<1>2. ASSUME NEW s \in Sectors, AccessFails(s)
      PROVE  IInv'
  BY <1>2, AccessFailsKeepsInv
<1>3. ASSUME NEW s \in Sectors, NEW buf \in Bufs(s), WriteSectors(s, buf)
      PROVE  IInv'
  BY <1>3, WriteSectorsKeepsInv
<1>4. ASSUME NEW s \in Sectors, ClearSector(s)
      PROVE  IInv'
  BY <1>4, ClearSectorKeepsInv
<1>5. ASSUME page' = page, disc' = disc, lost' = lost
      PROVE  IInv'
  BY <1>5 DEF IInv, CacheTypeOK, OnePagePerSector, CleanPageIsOnDisc
<1>6. ASSUME NEW s \in Sectors, ReadSectors(s)
      PROVE  IInv'
  BY <1>5, <1>6 DEF ReadSectors
<1>7. CASE Flush
  BY <1>7, FlushKeepsInv
<1>8. CASE Invalidate
  BY <1>8, InvalidateKeepsInv
<1>9. CASE UNCHANGED cacheVars
  BY <1>5, <1>9 DEF cacheVars
<1> QED
  BY <1>0, <1>1, <1>2, <1>3, <1>4, <1>6, <1>7, <1>8, <1>9 DEF CacheNext

LEMMA CacheInvariant == CacheSpec => []IInv
BY InitInv, StepInv, PTL DEF CacheSpec

\* Every state of the cache is well formed, and a free page is never dirty:
\* _FAT_cache_flush writes no page to the sector CACHE_FREE.
THEOREM CacheTypeCorrect == CacheSpec => []CacheTypeOK
<1>1. IInv => CacheTypeOK
  BY DEF IInv
<1> QED
  BY <1>1, CacheInvariant, PTL

\* However many pages and sectors there are, and whatever transfers fail,
\* _FAT_cache_getSector never holds two pages of a sector.
THEOREM NoDoubledSector == CacheSpec => []OnePagePerSector
<1>1. IInv => OnePagePerSector
  BY DEF IInv
<1> QED
  BY <1>1, CacheInvariant, PTL

\* An eviction, a flush cut short or a direct write never leaves a page that
\* differs from the card marked clean, lost sectors excepted.
THEOREM CleanPagesMatch == CacheSpec => []CleanPageIsOnDisc
<1>1. IInv => CleanPageIsOnDisc
  BY DEF IInv
<1> QED
  BY <1>1, CacheInvariant, PTL

-----------------------------------------------------------------------------
(* FatCache implements BlockStore: under the mapping that gives a reader   *)
(* the page of a sector if there is one and the card's sector if not,      *)
(* every call of the cache is an operation of the store, or a stutter.     *)

\* The view of a sector, given that no sector is in two pages.
LEMMA ViewOfFacts ==
    ASSUME NEW pg, NEW dc,
           \A p, q \in Pages : pg[p].sector = pg[q].sector /\ pg[p].sector # Free => p = q
    PROVE  /\ \A p \in Pages : pg[p].sector \in Sectors =>
                 ViewOf(pg, dc)[pg[p].sector] = pg[p].data
           /\ \A t \in Sectors : (\A p \in Pages : pg[p].sector # t) =>
                 ViewOf(pg, dc)[t] = dc[t]
<1>1. ASSUME NEW p \in Pages, pg[p].sector \in Sectors
      PROVE  ViewOf(pg, dc)[pg[p].sector] = pg[p].data
  <2>1. (CHOOSE q \in Pages : pg[q].sector = pg[p].sector) = p
    BY <1>1, FreeIsNoSector
  <2> QED
    BY <1>1, <2>1 DEF ViewOf
<1>2. ASSUME NEW t \in Sectors, \A p \in Pages : pg[p].sector # t
      PROVE  ViewOf(pg, dc)[t] = dc[t]
  BY <1>2 DEF ViewOf
<1> QED
  BY <1>1, <1>2

LEMMA ViewNow ==
    ASSUME IInv
    PROVE  /\ \A p \in Pages : page[p].sector \in Sectors =>
                 View[page[p].sector] = page[p].data
           /\ \A t \in Sectors : (\A p \in Pages : page[p].sector # t) => View[t] = disc[t]
BY ViewOfFacts DEF View, IInv, OnePagePerSector

LEMMA ViewNext ==
    ASSUME IInv'
    PROVE  /\ \A p \in Pages : page'[p].sector \in Sectors =>
                 View'[page'[p].sector] = page'[p].data
           /\ \A t \in Sectors : (\A p \in Pages : page'[p].sector # t) => View'[t] = disc'[t]
<1>1. \A p, q \in Pages : page'[p].sector = page'[q].sector /\ page'[p].sector # Free => p = q
  BY DEF IInv, OnePagePerSector
<1>2. View' = ViewOf(page', disc')
  BY DEF View, ViewOf
<1> QED
  BY <1>1, <1>2, ViewOfFacts

\* A step that replaces page p by x leaves the view of a sector alone when x
\* shows the same and an evicted page is on the card.
LEMMA SteadyReplaced ==
    ASSUME IInv, IInv', NEW p \in Pages, NEW x \in PageType,
           page' = [page EXCEPT ![p] = x],
           \A u \in Sectors : u # page[p].sector => disc'[u] = disc[u],
           NEW t \in Sectors,
           t = page[p].sector => disc'[t] \in {disc[t], page[p].data},
           t = x.sector => x.data = View[t],
           t = page[p].sector /\ t # x.sector => disc'[t] = page[p].data
    PROVE  View'[t] = View[t] /\ disc'[t] \in {disc[t], View[t]}
<1>1. page'[p] = x /\ \A q \in Pages : q # p => page'[q] = page[q]
  BY DEF IInv, CacheTypeOK
<1>2. \A q \in Pages : page[q].sector = t /\ page[p].sector = t => q = p
  BY FreeIsNoSector DEF IInv, OnePagePerSector
<1>3. t = page[p].sector => View[t] = page[p].data
  BY ViewNow
<1>4. CASE t = x.sector
  <2>1. View'[t] = View[t]
    BY <1>1, <1>4, ViewNext
  <2> QED
    BY <1>3, <2>1
<1>5. CASE t # x.sector /\ t = page[p].sector
  <2>1. \A q \in Pages : page'[q].sector # t
    BY <1>1, <1>2, <1>5
  <2>2. View'[t] = disc'[t]
    BY <2>1, ViewNext
  <2> QED
    BY <1>3, <1>5, <2>2
<1>6. CASE t # x.sector /\ t # page[p].sector
  <2>1. CASE \E q \in Pages : page[q].sector = t
    <3>1. PICK q \in Pages : page[q].sector = t
      BY <2>1
    <3>2. page'[q] = page[q]
      BY <1>1, <1>6, <3>1
    <3>3. View[t] = page[q].data /\ View'[t] = page[q].data
      BY <3>1, <3>2, ViewNow, ViewNext
    <3> QED
      BY <1>6, <3>3
  <2>2. CASE \A q \in Pages : page[q].sector # t
    <3>1. \A q \in Pages : page'[q].sector # t
      BY <1>1, <1>6, <2>2
    <3> QED
      BY <1>6, <2>2, <3>1, ViewNow, ViewNext
  <2> QED
    BY <2>1, <2>2
<1> QED
  BY <1>4, <1>5, <1>6

-----------------------------------------------------------------------------
LEMMA HitIsReadOrWrite ==
    ASSUME IInv, IInv', NEW op, NEW s \in Sectors, NEW h \in Parts, NEW v \in Vals,
           Hit(op, s, h, v)
    PROVE  /\ op = "read" => Store!Read(s)
           /\ op = "write" => Store!Write(s, h, v, View[s])
           /\ op = "erase" => Store!Write(s, h, v, Blank)
<1>1. PICK p \in Holder(s) :
          /\ page' = [page EXCEPT ![p] = Used(op, h, v, Counted(p))]
          /\ reply' = Answer(op, page[p])
          /\ disc' = disc /\ lost' = lost
  BY DEF Hit
<1> DEFINE x == Used(op, h, v, Counted(p))
<1>2. p \in Pages /\ page[p].sector = s
  BY <1>1 DEF Holder
<1>3. /\ Counted(p) \in PageType
      /\ Counted(p).sector = s
      /\ Counted(p).data = page[p].data
      /\ page[p].data = View[s]
  BY <1>2, LoadedType, ViewNow DEF IInv
<1>4. x \in PageType /\ x.sector = s
  BY <1>3, UsedType
<1>5. page'[p] = x
  BY <1>1, <1>2 DEF IInv, CacheTypeOK
<1>6. View'[s] = x.data
  BY <1>2, <1>4, <1>5, ViewNext
<1> HIDE DEF x
<1>7. page' = [page EXCEPT ![p] = x]
  BY <1>1 DEF x
<1>8. ASSUME NEW t \in Sectors, t = s => x.data = View[t]
      PROVE  View'[t] = View[t] /\ disc'[t] \in {disc[t], View[t]}
  <2>1. /\ \A u \in Sectors : u # page[p].sector => disc'[u] = disc[u]
        /\ t = page[p].sector => disc'[t] \in {disc[t], page[p].data}
        /\ t = x.sector => x.data = View[t]
        /\ t = page[p].sector /\ t # x.sector => disc'[t] = page[p].data
    BY <1>1, <1>2, <1>4, <1>8
  <2> QED
    BY <1>2, <1>4, <1>7, <2>1, SteadyReplaced
<1>9. CASE op = "read"
  <2>1. x.data = View[s]
    BY <1>3, <1>9 DEF x, Used
  <2>2. Store!Steady({})
    BY <1>8, <2>1 DEF Store!Steady, Store!Sectors, Sectors
  <2>3. reply' = Store!Got(View[s]) /\ reply'.tag = "data"
    BY <1>1, <1>3, <1>9 DEF Answer, Got, Store!Got
  <2> QED
    BY <1>1, <1>9, <2>2, <2>3 DEF Store!Read
<1>10. CASE op \in {"write", "erase"}
  <2> DEFINE base == IF op = "erase" THEN Blank ELSE View[s]
  <2>1. x.data = [base EXCEPT ![h] = v]
    BY <1>3, <1>10 DEF x, Used, PageType
  <2>2. Store!Steady({s})
    BY <1>8 DEF Store!Steady, Store!Sectors, Sectors
  <2>3. reply' = Store!Said("ok")
    BY <1>1, <1>10 DEF Answer, Said, Store!Said, Blank, Store!Blank
  <2> HIDE DEF base
  <2>4. Store!Write(s, h, v, base)
    BY <1>1, <1>6, <2>1, <2>2, <2>3 DEF Store!Write
  <2> QED
    BY <1>10, <2>4 DEF base
<1> QED
  BY <1>9, <1>10

LEMMA MissIsReadOrWrite ==
    ASSUME IInv, IInv', NEW op, NEW s \in Sectors, NEW h \in Parts, NEW v \in Vals,
           Miss(op, s, h, v)
    PROVE  /\ op = "read" => Store!Read(s)
           /\ op = "write" => Store!Write(s, h, v, View[s])
           /\ op = "erase" => Store!Write(s, h, v, Blank)
<1>1. PICK p \in Pages :
          /\ disc' = WrittenBack(p)
          /\ page' = [page EXCEPT ![p] = Used(op, h, v, Loaded(p, s))]
          /\ reply' = Answer(op, Loaded(p, s))
          /\ lost' = lost
  BY DEF Miss
<1> DEFINE x == Used(op, h, v, Loaded(p, s))
<1>2. \A q \in Pages : page[q].sector # s
  BY DEF Miss, Cached, Holder
<1>3. /\ Loaded(p, s) \in PageType
      /\ Loaded(p, s).sector = s
      /\ Loaded(p, s).data = disc[s]
      /\ disc[s] = View[s]
  BY <1>2, LoadedType, ViewNow DEF IInv
<1>4. x \in PageType /\ x.sector = s
  BY <1>3, UsedType
<1>5. page'[p] = x
  BY <1>1 DEF IInv, CacheTypeOK
<1>6. View'[s] = x.data
  BY <1>4, <1>5, ViewNext
<1> HIDE DEF x
<1>7. page' = [page EXCEPT ![p] = x]
  BY <1>1 DEF x
<1>8. \A u \in Sectors : u # page[p].sector => disc'[u] = disc[u]
  BY <1>1, WrittenBackFacts DEF IInv
<1>9. ASSUME NEW t \in Sectors, t \notin lost, t = page[p].sector
      PROVE  disc'[t] = page[p].data
  <2>1. t # Free
    BY FreeIsNoSector
  <2>2. CASE page[p].dirty
    BY <1>1, <1>9, <2>1, <2>2, WrittenBackFacts DEF IInv
  <2>3. CASE ~page[p].dirty
    <3>1. disc' = disc
      BY <1>1, <2>3, WrittenBackFacts DEF IInv
    <3> QED
      BY <1>9, <2>1, <2>3, <3>1 DEF IInv, CleanPageIsOnDisc
  <2> QED
    BY <2>2, <2>3
<1>10. ASSUME NEW t \in Sectors, t \notin lost, t = s => x.data = View[t]
       PROVE  View'[t] = View[t] /\ disc'[t] \in {disc[t], View[t]}
  <2>1. /\ t = page[p].sector => disc'[t] \in {disc[t], page[p].data}
        /\ t = x.sector => x.data = View[t]
        /\ t = page[p].sector /\ t # x.sector => disc'[t] = page[p].data
    BY <1>4, <1>9, <1>10
  <2> QED
    BY <1>4, <1>7, <1>8, <2>1, SteadyReplaced
<1>11. disc'[s] = disc[s]
  BY <1>2, <1>8
<1>12. CASE op = "read"
  <2>1. x.data = View[s]
    BY <1>3, <1>12 DEF x, Used
  <2>2. Store!Steady({})
    BY <1>1, <1>10, <2>1 DEF Store!Steady, Store!Sectors, Sectors
  <2>3. reply' = Store!Got(View[s]) /\ reply'.tag = "data"
    BY <1>1, <1>3, <1>12 DEF Answer, Got, Store!Got
  <2> QED
    BY <1>1, <1>12, <2>2, <2>3 DEF Store!Read
<1>13. CASE op \in {"write", "erase"}
  <2> DEFINE base == IF op = "erase" THEN Blank ELSE View[s]
  <2>1. x.data = [base EXCEPT ![h] = v]
    BY <1>3, <1>13 DEF x, Used, PageType
  <2>2. Store!Steady({s})
    BY <1>1, <1>10 DEF Store!Steady, Store!Sectors, Sectors
  <2>3. reply' = Store!Said("ok")
    BY <1>1, <1>13 DEF Answer, Said, Store!Said, Blank, Store!Blank
  <2> HIDE DEF base
  <2>4. Store!Write(s, h, v, base)
    BY <1>1, <1>6, <1>11, <2>1, <2>2, <2>3 DEF Store!Write
  <2> QED
    BY <1>13, <2>4 DEF base
<1> QED
  BY <1>12, <1>13

LEMMA FailureIsFailedRead ==
    ASSUME IInv, IInv', NEW s \in Sectors, AccessFails(s)
    PROVE  Store!Read(s)
<1>1. reply' = Store!Said("fail")
  BY DEF AccessFails, MissWriteFails, MissReadFails, Said, Store!Said, Blank, Store!Blank
<1>2. CASE MissWriteFails(s)
  <2>1. PICK p \in Pages : page[p].dirty /\ disc' \in {disc, WrittenBack(p)}
    BY <1>2 DEF MissWriteFails
  <2>2. page' = page /\ lost' = lost
    BY <1>2 DEF MissWriteFails
  <2>3. page' = [page EXCEPT ![p] = page[p]] /\ page[p] \in PageType
    BY <2>2 DEF IInv, CacheTypeOK, PageType
  <2>4. \A u \in Sectors : u # page[p].sector => disc'[u] = disc[u]
    BY <2>1, WrittenBackFacts DEF IInv
  <2>5. ASSUME NEW t \in Sectors, t = page[p].sector
        PROVE  disc'[t] \in {disc[t], page[p].data} /\ page[p].data = View[t]
    BY <2>1, <2>5, FreeIsNoSector, WrittenBackFacts, ViewNow DEF IInv
  <2>6. ASSUME NEW t \in Sectors
        PROVE  View'[t] = View[t] /\ disc'[t] \in {disc[t], View[t]}
    <3>1. /\ t = page[p].sector => disc'[t] \in {disc[t], page[p].data}
          /\ t = page[p].sector => page[p].data = View[t]
          /\ t = page[p].sector /\ t # page[p].sector => disc'[t] = page[p].data
      BY <2>5
    <3> QED
      BY <2>3, <2>4, <3>1, SteadyReplaced
  <2> QED
    BY <1>1, <2>2, <2>6
       DEF Store!Read, Store!LosesAtMostOne, Store!Steady, Store!Sectors, Sectors
<1>3. CASE MissReadFails(s)
  <2>1. PICK p \in Pages, d \in Content :
            /\ disc' = WrittenBack(p)
            /\ page[p].sector = Free => d = page[p].data
            /\ page' = [page EXCEPT ![p].dirty = FALSE, ![p].data = d]
            /\ lost' = IF d = page[p].data THEN lost ELSE lost \cup {page[p].sector}
    BY <1>3 DEF MissReadFails
  <2> DEFINE x == [page[p] EXCEPT !.dirty = FALSE, !.data = d]
  <2>2. page[p] \in PageType /\ DOMAIN page = Pages
    BY DEF IInv, CacheTypeOK, PageType
  <2>3. x \in PageType /\ x.sector = page[p].sector /\ x.data = d
    BY <2>2 DEF PageType
  <2>4. page' = [page EXCEPT ![p] = x]
    BY <2>1, <2>2
  <2> HIDE DEF x
  <2>5. page[p].sector # s
    BY <1>3 DEF MissReadFails, Cached, Holder
  <2>6. Store!LosesAtMostOne(s)
    BY <2>1, <2>2, <2>5 DEF PageType, Store!LosesAtMostOne, Store!Sectors, Sectors
  <2>7. \A u \in Sectors : u # page[p].sector => disc'[u] = disc[u]
    BY <2>1, WrittenBackFacts DEF IInv
  <2>8. ASSUME NEW t \in Sectors, t \notin lost', t = page[p].sector
        PROVE  disc'[t] \in {disc[t], page[p].data} /\ x.data = View[t]
    <3>1. d = page[p].data /\ page[p].data = View[t]
      BY <2>1, <2>8, ViewNow
    <3>2. disc'[t] \in {disc[t], page[p].data}
      BY <2>1, <2>8, FreeIsNoSector, WrittenBackFacts DEF IInv
    <3> QED
      BY <2>3, <3>1, <3>2
  <2>9. ASSUME NEW t \in Sectors, t \notin lost'
        PROVE  View'[t] = View[t] /\ disc'[t] \in {disc[t], View[t]}
    <3>1. /\ t = page[p].sector => disc'[t] \in {disc[t], page[p].data}
          /\ t = x.sector => x.data = View[t]
          /\ t = page[p].sector /\ t # x.sector => disc'[t] = page[p].data
      BY <2>3, <2>8, <2>9
    <3> QED
      BY <2>3, <2>4, <2>7, <3>1, SteadyReplaced
  <2>10. Store!Steady({})
    BY <2>9 DEF Store!Steady, Store!Sectors, Sectors
  <2> QED
    BY <1>1, <2>6, <2>10 DEF Store!Read
<1> QED
  BY <1>2, <1>3 DEF AccessFails

LEMMA DirectWriteIsWriteThrough ==
    ASSUME IInv, IInv', NEW s \in Sectors, NEW buf \in Bufs(s), WriteSectors(s, buf)
    PROVE  Store!WriteThrough(s, buf)
<1>1. \A j \in DOMAIN buf : \E t \in Sectors : t = s + j /\ t - s = j
  BY BufsType DEF Sectors
<1> DEFINE run == {s + j : j \in DOMAIN buf}
           noted == Noted(s, buf)
<1>2. PICK done \in {{s + j : j \in {i \in DOMAIN buf : i < k}} : k \in 0 .. MaxRun} :
          /\ disc' = [t \in Sectors |-> IF t \in done THEN buf[t - s] ELSE disc[t]]
          /\ page' = [p \in Pages |-> IF page[p].sector \in noted
                                      THEN Copied(page[p], buf[page[p].sector - s])
                                      ELSE page[p]]
          /\ lost' = (lost \ run) \cup (run \ done)
                        \cup {t \in run \ noted : Cached(t)}
  BY DEF WriteSectors
<1>3. reply' = Store!Said("ok")
  BY DEF WriteSectors, Said, Store!Said, Blank, Store!Blank
<1>4. done \subseteq run /\ noted \subseteq run
  BY DEF Noted
<1>5. ASSUME NEW q \in Pages
      PROVE  /\ page'[q].sector = page[q].sector
             /\ page[q].sector \in noted => page'[q].data = buf[page[q].sector - s]
             /\ page[q].sector \notin noted => page'[q] = page[q]
  <2>1. page[q] \in PageType
    BY DEF IInv, CacheTypeOK, PageType
  <2>2. CASE page[q].sector \in noted
    <3>1. page'[q] = Copied(page[q], buf[page[q].sector - s])
      BY <1>2, <2>2
    <3> QED
      BY <2>1, <2>2, <3>1 DEF Copied, PageType
  <2>3. CASE page[q].sector \notin noted
    BY <1>2, <2>3
  <2> QED
    BY <2>2, <2>3
<1>6. ASSUME NEW j \in DOMAIN buf, s + j \notin lost'
      PROVE  View'[s + j] = buf[j] /\ disc'[s + j] = buf[j]
  <2>1. PICK t \in Sectors : t = s + j /\ t - s = j
    BY <1>1
  <2>2. t \in done
    BY <1>2, <1>6, <2>1
  <2>3. disc'[t] = buf[j]
    BY <1>2, <2>1, <2>2
  <2>4. CASE \E q \in Pages : page[q].sector = t
    <3>1. PICK q \in Pages : page[q].sector = t
      BY <2>4
    <3>2. Cached(t)
      BY <3>1 DEF Cached, Holder
    <3>3. t \in noted
      BY <1>2, <1>4, <1>6, <2>1, <2>2, <3>2
    <3>4. page'[q].sector = t /\ page'[q].data = buf[j]
      BY <1>5, <2>1, <3>1, <3>3
    <3> QED
      BY <2>1, <2>3, <3>4, ViewNext
  <2>5. CASE \A q \in Pages : page[q].sector # t
    <3>1. \A q \in Pages : page'[q].sector # t
      BY <1>5, <2>5
    <3> QED
      BY <2>1, <2>3, <3>1, ViewNext
  <2> QED
    BY <2>4, <2>5
<1>7. ASSUME NEW t \in Sectors, t \notin run
      PROVE  View'[t] = View[t] /\ disc'[t] = disc[t]
  <2>1. disc'[t] = disc[t]
    BY <1>2, <1>4, <1>7
  <2>2. CASE \E q \in Pages : page[q].sector = t
    <3>1. PICK q \in Pages : page[q].sector = t
      BY <2>2
    <3>2. page'[q] = page[q]
      BY <1>4, <1>5, <1>7, <3>1
    <3> QED
      BY <2>1, <3>1, <3>2, ViewNow, ViewNext
  <2>3. CASE \A q \in Pages : page[q].sector # t
    <3>1. \A q \in Pages : page'[q].sector # t
      BY <1>5, <2>3
    <3> QED
      BY <2>1, <2>3, <3>1, ViewNow, ViewNext
  <2> QED
    BY <2>2, <2>3
<1>8. Store!Steady(run)
  BY <1>7 DEF Store!Steady, Store!Sectors, Sectors
<1>9. lost' \subseteq lost \cup run /\ lost \ run \subseteq lost'
  BY <1>2
<1> QED
  BY <1>3, <1>6, <1>8, <1>9 DEF Store!WriteThrough

LEMMA ClearIsWriteThrough ==
    ASSUME IInv, IInv', NEW s \in Sectors, ClearSector(s)
    PROVE  Store!WriteThrough(s, [i \in 0 .. 0 |-> Blank])
<1> DEFINE buf == [i \in 0 .. 0 |-> Blank]
<1>1. PICK done \in SUBSET {s} :
          /\ disc' = [t \in Sectors |-> IF t \in done THEN Blank ELSE disc[t]]
          /\ lost' = IF Cached(s) \/ done = {} THEN lost \cup {s} ELSE lost \ {s}
          /\ page' = page
  BY DEF ClearSector
<1>2. reply' = Store!Said("ok")
  BY DEF ClearSector, Said, Store!Said, Blank, Store!Blank
<1>3. s \in Int /\ {s + j : j \in DOMAIN buf} = {s}
  BY DEF Sectors
<1>4. \A j \in DOMAIN buf : s + j = s /\ buf[j] = Blank
  BY <1>3
<1>5. ASSUME s \notin lost'
      PROVE  View'[s] = Blank /\ disc'[s] = Blank
  <2>1. ~Cached(s) /\ done = {s}
    BY <1>1, <1>5
  <2>2. \A q \in Pages : page'[q].sector # s
    BY <1>1, <2>1 DEF Cached, Holder
  <2> QED
    BY <1>1, <2>1, <2>2, ViewNext
<1>6. ASSUME NEW t \in Sectors, t # s
      PROVE  View'[t] = View[t] /\ disc'[t] = disc[t]
  <2>1. disc'[t] = disc[t]
    BY <1>1, <1>6
  <2>2. CASE \E q \in Pages : page[q].sector = t
    <3>1. PICK q \in Pages : page[q].sector = t
      BY <2>2
    <3>2. View[t] = page[q].data /\ View'[t] = page[q].data
      BY <1>1, <3>1, ViewNow, ViewNext
    <3> QED
      BY <2>1, <3>2
  <2>3. CASE \A q \in Pages : page[q].sector # t
    BY <1>1, <2>1, <2>3, ViewNow, ViewNext
  <2> QED
    BY <2>1, <2>2, <2>3
<1>7. Store!Steady({s})
  BY <1>6 DEF Store!Steady, Store!Sectors, Sectors
<1>8. lost' \subseteq lost \cup {s} /\ lost \ {s} \subseteq lost'
  BY <1>1
<1> QED
  BY <1>2, <1>3, <1>4, <1>5, <1>7, <1>8 DEF Store!WriteThrough

LEMMA FlushIsFlush ==
    ASSUME IInv, IInv', Flush
    PROVE  Store!Flush
<1>1. PICK n \in 0 .. NumPages :
          /\ page' = [p \in Pages |-> IF p < n THEN Cleaned(p) ELSE page[p]]
          /\ \/ disc' = Synced(0 .. n - 1)
             \/ n < NumPages /\ disc' = Synced(0 .. n)
          /\ reply' = Said(IF n < NumPages THEN "short" ELSE "flushed")
  BY DEF Flush
<1>2. PICK P \in SUBSET Pages : disc' = Synced(P)
  <2>1. 0 .. n - 1 \in SUBSET Pages /\ (n < NumPages => 0 .. n \in SUBSET Pages)
    BY CacheAssumption DEF Pages
  <2> QED
    BY <1>1, <2>1
<1>3. ASSUME NEW q \in Pages
      PROVE  page'[q].sector = page[q].sector /\ page'[q].data = page[q].data
  <2>1. page'[q] \in {Cleaned(q), page[q]} /\ page[q] \in PageType
    BY <1>1 DEF IInv, CacheTypeOK, PageType
  <2>2. Cleaned(q).sector = page[q].sector /\ Cleaned(q).data = page[q].data
    BY <2>1 DEF Cleaned, PageType
  <2> QED
    BY <2>1, <2>2
<1>4. ASSUME NEW t \in Sectors
      PROVE  View'[t] = View[t] /\ disc'[t] \in {disc[t], View[t]}
  <2>1. CASE \E q \in Pages : page[q].sector = t
    <3>1. PICK q \in Pages : page[q].sector = t
      BY <2>1
    <3>2. View[t] = page[q].data /\ View'[t] = page[q].data
      BY <1>3, <3>1, ViewNow, ViewNext
    <3>3. disc'[t] \in {page[q].data, disc[t]}
      BY <1>2, <3>1, SyncedFacts, FreeIsNoSector
    <3> QED
      BY <3>2, <3>3
  <2>2. CASE \A q \in Pages : page[q].sector # t
    <3>1. \A q \in Pages : page'[q].sector # t
      BY <1>3, <2>2
    <3>2. disc'[t] = disc[t]
      BY <1>2, <2>2 DEF Synced
    <3> QED
      BY <2>2, <3>1, <3>2, ViewNow, ViewNext
  <2> QED
    BY <2>1, <2>2
<1>5. lost' = lost
  BY DEF Flush
<1>6. CASE n < NumPages
  <2>1. reply' = Store!Said("short")
    BY <1>1, <1>6 DEF Said, Store!Said, Blank, Store!Blank
  <2> QED
    BY <1>4, <1>5, <2>1 DEF Store!Flush, Store!Steady, Store!Sectors, Sectors
<1>7. CASE n = NumPages
  <2>1. reply' = Store!Said("flushed")
    BY <1>1, <1>7, CacheAssumption DEF Said, Store!Said, Blank, Store!Blank
  <2>2. disc' = Synced(Pages)
    BY <1>1, <1>7, CacheAssumption DEF Pages
  <2>3. ASSUME NEW t \in Sectors \ lost
        PROVE  disc'[t] = View[t]
    <3>1. CASE \E q \in Pages : page[q].sector = t
      <4>1. PICK q \in Pages : page[q].sector = t
        BY <3>1
      <4>2. page[q].sector # Free /\ View[t] = page[q].data
        BY <4>1, ViewNow, FreeIsNoSector
      <4>3. disc'[t] = IF page[q].dirty THEN page[q].data ELSE disc[t]
        BY <2>2, <4>1, <4>2, SyncedFacts
      <4>4. ~page[q].dirty => page[q].data = disc[t]
        BY <4>1, <4>2 DEF IInv, CleanPageIsOnDisc
      <4> QED
        BY <4>2, <4>3, <4>4
    <3>2. CASE \A q \in Pages : page[q].sector # t
      BY <2>2, <3>2, ViewNow DEF Synced
    <3> QED
      BY <3>1, <3>2
  <2> QED
    BY <1>4, <1>5, <2>1, <2>3 DEF Store!Flush, Store!Steady, Store!Sectors, Sectors
<1> QED
  BY <1>1, <1>6, <1>7, CacheAssumption

LEMMA InvalidateIsRemount ==
    ASSUME IInv, IInv', Invalidate
    PROVE  Store!Remount
<1>1. \A p \in Pages : page'[p].sector = Free
  BY DEF Invalidate, FreePage
<1>2. disc' = disc /\ disc \in [Sectors -> Content]
  BY DEF Invalidate, IInv, CacheTypeOK
<1>3. \A t \in Sectors : View'[t] = disc[t]
  BY <1>1, <1>2, FreeIsNoSector, ViewNext
<1>4. View' = disc
  <2>1. View' = [t \in Sectors |-> View'[t]]
    BY DEF View, ViewOf
  <2> QED
    BY <1>2, <1>3, <2>1
<1>5. reply' = Store!Said("none") /\ lost' = {}
  BY DEF Invalidate, Said, Store!Said, Blank, Store!Blank
<1> QED
  BY <1>2, <1>4, <1>5 DEF Store!Remount

LEMMA InitIsInit == CacheInit => Store!Init
<1> SUFFICES ASSUME CacheInit
             PROVE  Store!Init
  OBVIOUS
<1>1. disc \in [Sectors -> Content] /\ IInv
  BY InitInv DEF CacheInit
<1>2. \A p \in Pages : page[p].sector = Free
  BY DEF CacheInit, FreePage
<1>3. \A t \in Sectors : View[t] = disc[t]
  BY <1>1, <1>2, FreeIsNoSector, ViewNow
<1>4. View = disc
  <2>1. View = [t \in Sectors |-> View[t]]
    BY DEF View, ViewOf
  <2> QED
    BY <1>1, <1>3, <2>1
<1>5. disc \in [Store!Sectors -> Store!Content]
  BY <1>1 DEF Store!Sectors, Store!Content, Sectors, Content
<1> QED
  BY <1>4, <1>5 DEF CacheInit, Store!Init, Said, Store!Said, Blank, Store!Blank

LEMMA StepIsStep ==
    IInv /\ IInv' /\ [CacheNext]_cacheVars => [Store!Next]_(Store!storeVars)
<1> SUFFICES ASSUME IInv, IInv', [CacheNext]_cacheVars
             PROVE  [Store!Next]_(Store!storeVars)
  OBVIOUS
<1>0. /\ Zero \in Vals /\ NumSectors \in Nat /\ MaxRun \in Nat \ {0}
      /\ Store!Sectors = Sectors /\ Store!Content = Content /\ Store!Blank = Blank
  BY CacheAssumption DEF Store!Sectors, Store!Content, Store!Blank, Sectors, Content, Blank
<1>1. ASSUME NEW s \in Sectors, NEW h \in Parts, Access("read", s, h, Zero)
      PROVE  Store!Next
  <2>1. Store!Read(s)
    BY <1>0, <1>1, HitIsReadOrWrite, MissIsReadOrWrite DEF Access
  <2> QED
    BY <1>0, <2>1 DEF Store!Next
<1>2. ASSUME NEW s \in Sectors, NEW h \in Parts, NEW v \in Vals, NEW op \in {"write", "erase"},
             Access(op, s, h, v)
      PROVE  Store!Next
  <2>1. Store!Write(s, h, v, View[s]) \/ Store!Write(s, h, v, Blank)
    BY <1>2, HitIsReadOrWrite, MissIsReadOrWrite DEF Access
  <2> QED
    BY <1>0, <2>1 DEF Store!Next
<1>3. ASSUME NEW s \in Sectors, AccessFails(s)
      PROVE  Store!Next
  BY <1>0, <1>3, FailureIsFailedRead DEF Store!Next
<1>4. ASSUME NEW s \in Sectors, NEW buf \in Bufs(s), WriteSectors(s, buf)
      PROVE  Store!Next
  <2>1. PICK n \in 1 .. (IF s + MaxRun <= NumSectors THEN MaxRun ELSE NumSectors - s) :
            buf \in [0 .. n - 1 -> Content]
    BY DEF Bufs
  <2>2. n \in 1 .. MaxRun /\ s + n <= NumSectors
    BY <1>0 DEF Sectors
  <2>3. Store!WriteThrough(s, buf)
    BY <1>4, DirectWriteIsWriteThrough
  <2> QED
    BY <1>0, <2>1, <2>2, <2>3 DEF Store!Next
<1>5. ASSUME NEW s \in Sectors, ClearSector(s)
      PROVE  Store!Next
  <2> DEFINE buf == [i \in 0 .. 0 |-> Blank]
  <2>1. Store!WriteThrough(s, buf)
    BY <1>5, ClearIsWriteThrough
  <2>2. buf \in [0 .. 1 - 1 -> Content] /\ 1 \in 1 .. MaxRun /\ s + 1 <= NumSectors
    BY <1>0, BlankType DEF Sectors
  <2> HIDE DEF buf
  <2> QED
    BY <1>0, <2>1, <2>2 DEF Store!Next
<1>6. ASSUME NEW s \in Sectors, ReadSectors(s)
      PROVE  Store!Next
  <2>1. Store!ReadThrough(s)
    BY <1>0, <1>6 DEF ReadSectors, Store!ReadThrough, View, Got, Store!Got,
                      Said, Store!Said
  <2> QED
    BY <1>0, <2>1 DEF Store!Next
<1>7. CASE Flush
  BY <1>7, FlushIsFlush DEF Store!Next
<1>8. CASE Invalidate
  BY <1>8, InvalidateIsRemount DEF Store!Next
<1>9. CASE UNCHANGED cacheVars
  BY <1>9 DEF cacheVars, Store!storeVars, View
<1> QED
  BY <1>1, <1>2, <1>3, <1>4, <1>5, <1>6, <1>7, <1>8, <1>9 DEF CacheNext

\* The calls of cache.c, with the transfers that go around it, behave as the
\* operations of BlockStore: no load, eviction, failed transfer or cut-short
\* flush changes what a reader sees of a sector that is not lost, and a flush
\* that met no failure leaves nothing to write back.
THEOREM CacheImplementsStore == CacheSpec => StoreSpec
<1>1. CacheSpec => []IInv
  BY CacheInvariant
<1> QED
  BY <1>1, InitIsInit, StepIsStep, PTL DEF CacheSpec, StoreSpec, Store!Spec
==============================================================================
