----------------------------- MODULE FatDir_proofs -----------------------------
(***************************************************************************)
(* Proofs about a directory, for every card, number of slots in a cluster, *)
(* set of names, length of an entry and number of power cuts: the types,   *)
(* what the directory lists, whose the clusters in use are, and what a     *)
(* power cut leaves of the files that nobody touched.                      *)
(*                                                                         *)
(* DirInv says where everything is: both directories are paths of the      *)
(* table (Pathed), the slots hold the entries and nothing else (Filed),    *)
(* the entries are those of the names (Lists), and every cluster in use is *)
(* one entry's (Owns).  From Filed follows what the code's scan, a         *)
(* function of the slots and of nothing else, lists (FiledListing); a call *)
(* is shown to keep Filed, for the entries that it should leave.           *)
(*                                                                         *)
(* SafeInv says the same of the card, as far as it must: the slots of an   *)
(* entry that nobody touched are there as addEntry wrote them (Settled),   *)
(* whatever the others hold, old or new.  DirInv is what shows that a call *)
(* about other names leaves them.                                          *)
(***************************************************************************)
EXTENDS FatDir, FatTable_proofs, SequenceTheorems

-----------------------------------------------------------------------------
(* The invariant                                                           *)

NameT == Names \cup {NoName}

SlotT == {o \in [mark : {"last", "used", "free"}, what : {"data", "long"}, of : NameT, text : NameT,
                 head : BOOLEAN, cluster : Entries, dir : BOOLEAN] :
            /\ o.mark = "last" => o = Blank
            /\ o.mark = "used" => o.of \in Names
            /\ o.text \in {o.of, NoName}}

DiskT == [tab : Tables, ff : FIRST .. LastCluster + 1,
          slots : [Clusters -> [0 .. Slots - 1 -> SlotT]], met : SUBSET Trap]

\* p is the path of a directory in the table lk.
Pathed(lk, p) ==
    /\ p \in Seq(Clusters) /\ p # <<>> /\ p[1] = RootCluster
    /\ \A i, j \in 1 .. Len(p) : p[i] = p[j] => i = j
    /\ \A i \in 1 .. Len(p) - 1 : lk[p[i]] = p[i + 1]
    /\ lk[p[Len(p)]] \notin Clusters

\* No link leads out of a cluster that is not on the path p.
Flat(lk, p) == \A c \in Clusters : (\A i \in 1 .. Len(p) : p[i] # c) => lk[c] \in {FREE, EOF}

Run(e) == e.start .. e.end

\* The slots F, N of them, hold the entries es and nothing else.
Filed(F, N, es) ==
    /\ \A e \in es :
        /\ e \in Entry /\ e.name \in Names /\ e.new = NoName
        /\ e.end = e.start + SlotsOf[e.name] - 1 /\ e.end < N
        /\ \A k \in Run(e) : F[k] = NewSlot(e.name, k - e.start, e.cluster, e.dir)
    /\ \A e, f \in es : e.name = f.name => e = f
    /\ \A k \in 0 .. N - 1 : F[k].mark = "used" => \E e \in es : k \in Run(e)
    /\ \A j, k \in 0 .. N - 1 : (F[j].mark = "used" /\ F[k].mark = "last") => j < k

Old(e) == [e EXCEPT !.new = NoName]

TypeInv ==
    /\ pc \in {"idle", "opening", "truncating", "unlinking", "renaming", "making", "flush"}
    /\ op \in Entry /\ handle \in Entry
    /\ mem \in DiskT /\ card \in DiskT /\ mem.met = {} /\ card.met = {}
    /\ names \in [Names -> Entries \cup {Absent}]
    /\ synced \in [Names -> Entries \cup {Absent}]
    /\ cuts \in Nat
    /\ upset \subseteq Trap
    /\ handle # NoEntry => handle.name \in Names
    /\ pc \notin {"idle", "flush"} => op.name \in Names

PathInv ==
    /\ Pathed(mem.tab, Path(mem)) /\ Pathed(card.tab, Path(card))
    /\ "stray" \notin upset => mem.tab[Last(Path(mem))] # FREE /\ card.tab[Last(Path(card))] # FREE
    /\ "tail" \notin upset => Flat(mem.tab, Path(mem)) /\ Flat(card.tab, Path(card))
    /\ "outside" \notin upset => handle.end < Size(mem)
    /\ (pc = "opening" => "outside" \notin upset) => op.end < Size(mem)

StepInv ==
    /\ pc = "opening" => "stray" \notin upset
    /\ pc = "truncating" => upset \subseteq {"leak", "empty"}
    /\ pc = "unlinking" => upset \subseteq {"leak", "empty", "stray"}
    /\ pc = "making" => upset \subseteq {"leak", "empty", "beyond"}

\* What n stands for is v.
Stands(es, n, v) == {e.cluster : e \in Named(es, n)} = {v} \ {Absent}

\* The entries es are those of the names ns, when the call is at s with the
\* entry o and the open file is h.
Lists(s, o, h, ns, es) ==
    /\ \A n \in Names : Stands(es, n, ns[n])
    /\ s \in {"opening", "truncating"} => h = NoEntry /\ o \in es /\ ~o.dir
    /\ s \in {"unlinking", "renaming"} => Old(o) \in es /\ o.name # h.name
    /\ s = "unlinking" => o.new = NoName
    /\ s = "renaming" => \E t \in es : t.name = o.new /\ t.cluster = o.cluster /\ t # Old(o)
    /\ s = "making" => Named(es, o.name) = {} /\ o.new = NoName
    /\ h # NoEntry => (\E e \in es : h = [e EXCEPT !.cluster = h.cluster]) /\ ~h.dir

ListInv ==
    upset \cap {"gap", "outside", "stray", "torn"} = {} =>
        /\ Filed(InOrder(mem), Size(mem), Listing(mem))
        /\ Lists(pc, op, handle, names, Listing(mem))

\* The entries, the open file's in its stead.
Held(h, es) == IF h = NoEntry THEN es ELSE {e \in es : e.name # h.name} \cup {h}

\* Whose the clusters in use are, when the call is at s with the entry o.
Owners(s, o, h, es) ==
    IF s = "making" THEN Held(h, es) \cup {o}
    ELSE IF s \in {"unlinking", "renaming"} THEN Held(h, es) \ {Old(o)}
    ELSE Held(h, es)

\* The clusters of the entries es are in use, behind no other cluster, and no
\* two entries have one.
OwnedApart(lk, p, es) ==
    /\ \A e \in es : e.cluster # FREE =>
        e.cluster \in Clusters /\ lk[e.cluster] = EOF /\ \A i \in 1 .. Len(p) : p[i] # e.cluster
    /\ \A e, f \in es : e.cluster = f.cluster /\ e.cluster # FREE => e = f

AllOwned(lk, p, es) ==
    \A c \in Clusters : (lk[c] # FREE /\ \A i \in 1 .. Len(p) : p[i] # c) => \E e \in es : e.cluster = c

\* The clusters in use of the table lk, those of the directory p left aside,
\* are the entries'.  When the open file's entry still names a cluster that
\* became the directory's, the entry lies before it.
Owns(u, s, o, h, lk, p, es) ==
    /\ OwnedApart(lk, p, Owners(s, o, h, es))
    /\ u \subseteq {"empty"} => AllOwned(lk, p, Owners(s, o, h, es))
    /\ \A e \in es : e.name = h.name =>
          \A i \in 1 .. Len(p) : p[i] = e.cluster => h.end < Slots * (i - 1)

OwnInv ==
    upset \subseteq {"leak", "empty"} => Owns(upset, pc, op, handle, mem.tab, Path(mem), Listing(mem))

DirInv == TypeInv /\ PathInv /\ StepInv /\ ListInv /\ OwnInv

-----------------------------------------------------------------------------
(* The path                                                                *)

LEMMA DirNumbers ==
    /\ Slots \in Nat /\ Slots > 0
    /\ \A n \in Names : SlotsOf[n] \in Nat /\ SlotsOf[n] >= 1 /\ SlotsOf[n] <= Slots
    /\ NoName \notin Names /\ Absent \notin Nat
    /\ RootCluster = 2 /\ RootCluster \in Clusters
BY DirAssumption, Numbers DEF RootCluster

LEMMA PathTypes ==
    ASSUME NEW lk, NEW p, Pathed(lk, p)
    PROVE  /\ Len(p) \in Nat /\ Len(p) >= 1 /\ p \in [1 .. Len(p) -> Clusters]
           /\ Len(p) <= LastCluster
<1>1. Len(p) \in Nat /\ Len(p) >= 1 /\ p \in [1 .. Len(p) -> Clusters]
  BY DEF Pathed
<1>2. IsFiniteSet(Clusters) /\ Cardinality(Clusters) = LastCluster - 1
  BY FS_Interval, Numbers
<1>3. IsFiniteSet(1 .. Len(p)) /\ Cardinality(1 .. Len(p)) = Len(p)
  BY <1>1, FS_Interval
<1>4. Len(p) <= LastCluster - 1
  <2> SUFFICES ASSUME LastCluster - 1 < Len(p) PROVE FALSE
    BY <1>1, Numbers
  <2>1. \E i, j \in 1 .. Len(p) : i # j /\ p[i] = p[j]
    BY <1>1, <1>2, <1>3, FS_PigeonHole
  <2> QED BY <2>1 DEF Pathed
<1> QED BY <1>1, <1>4, Numbers

\* The path of the table is what Path follows.
LEMMA PathIs ==
    ASSUME NEW d, NEW p, Pathed(d.tab, p)
    PROVE  Path(d) = p
<1> DEFINE F(f) == [n \in 1 .. LastCluster |->
                      IF n = 1 THEN <<RootCluster>>
                      ELSE LET q == f[n - 1] IN
                           IF d.tab[Last(q)] \in Clusters THEN Append(q, d.tab[Last(q)]) ELSE q]
           G == CHOOSE f : f = F(f)
           cut(n) == IF n < Len(p) THEN n ELSE Len(p)
           h == [n \in 1 .. LastCluster |-> SubSeq(p, 1, cut(n))]
<1>1. Path(d) = G[LastCluster]
  BY DEF Path
<1>2. Len(p) \in Nat /\ Len(p) >= 1 /\ p \in [1 .. Len(p) -> Clusters] /\ Len(p) <= LastCluster
  BY PathTypes
<1>20. LastCluster \in Nat /\ LastCluster >= 2
  BY Numbers
<1>21. Len(p) \in Nat /\ Len(p) >= 1 /\ Len(p) <= LastCluster
  BY <1>2
<1>3. \A n \in 1 .. LastCluster :
        /\ h[n] \in Seq(Clusters) /\ Len(h[n]) = cut(n) /\ cut(n) >= 1 /\ cut(n) \in 1 .. Len(p)
        /\ \A i \in 1 .. cut(n) : h[n][i] = p[i]
  <2> SUFFICES ASSUME NEW n \in 1 .. LastCluster
               PROVE  /\ h[n] \in Seq(Clusters) /\ Len(h[n]) = cut(n) /\ cut(n) >= 1 /\ cut(n) \in 1 .. Len(p)
                      /\ \A i \in 1 .. cut(n) : h[n][i] = p[i]
    OBVIOUS
  <2>1. cut(n) \in 1 .. Len(p)
    BY <1>2, Numbers
  <2>2. h[n] = SubSeq(p, 1, cut(n))
    OBVIOUS
  <2>3. p \in Seq(Clusters)
    BY DEF Pathed
  <2> HIDE DEF h, cut
  <2> QED BY <2>1, <2>2, <2>3, <1>2
<1> HIDE DEF h
<1>4. ASSUME NEW n \in 1 .. LastCluster
      PROVE  h[n] = IF n = 1 THEN <<RootCluster>>
                    ELSE IF d.tab[Last(h[n - 1])] \in Clusters
                         THEN Append(h[n - 1], d.tab[Last(h[n - 1])]) ELSE h[n - 1]
  <2>1. CASE n = 1
    <3>1. cut(1) = 1 /\ p[1] = RootCluster
      BY <1>2, Numbers DEF Pathed
    <3>2. h[1] \in Seq(Clusters) /\ Len(h[1]) = 1 /\ h[1][1] = RootCluster
      <4>1. 1 \in 1 .. LastCluster /\ 1 \in 1 .. cut(1)
        BY <1>20, <3>1
      <4> HIDE DEF cut
      <4> QED BY <1>3, <3>1, <4>1
    <3>3. h[1] = <<RootCluster>>
      BY <3>2
    <3> QED BY <2>1, <3>3
  <2>2. CASE n # 1 /\ n <= Len(p)
    <3>1. cut(n) = n /\ cut(n - 1) = n - 1 /\ n - 1 \in 1 .. LastCluster /\ n - 1 \in 1 .. Len(p) - 1
      BY <1>20, <1>21, <2>2
    <3>2. Last(h[n - 1]) = p[n - 1]
      BY <1>3, <3>1 DEF Last
    <3>3. d.tab[p[n - 1]] = p[n] /\ p[n] \in Clusters
      <4>1. (n - 1) + 1 = n /\ n \in 1 .. Len(p)
        BY <1>20, <1>21, <2>2
      <4>2. d.tab[p[n - 1]] = p[(n - 1) + 1]
        BY <3>1 DEF Pathed
      <4> QED BY <1>2, <4>1, <4>2
    <3>4. h[n] = Append(h[n - 1], p[n])
      <4>1. /\ h[n] \in Seq(Clusters) /\ Len(h[n]) = n /\ \A i \in 1 .. n : h[n][i] = p[i]
            /\ h[n - 1] \in Seq(Clusters) /\ Len(h[n - 1]) = n - 1 /\ \A i \in 1 .. n - 1 : h[n - 1][i] = p[i]
        BY <1>3, <3>1
      <4>2. /\ Append(h[n - 1], p[n]) \in Seq(Clusters) /\ Len(Append(h[n - 1], p[n])) = n
            /\ \A i \in 1 .. n : Append(h[n - 1], p[n])[i] = IF i <= n - 1 THEN h[n - 1][i] ELSE p[n]
        BY <4>1, <3>3, AppendProperties
      <4>3. \A i \in 1 .. n : Append(h[n - 1], p[n])[i] = h[n][i]
        BY <4>1, <4>2
      <4> HIDE DEF cut
      <4> QED BY <4>1, <4>2, <4>3, SeqEqual
    <3> QED BY <2>2, <3>2, <3>3, <3>4
  <2>3. CASE n # 1 /\ n > Len(p)
    <3>1. cut(n) = Len(p) /\ cut(n - 1) = Len(p) /\ n - 1 \in 1 .. LastCluster
      BY <1>20, <1>21, <2>3
    <3>2. Last(h[n - 1]) = p[Len(p)]
      BY <1>2, <1>3, <3>1 DEF Last
    <3>3. h[n] = h[n - 1]
      BY <3>1 DEF h
    <3> QED BY <2>3, <3>2, <3>3 DEF Pathed
  <2> QED BY <1>2, <2>1, <2>2, <2>3
<1>5. h = F(h)
  <2>1. h = [n \in 1 .. LastCluster |-> h[n]]
    BY DEF h
  <2>2. \A n \in 1 .. LastCluster : h[n] = F(h)[n]
    BY <1>4
  <2>3. F(h) = [n \in 1 .. LastCluster |-> F(h)[n]]
    OBVIOUS
  <2> HIDE DEF F
  <2> QED BY <2>1, <2>2, <2>3
<1>6. G = F(G)
  <2> HIDE DEF F
  <2> QED BY <1>5
<1>7. ASSUME NEW n \in 1 .. LastCluster
      PROVE  G[n] = IF n = 1 THEN <<RootCluster>>
                    ELSE IF d.tab[Last(G[n - 1])] \in Clusters
                         THEN Append(G[n - 1], d.tab[Last(G[n - 1])]) ELSE G[n - 1]
  <2>1. F(G)[n] = IF n = 1 THEN <<RootCluster>>
                    ELSE IF d.tab[Last(G[n - 1])] \in Clusters
                         THEN Append(G[n - 1], d.tab[Last(G[n - 1])]) ELSE G[n - 1]
    <3> HIDE DEF G
    <3> QED OBVIOUS
  <2> HIDE DEF G, F
  <2> QED BY <1>6, <2>1
<1> HIDE DEF G, F, cut
<1> DEFINE S == {n \in Nat : n + 1 <= LastCluster => G[n + 1] = h[n + 1]}
<1>8. 0 \in S
  BY <1>4, <1>7, Numbers
<1>9. ASSUME NEW n \in Nat, n \in S PROVE n + 1 \in S
  <2> SUFFICES ASSUME n + 2 <= LastCluster PROVE G[n + 2] = h[n + 2]
    OBVIOUS
  <2>1. G[n + 1] = h[n + 1] /\ n + 2 \in 1 .. LastCluster /\ (n + 2) - 1 = n + 1 /\ n + 2 # 1
    BY <1>9, Numbers
  <2> HIDE DEF S
  <2> QED BY <1>4, <1>7, <2>1
<1> HIDE DEF S
<1>10. LastCluster - 1 \in S
  BY <1>8, <1>9, SetInduction, Numbers
<1>11. G[LastCluster] = h[LastCluster]
  BY <1>10, Numbers DEF S
<1>12. h[LastCluster] = p
  <2>1. LastCluster \in 1 .. LastCluster /\ cut(LastCluster) = Len(p)
    BY <1>20, <1>21 DEF cut
  <2>2. /\ h[LastCluster] \in Seq(Clusters) /\ Len(h[LastCluster]) = Len(p)
        /\ \A i \in 1 .. Len(p) : h[LastCluster][i] = p[i]
    BY <1>3, <2>1
  <2> QED BY <1>2, <2>2 DEF Pathed
<1> QED BY <1>1, <1>11, <1>12

-----------------------------------------------------------------------------
(* The slots by their positions                                            *)

LEMMA TimesLess ==
    ASSUME NEW b \in Nat, b > 0, NEW q \in Nat, NEW m \in Nat
    PROVE  /\ b * m \in Nat /\ b * (m + 1) = b * m + b
           /\ q < m => b * q + b <= b * m
           /\ b * q < b * m => q < m
           /\ q <= m => b * q <= b * m
<1>1. b * m \in Nat /\ b * q \in Nat /\ b * (m + 1) = b * m + b /\ b * (q + 1) = b * q + b
  OBVIOUS
<1>2. \A x \in Nat : b * x \in Nat /\ b * x >= 0
  OBVIOUS
<1>3. q <= m => b * q <= b * m
  <2> SUFFICES ASSUME q <= m PROVE b * q <= b * m
    OBVIOUS
  <2>1. m - q \in Nat /\ b * (m - q) = b * m - b * q
    OBVIOUS
  <2> QED BY <1>1, <1>2, <2>1
<1>4. q < m => b * (q + 1) <= b * m
  <2> SUFFICES ASSUME q < m PROVE b * (q + 1) <= b * m
    OBVIOUS
  <2>1. m - (q + 1) \in Nat /\ b * (m - (q + 1)) = b * m - b * (q + 1)
    OBVIOUS
  <2> QED BY <1>1, <1>2, <2>1
<1>5. m <= q => b * m <= b * q
  <2> SUFFICES ASSUME m <= q PROVE b * m <= b * q
    OBVIOUS
  <2>1. q - m \in Nat /\ b * (q - m) = b * q - b * m
    OBVIOUS
  <2> QED BY <1>1, <1>2, <2>1
<1> QED BY <1>1, <1>3, <1>4, <1>5

\* A position is a cluster of the path and a slot in it.
LEMMA Position ==
    ASSUME NEW L \in Nat, NEW k \in 0 .. Slots * L - 1
    PROVE  /\ k \in Nat /\ k \div Slots \in Nat /\ k \div Slots + 1 \in 1 .. L /\ k % Slots \in 0 .. Slots - 1
           /\ k = Slots * (k \div Slots) + (k % Slots)
<1>1. Slots \in Nat /\ Slots > 0
  BY DirNumbers
<1>2. Slots * L \in Nat
  BY <1>1, TimesLess
<1>3. k \in Nat /\ k < Slots * L
  BY <1>2
<1>4. k \div Slots \in Nat /\ k % Slots \in 0 .. Slots - 1 /\ k = Slots * (k \div Slots) + (k % Slots)
  BY <1>1, <1>3, DivMod
<1>5. Slots * (k \div Slots) < Slots * L
  <2>1. Slots * (k \div Slots) \in Nat
    BY <1>1, <1>4, TimesLess
  <2> QED BY <1>2, <1>3, <1>4, <2>1
<1>6. k \div Slots < L
  BY <1>1, <1>4, <1>5, TimesLess
<1> QED BY <1>3, <1>4, <1>6

LEMMA PositionOf ==
    ASSUME NEW L \in Nat, NEW i \in 1 .. L, NEW o \in 0 .. Slots - 1
    PROVE  /\ Slots * (i - 1) + o \in 0 .. Slots * L - 1
           /\ (Slots * (i - 1) + o) \div Slots + 1 = i /\ (Slots * (i - 1) + o) % Slots = o
<1>1. Slots \in Nat /\ Slots > 0 /\ i - 1 \in Nat /\ i - 1 < L /\ o \in Nat
  BY DirNumbers
<1>2. Slots * (i - 1) + Slots <= Slots * L /\ Slots * L \in Nat /\ Slots * (i - 1) \in Nat
  BY <1>1, TimesLess
<1>3. (Slots * (i - 1) + o) \div Slots = i - 1 /\ (Slots * (i - 1) + o) % Slots = o
  BY <1>1, DivModUnique
<1> QED BY <1>1, <1>2, <1>3

\* The slots along a path.
Along(p, slots) ==
    [k \in 0 .. Slots * Len(p) - 1 |-> slots[p[k \div Slots + 1]][k % Slots]]

LEMMA InOrderIs ==
    ASSUME NEW d, Pathed(d.tab, Path(d))
    PROVE  /\ Size(d) \in Nat /\ Size(d) >= Slots /\ Size(d) = Slots * Len(Path(d))
           /\ InOrder(d) = Along(Path(d), d.slots)
           /\ \A k \in 0 .. Size(d) - 1 : At(d, k) = InOrder(d)[k]
<1>1. Slots \in Nat /\ Slots > 0 /\ Len(Path(d)) \in Nat /\ Len(Path(d)) >= 1
  BY DirNumbers, PathTypes
<1>2. Slots * 0 + Slots <= Slots * Len(Path(d)) /\ Slots * Len(Path(d)) \in Nat
  BY <1>1, TimesLess
<1>3. Slots * 0 = 0
  BY <1>1
<1>4. InOrder(d) = Along(Path(d), d.slots)
  BY DEF InOrder, Along
<1>5. \A k \in 0 .. Size(d) - 1 : At(d, k) = InOrder(d)[k]
  BY <1>4 DEF At, ClusterOf, Along, Size
<1> QED BY <1>1, <1>2, <1>3, <1>4, <1>5 DEF Size

LEMMA AlongType ==
    ASSUME NEW lk, NEW p, Pathed(lk, p), NEW slots \in [Clusters -> [0 .. Slots - 1 -> SlotT]]
    PROVE  Along(p, slots) \in [0 .. Slots * Len(p) - 1 -> SlotT]
<1>1. Len(p) \in Nat /\ p \in [1 .. Len(p) -> Clusters]
  BY PathTypes
<1>2. ASSUME NEW k \in 0 .. Slots * Len(p) - 1
      PROVE  slots[p[k \div Slots + 1]][k % Slots] \in SlotT
  <2>1. k \div Slots + 1 \in 1 .. Len(p) /\ k % Slots \in 0 .. Slots - 1
    BY <1>1, Position
  <2> QED BY <1>1, <2>1
<1> QED BY <1>2 DEF Along

\* A write along any walk leaves the table.
LEMMA WrittenAlongIs ==
    ASSUME NEW d \in DiskT, NEW walk, NEW new,
           DOMAIN new \subseteq Nat, \A k \in DOMAIN new : new[k] \in SlotT
    PROVE  /\ WrittenAlong(d, walk, new) \in DiskT
           /\ WrittenAlong(d, walk, new).tab = d.tab /\ WrittenAlong(d, walk, new).ff = d.ff
           /\ WrittenAlong(d, walk, new).met = d.met
<1> DEFINE here(c, o) == {k \in DOMAIN new : walk[k \div Slots + 1] = c /\ k % Slots = o}
           put == [c \in Clusters |-> [o \in 0 .. Slots - 1 |->
                      IF here(c, o) = {} THEN d.slots[c][o] ELSE new[Least(here(c, o))]]]
<1>1. WrittenAlong(d, walk, new) = [d EXCEPT !.slots = put]
  BY DEF WrittenAlong
<1>2. d.slots \in [Clusters -> [0 .. Slots - 1 -> SlotT]]
  BY DEF DiskT
<1>3. ASSUME NEW c \in Clusters, NEW o \in 0 .. Slots - 1
      PROVE  (IF here(c, o) = {} THEN d.slots[c][o] ELSE new[Least(here(c, o))]) \in SlotT
  <2>1. CASE here(c, o) = {}
    BY <1>2, <2>1
  <2>2. CASE here(c, o) # {}
    <3>1. here(c, o) \subseteq Nat /\ here(c, o) \subseteq DOMAIN new
      OBVIOUS
    <3>2. Least(here(c, o)) \in here(c, o)
      <4> HIDE DEF here
      <4> QED BY <2>2, <3>1, LeastIs
    <3> HIDE DEF here
    <3> QED BY <2>2, <3>1, <3>2
  <2> QED BY <2>1, <2>2
<1>4. put \in [Clusters -> [0 .. Slots - 1 -> SlotT]]
  <2> HIDE DEF here
  <2> QED BY <1>3
<1> HIDE DEF put
<1> QED BY <1>1, <1>4 DEF DiskT

\* What a write leaves.
LEMMA WrittenIs ==
    ASSUME NEW d \in DiskT, Pathed(d.tab, Path(d)), NEW new,
           DOMAIN new \subseteq 0 .. Size(d) - 1, \A k \in DOMAIN new : new[k] \in SlotT
    PROVE  /\ Written(d, new) \in DiskT
           /\ Written(d, new).tab = d.tab /\ Written(d, new).ff = d.ff /\ Written(d, new).met = d.met
           /\ Path(Written(d, new)) = Path(d) /\ Size(Written(d, new)) = Size(d)
           /\ InOrder(Written(d, new)) =
                [k \in 0 .. Size(d) - 1 |-> IF k \in DOMAIN new THEN new[k] ELSE InOrder(d)[k]]
<1> DEFINE p == Path(d)
           here(c, o) == {k \in DOMAIN new : p[k \div Slots + 1] = c /\ k % Slots = o}
           put == [c \in Clusters |-> [o \in 0 .. Slots - 1 |->
                      IF here(c, o) = {} THEN d.slots[c][o] ELSE new[Least(here(c, o))]]]
           w == Written(d, new)
<1>1. w = [d EXCEPT !.slots = put]
  BY DEF Written, WrittenAlong
<1>2. \A c, o : here(c, o) # {} => Least(here(c, o)) \in here(c, o)
  <2> SUFFICES ASSUME NEW c, NEW o, here(c, o) # {} PROVE Least(here(c, o)) \in here(c, o)
    OBVIOUS
  <2>1. here(c, o) \subseteq Nat
    BY InOrderIs
  <2> HIDE DEF here
  <2> QED BY <2>1, LeastIs
<1>3. d.slots \in [Clusters -> [0 .. Slots - 1 -> SlotT]]
  BY DEF DiskT
<1>4. ASSUME NEW c \in Clusters, NEW o \in 0 .. Slots - 1
      PROVE  put[c][o] = (IF here(c, o) = {} THEN d.slots[c][o] ELSE new[Least(here(c, o))])
  OBVIOUS
<1>5. put \in [Clusters -> [0 .. Slots - 1 -> SlotT]]
  <2>1. ASSUME NEW c \in Clusters, NEW o \in 0 .. Slots - 1
        PROVE  (IF here(c, o) = {} THEN d.slots[c][o] ELSE new[Least(here(c, o))]) \in SlotT
    <3>1. CASE here(c, o) = {}
      BY <1>3, <3>1
    <3>2. CASE here(c, o) # {}
      <4>1. Least(here(c, o)) \in DOMAIN new
        BY <1>2, <3>2
      <4> QED BY <3>2, <4>1
    <3> QED BY <3>1, <3>2
  <2> HIDE DEF here
  <2> QED BY <2>1
<1> HIDE DEF put
<1>6. w \in DiskT /\ w.tab = d.tab /\ w.ff = d.ff /\ w.met = d.met /\ w.slots = put
  BY <1>1, <1>5 DEF DiskT
<1> HIDE DEF w
<1>7. Path(w) = p /\ Size(w) = Size(d)
  <2>1. Path(w) = p
    BY <1>6, PathIs
  <2> QED BY <2>1 DEF Size
<1>8. InOrder(w) = Along(p, put)
  BY <1>6, <1>7, InOrderIs
<1>9. InOrder(d) = Along(p, d.slots) /\ Size(d) = Slots * Len(p) /\ Len(p) \in Nat
      /\ p \in [1 .. Len(p) -> Clusters]
  BY InOrderIs, PathTypes
<1>10. ASSUME NEW k \in 0 .. Size(d) - 1
       PROVE  Along(p, put)[k] = IF k \in DOMAIN new THEN new[k] ELSE InOrder(d)[k]
  <2> DEFINE i == k \div Slots + 1
             o == k % Slots
  <2>1. i \in 1 .. Len(p) /\ o \in 0 .. Slots - 1 /\ k \div Slots \in Nat /\ k = Slots * (k \div Slots) + (k % Slots)
    BY <1>9, Position
  <2>2. p[i] \in Clusters
    BY <1>9, <2>1
  <2>3. Along(p, put)[k] = put[p[i]][o] /\ InOrder(d)[k] = d.slots[p[i]][o]
    BY <1>9 DEF Along
  <2>4. \A j \in here(p[i], o) : j = k
    <3> SUFFICES ASSUME NEW j \in DOMAIN new, p[j \div Slots + 1] = p[i], j % Slots = o PROVE j = k
      OBVIOUS
    <3>1. /\ j \div Slots + 1 \in 1 .. Len(p) /\ j \in Nat /\ j \div Slots \in Nat
          /\ j = Slots * (j \div Slots) + (j % Slots)
      BY <1>9, Position
    <3>2. j \div Slots + 1 = i
      BY <2>1, <3>1 DEF Pathed
    <3>3. j \div Slots = k \div Slots
      BY <2>1, <3>1, <3>2
    <3> QED BY <2>1, <3>1, <3>3
  <2>5. CASE k \in DOMAIN new
    <3>1. k \in here(p[i], o)
      BY <2>5
    <3>2. here(p[i], o) # {} /\ Least(here(p[i], o)) = k
      <4> HIDE DEF here
      <4> QED BY <1>2, <2>4, <3>1
    <3> QED BY <1>4, <2>1, <2>2, <2>3, <2>5, <3>2
  <2>6. CASE k \notin DOMAIN new
    <3>1. here(p[i], o) = {}
      BY <2>4, <2>6
    <3> QED BY <1>4, <2>1, <2>2, <2>3, <2>6, <3>1
  <2> QED BY <2>5, <2>6
<1>11. Along(p, put) = [k \in 0 .. Size(d) - 1 |-> IF k \in DOMAIN new THEN new[k] ELSE InOrder(d)[k]]
  <2>1. Along(p, put) = [k \in 0 .. Size(d) - 1 |-> Along(p, put)[k]]
    BY <1>9 DEF Along
  <2> QED BY <1>10, <2>1
<1> QED BY <1>6, <1>7, <1>8, <1>11 DEF w

-----------------------------------------------------------------------------
(* Making the directory longer                                             *)

\* A directory that can be made longer.
Fit(d) == d \in DiskT /\ Pathed(d.tab, Path(d)) /\ d.tab[Last(Path(d))] # FREE

\* A table that differs off a path and at its end only, and has no link there,
\* has the same path.
LEMMA PathedSame ==
    ASSUME NEW lk, NEW p, Pathed(lk, p), NEW lk2,
           \A i \in 1 .. Len(p) - 1 : lk2[p[i]] = lk[p[i]],
           lk2[p[Len(p)]] \notin Clusters
    PROVE  Pathed(lk2, p)
BY DEF Pathed

\* The clusters of a path are in use.
LEMMA PathInUse ==
    ASSUME NEW lk, NEW p, Pathed(lk, p), lk[p[Len(p)]] # FREE, NEW i \in 1 .. Len(p)
    PROVE  lk[p[i]] # FREE
<1>1. Len(p) \in Nat /\ p \in [1 .. Len(p) -> Clusters]
  BY PathTypes
<1>2. CASE i = Len(p)
  BY <1>2
<1>3. CASE i # Len(p)
  <2>1. i \in 1 .. Len(p) - 1 /\ i + 1 \in 1 .. Len(p)
    <3>1. Len(p) \in Nat
      BY <1>1
    <3> QED BY <1>3, <3>1
  <2>2. lk[p[i]] = p[i + 1]
    BY <2>1 DEF Pathed
  <2> QED BY <1>1, <2>1, <2>2, Numbers
<1> QED BY <1>2, <1>3

\* A free cluster is put behind the last one.
LEMMA PathedAppend ==
    ASSUME NEW lk, NEW p, Pathed(lk, p), lk[p[Len(p)]] # FREE,
           NEW n \in Clusters, lk[n] = FREE, NEW lk2,
           \A c \in Clusters : lk2[c] = IF c = n THEN EOF ELSE IF c = p[Len(p)] THEN n ELSE lk[c]
    PROVE  /\ Pathed(lk2, Append(p, n)) /\ lk2[n] # FREE
           /\ Len(Append(p, n)) = Len(p) + 1 /\ Append(p, n)[Len(p) + 1] = n
           /\ \A i \in 1 .. Len(p) : Append(p, n)[i] = p[i]
           /\ \A i \in 1 .. Len(p) : p[i] # n
<1> DEFINE q == Append(p, n)
           L == Len(p)
<1>1. L \in Nat /\ L >= 1 /\ p \in [1 .. L -> Clusters] /\ p \in Seq(Clusters)
  BY PathTypes DEF Pathed
<1>2. \A i \in 1 .. L : p[i] # n
  BY PathInUse
<1>3. /\ q \in Seq(Clusters) /\ Len(q) = L + 1
      /\ \A i \in 1 .. L + 1 : q[i] = IF i <= L THEN p[i] ELSE n
  BY <1>1, AppendProperties
<1>4. q[L + 1] = n /\ \A i \in 1 .. L : q[i] = p[i]
  BY <1>1, <1>3
<1>5. q # <<>> /\ q[1] = RootCluster
  <2>1. 1 \in 1 .. L
    BY <1>1
  <2>2. q # <<>>
    BY <1>1, <1>3, EmptySeq
  <2> QED BY <1>4, <2>1, <2>2 DEF Pathed
<1>6. \A i, j \in 1 .. L + 1 : q[i] = q[j] => i = j
  <2> SUFFICES ASSUME NEW i \in 1 .. L + 1, NEW j \in 1 .. L + 1, q[i] = q[j] PROVE i = j
    OBVIOUS
  <2>1. CASE i \in 1 .. L /\ j \in 1 .. L
    BY <1>4, <2>1 DEF Pathed
  <2>2. CASE i = L + 1 \/ j = L + 1
    <3>1. i = L + 1 => q[j] = n
      BY <1>4
    <3>2. j = L + 1 => q[i] = n
      BY <1>4
    <3>3. q[i] = n /\ q[j] = n
      BY <1>4, <2>2, <3>1, <3>2
    <3>4. i \notin 1 .. L /\ j \notin 1 .. L
      BY <1>2, <1>4, <3>3
    <3> QED BY <1>1, <3>4
  <2> QED BY <1>1, <2>1, <2>2
<1>7. ASSUME NEW i \in 1 .. (L + 1) - 1 PROVE lk2[q[i]] = q[i + 1]
  <2>1. i \in 1 .. L /\ q[i] = p[i] /\ p[i] # n /\ p[i] \in Clusters
    BY <1>1, <1>2, <1>4
  <2>2. CASE i = L
    BY <1>4, <2>1, <2>2
  <2>3. CASE i # L
    <3>1. i \in 1 .. L - 1 /\ i + 1 \in 1 .. L /\ L \in 1 .. L
      <4>1. L \in Nat /\ i \in 1 .. L
        BY <1>1, <2>1
      <4> HIDE DEF L
      <4> QED BY <2>3, <4>1
    <3>2. p[i] # p[L]
      BY <2>1, <2>3, <3>1 DEF Pathed
    <3>3. lk2[p[i]] = lk[p[i]]
      BY <2>1, <3>2
    <3>4. lk[p[i]] = p[i + 1]
      BY <3>1 DEF Pathed
    <3> QED BY <1>4, <2>1, <3>1, <3>3, <3>4
  <2> QED BY <2>2, <2>3
<1>8. lk2[q[L + 1]] \notin Clusters /\ lk2[n] # FREE
  BY <1>4, Numbers
<1>10. Pathed(lk2, q)
  <2> HIDE DEF q
  <2> QED BY <1>3, <1>5, <1>6, <1>7, <1>8 DEF Pathed
<1> QED BY <1>2, <1>3, <1>4, <1>8, <1>10

\* w is d made longer: cleared clusters that were free are behind the others.
Longer(d, w) ==
    /\ Fit(w)
    /\ Len(Path(d)) <= Len(Path(w)) /\ \A i \in 1 .. Len(Path(d)) : Path(w)[i] = Path(d)[i]
    /\ \A c \in Clusters : d.tab[c] # FREE => w.tab[c] # FREE
    /\ \A c \in Clusters : (\A i \in 1 .. Len(Path(w)) : Path(w)[i] # c) =>
          w.tab[c] = d.tab[c] \/ (d.tab[c] = FREE /\ "tail" \in w.met)
    /\ \A i \in Len(Path(d)) + 1 .. Len(Path(w)) :
          d.tab[Path(w)[i]] = FREE /\ w.slots[Path(w)[i]] = BlankCluster
    /\ \A i \in 1 .. Len(Path(d)) : w.slots[Path(d)[i]] = d.slots[Path(d)[i]]
    /\ d.met \subseteq w.met /\ w.met \subseteq d.met \cup {"tail", "beyond"}

LEMMA LongerSelf == ASSUME NEW d, Fit(d) PROVE Longer(d, d)
<1>1. Len(Path(d)) \in Nat
  BY PathTypes DEF Fit
<1> QED BY <1>1 DEF Longer

LEMMA LongerTwice ==
    ASSUME NEW d, NEW w, NEW x, Fit(d), Longer(d, w), Longer(w, x)
    PROVE  Longer(d, x)
<1> DEFINE L == Len(Path(d))
           M == Len(Path(w))
           N == Len(Path(x))
<1>1. L \in Nat /\ M \in Nat /\ N \in Nat
  BY PathTypes DEF Fit, Longer
<1>2. L <= M /\ M <= N
  BY DEF Longer
<1>3. \A i \in 1 .. L : i \in 1 .. M /\ Path(x)[i] = Path(w)[i] /\ Path(w)[i] = Path(d)[i]
  BY <1>1, <1>2 DEF Longer
<1>4. \A i \in 1 .. M : i \in 1 .. N /\ Path(x)[i] = Path(w)[i]
  BY <1>1, <1>2 DEF Longer
<1>5. \A c \in Clusters : /\ d.tab[c] # FREE => w.tab[c] # FREE
                          /\ w.tab[c] # FREE => x.tab[c] # FREE
  BY DEF Longer
<1>6. \A c \in Clusters : (\A i \in 1 .. N : Path(x)[i] # c) =>
          x.tab[c] = d.tab[c] \/ (d.tab[c] = FREE /\ "tail" \in x.met)
  <2> SUFFICES ASSUME NEW c \in Clusters, \A i \in 1 .. N : Path(x)[i] # c
               PROVE  x.tab[c] = d.tab[c] \/ (d.tab[c] = FREE /\ "tail" \in x.met)
    OBVIOUS
  <2>1. \A i \in 1 .. M : Path(w)[i] # c
    BY <1>4
  <2>2. x.tab[c] = w.tab[c] \/ (w.tab[c] = FREE /\ "tail" \in x.met)
    BY DEF Longer
  <2>3. w.tab[c] = d.tab[c] \/ (d.tab[c] = FREE /\ "tail" \in w.met)
    BY <2>1 DEF Longer
  <2>4. w.met \subseteq x.met
    BY DEF Longer
  <2> QED BY <1>5, <2>2, <2>3, <2>4
<1>7. ASSUME NEW i \in L + 1 .. N
      PROVE  d.tab[Path(x)[i]] = FREE /\ x.slots[Path(x)[i]] = BlankCluster
  <2>1. CASE i <= M
    <3>1. i \in L + 1 .. M /\ i \in 1 .. M /\ Path(x)[i] = Path(w)[i]
      BY <1>1, <1>4, <2>1
    <3>2. d.tab[Path(w)[i]] = FREE /\ w.slots[Path(w)[i]] = BlankCluster
      BY <3>1 DEF Longer
    <3>3. x.slots[Path(w)[i]] = w.slots[Path(w)[i]]
      BY <3>1 DEF Longer
    <3> QED BY <3>1, <3>2, <3>3
  <2>2. CASE i > M
    <3>1. i \in M + 1 .. N /\ i \in 1 .. N
      BY <1>1, <2>2
    <3>2. w.tab[Path(x)[i]] = FREE /\ x.slots[Path(x)[i]] = BlankCluster
      BY <3>1 DEF Longer
    <3>3. Path(x)[i] \in Clusters
      BY <3>1, PathTypes DEF Longer, Fit
    <3> QED BY <1>5, <3>2, <3>3
  <2> QED BY <1>1, <2>1, <2>2
<1>8. \A i \in 1 .. L : x.slots[Path(d)[i]] = d.slots[Path(d)[i]]
  <2> SUFFICES ASSUME NEW i \in 1 .. L PROVE x.slots[Path(d)[i]] = d.slots[Path(d)[i]]
    OBVIOUS
  <2>1. x.slots[Path(w)[i]] = w.slots[Path(w)[i]]
    BY <1>3 DEF Longer
  <2>2. w.slots[Path(d)[i]] = d.slots[Path(d)[i]]
    BY DEF Longer
  <2> QED BY <1>3, <2>1, <2>2
<1>9. d.met \subseteq x.met /\ x.met \subseteq d.met \cup {"tail", "beyond"}
  BY DEF Longer
<1>10. L <= N /\ \A i \in 1 .. L : Path(x)[i] = Path(d)[i]
  BY <1>1, <1>2, <1>3
<1>11. Fit(x)
  BY DEF Longer
<1>12. \A c \in Clusters : d.tab[c] # FREE => x.tab[c] # FREE
  BY <1>5
<1> QED BY <1>6, <1>7, <1>8, <1>9, <1>10, <1>11, <1>12 DEF Longer

\* In terms of positions.
LEMMA LongerInOrder ==
    ASSUME NEW d, NEW w, Fit(d), Longer(d, w)
    PROVE  /\ Size(d) \in Nat /\ Size(w) \in Nat /\ Size(d) <= Size(w)
           /\ \A k \in 0 .. Size(d) - 1 : InOrder(w)[k] = InOrder(d)[k]
           /\ \A k \in Size(d) .. Size(w) - 1 : InOrder(w)[k] = Blank
<1> DEFINE p == Path(d)
           q == Path(w)
<1>1. /\ Len(p) \in Nat /\ Len(q) \in Nat /\ Len(p) <= Len(q)
      /\ p \in [1 .. Len(p) -> Clusters] /\ q \in [1 .. Len(q) -> Clusters]
  BY PathTypes DEF Fit, Longer
<1>2. /\ Size(d) = Slots * Len(p) /\ Size(w) = Slots * Len(q) /\ Size(d) \in Nat /\ Size(w) \in Nat
      /\ InOrder(d) = Along(p, d.slots) /\ InOrder(w) = Along(q, w.slots)
  BY InOrderIs DEF Fit, Longer
<1>3. Size(d) <= Size(w)
  BY <1>1, <1>2, TimesLess, DirNumbers
<1>4. ASSUME NEW k \in 0 .. Size(d) - 1 PROVE InOrder(w)[k] = InOrder(d)[k]
  <2>1. k \in 0 .. Slots * Len(p) - 1 /\ k \in 0 .. Slots * Len(q) - 1
    BY <1>2, <1>3
  <2>2. k \div Slots + 1 \in 1 .. Len(p)
    BY <1>1, <2>1, Position
  <2>3. q[k \div Slots + 1] = p[k \div Slots + 1]
        /\ w.slots[p[k \div Slots + 1]] = d.slots[p[k \div Slots + 1]]
    BY <2>2 DEF Longer
  <2> QED BY <1>2, <2>1, <2>3 DEF Along
<1>5. ASSUME NEW k \in Size(d) .. Size(w) - 1 PROVE InOrder(w)[k] = Blank
  <2>1. k \in 0 .. Slots * Len(q) - 1 /\ k >= Slots * Len(p)
    BY <1>2
  <2>2. /\ k \div Slots \in Nat /\ k \div Slots + 1 \in 1 .. Len(q) /\ k % Slots \in 0 .. Slots - 1
        /\ k = Slots * (k \div Slots) + (k % Slots)
    BY <1>1, <2>1, Position
  <2>3. Len(p) <= k \div Slots
    <3> SUFFICES ASSUME k \div Slots < Len(p) PROVE FALSE
      BY <1>1, <2>2
    <3>1. Slots * (k \div Slots) + Slots <= Slots * Len(p) /\ Slots * (k \div Slots) \in Nat
      BY <1>1, <2>2, TimesLess, DirNumbers
    <3> QED BY <2>1, <2>2, <3>1, DirNumbers
  <2>4. k \div Slots + 1 \in Len(p) + 1 .. Len(q)
    BY <1>1, <2>2, <2>3
  <2>5. w.slots[q[k \div Slots + 1]] = BlankCluster
    BY <2>4 DEF Longer
  <2>6. InOrder(w)[k] = BlankCluster[k % Slots]
    BY <1>2, <2>1, <2>5 DEF Along
  <2> QED BY <2>2, <2>6 DEF BlankCluster
<1> QED BY <1>2, <1>3, <1>4, <1>5

\* What linking a free cluster comes to.
LEMMA LinkedFreeIs ==
    ASSUME NEW d \in DiskT, NEW c \in Entries, c <= LastCluster, d.tab[c] \notin Clusters
    PROVE  LET res == LinkedFree(d, c)
               n == res.cluster
               w == res.d
           IN  /\ w \in DiskT /\ w.slots = d.slots /\ n \in Entries
               /\ d.met \subseteq w.met /\ w.met \subseteq d.met \cup {"tail", "beyond"}
               /\ \/ /\ n \in Clusters /\ d.tab[n] = FREE
                     /\ \A x \in Clusters : w.tab[x] = IF x = n THEN EOF
                                                       ELSE IF x = c /\ c < LastCluster THEN n ELSE d.tab[x]
                     /\ w.met = d.met \cup (IF c = LastCluster THEN {"tail"} ELSE {})
                  \/ /\ n = LastCluster + 1
                     /\ w.met = d.met \cup (IF c = LastCluster THEN {"tail"} ELSE {}) \cup {"beyond"}
                     /\ \A x \in Clusters : w.tab[x] = IF x = c /\ c < LastCluster THEN n ELSE d.tab[x]
                  \/ /\ n = FREE /\ w.met = d.met /\ w.tab = d.tab
                     /\ \A x \in Clusters : d.tab[x] # FREE
<1> DEFINE lr == LinkFree(d.tab, d.ff, c)
           res == LinkedFree(d, c)
           w == res.d
<1>1. d.tab \in Tables /\ d.tab \in Links /\ d.ff \in FIRST .. LastCluster + 1 /\ d.met \subseteq Trap
  BY DEF DiskT, Tables
<1>2. lr.link \in Tables /\ lr.firstFree \in FIRST .. LastCluster + 1 /\ lr.cluster \in Entries
  BY <1>1, LinkFreeType
<1>3. res.cluster = lr.cluster /\ w = [d EXCEPT !.tab = lr.link, !.ff = lr.firstFree, !.met = @ \cup Traps(c, lr)]
  BY DEF LinkedFree
<1>4. \/ \E n \in FIRST .. LastCluster + 1 : d.tab[n] = FREE /\ lr = Result(Linked(d.tab, c, n), n, n)
      \/ lr = Result(d.tab, LastCluster + 1, FREE) /\ \A x \in Clusters : d.tab[x] # FREE
  <2>1. ~(c > LastCluster)
    BY Numbers
  <2> QED BY <1>1, <2>1, LinkFreeIs
<1> HIDE DEF lr, res, w
<1>5. Traps(c, lr) \subseteq {"tail", "beyond"}
  BY DEF Traps
<1>6. /\ w \in DiskT /\ w.slots = d.slots /\ w.tab = lr.link /\ w.met = d.met \cup Traps(c, lr)
  <2>1. Traps(c, lr) \subseteq Trap
    BY <1>5 DEF Trap
  <2> QED BY <1>2, <1>3, <2>1 DEF DiskT
<1>7. ASSUME NEW n \in Clusters, d.tab[n] = FREE, lr = Result(Linked(d.tab, c, n), n, n)
      PROVE  /\ res.cluster = n /\ w.met = d.met \cup (IF c = LastCluster THEN {"tail"} ELSE {})
             /\ \A x \in Clusters : w.tab[x] = IF x = n THEN EOF
                                               ELSE IF x = c /\ c < LastCluster THEN n ELSE d.tab[x]
  <2>1. lr.cluster = n /\ lr.link = Linked(d.tab, c, n)
    BY <1>7 DEF Result
  <2>2. Traps(c, lr) = IF c = LastCluster THEN {"tail"} ELSE {}
    BY <2>1, Numbers DEF Traps
  <2>3. \A x \in Clusters : Linked(d.tab, c, n)[x] =
            IF x = n THEN EOF ELSE IF x = c /\ c < LastCluster THEN n ELSE d.tab[x]
    BY <1>1, GrownIs
  <2> QED BY <1>3, <1>6, <2>1, <2>2, <2>3
<1>8. ASSUME NEW n, n = LastCluster + 1, lr = Result(Linked(d.tab, c, n), n, n)
      PROVE  /\ res.cluster = n
             /\ w.met = d.met \cup (IF c = LastCluster THEN {"tail"} ELSE {}) \cup {"beyond"}
             /\ \A x \in Clusters : w.tab[x] = IF x = c /\ c < LastCluster THEN n ELSE d.tab[x]
  <2>1. lr.cluster = n /\ lr.link = Linked(d.tab, c, n)
    BY <1>8 DEF Result
  <2>2. Traps(c, lr) = (IF c = LastCluster THEN {"tail"} ELSE {}) \cup {"beyond"}
    BY <1>8, <2>1, Numbers DEF Traps
  <2>3. n \notin Clusters
    BY <1>8, Numbers
  <2>4. Linked(d.tab, c, n) = IF c < LastCluster THEN Put(d.tab, c, n) ELSE d.tab
    BY <2>3 DEF Linked, Put
  <2>5. \A x \in Clusters : Linked(d.tab, c, n)[x] = IF x = c /\ c < LastCluster THEN n ELSE d.tab[x]
    BY <1>1, <2>4, Numbers DEF Put, Links
  <2> QED BY <1>3, <1>6, <2>1, <2>2, <2>5
<1>9. ASSUME lr = Result(d.tab, LastCluster + 1, FREE), \A x \in Clusters : d.tab[x] # FREE
      PROVE  /\ res.cluster = FREE /\ w.met = d.met /\ w.tab = d.tab
             /\ \A x \in Clusters : d.tab[x] # FREE
  <2>1. lr.cluster = FREE /\ lr.link = d.tab
    BY <1>9 DEF Result
  <2>2. Traps(c, lr) = {}
    BY <2>1, Numbers DEF Traps
  <2> QED BY <1>3, <1>6, <1>9, <2>1, <2>2
<1>10. \A n \in FIRST .. LastCluster + 1 : n \in Clusters \/ n = LastCluster + 1
  BY Numbers
<1>11. \/ /\ res.cluster \in Clusters /\ d.tab[res.cluster] = FREE
          /\ \A x \in Clusters : w.tab[x] = IF x = res.cluster THEN EOF
                                            ELSE IF x = c /\ c < LastCluster THEN res.cluster ELSE d.tab[x]
          /\ w.met = d.met \cup (IF c = LastCluster THEN {"tail"} ELSE {})
       \/ /\ res.cluster = LastCluster + 1
          /\ w.met = d.met \cup (IF c = LastCluster THEN {"tail"} ELSE {}) \cup {"beyond"}
          /\ \A x \in Clusters : w.tab[x] = IF x = c /\ c < LastCluster THEN res.cluster ELSE d.tab[x]
       \/ /\ res.cluster = FREE /\ w.met = d.met /\ w.tab = d.tab
          /\ \A x \in Clusters : d.tab[x] # FREE
  <2>1. CASE lr = Result(d.tab, LastCluster + 1, FREE) /\ \A x \in Clusters : d.tab[x] # FREE
    BY <1>9, <2>1
  <2>2. ASSUME NEW n \in FIRST .. LastCluster + 1, d.tab[n] = FREE, lr = Result(Linked(d.tab, c, n), n, n)
        PROVE  <1>11!1 \/ <1>11!2
    <3>1. CASE n \in Clusters
      <4>1. /\ res.cluster = n /\ w.met = d.met \cup (IF c = LastCluster THEN {"tail"} ELSE {})
            /\ \A x \in Clusters : w.tab[x] = IF x = n THEN EOF
                                              ELSE IF x = c /\ c < LastCluster THEN n ELSE d.tab[x]
        BY <1>7, <2>2, <3>1
      <4> QED BY <2>2, <3>1, <4>1
    <3>2. CASE n = LastCluster + 1
      <4>1. /\ res.cluster = n
            /\ w.met = d.met \cup (IF c = LastCluster THEN {"tail"} ELSE {}) \cup {"beyond"}
            /\ \A x \in Clusters : w.tab[x] = IF x = c /\ c < LastCluster THEN n ELSE d.tab[x]
        BY <1>8, <2>2, <3>2
      <4> QED BY <3>2, <4>1
    <3> QED BY <1>10, <3>1, <3>2
  <2> QED BY <1>4, <2>1, <2>2
<1>12. d.met \subseteq w.met /\ w.met \subseteq d.met \cup {"tail", "beyond"}
  BY <1>5, <1>6
<1>13. res.cluster \in Entries
  BY <1>2, <1>3
<1> QED BY <1>6, <1>11, <1>12, <1>13 DEF w, res

\* A file's or directory's first cluster: no link is written.
LEMMA LinkedFreeFirst ==
    ASSUME NEW d \in DiskT
    PROVE  LET res == LinkedFree(d, FREE)
               n == res.cluster
               w == res.d
           IN  /\ w \in DiskT /\ w.slots = d.slots /\ n \in Entries /\ d.met \subseteq w.met
               /\ \/ /\ n \in Clusters /\ d.tab[n] = FREE /\ w.met = d.met
                     /\ \A x \in Clusters : w.tab[x] = IF x = n THEN EOF ELSE d.tab[x]
                  \/ /\ n = LastCluster + 1 /\ w.met = d.met \cup {"beyond"}
                     /\ \A x \in Clusters : w.tab[x] = d.tab[x]
                  \/ n = FREE /\ w.met = d.met /\ w.tab = d.tab
<1>1. FREE \in Entries /\ FREE <= LastCluster /\ FREE # LastCluster /\ FREE \notin Clusters
  BY Numbers
<1>2. d.tab[FREE] \notin Clusters
  BY Numbers DEF DiskT, Tables
<1> DEFINE res == LinkedFree(d, FREE)
           n == res.cluster
           w == res.d
<1>3. /\ w \in DiskT /\ w.slots = d.slots /\ n \in Entries
      /\ d.met \subseteq w.met
      /\ \/ /\ n \in Clusters /\ d.tab[n] = FREE
            /\ \A x \in Clusters : w.tab[x] = IF x = n THEN EOF
                                              ELSE IF x = FREE /\ FREE < LastCluster THEN n ELSE d.tab[x]
            /\ w.met = d.met \cup (IF FREE = LastCluster THEN {"tail"} ELSE {})
         \/ /\ n = LastCluster + 1
            /\ w.met = d.met \cup (IF FREE = LastCluster THEN {"tail"} ELSE {}) \cup {"beyond"}
            /\ \A x \in Clusters : w.tab[x] = IF x = FREE /\ FREE < LastCluster THEN n ELSE d.tab[x]
         \/ n = FREE /\ w.met = d.met /\ w.tab = d.tab
  BY <1>1, <1>2, LinkedFreeIs
<1> HIDE DEF res, n, w
<1>4. \A x \in Clusters : x # FREE
  BY <1>1
<1>5. /\ w \in DiskT /\ w.slots = d.slots /\ n \in Entries /\ d.met \subseteq w.met
      /\ \/ /\ n \in Clusters /\ d.tab[n] = FREE /\ w.met = d.met
            /\ \A x \in Clusters : w.tab[x] = IF x = n THEN EOF ELSE d.tab[x]
         \/ /\ n = LastCluster + 1 /\ w.met = d.met \cup {"beyond"}
            /\ \A x \in Clusters : w.tab[x] = d.tab[x]
         \/ n = FREE /\ w.met = d.met /\ w.tab = d.tab
  BY <1>1, <1>3, <1>4
<1> QED BY <1>5 DEF n, w, res

\* What a longer directory keeps of the changes off its path.
LEMMA LongerKept ==
    ASSUME NEW d, Fit(d), NEW v, Longer(d, v), NEW w \in DiskT,
           \A i \in 1 .. Len(Path(v)) : w.tab[Path(v)[i]] = v.tab[Path(v)[i]] /\ w.slots[Path(v)[i]] = v.slots[Path(v)[i]],
           \A c \in Clusters : w.tab[c] = v.tab[c] \/ (d.tab[c] = FREE /\ w.tab[c] # FREE),
           "tail" \in v.met, v.met \subseteq w.met, w.met \subseteq v.met \cup {"tail", "beyond"}
    PROVE  Longer(d, w)
<1> DEFINE p == Path(v)
           L == Len(p)
<1>1. Pathed(v.tab, p) /\ v.tab[Last(p)] # FREE
  BY DEF Longer, Fit
<1>2. L \in Nat /\ L >= 1 /\ p \in [1 .. L -> Clusters] /\ v.tab[p[L]] \notin Clusters /\ Last(p) = p[L]
  BY <1>1, PathTypes DEF Pathed, Last
<1>3. Pathed(w.tab, p)
  <2>1. \A i \in 1 .. L - 1 : i \in 1 .. L
    <3> HIDE DEF L
    <3> QED BY <1>2
  <2>2. L \in 1 .. L
    <3> HIDE DEF L
    <3> QED BY <1>2
  <2>3. \A i \in 1 .. L - 1 : w.tab[p[i]] = v.tab[p[i]]
    BY <2>1
  <2>4. w.tab[p[L]] = v.tab[p[L]]
    BY <2>2
  <2> QED BY <1>1, <1>2, <2>3, <2>4, PathedSame
<1>4. Path(w) = p
  BY <1>3, PathIs
<1>5. Fit(w)
  <2>1. L \in 1 .. L
    <3> HIDE DEF L
    <3> QED BY <1>2
  <2> QED BY <1>1, <1>2, <1>3, <1>4, <2>1 DEF Fit
<1>6. \A c \in Clusters : d.tab[c] # FREE => w.tab[c] # FREE
  BY DEF Longer
<1>7. \A c \in Clusters : (\A i \in 1 .. L : p[i] # c) =>
         w.tab[c] = d.tab[c] \/ (d.tab[c] = FREE /\ "tail" \in w.met)
  BY DEF Longer
<1>8. \A i \in Len(Path(d)) + 1 .. L : d.tab[p[i]] = FREE /\ w.slots[p[i]] = BlankCluster
  <2> SUFFICES ASSUME NEW i \in Len(Path(d)) + 1 .. L PROVE d.tab[p[i]] = FREE /\ w.slots[p[i]] = BlankCluster
    OBVIOUS
  <2>1. d.tab[p[i]] = FREE /\ v.slots[p[i]] = BlankCluster
    BY DEF Longer
  <2>2. i \in 1 .. L
    <3>1. Len(Path(d)) \in Nat
      BY PathTypes DEF Fit
    <3> HIDE DEF L
    <3> QED BY <1>2, <3>1
  <2> QED BY <2>1, <2>2
<1>9. \A i \in 1 .. Len(Path(d)) : w.slots[Path(d)[i]] = d.slots[Path(d)[i]]
  <2> SUFFICES ASSUME NEW i \in 1 .. Len(Path(d)) PROVE w.slots[Path(d)[i]] = d.slots[Path(d)[i]]
    OBVIOUS
  <2>1. p[i] = Path(d)[i] /\ v.slots[Path(d)[i]] = d.slots[Path(d)[i]] /\ Len(Path(d)) <= L
    BY DEF Longer
  <2>2. i \in 1 .. L
    <3>1. Len(Path(d)) \in Nat
      BY PathTypes DEF Fit
    <3> HIDE DEF L
    <3> QED BY <1>2, <2>1, <3>1
  <2> QED BY <2>1, <2>2
<1>10. d.met \subseteq w.met /\ w.met \subseteq d.met \cup {"tail", "beyond"}
  BY DEF Longer
<1> QED BY <1>4, <1>5, <1>6, <1>7, <1>8, <1>9, <1>10 DEF Longer

\* Where a walk stands that left the directory d for a cluster that was free,
\* or lies past the table.
Off(d, r) ==
    \/ Last(r.walk) > LastCluster
    \/ /\ Last(r.walk) \in Clusters /\ d.tab[Last(r.walk)] = FREE
       /\ r.d.tab[Last(r.walk)] = EOF /\ "tail" \in r.d.met
       /\ \A i \in 1 .. Len(Path(r.d)) : Path(r.d)[i] # Last(r.walk)

\* A walk that set out on d and was lengthened once at most.
Walked(d, r) ==
    /\ Longer(d, r.d) /\ r.walk \in Seq(Nat) /\ Len(r.walk) >= 1
    /\ r.walk = Path(r.d) \/ Off(d, r)

LEMMA WalkIs ==
    ASSUME NEW d, NEW walk
    PROVE  Walk(d, walk).d = d /\ Walk(d, walk).walk = walk
BY DEF Walk

LEMMA LengthenedIs ==
    ASSUME NEW d, Fit(d)
    PROVE  /\ Walked(d, Lengthened(Walk(d, Path(d))))
           /\ Len(Path(d)) <= Len(Lengthened(Walk(d, Path(d))).walk)
<1> DEFINE p == Path(d)
           L == Len(p)
           c == Last(p)
           res == LinkedFree(d, c)
           n == res.cluster
           one == Lengthened(Walk(d, p))
           w == one.d
<1>1. /\ d \in DiskT /\ Pathed(d.tab, p) /\ L \in Nat /\ L >= 1 /\ p \in [1 .. L -> Clusters]
      /\ c = p[L] /\ d.tab[c] \notin Clusters /\ d.tab[c] # FREE
  BY PathTypes DEF Fit, Last, Pathed
<1>2. c \in Clusters /\ c \in Entries /\ c <= LastCluster
  <2>1. L \in 1 .. L
    BY <1>1
  <2> QED BY <1>1, <2>1, Numbers
<1>3. /\ res.d \in DiskT /\ res.d.slots = d.slots /\ n \in Entries
      /\ d.met \subseteq res.d.met /\ res.d.met \subseteq d.met \cup {"tail", "beyond"}
      /\ \/ /\ n \in Clusters /\ d.tab[n] = FREE
            /\ \A x \in Clusters : res.d.tab[x] = IF x = n THEN EOF
                                              ELSE IF x = c /\ c < LastCluster THEN n ELSE d.tab[x]
            /\ res.d.met = d.met \cup (IF c = LastCluster THEN {"tail"} ELSE {})
         \/ /\ n = LastCluster + 1
            /\ \A x \in Clusters : res.d.tab[x] = IF x = c /\ c < LastCluster THEN n ELSE d.tab[x]
         \/ n = FREE /\ res.d.tab = d.tab
  BY <1>1, <1>2, LinkedFreeIs
<1>30. n = FREE \/ n \in Clusters \/ n = LastCluster + 1
  BY <1>3
<1>4. /\ w = IF n \in Clusters THEN [res.d EXCEPT !.slots[n] = BlankCluster] ELSE res.d
      /\ one.walk = IF n = FREE THEN p ELSE Append(p, n)
  <2>1. Walk(d, p).d = d /\ Walk(d, p).walk = p
    BY DEF Walk
  <2>2. ~(c > LastCluster)
    BY <1>2, Numbers DEF Entries
  <2>3. one = IF n = FREE THEN Walk(res.d, p)
              ELSE Walk(IF n \in Clusters THEN [res.d EXCEPT !.slots[n] = BlankCluster] ELSE res.d, Append(p, n))
    BY <1>2, <2>1, <2>2 DEF Lengthened
  <2>4. n = FREE => n \notin Clusters
    BY Numbers
  <2> HIDE DEF one, res, n, p
  <2> QED BY <2>3, <2>4, WalkIs
<1>5. BlankCluster \in [0 .. Slots - 1 -> SlotT]
  BY DirNumbers, Numbers DEF BlankCluster, Blank, SlotT, NameT
<1> HIDE DEF res, n, w, one
<1>6. /\ w \in DiskT /\ w.tab = res.d.tab /\ w.met = res.d.met
      /\ \A x \in Clusters : w.slots[x] = IF x = n THEN BlankCluster ELSE d.slots[x]
  <2>1. CASE n \in Clusters
    <3>1. w = [res.d EXCEPT !.slots[n] = BlankCluster]
      BY <1>4, <2>1
    <3> QED BY <1>3, <1>5, <2>1, <3>1 DEF DiskT
  <2>2. CASE n \notin Clusters
    BY <1>3, <1>4, <2>2
  <2> QED BY <2>1, <2>2
<1>7. \A i \in 1 .. L : d.tab[p[i]] # FREE
  BY <1>1, PathInUse
<1>8. \A i \in 1 .. L - 1 : p[i] # c /\ p[i] \in Clusters
  <2>1. \A i \in 1 .. L - 1 : i \in 1 .. L /\ L \in 1 .. L /\ i # L
    <3>1. L \in Nat /\ L >= 1
      BY <1>1
    <3> HIDE DEF L
    <3> QED BY <3>1
  <2> QED BY <1>1, <2>1 DEF Pathed
<1>9. L \in 1 .. L
  BY <1>1
<1>10. EOF \notin Clusters /\ EOF # FREE /\ LastCluster + 1 \notin Clusters /\ LastCluster + 1 # FREE
       /\ FREE \notin Clusters /\ \A x \in Clusters : x # FREE
  BY Numbers
<1>11. CASE n \in Clusters /\ c < LastCluster
  <2>1. \A x \in Clusters : w.tab[x] = IF x = n THEN EOF ELSE IF x = p[L] THEN n ELSE d.tab[x]
    BY <1>1, <1>3, <1>6, <1>10, <1>11
  <2>2. d.tab[n] = FREE
    BY <1>3, <1>10, <1>11
  <2> DEFINE q == Append(p, n)
  <2>3. /\ Pathed(w.tab, q) /\ w.tab[n] # FREE /\ Len(q) = L + 1 /\ q[L + 1] = n
        /\ \A i \in 1 .. L : q[i] = p[i] /\ p[i] # n
    BY <1>1, <1>11, <2>1, <2>2, PathedAppend
  <2> HIDE DEF q
  <2>4. Path(w) = q
    BY <2>3, PathIs
  <2>5. Fit(w)
    BY <1>6, <2>3, <2>4 DEF Fit, Last
  <2>6. L <= Len(q) /\ L + 1 .. Len(q) = {L + 1}
    BY <1>1, <2>3
  <2>7. \A x \in Clusters : d.tab[x] # FREE => w.tab[x] # FREE
    BY <1>10, <1>11, <2>1
  <2>8. \A x \in Clusters : (\A i \in 1 .. Len(q) : q[i] # x) => w.tab[x] = d.tab[x]
    <3> SUFFICES ASSUME NEW x \in Clusters, \A i \in 1 .. Len(q) : q[i] # x PROVE w.tab[x] = d.tab[x]
      OBVIOUS
    <3>1. L + 1 \in 1 .. Len(q) /\ L \in 1 .. Len(q) /\ L \in 1 .. L
      BY <1>1, <2>3
    <3>2. x # n /\ x # p[L]
      BY <2>3, <3>1
    <3> QED BY <2>1, <3>2
  <2>9. \A i \in 1 .. L : w.slots[p[i]] = d.slots[p[i]]
    BY <1>1, <1>6, <2>3
  <2>10. w.slots[n] = BlankCluster
    BY <1>6, <1>11
  <2>11. d.met \subseteq w.met /\ w.met \subseteq d.met \cup {"tail", "beyond"}
    BY <1>3, <1>6
  <2>12. \A i \in L + 1 .. Len(q) : d.tab[q[i]] = FREE /\ w.slots[q[i]] = BlankCluster
    BY <2>2, <2>3, <2>6, <2>10
  <2>13. Longer(d, w)
    BY <2>3, <2>4, <2>5, <2>6, <2>7, <2>8, <2>9, <2>11, <2>12 DEF Longer
  <2>14. one.walk = Path(w)
    BY <1>4, <1>10, <1>11, <2>4 DEF q
  <2>15. q \in Seq(Clusters) /\ \A x \in Clusters : x \in Nat
    BY <2>3, Numbers DEF Pathed
  <2>16. q \in Seq(Nat) /\ Len(q) >= 1
    BY <1>1, <2>3, <2>15
  <2>17. Walked(d, one)
    BY <2>4, <2>13, <2>14, <2>16 DEF Walked, w
  <2> QED BY <2>4, <2>6, <2>14, <2>17 DEF one
<1>12. CASE ~(n \in Clusters /\ c < LastCluster)
  <2>1. \A i \in 1 .. L - 1 : w.tab[p[i]] = d.tab[p[i]]
    <3> SUFFICES ASSUME NEW i \in 1 .. L - 1 PROVE w.tab[p[i]] = d.tab[p[i]]
      OBVIOUS
    <3>1. i \in 1 .. L
      BY <1>1
    <3>2. p[i] # c /\ p[i] \in Clusters /\ d.tab[p[i]] # FREE
      BY <1>7, <1>8, <3>1
    <3> QED BY <1>3, <1>6, <3>2
  <2>2. w.tab[c] \notin Clusters /\ w.tab[c] # FREE
    <3>1. CASE n \in Clusters
      <4>1. ~(c < LastCluster) /\ n # c /\ d.tab[n] = FREE
        BY <1>1, <1>3, <1>10, <1>12, <3>1
      <4> QED BY <1>1, <1>2, <1>3, <1>6, <1>10, <3>1, <4>1
    <3>2. CASE n \notin Clusters
      BY <1>1, <1>2, <1>3, <1>6, <1>10, <3>2
    <3> QED BY <3>1, <3>2
  <2>3. ASSUME NEW x \in Clusters, \A i \in 1 .. L : p[i] # x
        PROVE  w.tab[x] = d.tab[x] \/ (d.tab[x] = FREE /\ "tail" \in w.met)
    <3>1. x # c
      BY <1>1, <1>9, <2>3
    <3>2. CASE n \in Clusters
      <4>1. c = LastCluster /\ "tail" \in w.met
        BY <1>2, <1>3, <1>6, <1>10, <1>12, <3>2, Numbers
      <4>2. w.tab[x] = IF x = n THEN EOF ELSE d.tab[x]
        BY <1>3, <1>6, <1>10, <3>1, <3>2
      <4>3. d.tab[n] = FREE
        BY <1>3, <1>10, <3>2
      <4> QED BY <3>1, <4>1, <4>2, <4>3
    <3>3. CASE n \notin Clusters
      BY <1>3, <1>6, <3>1, <3>3
    <3> QED BY <3>2, <3>3
  <2>4. Pathed(w.tab, p)
    BY <1>1, <2>1, <2>2, PathedSame
  <2>5. Path(w) = p
    BY <2>4, PathIs
  <2>6. Fit(w)
    BY <1>1, <1>6, <2>2, <2>4, <2>5 DEF Fit
  <2>7. \A x \in Clusters : d.tab[x] # FREE => w.tab[x] # FREE
    BY <1>3, <1>6, <1>10
  <2>8. \A i \in 1 .. L : w.slots[p[i]] = d.slots[p[i]]
    <3> SUFFICES ASSUME NEW i \in 1 .. L PROVE w.slots[p[i]] = d.slots[p[i]]
      OBVIOUS
    <3>1. p[i] \in Clusters /\ d.tab[p[i]] # FREE
      BY <1>1, <1>7
    <3>2. p[i] # n
      BY <1>3, <1>10, <3>1
    <3> QED BY <1>6, <3>1, <3>2
  <2>9. L <= L /\ L + 1 .. L = {}
    BY <1>1
  <2>10. d.met \subseteq w.met /\ w.met \subseteq d.met \cup {"tail", "beyond"}
    BY <1>3, <1>6
  <2>11. Longer(d, w)
    BY <2>3, <2>5, <2>6, <2>7, <2>8, <2>9, <2>10 DEF Longer
  <2>12. p \in Seq(Nat)
    <3>1. p \in Seq(Clusters) /\ \A x \in Clusters : x \in Nat
      BY <1>1, Numbers DEF Pathed
    <3> QED BY <3>1
  <2>13. CASE n = FREE
    <3>1. one.walk = p
      BY <1>4, <2>13
    <3>2. Walked(d, one)
      BY <1>1, <2>5, <2>11, <2>12, <3>1 DEF Walked, w
    <3> QED BY <2>9, <3>1, <3>2 DEF one
  <2>14. CASE n # FREE
    <3>1. one.walk = Append(p, n)
      BY <1>4, <2>14
    <3>2. n \in Nat
      BY <1>3 DEF Entries
    <3> DEFINE q == Append(p, n)
    <3>3. q \in Seq(Nat) /\ Len(q) = L + 1 /\ q[L + 1] = n
      BY <1>1, <2>12, <3>2, AppendProperties
    <3> HIDE DEF q
    <3>4. Last(one.walk) = n /\ Len(one.walk) = L + 1 /\ one.walk \in Seq(Nat)
      BY <3>1, <3>3 DEF Last, q
    <3>5. Off(d, one)
      <4>1. CASE n \in Clusters
        <5>1. c = LastCluster /\ "tail" \in w.met
          BY <1>2, <1>3, <1>6, <1>10, <1>12, <4>1, Numbers
        <5>2. d.tab[n] = FREE /\ w.tab[n] = EOF
          BY <1>3, <1>6, <1>10, <4>1
        <5>3. \A i \in 1 .. L : p[i] # n
          BY <1>7, <5>2
        <5> QED BY <2>5, <3>4, <4>1, <5>1, <5>2, <5>3 DEF Off, w
      <4>2. CASE n \notin Clusters
        <5>1. n > LastCluster
          BY <1>30, <2>14, <4>2, Numbers
        <5> QED BY <3>4, <5>1 DEF Off
      <4> QED BY <4>1, <4>2
    <3>6. L <= L + 1 /\ L + 1 >= 1
      BY <1>1
    <3>7. Walked(d, one)
      BY <2>11, <3>4, <3>5, <3>6 DEF Walked, w
    <3> QED BY <3>4, <3>6, <3>7 DEF one
  <2> QED BY <2>13, <2>14
<1> QED BY <1>11, <1>12

\* The walk goes on from a cluster that is not the directory's.
LEMMA LengthenedOff ==
    ASSUME NEW d, Fit(d), NEW r, Walked(d, r), Off(d, r)
    PROVE  /\ Longer(d, Lengthened(r).d) /\ Lengthened(r).walk \in Seq(Nat)
           /\ Len(r.walk) <= Len(Lengthened(r).walk)
<1> DEFINE v == r.d
           c == Last(r.walk)
           res == LinkedFree(v, c)
           n == res.cluster
           two == Lengthened(r)
           w == two.d
<1>1. Longer(d, v) /\ r.walk \in Seq(Nat) /\ v \in DiskT /\ Pathed(v.tab, Path(v)) /\ v.tab[Last(Path(v))] # FREE
  BY DEF Walked, Longer, Fit
<1>2. ASSUME NEW x \in Nat
      PROVE  Append(r.walk, x) \in Seq(Nat) /\ Len(r.walk) <= Len(Append(r.walk, x))
  <2>1. Append(r.walk, x) \in Seq(Nat) /\ Len(Append(r.walk, x)) = Len(r.walk) + 1 /\ Len(r.walk) \in Nat
    BY <1>1, <1>2, AppendProperties, LenProperties
  <2> QED BY <2>1
<1>3. CASE c > LastCluster
  <2>0. c \in Nat /\ ~(c <= LastCluster)
    <3>1. r.walk \in Seq(Nat) /\ Len(r.walk) >= 1 /\ c = r.walk[Len(r.walk)]
      BY DEF Walked, Last
    <3>2. c \in Nat
      <4> HIDE DEF c
      <4> QED BY <3>1
    <3> HIDE DEF c
    <3> QED BY <1>3, <3>2, Numbers
  <2>1. two = Walk(v, Append(r.walk, RootCluster))
    BY <1>3, <2>0 DEF Lengthened
  <2>2. RootCluster \in Nat
    BY Numbers DEF RootCluster
  <2> HIDE DEF two, v
  <2>3. two.d = v /\ two.walk = Append(r.walk, RootCluster)
    BY <2>1, WalkIs
  <2>4. Longer(d, two.d) /\ two.walk \in Seq(Nat) /\ Len(r.walk) <= Len(two.walk)
    BY <1>1, <1>2, <2>2, <2>3
  <2> QED BY <2>4 DEF two
<1>4. CASE ~(c > LastCluster)
  <2>1. /\ c \in Clusters /\ d.tab[c] = FREE /\ v.tab[c] = EOF /\ "tail" \in v.met
        /\ \A i \in 1 .. Len(Path(v)) : Path(v)[i] # c
    BY <1>4 DEF Off
  <2>2. c \in Entries /\ c <= LastCluster /\ EOF \notin Clusters /\ EOF # FREE /\ LastCluster + 1 # FREE
        /\ LastCluster + 1 \notin Clusters /\ FREE \notin Clusters /\ \A x \in Clusters : x # FREE
    BY <2>1, Numbers
  <2>3. /\ res.d \in DiskT /\ res.d.slots = v.slots /\ n \in Entries
        /\ v.met \subseteq res.d.met /\ res.d.met \subseteq v.met \cup {"tail", "beyond"}
        /\ \/ /\ n \in Clusters /\ v.tab[n] = FREE
              /\ \A x \in Clusters : res.d.tab[x] = IF x = n THEN EOF
                                                ELSE IF x = c /\ c < LastCluster THEN n ELSE v.tab[x]
           \/ /\ n = LastCluster + 1
              /\ \A x \in Clusters : res.d.tab[x] = IF x = c /\ c < LastCluster THEN n ELSE v.tab[x]
           \/ n = FREE /\ res.d.tab = v.tab
    BY <1>1, <2>1, <2>2, LinkedFreeIs
  <2>4. two = IF n = FREE THEN Walk(res.d, r.walk)
              ELSE Walk(IF n \in Clusters THEN [res.d EXCEPT !.slots[n] = BlankCluster] ELSE res.d, Append(r.walk, n))
    BY <1>4, <2>2 DEF Lengthened
  <2>5. BlankCluster \in [0 .. Slots - 1 -> SlotT]
    BY DirNumbers, Numbers DEF BlankCluster, Blank, SlotT, NameT
  <2> HIDE DEF res, n, two, c, v
  <2>6. /\ w = IF n \in Clusters THEN [res.d EXCEPT !.slots[n] = BlankCluster] ELSE res.d
        /\ two.walk = IF n = FREE THEN r.walk ELSE Append(r.walk, n)
    BY <2>2, <2>4, WalkIs
  <2>7. /\ w \in DiskT /\ w.tab = res.d.tab /\ w.met = res.d.met
        /\ \A x \in Clusters : w.slots[x] = IF x = n THEN BlankCluster ELSE v.slots[x]
    <3>1. CASE n \in Clusters
      <4>1. w = [res.d EXCEPT !.slots[n] = BlankCluster]
        BY <2>6, <3>1
      <4> HIDE DEF w
      <4> QED BY <2>3, <2>5, <3>1, <4>1 DEF DiskT
    <3>2. CASE n \notin Clusters
      BY <2>3, <2>6, <3>2
    <3> QED BY <3>1, <3>2
  <2> HIDE DEF w
  <2> DEFINE p == Path(v)
  <2>8. \A i \in 1 .. Len(p) : p[i] \in Clusters /\ p[i] # c /\ v.tab[p[i]] # FREE
    <3>1. p \in [1 .. Len(p) -> Clusters] /\ v.tab[p[Len(p)]] # FREE
      BY <1>1, PathTypes DEF Last
    <3> QED BY <1>1, <2>1, <3>1, PathInUse
  <2>9. ASSUME NEW i \in 1 .. Len(p) PROVE w.tab[p[i]] = v.tab[p[i]] /\ w.slots[p[i]] = v.slots[p[i]]
    <3>1. p[i] \in Clusters /\ p[i] # c /\ v.tab[p[i]] # FREE
      BY <2>8
    <3>2. n \in Clusters => p[i] # n
      BY <2>2, <2>3, <3>1
    <3>3. n \notin Clusters => p[i] # n
      BY <3>1
    <3>4. w.slots[p[i]] = v.slots[p[i]]
      BY <2>7, <3>1, <3>2, <3>3
    <3> QED BY <2>2, <2>3, <2>7, <3>1, <3>2, <3>4
  <2>10. ASSUME NEW x \in Clusters PROVE w.tab[x] = v.tab[x] \/ (d.tab[x] = FREE /\ w.tab[x] # FREE)
    <3>1. x = n => v.tab[x] = FREE
      BY <2>2, <2>3, <2>10
    <3>2. v.tab[x] = FREE => d.tab[x] = FREE
      BY <1>1 DEF Longer
    <3> QED BY <2>1, <2>2, <2>3, <2>7, <3>1, <3>2
  <2>11. v.met \subseteq w.met /\ w.met \subseteq v.met \cup {"tail", "beyond"}
    BY <2>3, <2>7
  <2>12. Longer(d, w)
    BY <1>1, <2>1, <2>7, <2>9, <2>10, <2>11, LongerKept
  <2>13. n \in Nat
    BY <2>3 DEF Entries
  <2>14. two.walk \in Seq(Nat) /\ Len(r.walk) <= Len(two.walk)
    <3>1. Len(r.walk) \in Nat
      BY <1>1, LenProperties
    <3> QED BY <1>1, <1>2, <2>6, <2>13, <3>1
  <2> QED BY <2>12, <2>14 DEF w, two
<1> QED BY <1>3, <1>4

\* The first cluster that a call needs, and the second.
LEMMA ReachingIs ==
    ASSUME NEW d, Fit(d), NEW k
    PROVE  Walked(d, Reaching(Walk(d, Path(d)), k))
<1> DEFINE here == Walk(d, Path(d))
<1>1. here.d = d /\ here.walk = Path(d)
  BY WalkIs
<1>2. Walked(d, here)
  <2>1. Longer(d, d)
    BY LongerSelf
  <2>2. Path(d) \in Seq(Clusters) /\ Len(Path(d)) >= 1 /\ \A x \in Clusters : x \in Nat
    BY PathTypes, Numbers DEF Fit, Pathed
  <2>3. Path(d) \in Seq(Nat)
    BY <2>2
  <2> HIDE DEF here
  <2> QED BY <1>1, <2>1, <2>2, <2>3 DEF Walked
<1>3. Walked(d, Lengthened(here))
  BY LengthenedIs
<1> HIDE DEF here
<1>4. Walked(d, Reaching(here, k))
  BY <1>2, <1>3 DEF Reaching
<1> QED BY <1>4 DEF here

LEMMA ReachingOn ==
    ASSUME NEW d, Fit(d), NEW r, Walked(d, r), NEW k
    PROVE  /\ Longer(d, Reaching(r, k).d) /\ Reaching(r, k).walk \in Seq(Nat)
           /\ Len(r.walk) <= Len(Reaching(r, k).walk)
<1>1. Longer(d, r.d) /\ r.walk \in Seq(Nat) /\ Len(r.walk) \in Nat
  BY LenProperties DEF Walked
<1>2. /\ Longer(d, Lengthened(r).d) /\ Lengthened(r).walk \in Seq(Nat)
      /\ Len(r.walk) <= Len(Lengthened(r).walk)
  <2>1. CASE Off(d, r)
    BY <2>1, LengthenedOff
  <2>2. CASE r.walk = Path(r.d)
    <3> DEFINE here == Walk(r.d, Path(r.d))
    <3>1. Fit(r.d)
      BY <1>1 DEF Longer
    <3>2. Walked(r.d, Lengthened(here)) /\ Len(Path(r.d)) <= Len(Lengthened(here).walk)
      BY <3>1, LengthenedIs
    <3>3. Lengthened(here) = Lengthened(r)
      <4>1. here.d = r.d /\ here.walk = r.walk
        BY <2>2, WalkIs
      <4> HIDE DEF here
      <4> QED BY <4>1 DEF Lengthened
    <3> HIDE DEF here
    <3>4. Longer(r.d, Lengthened(r).d) /\ Lengthened(r).walk \in Seq(Nat)
      BY <3>2, <3>3 DEF Walked
    <3> QED BY <1>1, <2>2, <3>2, <3>3, <3>4, LongerTwice
  <2> QED BY <2>1, <2>2 DEF Walked
<1>3. Len(r.walk) <= Len(r.walk)
  BY <1>1
<1> QED BY <1>1, <1>2, <1>3 DEF Reaching

-----------------------------------------------------------------------------
(* The scan of a directory                                                 *)

LongT == [of : NameT, text : NameT, start : Nat]
ScanT == [ended : BOOLEAN, long : LongT, found : SUBSET Entry]

Unscanned == [ended |-> FALSE, long |-> NoLong, found |-> {}]

\* g holds what the scan of N slots F has made of the first ones.
IsScan(g, F, N) == g[0] = Unscanned /\ \A k \in 0 .. N - 1 : g[k + 1] = Scanned(g[k], F[k], k)

\* The name that an alias gets from the scan.
NameOf(scan, s) ==
    IF scan.long.of = s.of THEN scan.long.text ELSE IF SlotsOf[s.of] = 1 THEN s.of ELSE NoName

EntryAt(scan, s, k) ==
    [name |-> NameOf(scan, s), start |-> IF scan.long.of = s.of THEN scan.long.start ELSE k,
     end |-> k, cluster |-> s.cluster, dir |-> s.dir, new |-> NoName]

\* The long name after a slot of one.
LongAfter(scan, s, k) ==
    IF s.mark = "free" THEN NoLong
    ELSE IF s.head THEN [of |-> s.of, text |-> s.text, start |-> k]
    ELSE IF scan.long.of # s.of THEN NoLong
    ELSE IF s.text # scan.long.text THEN [scan.long EXCEPT !.text = NoName] ELSE scan.long

\* What the scan makes of a slot, case by case.
LEMMA ScannedIs ==
    ASSUME NEW scan \in ScanT, NEW s \in SlotT, NEW k
    PROVE  /\ scan.ended => Scanned(scan, s, k) = scan
           /\ ~scan.ended /\ s.what = "data" /\ s.mark = "last" =>
                Scanned(scan, s, k) = [scan EXCEPT !.ended = TRUE]
           /\ ~scan.ended /\ s.what = "data" /\ s.mark = "free" => Scanned(scan, s, k) = scan
           /\ ~scan.ended /\ s.what = "data" /\ s.mark = "used" =>
                Scanned(scan, s, k) =
                  [scan EXCEPT !.long = NoLong, !.found = scan.found \cup {EntryAt(scan, s, k)}]
<1>1. s.what \in {"data", "long"} /\ s.mark \in {"last", "free", "used"} /\ scan.ended \in BOOLEAN
  BY DEF SlotT, ScanT
<1>2. CASE scan.ended
  <2>1. Scanned(scan, s, k) = scan
    BY <1>2 DEF Scanned
  <2> QED BY <1>2, <2>1
<1>3. CASE ~scan.ended /\ s.what = "long"
  BY <1>3
<1>4. CASE ~scan.ended /\ s.what = "data" /\ s.mark = "last"
  BY <1>1, <1>4 DEF Scanned
<1>5. CASE ~scan.ended /\ s.what = "data" /\ s.mark = "free"
  BY <1>1, <1>5 DEF Scanned
<1>6. CASE ~scan.ended /\ s.what = "data" /\ s.mark = "used"
  <2>1. Scanned(scan, s, k) =
           [scan EXCEPT !.long = NoLong, !.found = scan.found \cup {EntryAt(scan, s, k)}]
    BY <1>1, <1>6 DEF Scanned, EntryAt, NameOf
  <2> QED BY <1>6, <2>1
<1> QED BY <1>1, <1>2, <1>3, <1>4, <1>5, <1>6

LEMMA ScannedLong ==
    ASSUME NEW scan \in ScanT, NEW s \in SlotT, NEW k, ~scan.ended, s.what = "long"
    PROVE  Scanned(scan, s, k) = [scan EXCEPT !.long = LongAfter(scan, s, k)]
<1>1. s.what # "data"
  OBVIOUS
<1> QED BY <1>1 DEF Scanned, LongAfter

LEMMA NoLongType == NoLong \in LongT /\ NoLong.of = NoName
BY DEF NoLong, LongT, NameT

LEMMA EntryAtType ==
    ASSUME NEW scan \in ScanT, NEW s \in SlotT, NEW k \in Nat
    PROVE  EntryAt(scan, s, k) \in Entry
<1>1. scan.long \in LongT
  BY DEF ScanT
<1>2. NameOf(scan, s) \in NameT
  <2>1. scan.long.text \in NameT /\ s.of \in NameT /\ NoName \in NameT
    BY <1>1 DEF LongT, SlotT, NameT
  <2> QED BY <2>1 DEF NameOf
<1>3. s.cluster \in 0 .. LastCluster + 1 /\ s.dir \in BOOLEAN
  BY Numbers DEF SlotT
<1>4. (IF scan.long.of = s.of THEN scan.long.start ELSE k) \in Nat
  BY <1>1 DEF LongT
<1> QED BY <1>2, <1>3, <1>4 DEF EntryAt, Entry, NameT

LEMMA ScannedType ==
    ASSUME NEW scan \in ScanT, NEW s \in SlotT, NEW k \in Nat
    PROVE  Scanned(scan, s, k) \in ScanT
<1>1. scan.long \in LongT
  BY DEF ScanT
<1>2. s.of \in NameT /\ s.text \in NameT /\ NoName \in NameT
  BY DEF SlotT, NameT
<1>3. LongAfter(scan, s, k) \in LongT
  BY <1>1, <1>2, NoLongType DEF LongT, LongAfter
<1>4. s.what \in {"data", "long"} /\ s.mark \in {"last", "free", "used"} /\ scan.ended \in BOOLEAN
  BY DEF SlotT, ScanT
<1>5. CASE scan.ended
  BY <1>5, ScannedIs
<1>6. CASE ~scan.ended /\ s.what = "long"
  <2>1. Scanned(scan, s, k) = [scan EXCEPT !.long = LongAfter(scan, s, k)]
    BY <1>6, ScannedLong
  <2> QED BY <1>3, <2>1 DEF ScanT
<1>7. CASE ~scan.ended /\ s.what = "data" /\ s.mark = "last"
  <2>1. Scanned(scan, s, k) = [scan EXCEPT !.ended = TRUE]
    BY <1>7, ScannedIs
  <2> QED BY <2>1 DEF ScanT
<1>8. CASE ~scan.ended /\ s.what = "data" /\ s.mark = "free"
  BY <1>8, ScannedIs
<1>9. CASE ~scan.ended /\ s.what = "data" /\ s.mark = "used"
  <2>1. EntryAt(scan, s, k) \in Entry
    BY EntryAtType
  <2>2. Scanned(scan, s, k) = [scan EXCEPT !.long = NoLong, !.found = scan.found \cup {EntryAt(scan, s, k)}]
    BY <1>9, ScannedIs
  <2> QED BY <2>1, <2>2, NoLongType DEF ScanT
<1> QED BY <1>4, <1>5, <1>6, <1>7, <1>8, <1>9

LEMMA ScanExists ==
    ASSUME NEW N \in Nat, NEW F \in [0 .. N - 1 -> SlotT]
    PROVE  \E g \in [0 .. N -> ScanT] : IsScan(g, F, N)
<1> DEFINE T == Nat \X ScanT
           x0 == <<0, Unscanned>>
           f == [x \in T |-> IF x[1] < N THEN <<x[1] + 1, Scanned(x[2], F[x[1]], x[1])>> ELSE x]
<1>1. Unscanned \in ScanT
  BY NoLongType DEF Unscanned, ScanT
<1>2. x0 \in T
  BY <1>1
<1>3. ASSUME NEW x \in T PROVE (IF x[1] < N THEN <<x[1] + 1, Scanned(x[2], F[x[1]], x[1])>> ELSE x) \in T
  <2>1. CASE x[1] < N
    <3>1. x[1] \in Nat /\ x[2] \in ScanT /\ x[1] \in 0 .. N - 1
      BY <2>1
    <3>2. Scanned(x[2], F[x[1]], x[1]) \in ScanT
      BY <3>1, ScannedType
    <3> QED BY <2>1, <3>1, <3>2
  <2>2. CASE ~(x[1] < N)
    BY <2>2
  <2> QED BY <2>1, <2>2
<1>4. f \in [T -> T]
  BY <1>3
<1>5. \A x \in T : f[x] = IF x[1] < N THEN <<x[1] + 1, Scanned(x[2], F[x[1]], x[1])>> ELSE x
  OBVIOUS
<1> HIDE DEF f, x0, T
<1>6. PICK h : UpTo(h, N, T, x0, f)
  BY <1>2, <1>4, Iterates
<1>7. h \in [0 .. N -> T] /\ h[0] = x0 /\ \A k \in 0 .. N - 1 : h[k + 1] = f[h[k]]
  BY <1>6 DEF UpTo
<1> DEFINE S == {k \in Nat : k <= N => h[k][1] = k}
<1>8. 0 \in S
  BY <1>7 DEF x0
<1>9. ASSUME NEW k \in Nat, k \in S PROVE k + 1 \in S
  <2> SUFFICES ASSUME k + 1 <= N PROVE h[k + 1][1] = k + 1
    OBVIOUS
  <2>1. k \in 0 .. N - 1 /\ k \in 0 .. N /\ k < N /\ h[k][1] = k
    BY <1>9
  <2>2. h[k + 1] = <<h[k][1] + 1, Scanned(h[k][2], F[h[k][1]], h[k][1])>>
    BY <1>5, <1>7, <2>1
  <2> QED BY <2>1, <2>2
<1>10. \A k \in 0 .. N : h[k][1] = k
  <2> HIDE DEF S
  <2>1. \A k \in Nat : k \in S
    BY <1>8, <1>9, SetInduction
  <2> QED BY <2>1 DEF S
<1> DEFINE g == [k \in 0 .. N |-> h[k][2]]
<1>11. \A k \in 0 .. N : h[k][2] \in ScanT
  BY <1>7 DEF T
<1>12. g \in [0 .. N -> ScanT]
  BY <1>11
<1>13. g[0] = Unscanned
  BY <1>7 DEF x0
<1>14. ASSUME NEW k \in 0 .. N - 1 PROVE g[k + 1] = Scanned(g[k], F[k], k)
  <2>1. k \in 0 .. N /\ k + 1 \in 0 .. N /\ k < N
    OBVIOUS
  <2>2. h[k][1] = k /\ h[k] \in T
    BY <1>7, <1>10, <2>1
  <2>3. h[k + 1] = <<h[k][1] + 1, Scanned(h[k][2], F[h[k][1]], h[k][1])>>
    BY <1>5, <1>7, <2>1, <2>2
  <2>4. h[k + 1][2] = Scanned(h[k][2], F[k], k)
    BY <2>2, <2>3
  <2> QED BY <2>1, <2>4
<1> HIDE DEF g
<1> QED BY <1>12, <1>13, <1>14 DEF IsScan

LEMMA ListingScan ==
    ASSUME NEW d \in DiskT, Pathed(d.tab, Path(d))
    PROVE  \E g \in [0 .. Size(d) -> ScanT] :
              IsScan(g, InOrder(d), Size(d)) /\ Listing(d) = g[Size(d)].found
<1> DEFINE N == Size(d)
           F == InOrder(d)
           B(f) == [k \in 0 .. N |-> IF k = 0 THEN [ended |-> FALSE, long |-> NoLong, found |-> {}]
                                     ELSE Scanned(f[k - 1], F[k - 1], k - 1)]
           G == CHOOSE f : f = B(f)
<1>1. Listing(d) = G[N].found
  BY DEF Listing
<1>2. N \in Nat /\ F \in [0 .. N - 1 -> SlotT]
  BY InOrderIs, AlongType DEF DiskT
<1> HIDE DEF N, F
<1>3. PICK g \in [0 .. N -> ScanT] : IsScan(g, F, N)
  BY <1>2, ScanExists
<1>4. ASSUME NEW k \in 0 .. N PROVE g[k] = B(g)[k]
  <2>1. CASE k = 0
    BY <1>2, <1>3, <2>1 DEF IsScan, Unscanned
  <2>2. CASE k # 0
    <3>1. k - 1 \in 0 .. N - 1 /\ (k - 1) + 1 = k
      BY <1>2, <2>2
    <3>2. g[(k - 1) + 1] = Scanned(g[k - 1], F[k - 1], k - 1)
      BY <1>3, <3>1 DEF IsScan
    <3> QED BY <2>2, <3>1, <3>2
  <2> QED BY <2>1, <2>2
<1>5. g = B(g)
  <2>1. B(g) = [k \in 0 .. N |-> B(g)[k]] /\ g = [k \in 0 .. N |-> g[k]]
    BY <1>3
  <2> HIDE DEF B
  <2> QED BY <1>4, <2>1
<1>6. G = B(G)
  <2> HIDE DEF B
  <2> QED BY <1>5
<1>7. ASSUME NEW k \in 0 .. N PROVE G[k] = IF k = 0 THEN Unscanned ELSE Scanned(G[k - 1], F[k - 1], k - 1)
  <2>1. B(G)[k] = IF k = 0 THEN Unscanned ELSE Scanned(G[k - 1], F[k - 1], k - 1)
    <3> HIDE DEF G
    <3> QED BY DEF Unscanned
  <2> HIDE DEF B, G
  <2> QED BY <1>6, <2>1
<1> HIDE DEF B, G
<1> DEFINE S == {k \in Nat : k <= N => G[k] = g[k]}
<1>8. 0 \in S
  BY <1>2, <1>3, <1>7 DEF IsScan
<1>9. ASSUME NEW k \in Nat, k \in S PROVE k + 1 \in S
  <2> SUFFICES ASSUME k + 1 <= N PROVE G[k + 1] = g[k + 1]
    OBVIOUS
  <2>1. k \in 0 .. N - 1 /\ k + 1 \in 0 .. N /\ k + 1 # 0 /\ (k + 1) - 1 = k /\ G[k] = g[k]
    BY <1>2, <1>9
  <2>2. G[k + 1] = Scanned(G[k], F[k], k)
    BY <1>7, <2>1
  <2> QED BY <1>3, <2>1, <2>2 DEF IsScan
<1>10. G[N] = g[N]
  <2> HIDE DEF S
  <2>1. \A k \in Nat : k \in S
    BY <1>8, <1>9, SetInduction
  <2> QED BY <1>2, <2>1 DEF S
<1> QED BY <1>1, <1>3, <1>10 DEF N, F

-----------------------------------------------------------------------------
(* What is listed                                                          *)

\* e is an entry that the scan of F finds: its alias is where it ends, and no
\* end marker comes before.
Listed(F, e) ==
    /\ e.start <= e.end /\ e.new = NoName
    /\ F[e.end].mark = "used" /\ F[e.end].what = "data"
    /\ e.cluster = F[e.end].cluster /\ e.dir = F[e.end].dir
    /\ e.name \in {F[e.end].of, NoName}
    /\ \A j \in 0 .. e.end : F[j].mark # "last"

\* What is known of a scan after k slots.
ScanSound(scan, F, k) ==
    /\ scan.ended <=> \E j \in 0 .. k - 1 : F[j].mark = "last"
    /\ scan.long.text \in {scan.long.of, NoName} /\ scan.long.start <= k
    /\ scan.long.of = NoName \/ \E j \in 0 .. k - 1 : F[j].mark = "used" /\ F[j].of = scan.long.of
    /\ \A e \in scan.found : e.end < k /\ Listed(F, e)
    /\ \A e, f \in scan.found : e.end = f.end => e = f
    /\ \A j \in 0 .. k - 1 : (F[j].mark = "used" /\ F[j].what = "data" /\ \A i \in 0 .. j : F[i].mark # "last")
                                => \E e \in scan.found : e.end = j

LEMMA ScannedSound ==
    ASSUME NEW N \in Nat, NEW F \in [0 .. N - 1 -> SlotT], NEW k \in 0 .. N - 1,
           NEW scan \in ScanT, ScanSound(scan, F, k)
    PROVE  ScanSound(Scanned(scan, F[k], k), F, k + 1)
<1> DEFINE s == F[k]
           r == Scanned(scan, s, k)
<1>1. s \in SlotT /\ k \in Nat /\ k \in 0 .. k /\ k + 1 \in Nat
  OBVIOUS
<1>2. /\ s.what \in {"data", "long"} /\ s.mark \in {"last", "free", "used"} /\ scan.ended \in BOOLEAN
      /\ s.mark = "last" => s.what = "data"
      /\ s.mark = "used" => s.of \in Names
      /\ s.text \in {s.of, NoName}
  BY <1>1 DEF SlotT, ScanT, Blank
<1>3. scan.long \in LongT /\ scan.long.start \in Nat /\ scan.found \subseteq Entry
  BY DEF ScanT, LongT
<1>4. r \in ScanT
  BY <1>1, ScannedType
<1>5. 0 .. (k + 1) - 1 = 0 .. k /\ \A j \in 0 .. k : j \in 0 .. k - 1 \/ j = k
  BY <1>1
<1>6. \A j \in 0 .. k - 1 : j \in 0 .. k
  BY <1>1
<1> HIDE DEF s
<1>7. CASE scan.ended
  <2>1. r = scan
    BY <1>1, <1>7, ScannedIs
  <2>2. \E j \in 0 .. k - 1 : F[j].mark = "last"
    BY <1>7 DEF ScanSound
  <2> HIDE DEF r
  <2>3. \E j \in 0 .. k : F[j].mark = "last"
    BY <1>6, <2>2
  <2>4. \A j \in 0 .. k : (\A i \in 0 .. j : F[i].mark # "last") => j \in 0 .. k - 1
    <3> SUFFICES ASSUME \A i \in 0 .. k : F[i].mark # "last" PROVE FALSE
      BY <1>5
    <3> QED BY <2>3
  <2>5. ScanSound(scan, F, k + 1)
    <3>1. \A e \in scan.found : e.end < k + 1 /\ Listed(F, e)
      <4> SUFFICES ASSUME NEW e \in scan.found PROVE e.end < k + 1 /\ Listed(F, e)
        OBVIOUS
      <4>1. e.end \in Nat /\ e.end < k /\ Listed(F, e)
        BY <1>3 DEF ScanSound, Entry
      <4> QED BY <1>1, <4>1
    <3>2. scan.long.start <= k + 1
      BY <1>1, <1>3 DEF ScanSound
    <3>3. scan.ended <=> \E j \in 0 .. (k + 1) - 1 : F[j].mark = "last"
      BY <1>5, <1>7, <2>3
    <3>4. scan.long.of = NoName
          \/ \E j \in 0 .. (k + 1) - 1 : F[j].mark = "used" /\ F[j].of = scan.long.of
      BY <1>5, <1>6 DEF ScanSound
    <3>5. \A j \in 0 .. (k + 1) - 1 :
             (F[j].mark = "used" /\ F[j].what = "data" /\ \A i \in 0 .. j : F[i].mark # "last")
                => \E e \in scan.found : e.end = j
      BY <1>5, <2>4 DEF ScanSound
    <3>6. /\ scan.long.text \in {scan.long.of, NoName}
          /\ \A e, f \in scan.found : e.end = f.end => e = f
      BY DEF ScanSound
    <3> QED BY <3>1, <3>2, <3>3, <3>4, <3>5, <3>6 DEF ScanSound
  <2> QED BY <2>1, <2>5 DEF r, s
<1>8. CASE ~scan.ended
  <2>1. \A j \in 0 .. k - 1 : F[j].mark # "last"
    BY <1>8 DEF ScanSound
  <2>2. \A e \in scan.found : e.end \in Nat /\ e.end < k /\ e.end # k /\ Listed(F, e)
    <3> SUFFICES ASSUME NEW e \in scan.found PROVE e.end \in Nat /\ e.end < k /\ e.end # k /\ Listed(F, e)
      OBVIOUS
    <3>1. e.end \in Nat /\ e.end < k /\ Listed(F, e)
      BY <1>3 DEF ScanSound, Entry
    <3> QED BY <1>1, <3>1
  <2>3. ASSUME NEW x \in ScanT, x.long.text \in {x.long.of, NoName}, x.long.start <= k + 1,
               x.long.of = NoName \/ x.long.of = scan.long.of \/ (s.mark = "used" /\ x.long.of = s.of),
               x.ended <=> s.mark = "last",
               \/ x.found = scan.found /\ ~(s.mark = "used" /\ s.what = "data")
               \/ s.mark = "used" /\ s.what = "data" /\ x.found = scan.found \cup {EntryAt(scan, s, k)}
        PROVE  ScanSound(x, F, k + 1)
    <3>1. x.ended <=> \E j \in 0 .. (k + 1) - 1 : F[j].mark = "last"
      BY <1>1, <1>5, <2>1, <2>3 DEF s
    <3>2. x.long.of = NoName \/ \E j \in 0 .. (k + 1) - 1 : F[j].mark = "used" /\ F[j].of = x.long.of
      BY <1>1, <1>5, <1>6, <2>3 DEF s, ScanSound
    <3>3. CASE x.found = scan.found /\ ~(s.mark = "used" /\ s.what = "data")
      <4>1. \A e \in x.found : e.end < k + 1 /\ Listed(F, e)
        BY <1>1, <2>2, <3>3
      <4>2. \A j \in 0 .. (k + 1) - 1 :
               (F[j].mark = "used" /\ F[j].what = "data" /\ \A i \in 0 .. j : F[i].mark # "last")
                  => \E e \in x.found : e.end = j
        BY <1>5, <3>3 DEF ScanSound, s
      <4>3. \A e, f \in x.found : e.end = f.end => e = f
        BY <3>3 DEF ScanSound
      <4> QED BY <2>3, <3>1, <3>2, <4>1, <4>2, <4>3 DEF ScanSound
    <3>4. CASE s.mark = "used" /\ s.what = "data" /\ x.found = scan.found \cup {EntryAt(scan, s, k)}
      <4> DEFINE new == EntryAt(scan, s, k)
      <4>1. /\ new.end = k /\ new.new = NoName /\ new.cluster = s.cluster /\ new.dir = s.dir
            /\ new.name = NameOf(scan, s)
            /\ new.start = (IF scan.long.of = s.of THEN scan.long.start ELSE k)
        BY DEF EntryAt
      <4> HIDE DEF new
      <4>2. new.start <= new.end
        BY <1>1, <1>3, <4>1 DEF ScanSound
      <4>3. new.name \in {s.of, NoName}
        BY <4>1 DEF NameOf, ScanSound
      <4>4. \A j \in 0 .. k : F[j].mark # "last"
        BY <1>5, <2>1, <3>4 DEF s
      <4>5. Listed(F, new)
        BY <3>4, <4>1, <4>2, <4>3, <4>4 DEF Listed, s
      <4>6. x.found = scan.found \cup {new}
        BY <3>4 DEF new
      <4>7. \A e \in x.found : e.end < k + 1 /\ Listed(F, e)
        BY <1>1, <2>2, <4>1, <4>5, <4>6
      <4>8. \A j \in 0 .. (k + 1) - 1 :
               (F[j].mark = "used" /\ F[j].what = "data" /\ \A i \in 0 .. j : F[i].mark # "last")
                  => \E e \in x.found : e.end = j
        BY <1>5, <4>1, <4>6 DEF ScanSound
      <4>9. \A e, f \in x.found : e.end = f.end => e = f
        BY <2>2, <4>1, <4>6 DEF ScanSound
      <4> QED BY <2>3, <3>1, <3>2, <4>7, <4>8, <4>9 DEF ScanSound
    <3> QED BY <2>3, <3>3, <3>4
  <2>4. scan.long.text \in {scan.long.of, NoName} /\ scan.long.start <= k + 1
    BY <1>1, <1>3 DEF ScanSound
  <2>5. NoLong.text = NoName /\ NoLong.of = NoName /\ NoLong.start <= k + 1
    BY <1>1 DEF NoLong
  <2>6. CASE s.what = "long"
    <3>1. r = [scan EXCEPT !.long = LongAfter(scan, s, k)]
      BY <1>1, <1>8, <2>6, ScannedLong
    <3>2. r.long = LongAfter(scan, s, k) /\ r.found = scan.found /\ r.ended = scan.ended
      BY <3>1 DEF ScanT
    <3>3. s.mark \in {"free", "used"}
      BY <1>2, <2>6
    <3>4. /\ r.long.text \in {r.long.of, NoName} /\ r.long.start <= k + 1
          /\ r.long.of = NoName \/ r.long.of = scan.long.of \/ (s.mark = "used" /\ r.long.of = s.of)
      <4>1. CASE s.mark = "free"
        BY <2>5, <3>2, <4>1 DEF LongAfter
      <4>2. CASE s.mark # "free" /\ s.head
        <5>1. r.long = [of |-> s.of, text |-> s.text, start |-> k]
          BY <3>2, <4>2 DEF LongAfter
        <5> QED BY <1>1, <1>2, <3>3, <4>2, <5>1
      <4>3. CASE s.mark # "free" /\ ~s.head /\ scan.long.of # s.of
        BY <2>5, <3>2, <4>3 DEF LongAfter
      <4>4. CASE s.mark # "free" /\ ~s.head /\ scan.long.of = s.of /\ s.text # scan.long.text
        <5>1. r.long = [scan.long EXCEPT !.text = NoName]
          BY <3>2, <4>4 DEF LongAfter
        <5>2. r.long.text = NoName /\ r.long.of = scan.long.of /\ r.long.start = scan.long.start
          BY <1>3, <5>1 DEF LongT
        <5> QED BY <2>4, <5>2
      <4>5. CASE s.mark # "free" /\ ~s.head /\ scan.long.of = s.of /\ s.text = scan.long.text
        BY <2>4, <3>2, <4>5 DEF LongAfter
      <4> QED BY <4>1, <4>2, <4>3, <4>4, <4>5
    <3> HIDE DEF r
    <3> QED BY <1>4, <1>8, <2>3, <2>6, <3>2, <3>3, <3>4 DEF r, s
  <2>7. CASE s.what = "data" /\ s.mark = "last"
    <3>1. r = [scan EXCEPT !.ended = TRUE]
      BY <1>1, <1>8, <2>7, ScannedIs
    <3>2. r.long = scan.long /\ r.found = scan.found /\ r.ended = TRUE
      BY <3>1 DEF ScanT
    <3> HIDE DEF r
    <3>3. ScanSound(r, F, k + 1)
      BY <1>4, <2>3, <2>4, <2>7, <3>2
    <3> QED BY <3>3 DEF r, s
  <2>8. CASE s.what = "data" /\ s.mark = "free"
    <3>1. r = scan
      BY <1>1, <1>8, <2>8, ScannedIs
    <3> HIDE DEF r
    <3>2. ScanSound(r, F, k + 1)
      BY <1>4, <1>8, <2>3, <2>4, <2>8, <3>1
    <3> QED BY <3>2 DEF r, s
  <2>9. CASE s.what = "data" /\ s.mark = "used"
    <3>1. r = [scan EXCEPT !.long = NoLong, !.found = scan.found \cup {EntryAt(scan, s, k)}]
      BY <1>1, <1>8, <2>9, ScannedIs
    <3>2. r.long = NoLong /\ r.found = scan.found \cup {EntryAt(scan, s, k)} /\ r.ended = scan.ended
      BY <3>1 DEF ScanT
    <3> HIDE DEF r
    <3>3. ScanSound(r, F, k + 1)
      BY <1>4, <1>8, <2>3, <2>5, <2>9, <3>2
    <3> QED BY <3>3 DEF r, s
  <2> QED BY <1>2, <2>6, <2>7, <2>8, <2>9
<1> QED BY <1>2, <1>7, <1>8

LEMMA ScanIsSound ==
    ASSUME NEW N \in Nat, NEW F \in [0 .. N - 1 -> SlotT], NEW g \in [0 .. N -> ScanT], IsScan(g, F, N)
    PROVE  \A k \in 0 .. N : ScanSound(g[k], F, k)
<1> DEFINE S == {k \in Nat : k <= N => ScanSound(g[k], F, k)}
<1>1. 0 \in S
  <2>1. g[0] = Unscanned
    BY DEF IsScan
  <2>2. ScanSound(Unscanned, F, 0)
    BY DEF ScanSound, Unscanned, NoLong
  <2> QED BY <2>1, <2>2
<1>2. ASSUME NEW k \in Nat, k \in S PROVE k + 1 \in S
  <2> SUFFICES ASSUME k + 1 <= N PROVE ScanSound(g[k + 1], F, k + 1)
    OBVIOUS
  <2>1. k \in 0 .. N - 1 /\ k \in 0 .. N /\ ScanSound(g[k], F, k)
    BY <1>2
  <2>2. g[k + 1] = Scanned(g[k], F[k], k)
    BY <2>1 DEF IsScan
  <2>3. g[k] \in ScanT
    BY <2>1
  <2> QED BY <2>1, <2>2, <2>3, ScannedSound
<1> HIDE DEF S
<1>3. \A k \in Nat : k \in S
  BY <1>1, <1>2, SetInduction
<1> QED BY <1>3 DEF S

-----------------------------------------------------------------------------
(* The slots of an entry                                                   *)

LEMMA NewSlotIs ==
    ASSUME NEW n \in Names, NEW i \in 0 .. SlotsOf[n] - 1, NEW c \in Entries, NEW dir \in BOOLEAN
    PROVE  /\ NewSlot(n, i, c, dir) \in SlotT
           /\ NewSlot(n, i, c, dir).mark = "used"
           /\ NewSlot(n, i, c, dir).of = n /\ NewSlot(n, i, c, dir).text = n
           /\ NewSlot(n, i, c, dir).what = (IF i = SlotsOf[n] - 1 THEN "data" ELSE "long")
           /\ i = SlotsOf[n] - 1 => NewSlot(n, i, c, dir).cluster = c /\ NewSlot(n, i, c, dir).dir = dir
           /\ i # SlotsOf[n] - 1 => NewSlot(n, i, c, dir).head = (i = 0)
<1>1. n \in NameT /\ n \in Names /\ FREE \in Entries /\ NoName \in NameT
  BY Numbers DEF NameT
<1> DEFINE s == NewSlot(n, i, c, dir)
<1> SUFFICES /\ s \in SlotT /\ s.mark = "used" /\ s.of = n /\ s.text = n
             /\ s.what = (IF i = SlotsOf[n] - 1 THEN "data" ELSE "long")
             /\ i = SlotsOf[n] - 1 => s.cluster = c /\ s.dir = dir
             /\ i # SlotsOf[n] - 1 => s.head = (i = 0)
  OBVIOUS
<1>2. CASE i = SlotsOf[n] - 1
  <2>1. s = [mark |-> "used", what |-> "data", of |-> n, text |-> n,
             head |-> FALSE, cluster |-> c, dir |-> dir]
    BY <1>2 DEF NewSlot, Blank
  <2> HIDE DEF s
  <2>2. s \in [mark : {"last", "used", "free"}, what : {"data", "long"}, of : NameT, text : NameT,
               head : BOOLEAN, cluster : Entries, dir : BOOLEAN]
    BY <1>1, <2>1
  <2>3. s.mark = "used" /\ s.of = n /\ s.text = n /\ s.what = "data" /\ s.cluster = c /\ s.dir = dir
    BY <2>1
  <2>4. s \in SlotT
    BY <1>1, <2>2, <2>3 DEF SlotT
  <2> QED BY <1>2, <2>3, <2>4
<1>3. CASE i # SlotsOf[n] - 1
  <2>1. s = [mark |-> "used", what |-> "long", of |-> n, text |-> n,
             head |-> (i = 0), cluster |-> FREE, dir |-> FALSE]
    BY <1>3 DEF NewSlot, Blank
  <2> HIDE DEF s
  <2>2. s \in [mark : {"last", "used", "free"}, what : {"data", "long"}, of : NameT, text : NameT,
               head : BOOLEAN, cluster : Entries, dir : BOOLEAN]
    BY <1>1, <2>1
  <2>3. s.mark = "used" /\ s.of = n /\ s.text = n /\ s.what = "long" /\ s.head = (i = 0)
    BY <2>1
  <2>4. s \in SlotT
    BY <1>1, <2>2, <2>3 DEF SlotT
  <2> QED BY <1>3, <2>3, <2>4
<1> QED BY <1>2, <1>3

\* The scan forgets no entry.
LEMMA FoundGrows ==
    ASSUME NEW scan \in ScanT, NEW s \in SlotT, NEW k
    PROVE  scan.found \subseteq Scanned(scan, s, k).found
<1>1. s.what \in {"data", "long"} /\ s.mark \in {"last", "free", "used"} /\ scan.ended \in BOOLEAN
  BY DEF SlotT, ScanT
<1>2. CASE scan.ended
  BY <1>2, ScannedIs
<1>3. CASE ~scan.ended /\ s.what = "long"
  <2>1. Scanned(scan, s, k) = [scan EXCEPT !.long = LongAfter(scan, s, k)]
    BY <1>3, ScannedLong
  <2> QED BY <2>1 DEF ScanT
<1>4. CASE ~scan.ended /\ s.what = "data" /\ s.mark = "last"
  <2>1. Scanned(scan, s, k) = [scan EXCEPT !.ended = TRUE]
    BY <1>4, ScannedIs
  <2> QED BY <2>1 DEF ScanT
<1>5. CASE ~scan.ended /\ s.what = "data" /\ s.mark = "free"
  BY <1>5, ScannedIs
<1>6. CASE ~scan.ended /\ s.what = "data" /\ s.mark = "used"
  <2>1. Scanned(scan, s, k) =
          [scan EXCEPT !.long = NoLong, !.found = scan.found \cup {EntryAt(scan, s, k)}]
    BY <1>6, ScannedIs
  <2> QED BY <2>1 DEF ScanT
<1> QED BY <1>1, <1>2, <1>3, <1>4, <1>5, <1>6

\* A run that is written as addEntry does it is listed, when it comes before
\* the end marker and no slot before it is in use for its name.
LEMMA RunIsFound ==
    ASSUME NEW N \in Nat, NEW F \in [0 .. N - 1 -> SlotT], NEW g \in [0 .. N -> ScanT], IsScan(g, F, N),
           NEW e \in Entry, e.name \in Names, e.new = NoName, e.end < N,
           e.end = e.start + SlotsOf[e.name] - 1,
           \A j \in Run(e) : F[j] = NewSlot(e.name, j - e.start, e.cluster, e.dir),
           \A j \in 0 .. e.end : F[j].mark # "last",
           \A j \in 0 .. e.start - 1 : F[j].mark = "used" => F[j].of # e.name
    PROVE  e \in g[N].found
<1> DEFINE n == e.name
           b == e.start
           m == SlotsOf[n]
           mine == [of |-> n, text |-> n, start |-> b]
<1>1. /\ b \in Nat /\ e.end \in Nat /\ e.cluster \in Entries /\ e.dir \in BOOLEAN
      /\ m \in Nat /\ m >= 1 /\ e.end = b + m - 1 /\ b <= e.end
  <2>1. b \in Nat /\ e.end \in Nat /\ e.cluster \in Entries /\ e.dir \in BOOLEAN
    BY DEF Entry, Entries
  <2>2. m \in Nat /\ m >= 1
    BY DirNumbers
  <2> QED BY <2>1, <2>2
<1>2. \A k \in 0 .. N : ScanSound(g[k], F, k)
  BY ScanIsSound
<1>3. ASSUME NEW i \in 0 .. m - 1
      PROVE  /\ b + i \in 0 .. N - 1 /\ b + i \in 0 .. N /\ (b + i) + 1 \in 0 .. N /\ b + i \in Nat
             /\ F[b + i] \in SlotT /\ F[b + i].mark = "used" /\ F[b + i].of = n /\ F[b + i].text = n
             /\ F[b + i].what = (IF i = m - 1 THEN "data" ELSE "long")
             /\ i # m - 1 => F[b + i].head = (i = 0)
             /\ i = m - 1 => F[b + i].cluster = e.cluster /\ F[b + i].dir = e.dir
             /\ ~g[b + i].ended /\ g[b + i] \in ScanT
             /\ g[(b + i) + 1] = Scanned(g[b + i], F[b + i], b + i)
  <2>1. /\ b + i \in 0 .. N - 1 /\ b + i \in 0 .. N /\ (b + i) + 1 \in 0 .. N /\ b + i \in Nat
        /\ b + i \in Run(e) /\ (b + i) - b = i
        /\ \A j \in 0 .. (b + i) - 1 : j \in 0 .. e.end
    <3>1. i \in Nat /\ i <= m - 1 /\ N \in Nat
      BY <1>1
    <3>2. b + i >= 0 /\ b + i <= e.end /\ e.end < N /\ b + i >= b /\ b + i \in Int /\ N \in Int /\ e.end \in Int
      BY <1>1, <3>1
    <3>3. b + i \in Run(e)
      BY <3>2, <1>1 DEF Run
    <3>4. (b + i) - b = i
      BY <1>1, <3>1
    <3> HIDE DEF b, m, n
    <3> QED BY <3>2, <3>3, <3>4
  <2>2. F[b + i] = NewSlot(n, i, e.cluster, e.dir)
    BY <2>1
  <2>3. ~g[b + i].ended
    BY <1>2, <2>1 DEF ScanSound
  <2>4. g[(b + i) + 1] = Scanned(g[b + i], F[b + i], b + i)
    BY <2>1 DEF IsScan
  <2>5. g[b + i] \in ScanT
    BY <2>1
  <2> QED BY <1>1, <2>1, <2>2, <2>3, <2>4, <2>5, NewSlotIs
<1> DEFINE S == {i \in Nat : i + 1 < m => g[(b + i) + 1].long = mine}
<1>4. 0 \in S
  <2> SUFFICES ASSUME 1 < m PROVE g[(b + 0) + 1].long = mine
    OBVIOUS
  <2>1. 0 \in 0 .. m - 1 /\ 0 # m - 1 /\ b + 0 = b
    BY <1>1
  <2>2. /\ F[b].what = "long" /\ F[b].mark = "used" /\ F[b].head /\ F[b].of = n /\ F[b].text = n
        /\ F[b] \in SlotT /\ ~g[b].ended /\ g[b] \in ScanT /\ g[b + 1] = Scanned(g[b], F[b], b)
    BY <1>3, <2>1
  <2>3. g[b + 1] = [g[b] EXCEPT !.long = LongAfter(g[b], F[b], b)]
    BY <2>2, ScannedLong
  <2>4. LongAfter(g[b], F[b], b) = mine
    BY <2>2 DEF LongAfter
  <2>5. g[b + 1].long = mine
    BY <2>2, <2>3, <2>4 DEF ScanT
  <2> QED BY <2>1, <2>5
<1>5. ASSUME NEW i \in Nat, i \in S PROVE i + 1 \in S
  <2> SUFFICES ASSUME (i + 1) + 1 < m PROVE g[(b + (i + 1)) + 1].long = mine
    OBVIOUS
  <2> DEFINE k == b + (i + 1)
  <2>1. i + 1 \in 0 .. m - 1 /\ i + 1 # m - 1 /\ i + 1 # 0 /\ k = (b + i) + 1 /\ i + 1 < m
    <3>1. b \in Nat /\ m \in Nat
      BY <1>1
    <3> HIDE DEF b, m
    <3> QED BY <3>1
  <2>2. g[k].long = mine
    <3>1. g[(b + i) + 1].long = mine
      BY <1>5, <2>1
    <3> HIDE DEF b, k
    <3> QED BY <2>1, <3>1
  <2>3. /\ F[k].what = "long" /\ F[k].mark = "used" /\ ~F[k].head /\ F[k].of = n /\ F[k].text = n
        /\ F[k] \in SlotT /\ ~g[k].ended /\ g[k] \in ScanT /\ g[k + 1] = Scanned(g[k], F[k], k)
    BY <1>3, <2>1
  <2> HIDE DEF k
  <2>4. g[k + 1] = [g[k] EXCEPT !.long = LongAfter(g[k], F[k], k)]
    BY <2>3, ScannedLong
  <2>5. LongAfter(g[k], F[k], k) = mine
    BY <2>2, <2>3 DEF LongAfter
  <2>6. g[k + 1].long = mine
    BY <2>3, <2>4, <2>5 DEF ScanT
  <2> QED BY <2>6 DEF k
<1>6. \A i \in Nat : i \in S
  <2> HIDE DEF S
  <2> QED BY <1>4, <1>5, SetInduction
<1> DEFINE k == e.end
<1>7. k = b + (m - 1) /\ m - 1 \in 0 .. m - 1
  BY <1>1
<1>8. /\ k \in 0 .. N - 1 /\ k \in 0 .. N /\ k + 1 \in 0 .. N /\ k \in Nat
      /\ F[k].what = "data" /\ F[k].mark = "used" /\ F[k].of = n /\ F[k].cluster = e.cluster
      /\ F[k].dir = e.dir /\ F[k] \in SlotT
      /\ ~g[k].ended /\ g[k] \in ScanT /\ g[k + 1] = Scanned(g[k], F[k], k)
  BY <1>3, <1>7
<1>9. NameOf(g[k], F[k]) = n /\ (IF g[k].long.of = F[k].of THEN g[k].long.start ELSE k) = b
  <2>1. CASE m = 1
    <3>1. k = b
      BY <1>1, <2>1
    <3>2. g[k].long.of # n
      <4>1. NoName # n
        BY DirNumbers
      <4>2. g[k].long.of = NoName \/ \E j \in 0 .. k - 1 : F[j].mark = "used" /\ F[j].of = g[k].long.of
        BY <1>2, <1>8 DEF ScanSound
      <4> QED BY <3>1, <4>1, <4>2
    <3> QED BY <1>8, <2>1, <3>1, <3>2 DEF NameOf
  <2>2. CASE m # 1
    <3>1. m - 2 \in Nat /\ (m - 2) + 1 < m /\ (b + (m - 2)) + 1 = k
      BY <1>1, <2>2
    <3>2. g[(b + (m - 2)) + 1].long = mine
      BY <1>6, <3>1
    <3>3. g[k].long = mine
      BY <3>1, <3>2
    <3> HIDE DEF k
    <3> QED BY <1>8, <3>3 DEF NameOf
  <2> QED BY <2>1, <2>2
<1>10. EntryAt(g[k], F[k], k) = e
  <2>1. EntryAt(g[k], F[k], k) = [name |-> n, start |-> b, end |-> e.end, cluster |-> e.cluster,
                                  dir |-> e.dir, new |-> NoName]
    BY <1>8, <1>9 DEF EntryAt
  <2>2. e = [name |-> n, start |-> b, end |-> e.end, cluster |-> e.cluster, dir |-> e.dir, new |-> NoName]
    BY DEF Entry
  <2> QED BY <2>1, <2>2
<1>11. e \in g[k + 1].found
  <2>1. g[k + 1] = [g[k] EXCEPT !.long = NoLong, !.found = g[k].found \cup {EntryAt(g[k], F[k], k)}]
    <3>1. /\ g[k] \in ScanT /\ F[k] \in SlotT /\ ~g[k].ended /\ F[k].what = "data" /\ F[k].mark = "used"
          /\ g[k + 1] = Scanned(g[k], F[k], k)
      BY <1>8
    <3> HIDE DEF k
    <3>2. Scanned(g[k], F[k], k) =
            [g[k] EXCEPT !.long = NoLong, !.found = g[k].found \cup {EntryAt(g[k], F[k], k)}]
      BY ONLY <3>1, ScannedIs
    <3> QED BY <3>1, <3>2
  <2> HIDE DEF k
  <2> QED BY <1>8, <1>10, <2>1 DEF ScanT
<1> DEFINE T == {i \in Nat : i >= k + 1 /\ i <= N => e \in g[i].found}
<1>12. 0 \in T
  BY <1>1
<1>13. ASSUME NEW i \in Nat, i \in T PROVE i + 1 \in T
  <2> SUFFICES ASSUME i + 1 >= k + 1, i + 1 <= N PROVE e \in g[i + 1].found
    OBVIOUS
  <2>1. CASE i = k
    BY <1>11, <2>1
  <2>2. CASE i # k
    <3>1. i >= k + 1 /\ i \in 0 .. N - 1 /\ i \in 0 .. N
      <4>1. k \in Nat
        BY <1>1
      <4> HIDE DEF k
      <4> QED BY <4>1, <2>2
    <3>2. e \in g[i].found /\ g[i] \in ScanT /\ F[i] \in SlotT /\ g[i + 1] = Scanned(g[i], F[i], i)
      BY <1>13, <3>1 DEF IsScan
    <3>3. g[i].found \subseteq Scanned(g[i], F[i], i).found
      BY <3>2, FoundGrows
    <3> QED BY <3>2, <3>3
  <2> QED BY <2>1, <2>2
<1>14. N \in T
  <2> HIDE DEF T
  <2>1. \A i \in Nat : i \in T
    BY <1>12, <1>13, SetInduction
  <2> QED BY <2>1
<1>15. N >= k + 1
  <2>1. k \in Nat /\ k < N
    BY <1>1
  <2> HIDE DEF k
  <2> QED BY <2>1
<1> QED BY <1>14, <1>15

\* What is listed: the slots in use that hold data and come before the end
\* marker, each under the name of its entry or under none.
LEMMA ListingIs ==
    ASSUME NEW d \in DiskT, Pathed(d.tab, Path(d))
    PROVE  /\ Listing(d) \subseteq Entry
           /\ \A e \in Listing(d) : e.end < Size(d) /\ Listed(InOrder(d), e)
           /\ \A e, f \in Listing(d) : e.end = f.end => e = f
           /\ \A j \in 0 .. Size(d) - 1 :
                (/\ InOrder(d)[j].mark = "used" /\ InOrder(d)[j].what = "data"
                 /\ \A i \in 0 .. j : InOrder(d)[i].mark # "last")
                => \E e \in Listing(d) : e.end = j
<1> DEFINE N == Size(d)
           F == InOrder(d)
<1>1. N \in Nat /\ F \in [0 .. N - 1 -> SlotT]
  <2>1. d.slots \in [Clusters -> [0 .. Slots - 1 -> SlotT]]
    BY DEF DiskT
  <2>2. Along(Path(d), d.slots) \in [0 .. Slots * Len(Path(d)) - 1 -> SlotT]
    BY <2>1, AlongType
  <2> QED BY <2>2, InOrderIs
<1>2. PICK g \in [0 .. N -> ScanT] : IsScan(g, F, N) /\ Listing(d) = g[N].found
  BY ListingScan
<1> HIDE DEF N, F
<1>3. ScanSound(g[N], F, N)
  BY <1>1, <1>2, ScanIsSound
<1>4. g[N] \in ScanT
  BY <1>1, <1>2
<1>5. g[N].found \subseteq Entry
  BY <1>4 DEF ScanT
<1>6. /\ \A e \in g[N].found : e.end < N /\ Listed(F, e)
      /\ \A e, f \in g[N].found : e.end = f.end => e = f
      /\ \A j \in 0 .. N - 1 : (F[j].mark = "used" /\ F[j].what = "data" /\ \A i \in 0 .. j : F[i].mark # "last")
                                => \E e \in g[N].found : e.end = j
  BY <1>3 DEF ScanSound
<1> QED BY <1>2, <1>5, <1>6 DEF N, F

LEMMA InOrderType ==
    ASSUME NEW d \in DiskT, Pathed(d.tab, Path(d))
    PROVE  Size(d) \in Nat /\ InOrder(d) \in [0 .. Size(d) - 1 -> SlotT]
<1>1. d.slots \in [Clusters -> [0 .. Slots - 1 -> SlotT]]
  BY DEF DiskT
<1>2. Along(Path(d), d.slots) \in [0 .. Slots * Len(Path(d)) - 1 -> SlotT]
  BY <1>1, AlongType
<1> QED BY <1>2, InOrderIs

\* A run lies before the end and its last slot alone is data.
LEMMA FiledRun ==
    ASSUME NEW N \in Nat, NEW F, NEW es, Filed(F, N, es), NEW e \in es
    PROVE  /\ e \in Entry /\ e.name \in Names /\ e.new = NoName
           /\ e.start \in Nat /\ e.end \in Nat /\ e.start <= e.end /\ e.end < N
           /\ e.end = e.start + SlotsOf[e.name] - 1
           /\ e.start \in Run(e) /\ e.end \in Run(e) /\ Run(e) \subseteq 0 .. N - 1
           /\ \A k \in Run(e) :
                /\ F[k] = NewSlot(e.name, k - e.start, e.cluster, e.dir)
                /\ k - e.start \in 0 .. SlotsOf[e.name] - 1
                /\ F[k].mark = "used" /\ F[k].of = e.name /\ F[k].text = e.name /\ F[k] \in SlotT
                /\ F[k].what = (IF k = e.end THEN "data" ELSE "long")
           /\ F[e.end].cluster = e.cluster /\ F[e.end].dir = e.dir
<1>1. /\ e \in Entry /\ e.name \in Names /\ e.new = NoName
      /\ e.end = e.start + SlotsOf[e.name] - 1 /\ e.end < N
      /\ \A k \in Run(e) : F[k] = NewSlot(e.name, k - e.start, e.cluster, e.dir)
  BY DEF Filed
<1>2. e.start \in Nat /\ e.end \in Nat /\ e.cluster \in Entries /\ e.dir \in BOOLEAN
  BY <1>1 DEF Entry, Entries
<1>3. SlotsOf[e.name] \in Nat /\ SlotsOf[e.name] >= 1
  BY <1>1, DirNumbers
<1> DEFINE b == e.start
           k2 == e.end
           m == SlotsOf[e.name]
<1>4. b <= k2 /\ b \in Run(e) /\ k2 \in Run(e) /\ k2 - b = m - 1
  <2>1. b \in Nat /\ k2 \in Nat /\ m \in Nat /\ m >= 1 /\ k2 = b + m - 1
    BY <1>1, <1>2, <1>3
  <2>2. Run(e) = b .. k2
    BY DEF Run
  <2> HIDE DEF b, k2, m
  <2> QED BY <2>1, <2>2
<1>5. Run(e) \subseteq 0 .. N - 1
  BY <1>1, <1>2 DEF Run
<1>6. ASSUME NEW k \in Run(e)
      PROVE  k - e.start \in 0 .. SlotsOf[e.name] - 1 /\ (k - e.start = SlotsOf[e.name] - 1 <=> k = e.end)
  <2>1. b \in Nat /\ k2 \in Nat /\ m \in Nat /\ m >= 1 /\ k2 = b + m - 1 /\ k \in b .. k2
    BY <1>1, <1>2, <1>3 DEF Run
  <2> HIDE DEF b, k2, m
  <2>2. k - b \in 0 .. m - 1 /\ (k - b = m - 1 <=> k = k2)
    BY <2>1
  <2> QED BY <2>2 DEF b, k2, m
<1>7. ASSUME NEW k \in Run(e)
      PROVE  /\ F[k] = NewSlot(e.name, k - e.start, e.cluster, e.dir)
             /\ F[k].mark = "used" /\ F[k].of = e.name /\ F[k].text = e.name /\ F[k] \in SlotT
             /\ F[k].what = (IF k = e.end THEN "data" ELSE "long")
             /\ k = e.end => F[k].cluster = e.cluster /\ F[k].dir = e.dir
  <2> DEFINE i == k - e.start
  <2>1. i \in 0 .. SlotsOf[e.name] - 1 /\ (i = SlotsOf[e.name] - 1 <=> k = e.end) /\ F[k] = NewSlot(e.name, i, e.cluster, e.dir)
    BY <1>1, <1>6
  <2> HIDE DEF i
  <2>2. /\ F[k].mark = "used" /\ F[k].of = e.name /\ F[k].text = e.name /\ F[k] \in SlotT
        /\ F[k].what = (IF i = SlotsOf[e.name] - 1 THEN "data" ELSE "long")
        /\ i = SlotsOf[e.name] - 1 => F[k].cluster = e.cluster /\ F[k].dir = e.dir
    BY <1>1, <1>2, <2>1, NewSlotIs
  <2>3. F[k] = NewSlot(e.name, k - e.start, e.cluster, e.dir)
    BY <1>1
  <2> QED BY <2>1, <2>2, <2>3
<1> QED BY <1>1, <1>2, <1>4, <1>5, <1>6, <1>7

\* No slot belongs to two entries.
LEMMA FiledApart ==
    ASSUME NEW N \in Nat, NEW F, NEW es, Filed(F, N, es), NEW e \in es, NEW f \in es,
           NEW k \in Run(e), k \in Run(f)
    PROVE  e = f
<1>1. F[k].of = e.name /\ F[k].of = f.name
  BY FiledRun
<1> QED BY <1>1 DEF Filed

\* A directory that holds the entries es lists them and nothing else.
LEMMA FiledListing ==
    ASSUME NEW d \in DiskT, Pathed(d.tab, Path(d)), NEW es, Filed(InOrder(d), Size(d), es)
    PROVE  Listing(d) = es
<1> DEFINE N == Size(d)
           F == InOrder(d)
<1>1. N \in Nat /\ F \in [0 .. N - 1 -> SlotT]
  BY InOrderType
<1>2. PICK g \in [0 .. N -> ScanT] : IsScan(g, F, N) /\ Listing(d) = g[N].found
  BY ListingScan
<1>20. Filed(F, N, es)
  OBVIOUS
<1>3. /\ \A e \in Listing(d) : e \in Entry /\ e.end < N /\ Listed(F, e)
      /\ \A e, f \in Listing(d) : e.end = f.end => e = f
  BY ListingIs
<1> HIDE DEF N, F
<1>4. ASSUME NEW e \in es PROVE e \in Listing(d)
  <2>1. /\ e \in Entry /\ e.name \in Names /\ e.new = NoName /\ e.end < N
        /\ e.end = e.start + SlotsOf[e.name] - 1
        /\ \A j \in Run(e) : F[j] = NewSlot(e.name, j - e.start, e.cluster, e.dir)
        /\ e.end \in 0 .. N - 1 /\ F[e.end].mark = "used" /\ e.start \in Nat /\ e.start <= e.end /\ e.end \in Nat
    <3>1. /\ e \in Entry /\ e.name \in Names /\ e.new = NoName /\ e.end < N
          /\ e.end = e.start + SlotsOf[e.name] - 1
          /\ e.start \in Nat /\ e.start <= e.end /\ e.end \in Nat /\ e.end \in Run(e)
          /\ \A j \in Run(e) : F[j] = NewSlot(e.name, j - e.start, e.cluster, e.dir) /\ F[j].mark = "used"
      BY <1>1, <1>20, FiledRun
    <3>2. e.end \in 0 .. N - 1
      BY <1>1, <3>1
    <3> QED BY <3>1, <3>2
  <2>2. \A j \in 0 .. e.end : F[j].mark # "last"
    <3> SUFFICES ASSUME NEW j \in 0 .. e.end, F[j].mark = "last" PROVE FALSE
      OBVIOUS
    <3>1. j \in 0 .. N - 1
      BY <1>1, <2>1
    <3>2. e.end < j
      BY <1>20, <2>1, <3>1 DEF Filed
    <3> QED BY <2>1, <3>1, <3>2
  <2>3. \A j \in 0 .. e.start - 1 : F[j].mark = "used" => F[j].of # e.name
    <3> SUFFICES ASSUME NEW j \in 0 .. e.start - 1, F[j].mark = "used", F[j].of = e.name PROVE FALSE
      OBVIOUS
    <3>1. j \in 0 .. N - 1 /\ j < e.start
      BY <1>1, <2>1
    <3>2. PICK f \in es : j \in Run(f)
      BY <1>20, <3>1 DEF Filed
    <3>3. F[j].of = f.name
      <4>1. \A k \in Run(f) : F[k].of = f.name
        BY <1>1, <1>20, FiledRun
      <4> QED BY <3>2, <4>1
    <3>4. f = e
      BY <1>20, <3>3 DEF Filed
    <3>5. j >= e.start
      BY <2>1, <3>2, <3>4 DEF Run
    <3> QED BY <2>1, <3>1, <3>5
  <2>4. e \in g[N].found
    BY <1>1, <1>2, <2>1, <2>2, <2>3, RunIsFound
  <2> QED BY <1>2, <2>4
<1>5. ASSUME NEW e \in Listing(d) PROVE e \in es
  <2>1. e.end \in 0 .. N - 1 /\ F[e.end].mark = "used" /\ F[e.end].what = "data"
    <3>1. e \in Entry /\ e.end < N /\ Listed(F, e)
      BY <1>3
    <3>2. e.end \in Nat
      BY <3>1 DEF Entry
    <3> QED BY <1>1, <3>1, <3>2 DEF Listed
  <2>2. PICK f \in es : e.end \in Run(f)
    BY <1>20, <2>1 DEF Filed
  <2>3. e.end = f.end
    BY <1>1, <1>20, <2>1, <2>2, FiledRun
  <2>4. e = f
    BY <1>3, <1>4, <2>3
  <2> QED BY <2>4
<1> QED BY <1>4, <1>5

LEMMA TidyFiled ==
    ASSUME NEW d \in DiskT, Pathed(d.tab, Path(d)), Tidy(d)
    PROVE  Filed(InOrder(d), Size(d), Listing(d))
<1> DEFINE N == Size(d)
           F == InOrder(d)
           es == Listing(d)
<1>1. N \in Nat /\ F \in [0 .. N - 1 -> SlotT]
  BY InOrderType
<1>2. \A e \in es : e \in Entry /\ e.end < N /\ Listed(F, e)
  BY ListingIs
<1>3. /\ \A e \in es : /\ e.name \in Names /\ e.end = e.start + SlotsOf[e.name] - 1
                       /\ \A k \in Run(e) : F[k] = NewSlot(e.name, k - e.start, e.cluster, e.dir)
      /\ \A e, f \in es : e.name = f.name => e = f
      /\ \A k \in 0 .. N - 1 : F[k].mark = "used" => \E e \in es : k \in Run(e)
  BY <1>1 DEF Tidy, Run
<1> HIDE DEF N, F, es
<1>4. \A e \in es : e.new = NoName
  BY <1>2 DEF Listed
<1>5. ASSUME NEW j \in 0 .. N - 1, NEW k \in 0 .. N - 1, F[j].mark = "used", F[k].mark = "last"
      PROVE  j < k
  <2>1. PICK e \in es : j \in Run(e)
    BY <1>3, <1>5
  <2>2. e.end \in Nat /\ j <= e.end /\ \A i \in 0 .. e.end : F[i].mark # "last"
    BY <1>2, <2>1 DEF Run, Listed, Entry
  <2> QED BY <1>1, <1>5, <2>2
<1>6. Filed(F, N, es)
  BY <1>2, <1>3, <1>4, <1>5 DEF Filed
<1> QED BY <1>6 DEF N, F, es

LEMMA FoundIs ==
    ASSUME NEW d \in DiskT, Pathed(d.tab, Path(d)), NEW n, Exists(d, n)
    PROVE  Found(d, n) \in Listing(d) /\ Found(d, n).name = n
<1> DEFINE es == Named(Listing(d), n)
           T == {e.start : e \in es}
<1>1. es # {} /\ es \subseteq Entry
  BY ListingIs DEF Exists, Named
<1>2. T \in SUBSET Nat /\ T # {}
  BY <1>1 DEF Entry
<1>3. PICK x \in T : \A y \in T : x <= y
  <2> HIDE DEF T
  <2> QED BY <1>2, LeastOf
<1>4. PICK e \in es : e.start = x
  BY <1>3
<1>5. \A f \in es : e.start <= f.start
  BY <1>3, <1>4
<1>6. Found(d, n) \in es
  BY <1>4, <1>5 DEF Found
<1> QED BY <1>6 DEF Named

-----------------------------------------------------------------------------
(* Copies of a directory, its end marker, a card that changes              *)

\* Nothing but the table and the slots decides what a directory is.
LEMMA SameDisk ==
    ASSUME NEW d, NEW w, w.tab = d.tab, w.slots = d.slots, Pathed(d.tab, Path(d))
    PROVE  Path(w) = Path(d) /\ Size(w) = Size(d) /\ InOrder(w) = InOrder(d) /\ Listing(w) = Listing(d)
<1>1. Path(w) = Path(d)
  BY PathIs
<1>2. Size(w) = Size(d) /\ InOrder(w) = InOrder(d)
  BY <1>1 DEF Size, InOrder
<1>3. Listing(w) = Listing(d)
  BY <1>2 DEF Listing
<1> QED BY <1>1, <1>2, <1>3

LEMMA MarkerIs ==
    ASSUME NEW d \in DiskT, Pathed(d.tab, Path(d))
    PROVE  /\ Marker(d) \in 0 .. Size(d)
           /\ \A k \in 0 .. Marker(d) - 1 : InOrder(d)[k].mark # "last"
           /\ Marker(d) < Size(d) => InOrder(d)[Marker(d)].mark = "last"
<1> DEFINE N == Size(d)
           F == InOrder(d)
           T == {k \in 0 .. N - 1 : F[k].mark = "last"} \cup {N}
<1>1. N \in Nat /\ DOMAIN F = 0 .. N - 1
  BY InOrderType
<1>2. Marker(d) = Least(T)
  BY <1>1 DEF Marker
<1>3. T \subseteq Nat /\ N \in T
  BY <1>1
<1>4. Least(T) \in T /\ \A k \in T : Least(T) <= k
  BY <1>3, LeastIs
<1> HIDE DEF N, F
<1>5. Least(T) \in 0 .. N /\ (Least(T) < N => F[Least(T)].mark = "last")
  BY <1>1, <1>4
<1>6. ASSUME NEW k \in 0 .. Least(T) - 1 PROVE F[k].mark # "last"
  <2>1. k \in 0 .. N - 1 /\ ~(Least(T) <= k)
    BY <1>1, <1>5
  <2> QED BY <1>4, <2>1
<1> QED BY <1>2, <1>5, <1>6 DEF N, F

\* From the end marker on nothing is in use.
LEMMA FiledMarker ==
    ASSUME NEW d \in DiskT, Pathed(d.tab, Path(d)), NEW es, Filed(InOrder(d), Size(d), es)
    PROVE  /\ \A k \in 0 .. Size(d) - 1 : InOrder(d)[k].mark = "used" => k < Marker(d)
           /\ \A k \in 0 .. Size(d) - 1 : InOrder(d)[k].mark = "last" => Marker(d) <= k
           /\ \A e \in es : e.end < Marker(d)
<1> DEFINE N == Size(d)
           F == InOrder(d)
           m == Marker(d)
<1>1. N \in Nat /\ m \in 0 .. N /\ (\A k \in 0 .. m - 1 : F[k].mark # "last") /\ (m < N => F[m].mark = "last")
  BY MarkerIs, InOrderType
<1>2. Filed(F, N, es)
  OBVIOUS
<1> HIDE DEF N, F, m
<1>3. ASSUME NEW k \in 0 .. N - 1, F[k].mark = "used" PROVE k < m
  <2>1. CASE m = N
    BY <1>1, <2>1
  <2>2. CASE m # N
    <3>1. m \in 0 .. N - 1 /\ F[m].mark = "last"
      BY <1>1, <2>2
    <3> QED BY <1>2, <1>3, <3>1 DEF Filed
  <2> QED BY <2>1, <2>2
<1>4. ASSUME NEW k \in 0 .. N - 1, F[k].mark = "last" PROVE m <= k
  BY <1>1, <1>4
<1>5. ASSUME NEW e \in es PROVE e.end < m
  <2>1. e.end \in Run(e) /\ Run(e) \subseteq 0 .. N - 1 /\ \A k \in Run(e) : F[k].mark = "used"
    BY <1>1, <1>2, FiledRun
  <2> QED BY <1>3, <2>1
<1> QED BY <1>3, <1>4, <1>5 DEF N, F, m

\* When no run of deleted slots is long enough, those right before the marker
\* can be counted.
LEMMA TrailingIs ==
    ASSUME NEW F, NEW size \in Nat, size >= 1, NEW m \in Nat, FreeRuns(F, size, m) = {}
    PROVE  /\ Trailing(F, size, m) \in 0 .. size - 1 /\ Trailing(F, size, m) <= m
<1> DEFINE T == {r \in Nat : r = m \/ (r < m /\ F[m - r - 1].mark # "free")}
<1>1. T \in SUBSET Nat /\ m \in T
  OBVIOUS
<1>2. PICK r \in T : \A x \in T : r <= x
  <2> HIDE DEF T
  <2> QED BY <1>1, LeastOf
<1>3. r \in Nat /\ r <= m
  BY <1>1, <1>2
<1>4. \A k \in m - r .. m - 1 : F[k].mark = "free"
  <2> SUFFICES ASSUME NEW k \in m - r .. m - 1, F[k].mark # "free" PROVE FALSE
    OBVIOUS
  <2> DEFINE x == m - k - 1
  <2>1. x \in Nat /\ x < r /\ x < m /\ m - x - 1 = k
    BY <1>3
  <2>2. x \in T
    BY <2>1
  <2> QED BY <1>2, <1>3, <2>1, <2>2
<1>5. r < size
  <2> SUFFICES ASSUME r >= size PROVE FALSE
    BY <1>3
  <2>1. m - size \in 0 .. m - size /\ \A k \in m - size .. (m - size) + size - 1 : k \in m - r .. m - 1
    BY <1>3
  <2>2. m - size \in FreeRuns(F, size, m)
    BY <1>4, <2>1 DEF FreeRuns
  <2> QED BY <2>2
<1>6. r < m => F[m - r - 1].mark # "free"
  BY <1>2, <1>3
<1> DEFINE P(x) == /\ x <= m /\ \A k \in m - x .. m - 1 : F[k].mark = "free"
                   /\ x < m => F[m - x - 1].mark # "free"
<1>7. r \in 0 .. size - 1 /\ P(r)
  BY <1>3, <1>4, <1>5, <1>6
<1>8. Trailing(F, size, m) = CHOOSE x \in 0 .. size - 1 : P(x)
  BY DEF Trailing
<1>9. (CHOOSE x \in 0 .. size - 1 : P(x)) \in 0 .. size - 1 /\ P(CHOOSE x \in 0 .. size - 1 : P(x))
  <2> HIDE DEF P
  <2> QED BY <1>7
<1> QED BY <1>8, <1>9

\* Slots that are not in use are no part of it.
LEMMA FiledKept ==
    ASSUME NEW N \in Nat, NEW N2 \in Nat, N <= N2, NEW F, NEW F2, NEW es, Filed(F, N, es), NEW m \in 0 .. N,
           \A k \in 0 .. N - 1 : F[k].mark = "used" => k < m,
           \A k \in 0 .. m - 1 : F2[k] = F[k],
           \A k \in 0 .. m - 1 : F[k].mark # "last",
           \A k \in m .. N2 - 1 : F2[k].mark # "used"
    PROVE  Filed(F2, N2, es)
<1>1. ASSUME NEW e \in es
      PROVE  /\ e \in Entry /\ e.name \in Names /\ e.new = NoName
             /\ e.end = e.start + SlotsOf[e.name] - 1 /\ e.end < N2
             /\ \A k \in Run(e) : F2[k] = NewSlot(e.name, k - e.start, e.cluster, e.dir)
  <2>1. /\ e \in Entry /\ e.name \in Names /\ e.new = NoName
        /\ e.end = e.start + SlotsOf[e.name] - 1 /\ e.end < N /\ e.end \in Nat
        /\ Run(e) \subseteq 0 .. N - 1
        /\ \A k \in Run(e) : F[k] = NewSlot(e.name, k - e.start, e.cluster, e.dir) /\ F[k].mark = "used"
    BY FiledRun
  <2>2. \A k \in Run(e) : k \in 0 .. m - 1
    BY <2>1
  <2>3. e.end < N2
    BY <2>1
  <2> QED BY <2>1, <2>2, <2>3
<1>2. \A e, f \in es : e.name = f.name => e = f
  BY DEF Filed
<1>3. ASSUME NEW k \in 0 .. N2 - 1, F2[k].mark = "used"
      PROVE  k \in 0 .. m - 1 /\ k \in 0 .. N - 1 /\ F[k].mark = "used"
  BY <1>3
<1>4. ASSUME NEW k \in 0 .. N2 - 1, F2[k].mark = "used" PROVE \E e \in es : k \in Run(e)
  BY <1>3, <1>4 DEF Filed
<1>5. ASSUME NEW j \in 0 .. N2 - 1, NEW k \in 0 .. N2 - 1, F2[j].mark = "used", F2[k].mark = "last"
      PROVE  j < k
  <2>1. j < m
    BY <1>3, <1>5
  <2>2. k >= m
    BY <1>5
  <2> QED BY <2>1, <2>2
<1> QED BY <1>1, <1>2, <1>4, <1>5 DEF Filed

\* An entry is put into slots that are not in use.
LEMMA FiledMore ==
    ASSUME NEW N \in Nat, NEW N2 \in Nat, N <= N2, NEW F, NEW F2, NEW es, Filed(F, N, es),
           NEW e \in Entry, e.name \in Names, e.new = NoName, e.end = e.start + SlotsOf[e.name] - 1,
           e.end < N2, \A f \in es : f.name # e.name,
           \A k \in Run(e) : F2[k] = NewSlot(e.name, k - e.start, e.cluster, e.dir),
           \A k \in Run(e) : k < N => F[k].mark # "used",
           \A k \in 0 .. N - 1 : (k \notin Run(e) /\ F[k].mark = "used") => F2[k] = F[k],
           \A k \in 0 .. N2 - 1 : (k \notin Run(e) /\ F2[k].mark = "used") => k < N /\ F[k].mark = "used",
           \A j, k \in 0 .. N2 - 1 : (F2[j].mark = "used" /\ F2[k].mark = "last") => j < k
    PROVE  Filed(F2, N2, es \cup {e})
<1>1. ASSUME NEW f \in es \cup {e}
      PROVE  /\ f \in Entry /\ f.name \in Names /\ f.new = NoName
             /\ f.end = f.start + SlotsOf[f.name] - 1 /\ f.end < N2
             /\ \A k \in Run(f) : F2[k] = NewSlot(f.name, k - f.start, f.cluster, f.dir)
  <2>1. CASE f = e
    BY <2>1
  <2>2. CASE f \in es
    <3>1. /\ f \in Entry /\ f.name \in Names /\ f.new = NoName
          /\ f.end = f.start + SlotsOf[f.name] - 1 /\ f.end < N /\ f.end \in Nat
          /\ Run(f) \subseteq 0 .. N - 1
          /\ \A k \in Run(f) : F[k] = NewSlot(f.name, k - f.start, f.cluster, f.dir) /\ F[k].mark = "used"
      BY <2>2, FiledRun
    <3>2. f.end < N2
      BY <3>1
    <3>3. ASSUME NEW k \in Run(f) PROVE F2[k] = F[k]
      <4>1. k \in 0 .. N - 1 /\ F[k].mark = "used" /\ k < N
        BY <3>1
      <4> QED BY <4>1
    <3> QED BY <3>1, <3>2, <3>3
  <2> QED BY <2>1, <2>2
<1>2. \A f, h \in es \cup {e} : f.name = h.name => f = h
  BY DEF Filed
<1>3. ASSUME NEW k \in 0 .. N2 - 1, F2[k].mark = "used" PROVE \E f \in es \cup {e} : k \in Run(f)
  <2>1. CASE k \in Run(e)
    BY <2>1
  <2>2. CASE k \notin Run(e)
    <3>1. k \in 0 .. N - 1 /\ F[k].mark = "used"
      BY <1>3, <2>2
    <3> QED BY <3>1 DEF Filed
  <2> QED BY <2>1, <2>2
<1> QED BY <1>1, <1>2, <1>3 DEF Filed

-----------------------------------------------------------------------------
(* The gap for a new entry                                                 *)

LEMMA BlankIs == Blank \in SlotT /\ Blank.mark = "last"
<1>1. Blank.mark = "last"
  BY DEF Blank
<1>2. Blank \in SlotT
  BY DirNumbers, Numbers DEF Blank, SlotT, NameT
<1> QED BY <1>1, <1>2

\* d became w, which is longer or not.
Grew(d, w) ==
    /\ Fit(w)
    /\ Len(Path(d)) <= Len(Path(w)) /\ \A i \in 1 .. Len(Path(d)) : Path(w)[i] = Path(d)[i]
    /\ \A c \in Clusters : d.tab[c] # FREE => w.tab[c] # FREE
    /\ \A c \in Clusters : (\A i \in 1 .. Len(Path(w)) : Path(w)[i] # c) =>
          w.tab[c] = d.tab[c] \/ (d.tab[c] = FREE /\ "tail" \in w.met)
    /\ \A i \in Len(Path(d)) + 1 .. Len(Path(w)) : d.tab[Path(w)[i]] = FREE
    /\ d.met \subseteq w.met

LEMMA LongerGrew == ASSUME NEW d, NEW w, Longer(d, w) PROVE Grew(d, w)
BY DEF Longer, Grew

LEMMA FlatGrew ==
    ASSUME NEW d, NEW w, Fit(d), Grew(d, w), Flat(d.tab, Path(d)), "tail" \notin w.met
    PROVE  Flat(w.tab, Path(w))
<1> SUFFICES ASSUME NEW c \in Clusters, \A i \in 1 .. Len(Path(w)) : Path(w)[i] # c
             PROVE  w.tab[c] \in {FREE, EOF}
  BY DEF Flat
<1>1. w.tab[c] = d.tab[c]
  BY DEF Grew
<1>2. \A i \in 1 .. Len(Path(d)) : Path(d)[i] # c
  <2> SUFFICES ASSUME NEW i \in 1 .. Len(Path(d)) PROVE Path(d)[i] # c
    OBVIOUS
  <2>1. Len(Path(d)) \in Nat /\ Len(Path(w)) \in Nat
    BY PathTypes DEF Grew, Fit
  <2>2. Path(w)[i] = Path(d)[i] /\ Len(Path(d)) <= Len(Path(w))
    BY DEF Grew
  <2>3. i \in 1 .. Len(Path(w))
    BY <2>1, <2>2
  <2> QED BY <2>2, <2>3
<1> QED BY <1>1, <1>2 DEF Flat

LEMMA GrewSame ==
    ASSUME NEW d, NEW w, NEW x, Grew(d, w), x \in DiskT, x.tab = w.tab, w.met \subseteq x.met, Path(x) = Path(w)
    PROVE  Grew(d, x)
BY DEF Grew, Fit

\* The slots of a directory that was made longer.
LEMMA LongerFiled ==
    ASSUME NEW d, Fit(d), NEW es, Filed(InOrder(d), Size(d), es), NEW w, Longer(d, w)
    PROVE  /\ Size(d) \in Nat /\ Size(w) \in Nat /\ Size(d) <= Size(w) /\ Marker(d) \in 0 .. Size(d)
           /\ \A k \in 0 .. Size(d) - 1 : InOrder(d)[k].mark = "used" => k < Marker(d)
           /\ \A k \in 0 .. Marker(d) - 1 : InOrder(d)[k].mark # "last"
           /\ \A k \in 0 .. Marker(d) - 1 : InOrder(w)[k] = InOrder(d)[k]
           /\ \A k \in Marker(d) .. Size(w) - 1 : InOrder(w)[k].mark # "used"
           /\ \A k \in 0 .. Size(w) - 1 : InOrder(w)[k].mark = "last" => Marker(d) <= k
<1> DEFINE N == Size(d)
           M == Size(w)
           F == InOrder(d)
           G == InOrder(w)
           m == Marker(d)
<1>1. d \in DiskT /\ Pathed(d.tab, Path(d))
  BY DEF Fit
<1>2. /\ N \in Nat /\ M \in Nat /\ N <= M
      /\ \A k \in 0 .. N - 1 : G[k] = F[k]
      /\ \A k \in N .. M - 1 : G[k] = Blank
  BY LongerInOrder
<1>3. m \in 0 .. N /\ \A k \in 0 .. m - 1 : F[k].mark # "last"
  BY <1>1, MarkerIs
<1>4. /\ \A k \in 0 .. N - 1 : F[k].mark = "used" => k < m
      /\ \A k \in 0 .. N - 1 : F[k].mark = "last" => m <= k
  BY <1>1, FiledMarker
<1> HIDE DEF N, M, F, G, m
<1>5. \A k \in 0 .. m - 1 : G[k] = F[k]
  BY <1>2, <1>3
<1>6. ASSUME NEW k \in m .. M - 1 PROVE G[k].mark # "used"
  <2>1. CASE k < N
    <3>1. k \in 0 .. N - 1 /\ ~(k < m)
      BY <1>2, <1>3, <2>1
    <3> QED BY <1>2, <1>4, <3>1
  <2>2. CASE k >= N
    <3>1. k \in N .. M - 1
      BY <1>2, <1>3, <2>2
    <3> QED BY <1>2, <3>1, BlankIs
  <2> QED BY <1>2, <1>3, <2>1, <2>2
<1>7. ASSUME NEW k \in 0 .. M - 1, G[k].mark = "last" PROVE m <= k
  <2>1. CASE k < N
    <3>1. k \in 0 .. N - 1
      BY <1>2, <2>1
    <3> QED BY <1>2, <1>4, <1>7, <3>1
  <2>2. CASE k >= N
    BY <1>2, <1>3, <2>2
  <2> QED BY <1>2, <2>1, <2>2
<1> QED BY <1>2, <1>3, <1>4, <1>5, <1>6, <1>7 DEF N, M, F, G, m

\* What a search for a gap comes to.  Of one that left the directory no more is
\* said than what it kept.
GapFor(d, gap, size, es) ==
    /\ gap.ok \in BOOLEAN /\ Grew(d, gap.d) /\ gap.d.met \subseteq d.met \cup {"tail", "beyond", "outside"}
    /\ gap.start \in Nat /\ gap.end \in Int /\ gap.walk \in Seq(Nat)
    /\ gap.ok => gap.start <= gap.end
    /\ "outside" \notin gap.d.met =>
        /\ gap.walk = Path(gap.d)
        /\ Filed(InOrder(gap.d), Size(gap.d), es)
        /\ gap.ok =>
            /\ gap.end < Size(gap.d) /\ gap.end <= gap.start + size - 1
            /\ \A k \in gap.start .. gap.end : InOrder(gap.d)[k].mark # "used"
            /\ \A j \in gap.start .. gap.end : \A k \in 0 .. Size(gap.d) - 1 :
                  (InOrder(gap.d)[k].mark = "last" /\ k \notin gap.start .. gap.end) => j < k

LEMMA GapIs ==
    ASSUME NEW d, NEW r, NEW gap, NEW ok, NEW start, NEW end, gap = Gap(r, ok, start, end),
           Grew(d, r.d), r.d.met \subseteq d.met \cup {"tail", "beyond"}
    PROVE  /\ gap.ok = ok /\ gap.start = start /\ gap.end = end /\ gap.walk = r.walk
           /\ Grew(d, gap.d) /\ gap.d.met \subseteq d.met \cup {"tail", "beyond", "outside"}
           /\ "outside" \notin gap.d.met => gap.d = r.d /\ r.walk = Path(r.d)
<1> DEFINE w == [r.d EXCEPT !.met = @ \cup {"outside"}]
<1>1. r.d \in DiskT /\ Pathed(r.d.tab, Path(r.d))
  BY DEF Grew, Fit
<1>2. w \in DiskT /\ w.tab = r.d.tab /\ w.met = r.d.met \cup {"outside"}
  <2>1. r.d.met \cup {"outside"} \in SUBSET Trap
    BY <1>1 DEF DiskT, Trap
  <2> QED BY <1>1, <2>1 DEF DiskT
<1> HIDE DEF w
<1>3. Path(w) = Path(r.d)
  BY <1>1, <1>2, PathIs
<1>4. Grew(d, w)
  BY <1>2, <1>3, GrewSame
<1>5. gap.d = IF r.walk = Path(r.d) THEN r.d ELSE w
  BY DEF Gap, w
<1>6. gap.ok = ok /\ gap.start = start /\ gap.end = end /\ gap.walk = r.walk
  BY DEF Gap
<1> QED BY <1>2, <1>4, <1>5, <1>6

LEMMA GapAtMarkerIs ==
    ASSUME NEW d, Fit(d), NEW es, Filed(InOrder(d), Size(d), es), NEW r, Walked(d, r),
           NEW size \in Nat, NEW short \in 1 .. size, Marker(d) < Room(r)
    PROVE  GapFor(d, GapAtMarker(r, Marker(d), short), size, es)
<1> DEFINE m == Marker(d)
           far == Reaching(r, m + short)
           wide == far.d
           top == IF m + short < Room(far) THEN m + short ELSE Room(far) - 1
           new == [k \in m + 1 .. top |-> Blank]
           put == WrittenAlong(wide, far.walk, new)
           N == Size(d)
           M == Room(far)
           F == InOrder(d)
           G == InOrder(wide)
           H == InOrder(put)
           gap == GapAtMarker(r, m, short)
<1>1. Longer(d, wide) /\ far.walk \in Seq(Nat) /\ Len(r.walk) <= Len(far.walk) /\ Len(far.walk) \in Nat
  BY ReachingOn, LenProperties
<1>2. Fit(wide) /\ wide \in DiskT /\ Pathed(wide.tab, Path(wide))
  BY <1>1 DEF Longer, Fit
<1>3. N \in Nat /\ m \in 0 .. N /\ Len(r.walk) \in Nat
  <2>1. Len(r.walk) \in Nat
    BY LenProperties DEF Walked
  <2> QED BY <1>1, <2>1, LongerFiled
<1>5. M \in Nat /\ m < M
  <2>1. M \in Nat /\ Room(r) \in Nat /\ Room(r) <= M
    <3>1. M = Slots * Len(far.walk) /\ Room(r) = Slots * Len(r.walk) /\ Slots \in Nat
      BY DirNumbers DEF Room
    <3> HIDE DEF M, far
    <3> QED BY <1>1, <1>3, <3>1
  <2>2. m < Room(r)
    OBVIOUS
  <2> HIDE DEF m, M
  <2> QED BY <1>3, <2>1, <2>2
<1>50. m \in Nat /\ M \in Nat /\ short \in Nat /\ short >= 1 /\ size \in Nat /\ short <= size
  BY <1>3, <1>5
<1>6. gap = Gap(Walk(put, far.walk), m + short < M, m, m + short - 1)
  BY DEF GapAtMarker
<1>8. DOMAIN new = m + 1 .. top /\ \A k \in DOMAIN new : new[k] = Blank
  OBVIOUS
<1>9. top \in Int /\ top <= M - 1 /\ m + 1 .. top \subseteq 0 .. M - 1
  <2> HIDE DEF m
  <2>1. top = (IF m + short < M THEN m + short ELSE M - 1)
    OBVIOUS
  <2> HIDE DEF top, M
  <2> QED BY <1>5, <1>50, <2>1
<1>10. put \in DiskT /\ put.tab = wide.tab /\ put.met = wide.met /\ Path(put) = Path(wide)
  <2>1. DOMAIN new \subseteq Nat /\ \A k \in DOMAIN new : new[k] \in SlotT
    <3>1. 0 .. M - 1 \subseteq Nat
      BY <1>5
    <3> QED BY <1>8, <1>9, <3>1, BlankIs
  <2> HIDE DEF new, wide
  <2>2. put \in DiskT /\ put.tab = wide.tab /\ put.met = wide.met
    BY <1>2, <2>1, WrittenAlongIs
  <2> HIDE DEF put
  <2>3. Path(put) = Path(wide)
    BY <1>2, <2>2, PathIs
  <2> QED BY <2>2, <2>3
<1>11. Grew(d, put) /\ put.met \subseteq d.met \cup {"tail", "beyond"}
  <2>1. Grew(d, wide) /\ wide.met \subseteq d.met \cup {"tail", "beyond"}
    BY <1>1, LongerGrew DEF Longer
  <2> HIDE DEF put, wide
  <2> QED BY <1>10, <2>1, GrewSame
<1>7. /\ gap.ok = (m + short < M) /\ gap.start = m /\ gap.end = m + short - 1 /\ gap.walk = far.walk
      /\ Grew(d, gap.d) /\ gap.d.met \subseteq d.met \cup {"tail", "beyond", "outside"}
      /\ "outside" \notin gap.d.met => gap.d = put /\ far.walk = Path(put)
  <2> HIDE DEF put, m, M, gap, far
  <2>1. Walk(put, far.walk).d = put /\ Walk(put, far.walk).walk = far.walk
    BY WalkIs
  <2> QED BY <1>6, <1>11, <2>1, GapIs
<1>40. ASSUME far.walk = Path(put)
       PROVE  /\ M = Size(wide) /\ Size(put) = M
              /\ H = [k \in 0 .. M - 1 |-> IF k \in DOMAIN new THEN new[k] ELSE G[k]]
  <2>1. M = Size(wide)
    BY <1>10, <1>40 DEF Room, Size
  <2>2. put = Written(wide, new)
    BY <1>10, <1>40 DEF Written
  <2>3. DOMAIN new \subseteq 0 .. Size(wide) - 1 /\ \A k \in DOMAIN new : new[k] \in SlotT
    BY <1>8, <1>9, <2>1, BlankIs
  <2> HIDE DEF new, wide, put
  <2>4. /\ Size(Written(wide, new)) = Size(wide)
        /\ InOrder(Written(wide, new)) =
             [k \in 0 .. Size(wide) - 1 |-> IF k \in DOMAIN new THEN new[k] ELSE InOrder(wide)[k]]
    BY <1>2, <2>3, WrittenIs
  <2> QED BY <2>1, <2>2, <2>4
<1>4. /\ N <= Size(wide)
      /\ \A k \in 0 .. N - 1 : F[k].mark = "used" => k < m
      /\ \A k \in 0 .. m - 1 : F[k].mark # "last"
      /\ \A k \in 0 .. m - 1 : G[k] = F[k]
      /\ \A k \in m .. Size(wide) - 1 : G[k].mark # "used"
      /\ \A k \in 0 .. Size(wide) - 1 : G[k].mark = "last" => m <= k
  <2>1. Longer(d, wide)
    BY <1>1
  <2> HIDE DEF far, wide, put, top, new, M
  <2> QED BY <2>1, LongerFiled
<1>41. gap.ok \in BOOLEAN /\ gap.start \in Nat /\ gap.end \in Int /\ (gap.ok => gap.start <= gap.end)
       /\ gap.walk \in Seq(Nat)
  <2> HIDE DEF m, M, gap, far
  <2> QED BY <1>1, <1>7, <1>50
<1>42. CASE "outside" \in gap.d.met
  <2> HIDE DEF gap
  <2>1. GapFor(d, gap, size, es)
    BY <1>7, <1>41, <1>42 DEF GapFor
  <2> QED BY <2>1 DEF gap
<1>43. CASE "outside" \notin gap.d.met
  <2>1. gap.d = put /\ far.walk = Path(put)
    BY <1>7, <1>43
  <2>2. M = Size(wide) /\ Size(put) = M /\ H = [k \in 0 .. M - 1 |-> IF k \in DOMAIN new THEN new[k] ELSE G[k]]
    BY <1>40, <2>1
  <2>3. Filed(F, N, es)
    OBVIOUS
  <2> HIDE DEF m, top, N, M, F, G, H, new, put, wide, gap, far
  <2>4. /\ N <= M
        /\ \A k \in 0 .. N - 1 : F[k].mark = "used" => k < m
        /\ \A k \in 0 .. m - 1 : F[k].mark # "last"
        /\ \A k \in 0 .. m - 1 : G[k] = F[k]
        /\ \A k \in m .. M - 1 : G[k].mark # "used"
        /\ \A k \in 0 .. M - 1 : G[k].mark = "last" => m <= k
    BY <1>4, <2>2
  <2>13. \A k \in 0 .. M - 1 : H[k] = IF k \in m + 1 .. top THEN Blank ELSE G[k]
    BY <1>8, <2>2
  <2>14. /\ \A k \in 0 .. m - 1 : H[k] = F[k]
         /\ \A k \in m .. M - 1 : H[k].mark # "used"
         /\ \A k \in 0 .. M - 1 : H[k].mark = "last" => m <= k
    <3>1. ASSUME NEW k \in 0 .. m - 1 PROVE H[k] = F[k]
      <4>1. k \in 0 .. M - 1 /\ k \notin m + 1 .. top
        BY <1>5, <1>9, <1>50
      <4> QED BY <2>4, <2>13, <4>1
    <3>2. ASSUME NEW k \in m .. M - 1 PROVE H[k].mark # "used"
      <4>1. k \in 0 .. M - 1
        BY <1>50
      <4> QED BY <2>4, <2>13, <4>1, BlankIs
    <3>3. ASSUME NEW k \in 0 .. M - 1, H[k].mark = "last" PROVE m <= k
      <4>1. k \in m + 1 .. top => m <= k
        BY <1>9, <1>50
      <4> QED BY <2>4, <2>13, <3>3, <4>1
    <3> QED BY <3>1, <3>2, <3>3
  <2>15. Filed(H, M, es)
    <3>1. m \in 0 .. N /\ N \in Nat /\ M \in Nat /\ N <= M
      BY <1>3, <1>5, <2>4
    <3> QED BY <2>4, <2>3, <2>14, <3>1, FiledKept
  <2>16. ASSUME m + short < M
         PROVE  /\ m <= m + short - 1 /\ m + short - 1 < M /\ m + short - 1 <= m + size - 1
                /\ \A k \in m .. m + short - 1 : H[k].mark # "used"
                /\ \A j \in m .. m + short - 1 : \A k \in 0 .. M - 1 :
                      (H[k].mark = "last" /\ k \notin m .. m + short - 1) => j < k
    <3>1. m <= m + short - 1 /\ m + short - 1 < M /\ m + short - 1 <= m + size - 1
      BY <2>16, <1>50
    <3>2. ASSUME NEW k \in m .. m + short - 1 PROVE H[k].mark # "used"
      <4>1. k \in m .. M - 1
        BY <2>16, <1>50
      <4> QED BY <2>14, <4>1
    <3>3. ASSUME NEW j \in m .. m + short - 1, NEW k \in 0 .. M - 1,
                 H[k].mark = "last", k \notin m .. m + short - 1
          PROVE  j < k
      <4>1. m <= k
        BY <2>14, <3>3
      <4> QED BY <1>50, <3>3, <4>1
    <3> QED BY <3>1, <3>2, <3>3
  <2>17. InOrder(gap.d) = H /\ Size(gap.d) = M
    BY <2>1, <2>2 DEF H
  <2>18. GapFor(d, gap, size, es)
    BY <1>7, <1>41, <1>50, <2>1, <2>2, <2>15, <2>16, <2>17 DEF GapFor
  <2> QED BY <2>18 DEF gap, m
<1> QED BY <1>42, <1>43 DEF gap, m

LEMMA FindEntryGapIs ==
    ASSUME NEW d, Fit(d), NEW es, Filed(InOrder(d), Size(d), es), NEW size \in Nat, size >= 1
    PROVE  GapFor(d, FindEntryGap(d, size), size, es)
<1> DEFINE m == Marker(d)
           F == InOrder(d)
           N == Size(d)
           runs == FreeRuns(F, size, m)
           here == Walk(d, Path(d))
           reached == Reaching(here, m)
           gap == FindEntryGap(d, size)
<1>1. /\ N \in Nat /\ m \in 0 .. N
      /\ \A k \in 0 .. N - 1 : F[k].mark = "used" => k < m
      /\ \A k \in 0 .. N - 1 : F[k].mark = "last" => m <= k
  BY MarkerIs, FiledMarker, InOrderType DEF Fit
<1>2. Walked(d, reached) /\ Longer(d, reached.d) /\ reached.walk \in Seq(Nat) /\ Room(reached) \in Nat
  <2>1. Walked(d, reached)
    BY ReachingIs
  <2> HIDE DEF reached
  <2>2. reached.walk \in Seq(Nat) /\ Len(reached.walk) \in Nat
    BY <2>1, LenProperties DEF Walked
  <2> QED BY <2>1, <2>2, DirNumbers DEF Walked, Room
<1>6. here.d = d /\ here.walk = Path(d) /\ Path(d) \in Seq(Nat)
  <2>1. Path(d) \in Seq(Clusters) /\ \A x \in Clusters : x \in Nat
    BY Numbers DEF Fit, Pathed
  <2>2. Path(d) \in Seq(Nat)
    BY <2>1
  <2> QED BY <2>2, WalkIs
<1>3. CASE runs # {}
  <2> DEFINE g == Least(runs)
  <2>1. gap = Gap(here, TRUE, g, g + size - 1)
    BY <1>3 DEF FindEntryGap
  <2>2. runs \subseteq Nat
    BY DEF FreeRuns
  <2>3. g \in runs
    <3> HIDE DEF runs
    <3> QED BY <1>3, <2>2, LeastIs
  <2>4. Grew(d, d)
    BY LongerSelf, LongerGrew
  <2>5. Filed(F, N, es)
    OBVIOUS
  <2>6. g \in 0 .. m - size /\ \A k \in g .. g + size - 1 : F[k].mark = "free"
    BY <2>3 DEF FreeRuns
  <2> HIDE DEF m, F, N, runs, reached, gap, g, here
  <2>7. g \in Nat /\ g <= g + size - 1 /\ g + size - 1 < m /\ m <= N /\ m \in Nat /\ g + size - 1 \in Int
    BY <1>1, <2>6
  <2>8. \A j \in g .. g + size - 1 : \A k \in 0 .. N - 1 : F[k].mark = "last" => j < k
    <3> SUFFICES ASSUME NEW j \in g .. g + size - 1, NEW k \in 0 .. N - 1, F[k].mark = "last" PROVE j < k
      OBVIOUS
    <3>1. m <= k
      BY <1>1
    <3> QED BY <1>1, <2>7, <3>1
  <2>9. gap.d = d /\ gap.ok = TRUE /\ gap.start = g /\ gap.end = g + size - 1 /\ gap.walk = Path(d)
    <3> HIDE DEF here
    <3> QED BY <1>6, <2>1 DEF Gap
  <2>10. g + size - 1 < N
    BY <1>1, <2>7
  <2>11. InOrder(gap.d) = F /\ Size(gap.d) = N
    BY <2>9 DEF F, N
  <2> QED
    <3>1. GapFor(d, gap, size, es)
      <4>1. gap.ok \in BOOLEAN /\ Grew(d, gap.d) /\ gap.d.met \subseteq d.met \cup {"tail", "beyond", "outside"}
            /\ gap.walk \in Seq(Nat) /\ gap.walk = Path(gap.d)
        BY <1>6, <2>4, <2>9
      <4>2. gap.start \in Nat /\ gap.end \in Int
        BY <2>7, <2>9
      <4>3. \A k \in g .. g + size - 1 : F[k].mark # "used"
        BY <2>6
      <4> QED BY <2>5, <2>7, <2>8, <2>9, <2>10, <2>11, <4>1, <4>2, <4>3 DEF GapFor
    <3> QED BY <3>1 DEF gap
<1>4. CASE runs = {} /\ m >= Room(reached)
  <2>1. gap = Gap(reached, FALSE, m, m)
    BY <1>4 DEF FindEntryGap
  <2> HIDE DEF m, F, N, runs, gap, here
  <2>2. Grew(d, reached.d) /\ reached.d.met \subseteq d.met \cup {"tail", "beyond"}
    BY <1>2, LongerGrew DEF Longer
  <2> HIDE DEF reached
  <2> DEFINE no == FALSE
  <2>6. gap = Gap(reached, no, m, m)
    BY <2>1
  <2> HIDE DEF no
  <2>7. /\ gap.ok = no /\ gap.start = m /\ gap.end = m /\ gap.walk = reached.walk
        /\ Grew(d, gap.d) /\ gap.d.met \subseteq d.met \cup {"tail", "beyond", "outside"}
        /\ "outside" \notin gap.d.met => gap.d = reached.d /\ reached.walk = Path(reached.d)
    BY <2>6, <2>2, GapIs
  <2>3. /\ gap.ok = FALSE /\ gap.start = m /\ gap.end = m /\ gap.walk = reached.walk
        /\ Grew(d, gap.d) /\ gap.d.met \subseteq d.met \cup {"tail", "beyond", "outside"}
        /\ "outside" \notin gap.d.met => gap.d = reached.d /\ reached.walk = Path(reached.d)
    BY <2>7 DEF no
  <2>4. Filed(InOrder(reached.d), Size(reached.d), es)
    <3>1. /\ Size(d) \in Nat /\ Size(reached.d) \in Nat /\ Size(d) <= Size(reached.d) /\ Marker(d) \in 0 .. Size(d)
          /\ \A k \in 0 .. Size(d) - 1 : InOrder(d)[k].mark = "used" => k < Marker(d)
          /\ \A k \in 0 .. Marker(d) - 1 : InOrder(d)[k].mark # "last"
          /\ \A k \in 0 .. Marker(d) - 1 : InOrder(reached.d)[k] = InOrder(d)[k]
          /\ \A k \in Marker(d) .. Size(reached.d) - 1 : InOrder(reached.d)[k].mark # "used"
      BY <1>2, LongerFiled
    <3> QED BY <3>1, FiledKept
  <2>5. m \in Nat /\ m \in Int
    BY <1>1
  <2> QED
    <3>1. GapFor(d, gap, size, es)
      BY <1>2, <2>3, <2>4, <2>5 DEF GapFor
    <3> QED BY <3>1 DEF gap
<1>5. CASE runs = {} /\ ~(m >= Room(reached))
  <2>1. gap = GapAtMarker(reached, m, size - Trailing(F, size, m))
    BY <1>5 DEF FindEntryGap
  <2>2. Trailing(F, size, m) \in 0 .. size - 1
    <3>1. m \in Nat
      BY <1>1
    <3> HIDE DEF m, F
    <3> QED BY <1>5, <3>1, TrailingIs
  <2> DEFINE short == size - Trailing(F, size, m)
  <2>3. short \in 1 .. size
    BY <2>2
  <2>4. m \in Nat
    BY <1>1
  <2>5. Marker(d) < Room(reached)
    <3> HIDE DEF reached
    <3> QED BY <1>2, <1>5, <2>4
  <2> HIDE DEF short, reached
  <2>6. GapFor(d, GapAtMarker(reached, Marker(d), short), size, es)
    BY <1>2, <2>3, <2>5, GapAtMarkerIs
  <2> QED BY <2>1, <2>6 DEF short
<1> QED BY <1>3, <1>4, <1>5

-----------------------------------------------------------------------------
(* Adding and removing an entry                                            *)

\* What addEntry comes to, for a name that is not there.
AddedFor(d, a, n, c, dir, es) ==
    /\ a.ok \in BOOLEAN /\ Grew(d, a.d) /\ a.entry \in Entry /\ a.entry.new = NoName
    /\ a.d.met \subseteq {"tail", "beyond", "gap", "outside"}
    /\ "outside" \notin a.d.met => a.entry.end < Size(a.d)
    /\ a.ok => a.entry.name = n /\ a.entry.cluster = c /\ a.entry.dir = dir
    /\ (a.ok /\ "gap" \notin a.d.met /\ "outside" \notin a.d.met) =>
          Filed(InOrder(a.d), Size(a.d), es \cup {a.entry})
    /\ ~a.ok => a.entry = NoEntry /\ a.d.met \subseteq {"tail", "beyond", "outside"}
    /\ (~a.ok /\ "outside" \notin a.d.met) => Filed(InOrder(a.d), Size(a.d), es)

LEMMA NoEntryIs == NoEntry \in Entry /\ NoEntry.end = 0 /\ NoEntry.new = NoName /\ NoEntry.name = NoName
                   /\ NoEntry.cluster = FREE /\ NoEntry.dir = FALSE
BY Numbers DEF NoEntry, Entry

LEMMA FilledIs ==
    ASSUME NEW d, Fit(d), d.met = {}, NEW es, NEW n \in Names, NEW c \in Entries, NEW dir \in BOOLEAN,
           NEW gap, gap.ok, GapFor(d, gap, SlotsOf[n], es), \A f \in es : f.name # n
    PROVE  AddedFor(d, Filled(gap, n, c, dir), n, c, dir, es)
<1> DEFINE size == SlotsOf[n]
           b == gap.start
           x == gap.d
           M == Size(x)
           G == InOrder(x)
           alias == b + size - 1
           room == IF b < M THEN M ELSE Room(gap)
           top == IF alias < room THEN alias ELSE room - 1
           new == [k \in b .. top |-> NewSlot(n, k - b, c, dir)]
           put == WrittenAlong(x, gap.walk, new)
           more == (IF gap.end # alias THEN {"gap"} ELSE {})
           a == Filled(gap, n, c, dir)
           w == a.d
           e == [name |-> n, start |-> b, end |-> gap.end, cluster |-> c, dir |-> dir, new |-> NoName]
<1>1. a = [d |-> [put EXCEPT !.met = put.met \cup more], ok |-> TRUE, entry |-> e]
  BY DEF Filled
<1>2. a.ok = TRUE /\ a.entry = e /\ w = [put EXCEPT !.met = put.met \cup more]
  <2> HIDE DEF put, more, a, e
  <2> QED BY <1>1
<1>3. /\ Grew(d, x) /\ x.met \subseteq {"tail", "beyond", "outside"}
      /\ b \in Nat /\ gap.end \in Int /\ b <= gap.end /\ gap.walk \in Seq(Nat)
  BY DEF GapFor
<1>33. ASSUME "outside" \notin x.met
       PROVE  /\ gap.walk = Path(x) /\ Filed(G, M, es) /\ gap.end < M /\ gap.end <= alias
              /\ \A k \in b .. gap.end : G[k].mark # "used"
              /\ \A j \in b .. gap.end : \A k \in 0 .. M - 1 :
                    (G[k].mark = "last" /\ k \notin b .. gap.end) => j < k
  BY <1>33 DEF GapFor
<1>4. size \in Nat /\ size >= 1
  BY DirNumbers
<1>5. x \in DiskT /\ Pathed(x.tab, Path(x)) /\ M \in Nat /\ G \in [0 .. M - 1 -> SlotT]
  BY <1>3, InOrderType DEF Grew, Fit
<1>6. alias \in Int /\ room \in Int /\ top \in Int /\ top <= alias /\ top <= room - 1 /\ (alias < room => top = alias)
  <2>1. Room(gap) \in Nat
    <3>1. Len(gap.walk) \in Nat
      BY <1>3, LenProperties
    <3> QED BY <3>1, DirNumbers DEF Room
  <2>2. room = M \/ room = Room(gap)
    OBVIOUS
  <2>3. room \in Int
    <3> HIDE DEF M, room
    <3> QED BY <1>5, <2>1, <2>2
  <2> HIDE DEF b, M, size, room
  <2> QED BY <1>3, <1>4, <2>3
<1>7. DOMAIN new = b .. top /\ b .. top \subseteq Nat /\ \A k \in b .. top : new[k] = NewSlot(n, k - b, c, dir)
  <2>1. b .. top \subseteq Nat
    <3> HIDE DEF b, top
    <3> QED BY <1>3, <1>6
  <2> QED BY <2>1
<1>8. \A k \in b .. top : k - b \in 0 .. SlotsOf[n] - 1
  <2> SUFFICES ASSUME NEW k \in b .. top PROVE k - b \in 0 .. size - 1
    OBVIOUS
  <2> HIDE DEF top, size
  <2>1. top <= b + size - 1
    BY <1>6
  <2> HIDE DEF b
  <2> QED BY <1>3, <1>4, <1>6, <2>1
<1>9. \A k \in b .. top : new[k] \in SlotT /\ new[k].mark = "used"
  <2> SUFFICES ASSUME NEW k \in b .. top PROVE new[k] \in SlotT /\ new[k].mark = "used"
    OBVIOUS
  <2>1. k - b \in 0 .. SlotsOf[n] - 1 /\ new[k] = NewSlot(n, k - b, c, dir)
    BY <1>7, <1>8
  <2> HIDE DEF b, new
  <2> QED BY <2>1, NewSlotIs
<1>10. put \in DiskT /\ put.tab = x.tab /\ put.met = x.met /\ Path(put) = Path(x)
  <2>1. DOMAIN new \subseteq Nat /\ \A k \in DOMAIN new : new[k] \in SlotT
    BY <1>7, <1>9
  <2> HIDE DEF new, x
  <2>2. put \in DiskT /\ put.tab = x.tab /\ put.met = x.met
    BY <1>5, <2>1, WrittenAlongIs
  <2> HIDE DEF put
  <2> QED BY <1>5, <2>2, PathIs
<1>20. ASSUME "outside" \notin x.met
       PROVE  /\ room = M /\ Size(put) = M
              /\ InOrder(put) = [k \in 0 .. M - 1 |-> IF k \in b .. top THEN new[k] ELSE G[k]]
  <2>1. gap.walk = Path(x)
    BY <1>20, <1>33
  <2>2. room = M
    BY <2>1 DEF Room, Size
  <2>3. DOMAIN new \subseteq 0 .. Size(x) - 1 /\ \A k \in DOMAIN new : new[k] \in SlotT
    <3>1. b .. top \subseteq 0 .. M - 1
      <4> HIDE DEF b, top, M, room
      <4> QED BY <1>3, <1>5, <1>6, <2>2
    <3> QED BY <1>7, <1>9, <3>1
  <2>4. put = Written(x, new)
    BY <2>1 DEF Written
  <2> HIDE DEF new, x, put, room
  <2>5. /\ Size(Written(x, new)) = Size(x)
        /\ InOrder(Written(x, new)) =
             [k \in 0 .. Size(x) - 1 |-> IF k \in DOMAIN new THEN new[k] ELSE InOrder(x)[k]]
    BY <1>5, <2>3, WrittenIs
  <2> QED BY <1>7, <2>2, <2>4, <2>5
<1> HIDE DEF put, new
<1>11. w \in DiskT /\ w.tab = put.tab /\ w.slots = put.slots /\ w.met = x.met \cup more
  <2>1. more \subseteq Trap
    BY DEF Trap
  <2>2. w.tab = put.tab /\ w.slots = put.slots /\ w.met = put.met \cup more
    <3> HIDE DEF w, more
    <3> QED BY <1>2, <1>10 DEF DiskT
  <2>3. put.met \cup more \in SUBSET Trap
    <3> HIDE DEF more
    <3> QED BY <1>10, <2>1 DEF DiskT
  <2>4. w \in DiskT
    <3> HIDE DEF w, more
    <3> QED BY <1>2, <1>10, <2>3 DEF DiskT
  <2> HIDE DEF more
  <2> QED BY <1>10, <2>2, <2>4
<1>12. Path(w) = Path(x) /\ Size(w) = M /\ InOrder(w) = InOrder(put)
  <2>1. Pathed(put.tab, Path(put))
    BY <1>5, <1>10
  <2>2. Size(put) = M
    BY <1>10 DEF Size
  <2> HIDE DEF w
  <2> QED BY <1>10, <1>11, <2>1, <2>2, SameDisk
<1>13. Grew(d, w)
  <2>1. x.met \subseteq w.met
    BY <1>11
  <2> HIDE DEF w, x
  <2> QED BY <1>3, <1>10, <1>11, <1>12, <2>1, GrewSame
<1>14. e \in Entry /\ e.new = NoName /\ e.name = n /\ e.cluster = c /\ e.dir = dir /\ e.start = b
       /\ e.end = gap.end
  <2>1. gap.end \in Nat
    <3> HIDE DEF b
    <3> QED BY <1>3
  <2>2. c \in 0 .. LastCluster + 1
    BY DEF Entries
  <2> HIDE DEF b
  <2> QED BY <1>3, <2>1, <2>2 DEF Entry
<1>15. "outside" \notin w.met => "outside" \notin x.met /\ e.end < Size(w)
  <2> SUFFICES ASSUME "outside" \notin w.met PROVE "outside" \notin x.met /\ e.end < Size(w)
    OBVIOUS
  <2>1. "outside" \notin x.met
    BY <1>11
  <2> QED BY <1>12, <1>14, <1>33, <2>1
<1>17. w.met \subseteq {"tail", "beyond", "gap", "outside"}
  <2>1. more \subseteq {"gap"}
    OBVIOUS
  <2> HIDE DEF more, w
  <2> QED BY <1>3, <1>11, <2>1
<1>16. ASSUME "gap" \notin w.met, "outside" \notin w.met PROVE Filed(InOrder(w), Size(w), es \cup {e})
  <2>1. gap.end = alias
    BY <1>11, <1>16
  <2>20. "outside" \notin x.met
    BY <1>15, <1>16
  <2>21. /\ Filed(G, M, es) /\ gap.end < M
         /\ \A k \in b .. gap.end : G[k].mark # "used"
         /\ \A j \in b .. gap.end : \A k \in 0 .. M - 1 :
               (G[k].mark = "last" /\ k \notin b .. gap.end) => j < k
         /\ room = M
         /\ InOrder(put) = [k \in 0 .. M - 1 |-> IF k \in b .. top THEN new[k] ELSE G[k]]
    BY <1>20, <1>33, <2>20
  <2>2. top = gap.end /\ gap.end = b + size - 1
    <3>1. alias < room
      BY <2>1, <2>21
    <3>2. top = alias
      BY <1>6, <3>1
    <3> HIDE DEF top
    <3> QED BY <2>1, <3>2
  <2> DEFINE H == InOrder(w)
  <2> HIDE DEF room
  <2>3. H = [k \in 0 .. M - 1 |-> IF k \in b .. gap.end THEN new[k] ELSE G[k]]
    BY <1>12, <2>2, <2>21
  <2>4. b .. gap.end \subseteq 0 .. M - 1 /\ \A k \in b .. gap.end : new[k] = NewSlot(n, k - b, c, dir) /\ new[k].mark = "used"
    <3>1. b .. gap.end \subseteq 0 .. M - 1
      <4> HIDE DEF b, M
      <4> QED BY <1>3, <1>5, <2>21
    <3> HIDE DEF top
    <3> QED BY <1>7, <1>9, <2>2, <3>1
  <2>5. Run(e) = b .. gap.end
    BY <1>14 DEF Run
  <2> HIDE DEF H, G, M, w, x, b, e, top, alias
  <2>6. \A k \in 0 .. M - 1 : H[k] = IF k \in b .. gap.end THEN new[k] ELSE G[k]
    BY <2>3
  <2>7. \A k \in Run(e) : H[k] = NewSlot(e.name, k - e.start, e.cluster, e.dir)
    BY <1>14, <2>4, <2>5, <2>6
  <2>8. \A k \in 0 .. M - 1 : k \notin Run(e) => H[k] = G[k]
    BY <2>5, <2>6
  <2>9. ASSUME NEW j \in 0 .. M - 1, NEW k \in 0 .. M - 1, H[j].mark = "used", H[k].mark = "last"
        PROVE  j < k
    <3>1. k \notin b .. gap.end /\ G[k].mark = "last"
      BY <2>4, <2>6, <2>9
    <3>2. CASE j \in b .. gap.end
      BY <2>21, <3>1, <3>2
    <3>3. CASE j \notin b .. gap.end
      <4>1. G[j].mark = "used"
        BY <2>6, <2>9, <3>3
      <4> QED BY <2>21, <3>1, <4>1 DEF Filed
    <3> QED BY <3>2, <3>3
  <2>10. Filed(H, M, es \cup {e})
    <3>1. e \in Entry /\ e.name \in Names /\ e.new = NoName /\ e.end < M /\ \A f \in es : f.name # e.name
      BY <1>14, <2>21
    <3>2. e.end = e.start + SlotsOf[e.name] - 1
      BY <1>14, <2>2
    <3>3. \A k \in Run(e) : G[k].mark # "used"
      BY <2>5, <2>21
    <3> HIDE DEF e
    <3>4. \A k \in 0 .. M - 1 : (k \notin Run(e) /\ H[k].mark = "used") => k < M /\ G[k].mark = "used"
      BY <1>5, <2>8
    <3>5. \A k \in Run(e) : k < M => G[k].mark # "used"
      BY <3>3
    <3>6. \A k \in 0 .. M - 1 : (k \notin Run(e) /\ G[k].mark = "used") => H[k] = G[k]
      BY <2>8
    <3>7. M \in Nat /\ M <= M /\ Filed(G, M, es)
      BY <1>5, <2>21
    <3>8. \A j, k \in 0 .. M - 1 : (H[j].mark = "used" /\ H[k].mark = "last") => j < k
      BY <2>9
    <3> QED BY ONLY <2>7, <3>1, <3>2, <3>4, <3>5, <3>6, <3>7, <3>8, FiledMore
  <2> QED BY <1>12, <2>10 DEF H
<1>18. AddedFor(d, a, n, c, dir, es)
  <2>1. w.met \subseteq {"tail", "beyond", "gap", "outside"} /\ ("outside" \notin w.met => e.end < Size(w))
    BY <1>15, <1>17
  <2>2. ("gap" \notin w.met /\ "outside" \notin w.met) => Filed(InOrder(w), Size(w), es \cup {e})
    BY <1>16
  <2> HIDE DEF e, a
  <2> QED BY <1>2, <1>13, <1>14, <2>1, <2>2 DEF AddedFor
<1> QED BY <1>18

LEMMA AddedIs ==
    ASSUME NEW d, Fit(d), d.met = {}, NEW es, Filed(InOrder(d), Size(d), es),
           NEW n \in Names, NEW c \in Entries, NEW dir \in BOOLEAN, \A f \in es : f.name # n
    PROVE  AddedFor(d, Added(d, n, c, dir), n, c, dir, es)
<1> DEFINE gap == FindEntryGap(d, SlotsOf[n])
           a == Added(d, n, c, dir)
<1>1. GapFor(d, gap, SlotsOf[n], es)
  BY DirNumbers, FindEntryGapIs
<1>2. CASE gap.ok
  <2>1. a = Filled(gap, n, c, dir)
    BY <1>2 DEF Added
  <2> HIDE DEF gap, a
  <2>2. AddedFor(d, Filled(gap, n, c, dir), n, c, dir, es)
    BY <1>1, <1>2, FilledIs
  <2> QED BY <2>1, <2>2 DEF a
<1>3. CASE ~gap.ok
  <2>1. a = [d |-> gap.d, ok |-> FALSE, entry |-> NoEntry]
    BY <1>3 DEF Added
  <2> HIDE DEF gap, a
  <2>2. a.d = gap.d /\ a.ok = FALSE /\ a.entry = NoEntry
    BY <2>1
  <2>3. /\ Grew(d, gap.d) /\ gap.d.met \subseteq {"tail", "beyond", "outside"}
        /\ "outside" \notin gap.d.met => Filed(InOrder(gap.d), Size(gap.d), es)
    BY <1>1 DEF GapFor
  <2>4. 0 < Size(gap.d)
    BY <2>3, InOrderIs, DirNumbers DEF Grew, Fit
  <2>5. a.ok \in BOOLEAN /\ Grew(d, a.d) /\ a.entry \in Entry /\ a.entry.end < Size(a.d) /\ a.entry.new = NoName
    BY <2>2, <2>3, <2>4, NoEntryIs
  <2>6. a.d.met \subseteq {"tail", "beyond", "gap", "outside"}
    BY <2>2, <2>3
  <2>7. AddedFor(d, a, n, c, dir, es)
    BY <2>2, <2>3, <2>5, <2>6 DEF AddedFor
  <2> QED BY <2>7 DEF a
<1> QED BY <1>2, <1>3

\* What removeEntry comes to.
LEMMA RemovedIs ==
    ASSUME NEW d \in DiskT, Pathed(d.tab, Path(d)), NEW e \in Entry, e.end < Size(d)
    PROVE  /\ Removed(d, e) \in DiskT /\ Removed(d, e).tab = d.tab /\ Removed(d, e).ff = d.ff
           /\ Removed(d, e).met = d.met
           /\ Path(Removed(d, e)) = Path(d) /\ Size(Removed(d, e)) = Size(d)
           /\ \A k \in 0 .. Size(d) - 1 :
                InOrder(Removed(d, e))[k] = IF k \in Run(e) THEN [InOrder(d)[k] EXCEPT !.mark = "free"]
                                            ELSE InOrder(d)[k]
<1> DEFINE N == Size(d)
           F == InOrder(d)
           new == [k \in e.start .. e.end |-> [At(d, k) EXCEPT !.mark = "free"]]
<1>1. N \in Nat /\ F \in [0 .. N - 1 -> SlotT]
  BY InOrderType
<1>2. e.start \in Nat /\ e.end \in Nat /\ e.end < N
  BY DEF Entry
<1>3. DOMAIN new = Run(e) /\ Run(e) \subseteq 0 .. N - 1
  <2>1. e.start .. e.end \subseteq 0 .. N - 1
    <3> HIDE DEF N
    <3> QED BY <1>1, <1>2
  <2> QED BY <2>1 DEF Run
<1>4. \A k \in Run(e) : new[k] = [F[k] EXCEPT !.mark = "free"]
  <2>1. \A k \in 0 .. N - 1 : At(d, k) = F[k]
    BY InOrderIs
  <2>2. \A k \in Run(e) : new[k] = [At(d, k) EXCEPT !.mark = "free"]
    BY DEF Run
  <2> HIDE DEF new, N, F
  <2> QED BY <1>3, <2>1, <2>2
<1>5. \A k \in Run(e) : new[k] \in SlotT
  <2> SUFFICES ASSUME NEW k \in Run(e) PROVE new[k] \in SlotT
    OBVIOUS
  <2>1. new[k] = [F[k] EXCEPT !.mark = "free"] /\ F[k] \in SlotT
    BY <1>1, <1>3, <1>4
  <2> HIDE DEF new, F
  <2> QED BY <2>1 DEF SlotT
<1>6. Removed(d, e) = Written(d, new)
  BY DEF Removed
<1> HIDE DEF new
<1>7. /\ Written(d, new) \in DiskT
      /\ Written(d, new).tab = d.tab /\ Written(d, new).ff = d.ff /\ Written(d, new).met = d.met
      /\ Path(Written(d, new)) = Path(d) /\ Size(Written(d, new)) = Size(d)
      /\ InOrder(Written(d, new)) =
           [k \in 0 .. Size(d) - 1 |-> IF k \in DOMAIN new THEN new[k] ELSE InOrder(d)[k]]
  BY <1>3, <1>5, WrittenIs
<1> QED BY <1>3, <1>4, <1>6, <1>7

LEMMA FiledRemoved ==
    ASSUME NEW N \in Nat, NEW F, NEW es, Filed(F, N, es), NEW e \in es, NEW G,
           \A k \in 0 .. N - 1 : G[k] = IF k \in Run(e) THEN [F[k] EXCEPT !.mark = "free"] ELSE F[k]
    PROVE  Filed(G, N, es \ {e})
<1>1. /\ Run(e) \subseteq 0 .. N - 1
      /\ \A k \in Run(e) : F[k] \in SlotT
  BY FiledRun
<1>2. \A k \in Run(e) : G[k].mark = "free"
  <2> SUFFICES ASSUME NEW k \in Run(e) PROVE G[k].mark = "free"
    OBVIOUS
  <2>1. F[k] \in SlotT /\ G[k] = [F[k] EXCEPT !.mark = "free"]
    BY <1>1
  <2> QED BY <2>1 DEF SlotT
<1>3. \A k \in 0 .. N - 1 : G[k].mark # "free" => k \notin Run(e) /\ G[k] = F[k]
  BY <1>2
<1>4. ASSUME NEW f \in es \ {e}
      PROVE  /\ f \in Entry /\ f.name \in Names /\ f.new = NoName
             /\ f.end = f.start + SlotsOf[f.name] - 1 /\ f.end < N
             /\ \A k \in Run(f) : G[k] = NewSlot(f.name, k - f.start, f.cluster, f.dir)
  <2>1. /\ f \in Entry /\ f.name \in Names /\ f.new = NoName
        /\ f.end = f.start + SlotsOf[f.name] - 1 /\ f.end < N
        /\ Run(f) \subseteq 0 .. N - 1
        /\ \A k \in Run(f) : F[k] = NewSlot(f.name, k - f.start, f.cluster, f.dir)
    BY FiledRun
  <2>2. \A k \in Run(f) : k \notin Run(e)
    BY FiledApart
  <2> QED BY <2>1, <2>2
<1>5. \A f, h \in es \ {e} : f.name = h.name => f = h
  BY DEF Filed
<1>6. ASSUME NEW k \in 0 .. N - 1, G[k].mark = "used" PROVE \E f \in es \ {e} : k \in Run(f)
  <2>1. k \notin Run(e) /\ F[k].mark = "used"
    BY <1>3, <1>6
  <2>2. PICK f \in es : k \in Run(f)
    BY <2>1 DEF Filed
  <2> QED BY <2>1, <2>2
<1>7. \A j, k \in 0 .. N - 1 : (G[j].mark = "used" /\ G[k].mark = "last") => j < k
  BY <1>3 DEF Filed
<1> QED BY <1>4, <1>5, <1>6, <1>7 DEF Filed

\* The first cluster in an entry's slots is changed.
LEMMA FiledChanged ==
    ASSUME NEW N \in Nat, NEW F, NEW es, Filed(F, N, es), NEW e \in es, NEW x \in Entries, NEW G,
           \A k \in 0 .. N - 1 : G[k] = IF k = e.end THEN [F[k] EXCEPT !.cluster = x] ELSE F[k]
    PROVE  Filed(G, N, (es \ {e}) \cup {[e EXCEPT !.cluster = x]})
<1> DEFINE h == [e EXCEPT !.cluster = x]
<1>1. /\ e \in Entry /\ e.name \in Names /\ e.new = NoName
      /\ e.end = e.start + SlotsOf[e.name] - 1 /\ e.end < N /\ e.end \in Run(e) /\ e.end \in 0 .. N - 1
      /\ Run(e) \subseteq 0 .. N - 1
      /\ \A k \in Run(e) : /\ F[k] = NewSlot(e.name, k - e.start, e.cluster, e.dir)
                           /\ k - e.start \in 0 .. SlotsOf[e.name] - 1
                           /\ F[k].what = (IF k = e.end THEN "data" ELSE "long")
                           /\ F[k] \in SlotT
  BY FiledRun
<1>2. /\ h \in Entry /\ h.name = e.name /\ h.new = NoName /\ h.start = e.start /\ h.end = e.end
      /\ h.cluster = x /\ h.dir = e.dir /\ Run(h) = Run(e)
  BY <1>1 DEF Entry, Entries, Run
<1> HIDE DEF h
<1>3. ASSUME NEW k \in Run(h) PROVE G[k] = NewSlot(h.name, k - h.start, h.cluster, h.dir)
  <2> DEFINE i == k - e.start
  <2>1. /\ F[k] = NewSlot(e.name, i, e.cluster, e.dir) /\ k \in 0 .. N - 1
        /\ F[k].what = (IF k = e.end THEN "data" ELSE "long")
    BY <1>1, <1>2
  <2> HIDE DEF i
  <2>2. CASE k = e.end
    <3>1. F[k].what = "data"
      BY <2>1, <2>2
    <3>2. i = SlotsOf[e.name] - 1
      BY <2>1, <3>1 DEF NewSlot, Blank
    <3>3. NewSlot(e.name, i, x, e.dir) = [NewSlot(e.name, i, e.cluster, e.dir) EXCEPT !.cluster = x]
      BY <3>2 DEF NewSlot, Blank
    <3> QED BY <1>2, <2>1, <2>2, <3>3 DEF i
  <2>3. CASE k # e.end
    <3>1. F[k].what = "long"
      BY <2>1, <2>3
    <3>2. i # SlotsOf[e.name] - 1
      BY <2>1, <3>1 DEF NewSlot, Blank
    <3>3. NewSlot(e.name, i, x, e.dir) = NewSlot(e.name, i, e.cluster, e.dir)
      BY <3>2 DEF NewSlot
    <3> QED BY <1>2, <2>1, <2>3, <3>3 DEF i
  <2> QED BY <2>2, <2>3
<1>4. \A k \in 0 .. N - 1 : G[k].mark = F[k].mark
  <2>1. G[e.end] = [F[e.end] EXCEPT !.cluster = x] /\ F[e.end] \in SlotT
    BY <1>1
  <2>2. G[e.end].mark = F[e.end].mark
    BY <2>1 DEF SlotT
  <2> QED BY <2>2
<1>5. ASSUME NEW f \in es \ {e}
      PROVE  /\ f \in Entry /\ f.name \in Names /\ f.new = NoName
             /\ f.end = f.start + SlotsOf[f.name] - 1 /\ f.end < N
             /\ \A k \in Run(f) : G[k] = NewSlot(f.name, k - f.start, f.cluster, f.dir)
  <2>1. /\ f \in Entry /\ f.name \in Names /\ f.new = NoName
        /\ f.end = f.start + SlotsOf[f.name] - 1 /\ f.end < N
        /\ Run(f) \subseteq 0 .. N - 1
        /\ \A k \in Run(f) : F[k] = NewSlot(f.name, k - f.start, f.cluster, f.dir)
    BY FiledRun
  <2>2. \A k \in Run(f) : k \notin Run(e)
    BY FiledApart
  <2>3. \A k \in Run(f) : k # e.end
    BY <1>1, <2>2
  <2> QED BY <2>1, <2>3
<1>6. ASSUME NEW f \in (es \ {e}) \cup {h}
      PROVE  /\ f \in Entry /\ f.name \in Names /\ f.new = NoName
             /\ f.end = f.start + SlotsOf[f.name] - 1 /\ f.end < N
             /\ \A k \in Run(f) : G[k] = NewSlot(f.name, k - f.start, f.cluster, f.dir)
  <2>1. CASE f = h
    BY <1>1, <1>2, <1>3, <2>1
  <2>2. CASE f \in es \ {e}
    BY <1>5, <2>2
  <2> QED BY <1>6, <2>1, <2>2
<1>7. \A f, g \in (es \ {e}) \cup {h} : f.name = g.name => f = g
  BY <1>2 DEF Filed
<1>8. ASSUME NEW k \in 0 .. N - 1, G[k].mark = "used" PROVE \E f \in (es \ {e}) \cup {h} : k \in Run(f)
  <2>1. PICK f \in es : k \in Run(f)
    BY <1>4, <1>8 DEF Filed
  <2> QED BY <1>2, <2>1
<1>9. \A j, k \in 0 .. N - 1 : (G[j].mark = "used" /\ G[k].mark = "last") => j < k
  BY <1>4 DEF Filed
<1> QED BY <1>6, <1>7, <1>8, <1>9 DEF Filed, h

-----------------------------------------------------------------------------
(* Freeing chains                                                          *)

LEMMA CutIs ==
    ASSUME NEW d \in DiskT, NEW c \in Entries
    PROVE  /\ Cut(d, c) \in DiskT /\ Cut(d, c).slots = d.slots /\ Cut(d, c).met = d.met
           /\ \A x \in Clusters : Cut(d, c).tab[x] =
                 IF c \in Clusters /\ x \in Chain(d.tab, c) THEN FREE ELSE d.tab[x]
<1>1. d.tab \in Tables /\ d.tab \in Links /\ d.ff \in FIRST .. LastCluster + 1
  BY DEF DiskT, Tables
<1>2. CASE c \notin Clusters
  <2> DEFINE res == ClearLinks(d.tab, d.ff, c)
  <2>1. res = Result(d.tab, d.ff, c)
    BY <1>2 DEF ClearLinks
  <2>2. res.link = d.tab /\ res.firstFree = d.ff
    BY <2>1 DEF Result
  <2>3. CASE c = FREE
    <3>1. Cut(d, c) = d
      BY <2>3 DEF Cut
    <3> QED BY <1>2, <3>1
  <2>4. CASE c # FREE
    <3>1. Cut(d, c) = [d EXCEPT !.tab = res.link, !.ff = res.firstFree]
      BY <2>4 DEF Cut
    <3> HIDE DEF res
    <3>2. Cut(d, c) \in DiskT /\ Cut(d, c).slots = d.slots /\ Cut(d, c).met = d.met /\ Cut(d, c).tab = d.tab
      BY <1>1, <2>2, <3>1 DEF DiskT
    <3> QED BY <1>2, <3>2
  <2> QED BY <2>3, <2>4
<1>3. CASE c \in Clusters
  <2> DEFINE res == ClearLinks(d.tab, d.ff, c)
  <2>1. res.link \in Tables /\ res.firstFree \in FIRST .. LastCluster + 1
    BY <1>1, ClearLinksType
  <2>2. \A x \in Clusters : res.link[x] = IF x \in Chain(d.tab, c) THEN FREE ELSE d.tab[x]
    BY <1>1, ClearedIs
  <2>3. Cut(d, c) = [d EXCEPT !.tab = res.link, !.ff = res.firstFree]
    BY <1>3, Numbers DEF Cut
  <2> HIDE DEF res
  <2>4. Cut(d, c) \in DiskT /\ Cut(d, c).slots = d.slots /\ Cut(d, c).met = d.met /\ Cut(d, c).tab = res.link
    BY <2>1, <2>3 DEF DiskT
  <2> QED BY <1>3, <2>2, <2>4
<1> QED BY <1>2, <1>3

\* The chain of a cluster that the path does not go through is that cluster.
LEMMA ChainOff ==
    ASSUME NEW lk, NEW p, Flat(lk, p), NEW c \in Clusters, \A i \in 1 .. Len(p) : p[i] # c
    PROVE  Chain(lk, c) = {c}
<1>1. lk[c] \notin Clusters
  BY Numbers DEF Flat
<1>2. Chain(lk, c) \subseteq {c}
  <2>1. {c} \in SUBSET Clusters /\ c \in {c} /\ \A d \in {c} : lk[d] \notin Clusters
    BY <1>1
  <2> QED BY <2>1, ChainIsLeast
<1>3. c \in Chain(lk, c)
  BY ChainIsClosed
<1> QED BY <1>2, <1>3

\* That of a cluster of the path is the rest of the path.
LEMMA ChainOn ==
    ASSUME NEW lk, NEW p, Pathed(lk, p), NEW i \in 1 .. Len(p)
    PROVE  Chain(lk, p[i]) = {p[j] : j \in i .. Len(p)}
<1> DEFINE S == {p[j] : j \in i .. Len(p)}
           C == Chain(lk, p[i])
<1>1. Len(p) \in Nat /\ p \in [1 .. Len(p) -> Clusters]
  BY PathTypes
<1>2. C \subseteq S
  <2>1. S \in SUBSET Clusters
    BY <1>1
  <2>2. p[i] \in S
    BY <1>1
  <2>3. ASSUME NEW d \in S, lk[d] \in Clusters PROVE lk[d] \in S
    <3>1. PICK j \in i .. Len(p) : d = p[j]
      OBVIOUS
    <3>2. j # Len(p)
      BY <2>3, <3>1 DEF Pathed
    <3>3. j \in 1 .. Len(p) - 1 /\ j + 1 \in i .. Len(p)
      <4>1. Len(p) \in Nat /\ i \in 1 .. Len(p) /\ j \in i .. Len(p) /\ j # Len(p)
        BY <1>1, <3>2
      <4> QED BY ONLY <4>1
    <3>4. lk[d] = p[j + 1]
      BY <3>1, <3>3 DEF Pathed
    <3> QED BY <3>3, <3>4
  <2> HIDE DEF S
  <2> QED BY <2>1, <2>2, <2>3, ChainIsLeast
<1>3. S \subseteq C
  <2> DEFINE T == {k \in Nat : i + k <= Len(p) => p[i + k] \in C}
  <2>1. 0 \in T
    <3>1. p[i] \in C
      BY <1>1, ChainIsClosed
    <3>2. i + 0 = i
      BY <1>1
    <3> QED BY <3>1, <3>2
  <2>2. ASSUME NEW k \in Nat, k \in T PROVE k + 1 \in T
    <3> SUFFICES ASSUME i + (k + 1) <= Len(p) PROVE p[i + (k + 1)] \in C
      OBVIOUS
    <3>1. /\ i + k \in 1 .. Len(p) - 1 /\ i + k <= Len(p) /\ i + (k + 1) \in 1 .. Len(p)
          /\ (i + k) + 1 = i + (k + 1)
      BY <1>1
    <3>2. p[i + k] \in C
      BY <2>2, <3>1
    <3>3. lk[p[i + k]] = p[i + (k + 1)] /\ p[i + (k + 1)] \in Clusters
      BY <1>1, <3>1 DEF Pathed
    <3> QED BY <3>2, <3>3, ChainIsClosed
  <2>3. \A k \in Nat : k \in T
    <3> HIDE DEF T
    <3> QED BY <2>1, <2>2, SetInduction
  <2>4. ASSUME NEW j \in i .. Len(p) PROVE p[j] \in C
    <3>1. j - i \in Nat /\ i + (j - i) = j /\ j <= Len(p)
      BY <1>1
    <3>2. j - i \in T
      BY <2>3, <3>1
    <3> QED BY <3>1, <3>2
  <2> QED BY <2>4
<1> QED BY <1>2, <1>3

\* The path up to a cluster from which on it was freed.
LEMMA PathedCut ==
    ASSUME NEW lk, NEW p, Pathed(lk, p), Flat(lk, p), NEW i \in 1 .. Len(p), NEW lk2,
           \A x \in Clusters : lk2[x] = IF \E j \in i .. Len(p) : p[j] = x THEN FREE ELSE lk[x]
    PROVE  \E q : Pathed(lk2, q) /\ Flat(lk2, q) /\ Len(q) = i
<1> DEFINE q == SubSeq(p, 1, i)
<1>1. Len(p) \in Nat /\ p \in [1 .. Len(p) -> Clusters] /\ p \in Seq(Clusters)
  BY PathTypes DEF Pathed
<1>2. q \in Seq(Clusters) /\ Len(q) = i /\ \A j \in 1 .. i : q[j] = p[j] /\ j \in 1 .. Len(p)
  <2>1. i \in Int /\ 1 <= i /\ i <= Len(p)
    BY <1>1
  <2>2. q \in Seq(Clusters)
    BY <1>1, <2>1, SubSeqProperties
  <2>3. Len(q) = i /\ \A j \in 1 .. i : q[j] = p[j]
    BY <1>1, <2>1, SubSeqProperties
  <2> QED BY <1>1, <2>1, <2>2, <2>3
<1> HIDE DEF q
<1>3. FREE \notin Clusters
  BY Numbers
<1>4. q # <<>> /\ q[1] = RootCluster
  <2>1. p[1] = RootCluster
    BY DEF Pathed
  <2> QED BY <1>1, <1>2, <2>1
<1>5. \A j, k \in 1 .. Len(q) : q[j] = q[k] => j = k
  BY <1>2 DEF Pathed
<1>6. ASSUME NEW j \in 1 .. Len(q) - 1 PROVE lk2[q[j]] = q[j + 1]
  <2>1. j \in 1 .. Len(p) - 1 /\ j \in 1 .. i /\ j + 1 \in 1 .. i /\ j \in 1 .. Len(p) /\ j < i
    BY <1>1, <1>2
  <2>2. q[j] = p[j] /\ q[j + 1] = p[j + 1] /\ lk[p[j]] = p[j + 1] /\ p[j] \in Clusters
    BY <1>1, <1>2, <2>1 DEF Pathed
  <2>3. \A k \in i .. Len(p) : p[k] # p[j]
    <3> SUFFICES ASSUME NEW k \in i .. Len(p), p[j] = p[k] PROVE FALSE
      OBVIOUS
    <3>1. k \in 1 .. Len(p)
      BY <1>1
    <3>2. j = k
      BY <2>1, <3>1 DEF Pathed
    <3> QED BY <1>1, <2>1, <3>2
  <2> QED BY <2>2, <2>3
<1>7. lk2[q[Len(q)]] \notin Clusters
  <2>1. i \in i .. Len(p) /\ i \in 1 .. i
    BY <1>1
  <2>2. q[Len(q)] = p[i] /\ p[i] \in Clusters /\ \E j \in i .. Len(p) : p[j] = p[i]
    BY <1>1, <1>2, <2>1
  <2> QED BY <1>3, <2>2
<1>8. ASSUME NEW c \in Clusters, \A j \in 1 .. Len(q) : q[j] # c PROVE lk2[c] \in {FREE, EOF}
  <2>1. CASE \E j \in i .. Len(p) : p[j] = c
    BY <2>1
  <2>2. CASE ~\E j \in i .. Len(p) : p[j] = c
    <3>1. ASSUME NEW k \in 1 .. Len(p) PROVE p[k] # c
      <4>1. CASE k <= i
        <5>1. k \in 1 .. i
          BY <1>1, <4>1
        <5>2. q[k] = p[k] /\ k \in 1 .. Len(q)
          BY <1>2, <5>1
        <5> QED BY <1>8, <5>2
      <4>2. CASE k >= i
        <5>1. k \in i .. Len(p)
          BY <1>1, <4>2
        <5> QED BY <2>2, <5>1
      <4> QED BY <1>1, <4>1, <4>2
    <3>2. lk[c] \in {FREE, EOF}
      BY <3>1 DEF Flat
    <3> QED BY <2>2, <3>2
  <2> QED BY <2>1, <2>2
<1>9. Pathed(lk2, q) /\ Flat(lk2, q)
  BY <1>2, <1>4, <1>5, <1>6, <1>7, <1>8 DEF Pathed, Flat
<1> QED BY <1>2, <1>9

\* clearLinks for a cluster that is not the directory's.
LEMMA CutOff ==
    ASSUME NEW d, Fit(d), Flat(d.tab, Path(d)), NEW c \in Entries, \A i \in 1 .. Len(Path(d)) : Path(d)[i] # c
    PROVE  /\ Fit(Cut(d, c)) /\ Flat(Cut(d, c).tab, Path(d)) /\ Cut(d, c).met = d.met
           /\ Path(Cut(d, c)) = Path(d) /\ Size(Cut(d, c)) = Size(d)
           /\ InOrder(Cut(d, c)) = InOrder(d) /\ Listing(Cut(d, c)) = Listing(d)
           /\ \A x \in Clusters : Cut(d, c).tab[x] = IF x = c THEN FREE ELSE d.tab[x]
<1> DEFINE w == Cut(d, c)
           p == Path(d)
<1>1. d \in DiskT /\ Pathed(d.tab, p) /\ d.tab[Last(p)] # FREE
  BY DEF Fit
<1>2. /\ w \in DiskT /\ w.slots = d.slots /\ w.met = d.met
      /\ \A x \in Clusters : w.tab[x] = IF c \in Clusters /\ x \in Chain(d.tab, c) THEN FREE ELSE d.tab[x]
  BY <1>1, CutIs
<1> HIDE DEF w
<1>3. \A x \in Clusters : w.tab[x] = IF x = c THEN FREE ELSE d.tab[x]
  <2>1. c \in Clusters => Chain(d.tab, c) = {c}
    BY <1>1, ChainOff
  <2> QED BY <1>2, <2>1
<1>4. Len(p) \in Nat /\ Len(p) >= 1 /\ p \in [1 .. Len(p) -> Clusters]
  BY <1>1, PathTypes
<1>5. \A i \in 1 .. Len(p) : w.tab[p[i]] = d.tab[p[i]]
  BY <1>3, <1>4
<1>6. Last(p) = p[Len(p)] /\ Len(p) \in 1 .. Len(p)
  BY <1>4 DEF Last
<1>7. Pathed(w.tab, p)
  <2>1. \A i \in 1 .. Len(p) - 1 : w.tab[p[i]] = d.tab[p[i]]
    BY <1>4, <1>5
  <2>2. w.tab[p[Len(p)]] \notin Clusters
    BY <1>1, <1>5, <1>6 DEF Pathed
  <2> HIDE DEF p
  <2> QED BY <1>1, <2>1, <2>2, PathedSame
<1>11. Flat(w.tab, p)
  BY <1>3 DEF Flat
<1>8. Path(w) = p
  BY <1>7, PathIs
<1>9. Fit(w)
  BY <1>1, <1>2, <1>5, <1>6, <1>7, <1>8 DEF Fit
<1>10. Size(w) = Size(d) /\ InOrder(w) = InOrder(d) /\ Listing(w) = Listing(d)
  <2>1. Size(w) = Size(d) /\ InOrder(w) = InOrder(d)
    BY <1>1, <1>2, <1>8 DEF Size, InOrder
  <2> QED BY <2>1 DEF Listing
<1> QED BY <1>2, <1>3, <1>8, <1>9, <1>10, <1>11 DEF w

\* clearLinks for one that is.
LEMMA CutOn ==
    ASSUME NEW d \in DiskT, Pathed(d.tab, Path(d)), Flat(d.tab, Path(d)), NEW i \in 1 .. Len(Path(d)), NEW c, c = Path(d)[i]
    PROVE  /\ Cut(d, c) \in DiskT /\ Cut(d, c).met = d.met
           /\ Pathed(Cut(d, c).tab, Path(Cut(d, c))) /\ Flat(Cut(d, c).tab, Path(Cut(d, c)))
           /\ Size(Cut(d, c)) = Slots * i
<1> DEFINE w == Cut(d, c)
           p == Path(d)
<1>1. Len(p) \in Nat /\ p \in [1 .. Len(p) -> Clusters] /\ c \in Clusters /\ c \in Entries
  BY PathTypes, Numbers
<1>2. /\ w \in DiskT /\ w.met = d.met
      /\ \A x \in Clusters : w.tab[x] = IF c \in Clusters /\ x \in Chain(d.tab, c) THEN FREE ELSE d.tab[x]
  BY <1>1, CutIs
<1> HIDE DEF w
<1>3. Chain(d.tab, c) = {p[j] : j \in i .. Len(p)}
  BY ChainOn
<1>4. \A x \in Clusters : w.tab[x] = IF \E j \in i .. Len(p) : p[j] = x THEN FREE ELSE d.tab[x]
  <2>1. \A x : x \in Chain(d.tab, c) <=> \E j \in i .. Len(p) : p[j] = x
    BY <1>3
  <2> QED BY <1>1, <1>2, <2>1
<1>5. PICK q : Pathed(w.tab, q) /\ Flat(w.tab, q) /\ Len(q) = i
  <2> DEFINE lk == d.tab
             lk2 == w.tab
             r == Path(d)
  <2>1. /\ Pathed(lk, r) /\ Flat(lk, r) /\ i \in 1 .. Len(r)
        /\ \A x \in Clusters : lk2[x] = IF \E j \in i .. Len(r) : r[j] = x THEN FREE ELSE lk[x]
    BY <1>4
  <2> HIDE DEF lk, lk2, r
  <2>2. \E q : Pathed(lk2, q) /\ Flat(lk2, q) /\ Len(q) = i
    BY ONLY <2>1, PathedCut
  <2> QED BY <2>2 DEF lk2
<1>6. Path(w) = q
  BY <1>5, PathIs
<1>7. Size(w) = Slots * i
  BY <1>5, <1>6 DEF Size
<1> QED BY <1>2, <1>5, <1>6, <1>7 DEF w

\* A first cluster is linked.
LEMMA FirstIs ==
    ASSUME NEW d, Fit(d)
    PROVE  LET res == LinkedFree(d, FREE)
               n == res.cluster
               w == res.d
           IN  /\ Fit(w) /\ (Flat(d.tab, Path(d)) => Flat(w.tab, Path(w))) /\ n \in Entries /\ w.met \subseteq d.met \cup {"beyond"}
               /\ Path(w) = Path(d) /\ Size(w) = Size(d)
               /\ InOrder(w) = InOrder(d) /\ Listing(w) = Listing(d)
               /\ \/ /\ n \in Clusters /\ d.tab[n] = FREE
                     /\ \A i \in 1 .. Len(Path(d)) : Path(d)[i] # n
                     /\ \A x \in Clusters : w.tab[x] = IF x = n THEN EOF ELSE d.tab[x]
                  \/ "beyond" \in w.met
                  \/ n = FREE /\ w.tab = d.tab
<1> DEFINE res == LinkedFree(d, FREE)
           n == res.cluster
           w == res.d
           p == Path(d)
<1>1. d \in DiskT /\ Pathed(d.tab, p) /\ d.tab[Last(p)] # FREE
  BY DEF Fit
<1>2. /\ w \in DiskT /\ w.slots = d.slots /\ n \in Entries
      /\ \/ /\ n \in Clusters /\ d.tab[n] = FREE /\ w.met = d.met
            /\ \A x \in Clusters : w.tab[x] = IF x = n THEN EOF ELSE d.tab[x]
         \/ /\ n = LastCluster + 1 /\ w.met = d.met \cup {"beyond"}
            /\ \A x \in Clusters : w.tab[x] = d.tab[x]
         \/ n = FREE /\ w.met = d.met /\ w.tab = d.tab
  BY <1>1, LinkedFreeFirst
<1> HIDE DEF n, w, res
<1>3. Len(p) \in Nat /\ Len(p) >= 1 /\ p \in [1 .. Len(p) -> Clusters] /\ p # <<>>
  BY <1>1, PathTypes DEF Pathed
<1>4. Last(p) = p[Len(p)] /\ Len(p) \in 1 .. Len(p)
  BY <1>3 DEF Last
<1>5. (n \in Clusters /\ d.tab[n] = FREE) => \A i \in 1 .. Len(p) : p[i] # n
  BY <1>1, <1>4, PathInUse
<1>6. \A i \in 1 .. Len(p) : w.tab[p[i]] = d.tab[p[i]]
  BY <1>2, <1>3, <1>5
<1>7. Pathed(w.tab, p)
  <2>1. \A i \in 1 .. Len(p) - 1 : w.tab[p[i]] = d.tab[p[i]]
    BY <1>3, <1>6
  <2>2. w.tab[p[Len(p)]] \notin Clusters
    BY <1>1, <1>4, <1>6 DEF Pathed
  <2> HIDE DEF p
  <2> QED BY <1>1, <2>1, <2>2, PathedSame
<1>8. Path(w) = p
  BY <1>7, PathIs
<1>9. Fit(w)
  BY <1>1, <1>2, <1>4, <1>6, <1>7, <1>8 DEF Fit
<1>10. Size(w) = Size(d) /\ InOrder(w) = InOrder(d) /\ Listing(w) = Listing(d)
  <2>1. Size(w) = Size(d) /\ InOrder(w) = InOrder(d)
    BY <1>2, <1>8 DEF Size, InOrder
  <2> QED BY <2>1 DEF Listing
<1>11. w.met \subseteq d.met \cup {"beyond"} /\ (Flat(d.tab, p) => Flat(w.tab, p))
  BY <1>2 DEF Flat
<1>12. \/ /\ n \in Clusters /\ d.tab[n] = FREE
          /\ \A i \in 1 .. Len(p) : p[i] # n
          /\ \A x \in Clusters : w.tab[x] = IF x = n THEN EOF ELSE d.tab[x]
       \/ "beyond" \in w.met
       \/ n = FREE /\ w.tab = d.tab
  BY <1>2, <1>5
<1> QED BY <1>2, <1>8, <1>9, <1>10, <1>11, <1>12 DEF w, n, res

-----------------------------------------------------------------------------
(* What is owned; the steps of a call                                      *)

LEMMA GrewSize ==
    ASSUME NEW d, Fit(d), NEW w, Grew(d, w)
    PROVE  Size(d) \in Nat /\ Size(w) \in Nat /\ Size(d) <= Size(w) /\ 0 < Size(d)
<1>1. /\ Len(Path(d)) \in Nat /\ Len(Path(w)) \in Nat /\ Len(Path(d)) <= Len(Path(w))
  BY PathTypes DEF Fit, Grew
<1>2. Size(d) = Slots * Len(Path(d)) /\ Size(w) = Slots * Len(Path(w)) /\ Size(d) >= Slots
  BY InOrderIs DEF Fit, Grew
<1> QED BY <1>1, <1>2, TimesLess, DirNumbers

\* What is owned stays so when the directory grows.
LEMMA OwnedGrew ==
    ASSUME NEW d, Fit(d), NEW w, Grew(d, w), NEW es, OwnedApart(d.tab, Path(d), es)
    PROVE  OwnedApart(w.tab, Path(w), es)
<1>1. Len(Path(d)) \in Nat /\ Len(Path(w)) \in Nat
  BY PathTypes DEF Fit, Grew
<1>2. ASSUME NEW e \in es, e.cluster # FREE
      PROVE  /\ e.cluster \in Clusters /\ w.tab[e.cluster] = EOF
             /\ \A i \in 1 .. Len(Path(w)) : Path(w)[i] # e.cluster
  <2>1. /\ e.cluster \in Clusters /\ d.tab[e.cluster] = EOF
        /\ \A i \in 1 .. Len(Path(d)) : Path(d)[i] # e.cluster
    BY <1>2 DEF OwnedApart
  <2>2. d.tab[e.cluster] # FREE
    BY <2>1, Numbers
  <2>3. ASSUME NEW i \in 1 .. Len(Path(w)) PROVE Path(w)[i] # e.cluster
    <3>1. CASE i <= Len(Path(d))
      <4>1. i \in 1 .. Len(Path(d))
        BY <1>1, <3>1
      <4> QED BY <2>1, <4>1 DEF Grew
    <3>2. CASE i > Len(Path(d))
      <4>1. i \in Len(Path(d)) + 1 .. Len(Path(w))
        BY <1>1, <3>2
      <4> QED BY <2>2, <4>1 DEF Grew
    <3> QED BY <1>1, <3>1, <3>2
  <2>4. w.tab[e.cluster] = d.tab[e.cluster]
    BY <2>1, <2>2, <2>3 DEF Grew
  <2> QED BY <2>1, <2>3, <2>4
<1> QED BY <1>2 DEF OwnedApart

LEMMA AllOwnedGrew ==
    ASSUME NEW d, Fit(d), NEW w, Grew(d, w), "tail" \notin w.met, NEW es, AllOwned(d.tab, Path(d), es)
    PROVE  AllOwned(w.tab, Path(w), es)
<1> SUFFICES ASSUME NEW c \in Clusters, w.tab[c] # FREE, \A i \in 1 .. Len(Path(w)) : Path(w)[i] # c
             PROVE  \E e \in es : e.cluster = c
  BY DEF AllOwned
<1>1. Len(Path(d)) \in Nat /\ Len(Path(w)) \in Nat
  BY PathTypes DEF Fit, Grew
<1>2. d.tab[c] = w.tab[c]
  BY DEF Grew
<1>3. ASSUME NEW i \in 1 .. Len(Path(d)) PROVE Path(d)[i] # c
  <2>1. i \in 1 .. Len(Path(w)) /\ Path(w)[i] = Path(d)[i]
    BY <1>1 DEF Grew
  <2> QED BY <2>1
<1> QED BY <1>2, <1>3 DEF AllOwned

LEMMA BeforeGrew ==
    ASSUME NEW d, Fit(d), NEW w, Grew(d, w), NEW c, NEW k \in Nat, k < Size(d),
           \A i \in 1 .. Len(Path(d)) : Path(d)[i] = c => k < Slots * (i - 1)
    PROVE  \A i \in 1 .. Len(Path(w)) : Path(w)[i] = c => k < Slots * (i - 1)
<1> SUFFICES ASSUME NEW i \in 1 .. Len(Path(w)), Path(w)[i] = c PROVE k < Slots * (i - 1)
  OBVIOUS
<1>1. Len(Path(d)) \in Nat /\ Len(Path(w)) \in Nat
  BY PathTypes DEF Fit, Grew
<1>2. CASE i <= Len(Path(d))
  <2>1. i \in 1 .. Len(Path(d))
    BY <1>1, <1>2
  <2>2. Path(d)[i] = c
    BY <2>1 DEF Grew
  <2> QED BY <2>1, <2>2
<1>3. CASE i > Len(Path(d))
  <2>1. Len(Path(d)) <= i - 1 /\ i - 1 \in Nat
    BY <1>1, <1>3
  <2>2. Slots * Len(Path(d)) <= Slots * (i - 1)
    BY <1>1, <2>1, TimesLess, DirNumbers
  <2>3. Size(d) = Slots * Len(Path(d)) /\ Size(d) \in Nat
    BY InOrderIs DEF Fit
  <2>4. Slots * (i - 1) \in Nat
    BY <2>1, TimesLess, DirNumbers
  <2> QED BY <2>2, <2>3, <2>4
<1> QED BY <1>1, <1>2, <1>3

\* What the program and the card see when the directory becomes d.
LEMMA BecomesIs ==
    ASSUME card \in DiskT, card.met = {}, Pathed(card.tab, Path(card)),
           NEW d \in DiskT, Pathed(d.tab, Path(d)), NEW traps, Becomes(d, traps)
    PROVE  /\ mem' \in DiskT /\ mem'.met = {} /\ mem'.tab = d.tab /\ mem'.slots = d.slots
           /\ Path(mem') = Path(d) /\ Size(mem') = Size(d)
           /\ InOrder(mem') = InOrder(d) /\ Listing(mem') = Listing(d)
           /\ card' \in DiskT /\ card'.met = {} /\ card'.tab = card.tab /\ Path(card') = Path(card)
           /\ "tail" \notin d.met => \A c \in Clusters : card'.slots[c] =
                 IF c \in ToSet(Path(d)) \ ToSet(Path(mem)) THEN BlankCluster ELSE card.slots[c]
           /\ upset' = (upset \cup d.met) \cup traps
<1>1. mem' = [d EXCEPT !.met = {}]
  BY DEF Becomes
<1>2. mem' \in DiskT /\ mem'.met = {} /\ mem'.tab = d.tab /\ mem'.slots = d.slots
  BY <1>1 DEF DiskT
<1>3. /\ Path(mem') = Path(d) /\ Size(mem') = Size(d)
      /\ InOrder(mem') = InOrder(d) /\ Listing(mem') = Listing(d)
  BY <1>2, SameDisk
<1> DEFINE put == [c \in Clusters |->
                     IF c \in Wiped(d) THEN BlankCluster ELSE card.slots[c]]
<1>4. card' = [card EXCEPT !.slots = put]
  BY DEF Becomes
<1>5. BlankCluster \in [0 .. Slots - 1 -> SlotT]
  BY BlankIs DEF BlankCluster
<1>6. card.slots \in [Clusters -> [0 .. Slots - 1 -> SlotT]]
  BY DEF DiskT
<1>7. put \in [Clusters -> [0 .. Slots - 1 -> SlotT]]
  <2> SUFFICES ASSUME NEW c \in Clusters
               PROVE  (IF c \in Wiped(d) THEN BlankCluster ELSE card.slots[c])
                        \in [0 .. Slots - 1 -> SlotT]
    OBVIOUS
  <2> QED BY <1>5, <1>6
<1>8. \A c \in Clusters : put[c] = IF c \in Wiped(d) THEN BlankCluster ELSE card.slots[c]
  OBVIOUS
<1>12. "tail" \notin d.met =>
         \A c \in Clusters : c \in Wiped(d) <=> c \in ToSet(Path(d)) \ ToSet(Path(mem))
  BY DEF Wiped
<1> HIDE DEF put
<1>9. card' \in DiskT /\ card'.met = {} /\ card'.tab = card.tab /\ card'.slots = put
  BY <1>4, <1>7 DEF DiskT
<1>10. Path(card') = Path(card)
  BY <1>9, PathIs
<1>11. upset' = (upset \cup d.met) \cup traps
  BY DEF Becomes
<1> QED BY <1>2, <1>3, <1>8, <1>9, <1>10, <1>11, <1>12

\* Ready means that the directory is as it should be.
LEMMA ReadyIs ==
    ASSUME DirInv, Ready
    PROVE  /\ upset \subseteq {"leak", "empty"} /\ pc = "idle"
           /\ mem \in DiskT /\ mem.met = {} /\ Fit(mem) /\ Flat(mem.tab, Path(mem)) /\ handle.end < Size(mem)
           /\ Filed(InOrder(mem), Size(mem), Listing(mem))
           /\ Lists(pc, op, handle, names, Listing(mem))
           /\ Owns(upset, pc, op, handle, mem.tab, Path(mem), Listing(mem))
           /\ Owners(pc, op, handle, Listing(mem)) = Held(handle, Listing(mem))
           /\ Listing(mem) \subseteq Entry
<1>4. upset \subseteq {"leak", "empty"} /\ pc = "idle"
  BY DEF Ready
<1>5. /\ "stray" \notin upset /\ "tail" \notin upset /\ "outside" \notin upset
      /\ upset \cap {"gap", "outside", "stray", "torn"} = {}
  BY <1>4
<1>6. /\ mem \in DiskT /\ mem.met = {} /\ Pathed(mem.tab, Path(mem)) /\ mem.tab[Last(Path(mem))] # FREE
      /\ Flat(mem.tab, Path(mem)) /\ handle.end < Size(mem)
  BY <1>5 DEF DirInv, TypeInv, PathInv
<1>7. Filed(InOrder(mem), Size(mem), Listing(mem)) /\ Lists(pc, op, handle, names, Listing(mem))
  BY <1>5 DEF DirInv, ListInv
<1>8. Owns(upset, pc, op, handle, mem.tab, Path(mem), Listing(mem))
  BY <1>4 DEF DirInv, OwnInv
<1>9. Owners(pc, op, handle, Listing(mem)) = Held(handle, Listing(mem))
  BY <1>4 DEF Owners
<1>10. Listing(mem) \subseteq Entry
  BY <1>6, ListingIs
<1> QED BY <1>4, <1>6, <1>7, <1>8, <1>9, <1>10 DEF Fit

LEMMA BecomesFit ==
    ASSUME DirInv, NEW d \in DiskT, Pathed(d.tab, Path(d)), NEW traps \in SUBSET Trap, Becomes(d, traps),
           "stray" \notin upset' => d.tab[Last(Path(d))] # FREE,
           "tail" \notin upset' => Flat(d.tab, Path(d))
    PROVE  /\ mem' \in DiskT /\ card' \in DiskT /\ mem'.met = {} /\ card'.met = {} /\ upset' \subseteq Trap
           /\ Pathed(mem'.tab, Path(mem')) /\ Pathed(card'.tab, Path(card'))
           /\ "stray" \notin upset' => mem'.tab[Last(Path(mem'))] # FREE /\ card'.tab[Last(Path(card'))] # FREE
           /\ "tail" \notin upset' => Flat(mem'.tab, Path(mem')) /\ Flat(card'.tab, Path(card'))
<1>1. card \in DiskT /\ card.met = {} /\ Pathed(card.tab, Path(card)) /\ upset \subseteq Trap
  BY DEF DirInv, TypeInv, PathInv
<1>2. /\ mem' \in DiskT /\ mem'.met = {} /\ mem'.tab = d.tab /\ Path(mem') = Path(d)
      /\ card' \in DiskT /\ card'.met = {} /\ card'.tab = card.tab /\ Path(card') = Path(card)
      /\ upset' = (upset \cup d.met) \cup traps
  BY <1>1, BecomesIs
<1>3. upset' \subseteq Trap
  BY <1>1, <1>2 DEF DiskT
<1>4. "stray" \notin upset' => card.tab[Last(Path(card))] # FREE
  BY <1>2 DEF DirInv, PathInv
<1>5. "tail" \notin upset' => Flat(card.tab, Path(card))
  BY <1>2 DEF DirInv, PathInv
<1> QED BY <1>1, <1>2, <1>3, <1>4, <1>5

LEMMA TouchedType ==
    ASSUME synced \in [Names -> Entries \cup {Absent}], NEW ns
    PROVE  Touched(ns) \in [Names -> Entries \cup {Absent}]
BY DEF Touched

\* A directory whose slots are all blank.
LEMMA EmptyListing ==
    ASSUME NEW d \in DiskT, Pathed(d.tab, Path(d)), \A c \in Clusters : d.slots[c] = BlankCluster
    PROVE  Listing(d) = {} /\ Filed(InOrder(d), Size(d), {})
<1>1. Size(d) \in Nat /\ Size(d) = Slots * Len(Path(d)) /\ InOrder(d) = Along(Path(d), d.slots)
  BY InOrderIs
<1>2. Len(Path(d)) \in Nat /\ Path(d) \in [1 .. Len(Path(d)) -> Clusters]
  BY PathTypes
<1>3. ASSUME NEW k \in 0 .. Size(d) - 1 PROVE InOrder(d)[k] = Blank
  <2>1. k \in 0 .. Slots * Len(Path(d)) - 1
    BY <1>1
  <2>2. k \div Slots + 1 \in 1 .. Len(Path(d)) /\ k % Slots \in 0 .. Slots - 1
    BY <1>2, <2>1, Position
  <2>3. d.slots[Path(d)[k \div Slots + 1]] = BlankCluster
    BY <1>2, <2>2
  <2>4. InOrder(d)[k] = BlankCluster[k % Slots]
    BY <1>1, <2>1, <2>3 DEF Along
  <2> QED BY <2>2, <2>4 DEF BlankCluster
<1>4. \A k \in 0 .. Size(d) - 1 : InOrder(d)[k].mark # "used"
  BY <1>3, BlankIs
<1>5. Filed(InOrder(d), Size(d), {})
  BY <1>4 DEF Filed
<1> QED BY <1>5, FiledListing

LEMMA FormattedIs ==
    /\ Formatted \in DiskT /\ Formatted.met = {} /\ Fit(Formatted) /\ Path(Formatted) = <<RootCluster>>
    /\ Flat(Formatted.tab, Path(Formatted))
    /\ \A c \in Clusters : Formatted.slots[c] = BlankCluster
    /\ \A c \in Clusters : Formatted.tab[c] = IF c = RootCluster THEN EOF ELSE FREE
<1> DEFINE lk == Put(EmptyTable, RootCluster, EOF)
           d == Formatted
           p == <<RootCluster>>
<1>1. EmptyTable \in Tables /\ \A c \in Clusters : EmptyTable[c] = FREE
  BY Numbers DEF EmptyTable, Tables, Links
<1>2. RootCluster \in Clusters /\ RootCluster \in Entries /\ FIRST \in FIRST .. LastCluster + 1
  BY DirNumbers, Numbers
<1>3. lk \in Tables
  BY <1>1, <1>2, PutType
<1>4. \A c \in Clusters : lk[c] = IF c = RootCluster THEN EOF ELSE FREE
  <2>1. EmptyTable \in [Entries -> Entries \cup {EOF}]
    BY <1>1 DEF Tables, Links
  <2> QED BY <1>1, <1>2, <2>1, Numbers DEF Put
<1>5. d = [tab |-> lk, ff |-> FIRST, slots |-> [c \in Clusters |-> BlankCluster], met |-> {}]
  BY DEF Formatted
<1>6. BlankCluster \in [0 .. Slots - 1 -> SlotT]
  BY BlankIs DEF BlankCluster
<1> HIDE DEF lk, d
<1>7. d \in DiskT /\ d.met = {} /\ d.tab = lk /\ \A c \in Clusters : d.slots[c] = BlankCluster
  BY <1>2, <1>3, <1>5, <1>6 DEF DiskT
<1>8. /\ p \in Seq(Clusters) /\ p # <<>> /\ Len(p) = 1 /\ p[1] = RootCluster /\ Last(p) = RootCluster
  BY <1>2 DEF Last
<1>9. Pathed(lk, p)
  BY <1>2, <1>4, <1>8, Numbers DEF Pathed
<1>10. Path(d) = p
  BY <1>7, <1>9, PathIs
<1>11. Fit(d)
  BY <1>2, <1>4, <1>7, <1>8, <1>9, <1>10, Numbers DEF Fit
<1>12. Flat(lk, p)
  BY <1>4 DEF Flat
<1> QED BY <1>4, <1>7, <1>10, <1>11, <1>12 DEF d

LEMMA InvHolds == DirInit => DirInv
<1> SUFFICES ASSUME DirInit PROVE DirInv
  OBVIOUS
<1>1. /\ pc = "idle" /\ op = NoEntry /\ mem = Formatted /\ card = Formatted /\ handle = NoEntry
      /\ names = [n \in Names |-> Absent] /\ synced = names /\ cuts = 0 /\ upset = {}
  BY DEF DirInit
<1>2. mem \in DiskT /\ mem.met = {} /\ Fit(mem) /\ Path(mem) = <<RootCluster>> /\ Flat(mem.tab, Path(mem))
  BY <1>1, FormattedIs
<1>3. Listing(mem) = {} /\ Filed(InOrder(mem), Size(mem), {})
  BY <1>1, <1>2, FormattedIs, EmptyListing DEF Fit
<1>4. TypeInv
  BY <1>1, <1>2, NoEntryIs DEF TypeInv
<1>5. 0 < Size(mem)
  BY <1>2, InOrderIs, DirNumbers DEF Fit
<1>6. PathInv
  BY <1>1, <1>2, <1>5, NoEntryIs DEF PathInv, Fit
<1>7. StepInv
  BY <1>1 DEF StepInv
<1>8. Lists(pc, op, handle, names, Listing(mem))
  <2>1. \A n \in Names : Stands({}, n, names[n])
    BY <1>1 DEF Named, Stands
  <2> QED BY <1>1, <1>3, <2>1 DEF Lists
<1>9. ListInv
  BY <1>3, <1>8 DEF ListInv
<1>10. Owners(pc, op, handle, Listing(mem)) = {}
  BY <1>1, <1>3 DEF Owners, Held
<1>11. OwnedApart(mem.tab, Path(mem), {})
  BY DEF OwnedApart
<1>12. AllOwned(mem.tab, Path(mem), {})
  <2>1. \A c \in Clusters : mem.tab[c] # FREE => c = RootCluster
    BY <1>1, FormattedIs
  <2>2. 1 \in 1 .. Len(Path(mem)) /\ Path(mem)[1] = RootCluster
    BY <1>2
  <2> QED BY <2>1, <2>2 DEF AllOwned
<1>13. OwnInv
  BY <1>3, <1>10, <1>11, <1>12 DEF OwnInv, Owns
<1> QED BY <1>4, <1>6, <1>7, <1>9, <1>13 DEF DirInv

-----------------------------------------------------------------------------
(* The steps of the calls keep the invariant                               *)

\* An entry for a new name is listed with the others.
LEMMA ListsMore ==
    ASSUME NEW es, NEW ns, NEW ns2, NEW e, NEW n \in Names,
           \A f \in es : f.name # n, e.name = n, e.cluster \in Entries,
           \A x \in Names : ns2[x] = IF x = n THEN e.cluster ELSE ns[x],
           \A x \in Names : Stands(es, x, ns[x])
    PROVE  \A x \in Names : Stands(es \cup {e}, x, ns2[x])
<1> SUFFICES ASSUME NEW x \in Names PROVE Stands(es \cup {e}, x, ns2[x])
  OBVIOUS
<1>1. CASE x = n
  <2>1. Named(es \cup {e}, x) = {e}
    BY <1>1 DEF Named
  <2>2. e.cluster # Absent
    BY DirNumbers, Numbers
  <2>3. ns2[x] = e.cluster
    BY <1>1
  <2>4. {f.cluster : f \in {e}} = {e.cluster} \ {Absent}
    BY <2>2
  <2> QED BY <2>1, <2>3, <2>4 DEF Stands
<1>2. CASE x # n
  <2>1. Named(es \cup {e}, x) = Named(es, x)
    BY <1>2 DEF Named
  <2>2. ns2[x] = ns[x]
    BY <1>2
  <2>3. Stands(es, x, ns[x])
    OBVIOUS
  <2> QED BY <2>1, <2>2, <2>3 DEF Stands
<1> QED BY <1>1, <1>2

LEMMA OpenStep ==
    ASSUME DirInv, NEW n \in Names, NEW trunc \in BOOLEAN, Open(n, trunc)
    PROVE  DirInv'
<1> DEFINE es == Listing(mem)
<1>1. /\ upset \subseteq {"leak", "empty"} /\ pc = "idle"
      /\ mem \in DiskT /\ mem.met = {} /\ Fit(mem) /\ Pathed(mem.tab, Path(mem))
      /\ Flat(mem.tab, Path(mem)) /\ handle.end < Size(mem)
      /\ Filed(InOrder(mem), Size(mem), es)
      /\ Lists(pc, op, handle, names, es)
      /\ Owns(upset, pc, op, handle, mem.tab, Path(mem), es)
      /\ Owners(pc, op, handle, es) = Held(handle, es)
      /\ es \subseteq Entry
  BY ReadyIs DEF Open, Fit
<1>2. handle = NoEntry /\ handle' = handle /\ cuts' = cuts /\ synced' = Touched({n})
  BY DEF Open
<1>3. synced' \in [Names -> Entries \cup {Absent}]
  BY <1>2, TouchedType DEF DirInv, TypeInv
<1>4. Held(handle, es) = es
  BY <1>2 DEF Held
<1>5. CASE Exists(mem, n)
  <2>1. /\ pc' \in {"truncating", "opening"} /\ op' = Found(mem, n) /\ ~Found(mem, n).dir
        /\ mem' = mem /\ card' = card /\ names' = names /\ upset' = upset
    BY <1>5 DEF Open
  <2>2. op' \in es /\ op'.name = n
    BY <1>1, <1>5, <2>1, FoundIs
  <2>3. op' \in Entry /\ op'.end < Size(mem)
    BY <1>1, <2>2, ListingIs
  <2>4. TypeInv'
    BY <1>2, <1>3, <2>1, <2>2, <2>3 DEF DirInv, TypeInv
  <2>5. PathInv'
    BY <1>2, <2>1, <2>3 DEF DirInv, PathInv
  <2>6. StepInv'
    BY <1>1, <2>1 DEF DirInv, StepInv
  <2>7. Lists(pc', op', handle', names', es)
    BY <1>1, <1>2, <2>1, <2>2 DEF Lists
  <2>8. ListInv'
    BY <1>1, <2>1, <2>7 DEF ListInv
  <2>9. Owners(pc', op', handle', es) = Held(handle, es)
    BY <1>2, <2>1 DEF Owners
  <2>10. Owns(upset', pc', op', handle', mem.tab, Path(mem), es)
    BY <1>1, <1>2, <2>1, <2>9 DEF Owns
  <2>11. OwnInv'
    BY <2>1, <2>10 DEF OwnInv
  <2> QED BY <2>4, <2>5, <2>6, <2>8, <2>11 DEF DirInv
<1>6. CASE ~Exists(mem, n)
  <2>1. PICK a \in {Added(mem, n, FREE, FALSE)} :
          /\ Becomes(a.d, {}) /\ op' = a.entry
          /\ IF a.ok THEN pc' = "opening" /\ names' = [names EXCEPT ![n] = FREE]
             ELSE UNCHANGED <<pc, names>>
    BY <1>6 DEF Open
  <2>2. \A f \in es : f.name # n
    BY <1>6 DEF Exists, Named
  <2>3. FREE \in Entries
    BY Numbers
  <2>4. AddedFor(mem, a, n, FREE, FALSE, es)
    BY <1>1, <2>1, <2>2, <2>3, AddedIs
  <2> DEFINE w == a.d
  <2> HIDE DEF w
  <2>5. /\ a.ok \in BOOLEAN /\ Grew(mem, w) /\ a.entry \in Entry
        /\ a.entry.new = NoName
        /\ w.met \subseteq {"tail", "beyond", "gap", "outside"}
        /\ "outside" \notin w.met => a.entry.end < Size(w)
        /\ a.ok => a.entry.name = n /\ a.entry.cluster = FREE /\ a.entry.dir = FALSE
        /\ (a.ok /\ "gap" \notin w.met /\ "outside" \notin w.met) => Filed(InOrder(w), Size(w), es \cup {a.entry})
        /\ ~a.ok => a.entry = NoEntry
        /\ (~a.ok /\ "outside" \notin w.met) => Filed(InOrder(w), Size(w), es)
    BY <2>4 DEF AddedFor, w
  <2>6. Becomes(w, {})
    BY <2>1 DEF w
  <2>7. w \in DiskT /\ Pathed(w.tab, Path(w)) /\ w.tab[Last(Path(w))] # FREE
    BY <2>5 DEF Grew, Fit
  <2>8. card \in DiskT /\ card.met = {} /\ Pathed(card.tab, Path(card))
    BY DEF DirInv, TypeInv, PathInv
  <2>9. /\ mem' \in DiskT /\ mem'.met = {} /\ mem'.tab = w.tab /\ mem'.slots = w.slots
        /\ Path(mem') = Path(w) /\ Size(mem') = Size(w)
        /\ InOrder(mem') = InOrder(w) /\ Listing(mem') = Listing(w)
        /\ upset' = upset \cup w.met
    BY <2>6, <2>7, <2>8, BecomesIs
  <2>10. /\ mem' \in DiskT /\ card' \in DiskT /\ mem'.met = {} /\ card'.met = {} /\ upset' \subseteq Trap
         /\ Pathed(mem'.tab, Path(mem')) /\ Pathed(card'.tab, Path(card'))
         /\ "stray" \notin upset' => mem'.tab[Last(Path(mem'))] # FREE /\ card'.tab[Last(Path(card'))] # FREE
         /\ "tail" \notin upset' => Flat(mem'.tab, Path(mem')) /\ Flat(card'.tab, Path(card'))
    <3>1. "tail" \notin upset' => Flat(w.tab, Path(w))
      BY <1>1, <2>5, <2>9, FlatGrew
    <3> QED BY <2>6, <2>7, <3>1, BecomesFit
  <2>11. pc' = (IF a.ok THEN "opening" ELSE "idle") /\ op' = a.entry
         /\ names' = (IF a.ok THEN [names EXCEPT ![n] = FREE] ELSE names)
    BY <1>1, <2>1
  <2>12. names' \in [Names -> Entries \cup {Absent}]
    BY <2>3, <2>11 DEF DirInv, TypeInv
  <2>13. TypeInv'
    BY <1>2, <1>3, <2>5, <2>10, <2>11, <2>12 DEF DirInv, TypeInv
  <2>14. Size(mem) \in Nat /\ Size(w) \in Nat /\ Size(mem) <= Size(w)
    BY <1>1, <2>5, GrewSize
  <2>15. ((pc' = "opening" => "outside" \notin upset') => op'.end < Size(mem')) /\ handle'.end < Size(mem')
    <3>1. handle.end < Size(mem) /\ handle.end \in Nat
      BY <1>1 DEF DirInv, TypeInv, Entry
    <3>2. (pc' = "opening" => "outside" \notin upset') => op'.end < Size(mem')
      <4>1. CASE "outside" \notin w.met
        BY <2>5, <2>9, <2>11, <4>1
      <4>2. CASE "outside" \in w.met
        <5>1. 0 < Size(w)
          BY <1>1, <2>5, GrewSize
        <5>2. "outside" \in upset'
          BY <2>9, <4>2
        <5>3. ~a.ok => op'.end = 0
          BY <2>5, <2>11, NoEntryIs
        <5> QED BY <2>5, <2>9, <2>11, <5>1, <5>2, <5>3
      <4> QED BY <4>1, <4>2
    <3>3. handle'.end < Size(mem')
      BY <1>2, <2>9, <2>14, <3>1
    <3> QED BY <3>2, <3>3
  <2>16. PathInv'
    BY <2>10, <2>15 DEF PathInv
  <2>17. StepInv'
    BY <1>1, <2>5, <2>9, <2>11 DEF StepInv
  <2>18. ASSUME "gap" \notin upset', "outside" \notin upset'
         PROVE  /\ Filed(InOrder(w), Size(w), Listing(w))
                /\ Listing(w) = (IF a.ok THEN es \cup {a.entry} ELSE es)
    <3>1. Filed(InOrder(w), Size(w), IF a.ok THEN es \cup {a.entry} ELSE es)
      BY <2>5, <2>9, <2>18
    <3>2. Listing(w) = (IF a.ok THEN es \cup {a.entry} ELSE es)
      BY <2>7, <3>1, FiledListing
    <3> QED BY <3>1, <3>2
  <2>19. ListInv'
    <3> SUFFICES ASSUME upset' \cap {"gap", "outside", "stray", "torn"} = {}
                 PROVE  /\ Filed(InOrder(mem'), Size(mem'), Listing(mem'))
                        /\ Lists(pc', op', handle', names', Listing(mem'))
      BY DEF ListInv
    <3>1. "gap" \notin upset' /\ "outside" \notin upset'
      OBVIOUS
    <3>2. Filed(InOrder(mem'), Size(mem'), Listing(mem'))
      BY <2>9, <2>18, <3>1
    <3>3. CASE a.ok
      <4>1. Listing(mem') = es \cup {a.entry}
        BY <2>9, <2>18, <3>1, <3>3
      <4>2. \A x \in Names : Stands(es, x, names[x])
        BY <1>1 DEF Lists
      <4>3. names \in [Names -> Entries \cup {Absent}] /\ names' = [names EXCEPT ![n] = a.entry.cluster]
        BY <2>5, <2>11, <3>3 DEF DirInv, TypeInv
      <4>4. \A x \in Names : Stands(es \cup {a.entry}, x, names'[x])
        <5>1. a.entry.name = n /\ a.entry.cluster \in Entries
          BY <2>3, <2>5, <3>3
        <5>2. \A x \in Names : names'[x] = IF x = n THEN a.entry.cluster ELSE names[x]
          BY <4>3
        <5> HIDE DEF es
        <5> QED BY <2>2, <4>2, <5>1, <5>2, ListsMore
      <4> QED BY <1>2, <2>5, <2>11, <3>2, <3>3, <4>1, <4>4 DEF Lists
    <3>4. CASE ~a.ok
      <4>1. Listing(mem') = es
        BY <2>9, <2>18, <3>1, <3>4
      <4> QED BY <1>1, <1>2, <2>5, <2>11, <3>2, <3>4, <4>1 DEF Lists
    <3> QED BY <2>5, <3>3, <3>4
  <2>20. OwnInv'
    <3> SUFFICES ASSUME upset' \subseteq {"leak", "empty"}
                 PROVE  Owns(upset', pc', op', handle', mem'.tab, Path(mem'), Listing(mem'))
      BY DEF OwnInv
    <3>1. "gap" \notin upset' /\ "outside" \notin upset' /\ "tail" \notin w.met
      BY <2>9
    <3> DEFINE fs == Listing(w)
    <3>2. fs = (IF a.ok THEN es \cup {a.entry} ELSE es) /\ Filed(InOrder(w), Size(w), fs)
      BY <2>18, <3>1
    <3>3. Owners(pc', op', handle', fs) = fs
      BY <1>2, <2>11 DEF Owners, Held
    <3>4. OwnedApart(mem.tab, Path(mem), es)
      BY <1>1, <1>4 DEF Owns
    <3>5. OwnedApart(w.tab, Path(w), es)
      BY <1>1, <2>5, <3>4, OwnedGrew
    <3>6. OwnedApart(w.tab, Path(w), fs)
      BY <2>5, <3>2, <3>5 DEF OwnedApart
    <3>7. upset' \subseteq {"empty"} => AllOwned(w.tab, Path(w), fs)
      <4> SUFFICES ASSUME upset' \subseteq {"empty"} PROVE AllOwned(w.tab, Path(w), fs)
        OBVIOUS
      <4>1. upset \subseteq {"empty"}
        BY <2>9
      <4>2. AllOwned(mem.tab, Path(mem), es)
        BY <1>1, <1>4, <4>1 DEF Owns
      <4>3. AllOwned(w.tab, Path(w), es)
        BY <1>1, <2>5, <3>1, <4>2, AllOwnedGrew
      <4> QED BY <3>2, <4>3 DEF AllOwned
    <3>8. \A e \in fs : e.name # handle'.name
      BY <1>2, <3>2, NoEntryIs, DirNumbers DEF Filed
    <3> QED BY <2>9, <3>3, <3>6, <3>7, <3>8 DEF Owns
  <2> QED BY <2>13, <2>16, <2>17, <2>19, <2>20 DEF DirInv
<1> QED BY <1>5, <1>6

\* An owned cluster, or none, is not one of the directory's.
LEMMA OwnedOff ==
    ASSUME NEW lk, NEW p, Pathed(lk, p), NEW es, OwnedApart(lk, p, es), NEW e \in es
    PROVE  \A i \in 1 .. Len(p) : p[i] # e.cluster
<1>1. p \in [1 .. Len(p) -> Clusters]
  BY PathTypes
<1>2. FREE \notin Clusters
  BY Numbers
<1>3. CASE e.cluster = FREE
  BY <1>1, <1>2, <1>3
<1>4. CASE e.cluster # FREE
  BY <1>4 DEF OwnedApart
<1> QED BY <1>3, <1>4

\* The entry of the open file's name, put in its stead.
LEMMA HeldOne ==
    ASSUME NEW N \in Nat, NEW F, NEW es, Filed(F, N, es), NEW e \in es, NEW h, h # NoEntry, h.name = e.name
    PROVE  Held(h, es) = (es \ {e}) \cup {h}
<1>1. \A f \in es : f.name = h.name <=> f = e
  BY DEF Filed
<1> QED BY <1>1 DEF Held

LEMMA OpenClusterStep ==
    ASSUME DirInv, OpenCluster
    PROVE  DirInv'
<1> DEFINE es == Listing(mem)
           d == IF pc = "truncating" THEN Cut(mem, op.cluster) ELSE mem
<1>1. /\ pc \in {"opening", "truncating"} /\ pc' = "idle" /\ op' = NoEntry
      /\ names' = names /\ synced' = synced /\ cuts' = cuts
  BY DEF OpenCluster
<1>2. /\ mem \in DiskT /\ mem.met = {} /\ Pathed(mem.tab, Path(mem)) /\ "stray" \notin upset
      /\ op \in Entry /\ op.name \in Names /\ upset \subseteq Trap
      /\ mem.tab[Last(Path(mem))] # FREE 
      /\ ("tail" \notin upset => Flat(mem.tab, Path(mem)))
      /\ ("outside" \notin upset => op.end < Size(mem))
  <2>1. "stray" \notin upset
    BY <1>1 DEF DirInv, StepInv
  <2> QED BY <1>1, <2>1 DEF DirInv, TypeInv, PathInv
<1>3. Fit(mem)
  BY <1>2 DEF Fit
<1>4. ASSUME upset \cap {"gap", "outside", "stray", "torn"} = {}
      PROVE  /\ Filed(InOrder(mem), Size(mem), es) /\ Lists(pc, op, handle, names, es)
             /\ handle = NoEntry /\ op \in es /\ ~op.dir
             /\ \A n \in Names : Stands(es, n, names[n])
  <2>1. Filed(InOrder(mem), Size(mem), es) /\ Lists(pc, op, handle, names, es)
    BY <1>4 DEF DirInv, ListInv
  <2> QED BY <1>1, <2>1 DEF Lists
<1>5. ASSUME upset \subseteq {"leak", "empty"}
      PROVE  /\ Filed(InOrder(mem), Size(mem), es) /\ handle = NoEntry /\ op \in es
             /\ OwnedApart(mem.tab, Path(mem), es)
             /\ upset \subseteq {"empty"} => AllOwned(mem.tab, Path(mem), es)
  <2>1. Filed(InOrder(mem), Size(mem), es) /\ handle = NoEntry /\ op \in es
    BY <1>4, <1>5
  <2>2. Owns(upset, pc, op, handle, mem.tab, Path(mem), es)
    BY <1>5 DEF DirInv, OwnInv
  <2>3. Owners(pc, op, handle, es) = es
    BY <1>1, <2>1 DEF Owners, Held
  <2> QED BY <2>1, <2>2, <2>3 DEF Owns
<1>6. \A e \in es : e.end < Size(mem)
  BY <1>2, ListingIs
<1>7. CASE pc = "opening" /\ op.cluster # FREE
  <2>1. handle' = op /\ mem' = mem /\ card' = card /\ upset' = upset
    BY <1>7 DEF OpenCluster
  <2>2. TypeInv'
    BY <1>1, <1>2, <2>1, NoEntryIs DEF DirInv, TypeInv
  <2>3. 0 < Size(mem)
    BY <1>2, InOrderIs, DirNumbers
  <2>4. PathInv'
    BY <1>1, <1>2, <2>1, <2>3, NoEntryIs DEF DirInv, PathInv
  <2>5. StepInv'
    BY <1>1, <2>1 DEF DirInv, StepInv
  <2>6. ListInv'
    <3> SUFFICES ASSUME upset \cap {"gap", "outside", "stray", "torn"} = {}
                 PROVE  Filed(InOrder(mem), Size(mem), es) /\ Lists(pc', op', handle', names', es)
      BY <2>1 DEF ListInv
    <3>1. op = [op EXCEPT !.cluster = op.cluster]
      BY <1>2 DEF Entry
    <3> QED BY <1>1, <1>4, <2>1, <3>1 DEF Lists
  <2>7. OwnInv'
    <3> SUFFICES ASSUME upset \subseteq {"leak", "empty"}
                 PROVE  Owns(upset, pc', op', handle', mem.tab, Path(mem), es)
      BY <2>1 DEF OwnInv
    <3>1. op # NoEntry
      BY <1>2, NoEntryIs, DirNumbers
    <3>2. Filed(InOrder(mem), Size(mem), es) /\ op \in es /\ Size(mem) \in Nat
      BY <1>2, <1>5, InOrderType
    <3>3. Held(op, es) = (es \ {op}) \cup {op}
      BY <3>1, <3>2, HeldOne
    <3>4. Owners(pc', op', handle', es) = es
      BY <1>1, <2>1, <3>2, <3>3 DEF Owners
    <3>5. \A i \in 1 .. Len(Path(mem)) : Path(mem)[i] # op.cluster
      BY <1>2, <1>5, <3>2, OwnedOff
    <3>6. \A e \in es : e.name = op.name => e = op
      BY <3>2 DEF Filed
    <3> QED BY <1>5, <2>1, <3>4, <3>5, <3>6 DEF Owns
  <2> QED BY <2>2, <2>4, <2>5, <2>6, <2>7 DEF DirInv
<1>8. CASE ~(pc = "opening" /\ op.cluster # FREE)
  <2>1. PICK new \in {LinkedFree(d, FREE)} :
          /\ Becomes(new.d, IF new.cluster = FREE THEN {"empty"} ELSE {})
          /\ handle' = [op EXCEPT !.cluster = new.cluster]
    BY <1>8 DEF OpenCluster
  <2>2. op.cluster \in Entries
    BY <1>2 DEF Entry, Entries
  <2>3. pc = "truncating" => upset \subseteq {"leak", "empty"}
    BY DEF DirInv, StepInv
  <2>4. pc = "opening" => d = mem /\ op.cluster = FREE
    BY <1>8
  <2>5. /\ Fit(d) /\ ("tail" \notin upset => Flat(d.tab, Path(d))) /\ d.met = {} /\ Path(d) = Path(mem) /\ Size(d) = Size(mem)
        /\ InOrder(d) = InOrder(mem) /\ Listing(d) = es
        /\ \A x \in Clusters : d.tab[x] = IF x = op.cluster THEN FREE ELSE mem.tab[x]
    <3>1. CASE pc = "opening"
      <4>1. op.cluster \notin Clusters
        BY <2>4, <3>1, Numbers
      <4> QED BY <1>2, <1>3, <2>4, <3>1, <4>1
    <3>2. CASE pc = "truncating"
      <4>1. op \in es /\ OwnedApart(mem.tab, Path(mem), es)
        BY <1>5, <2>3, <3>2
      <4>2. (\A i \in 1 .. Len(Path(mem)) : Path(mem)[i] # op.cluster) /\ Flat(mem.tab, Path(mem))
        BY <1>2, <2>3, <3>2, <4>1, OwnedOff
      <4>3. d = Cut(mem, op.cluster)
        BY <3>2
      <4> HIDE DEF d, es
      <4> QED BY <1>2, <1>3, <2>2, <4>2, <4>3, CutOff DEF es
    <3> QED BY <1>1, <3>1, <3>2
  <2> DEFINE w == new.d
             n == new.cluster
             traps == IF n = FREE THEN {"empty"} ELSE {}
  <2>6. /\ Fit(w) /\ (Flat(d.tab, Path(d)) => Flat(w.tab, Path(w))) /\ n \in Entries /\ w.met \subseteq d.met \cup {"beyond"}
        /\ Path(w) = Path(d) /\ Size(w) = Size(d)
        /\ InOrder(w) = InOrder(d) /\ Listing(w) = Listing(d)
        /\ \/ /\ n \in Clusters /\ d.tab[n] = FREE
              /\ \A i \in 1 .. Len(Path(d)) : Path(d)[i] # n
              /\ \A x \in Clusters : w.tab[x] = IF x = n THEN EOF ELSE d.tab[x]
           \/ "beyond" \in w.met
           \/ n = FREE /\ w.tab = d.tab
    <3>1. new = LinkedFree(d, FREE)
      BY <2>1
    <3> HIDE DEF d
    <3> QED BY <2>5, <3>1, FirstIs
  <2>7. Becomes(w, traps) /\ handle' = [op EXCEPT !.cluster = n]
    BY <2>1
  <2>8. traps \in SUBSET Trap
    BY DEF Trap
  <2> HIDE DEF w, n, traps, d
  <2>9. /\ w \in DiskT /\ Pathed(w.tab, Path(w)) /\ w.tab[Last(Path(w))] # FREE
        /\ Path(w) = Path(mem) /\ Size(w) = Size(mem) /\ InOrder(w) = InOrder(mem) /\ Listing(w) = es
        /\ w.met \subseteq {"beyond"}
    BY <2>5, <2>6 DEF Fit
  <2>10. card \in DiskT /\ card.met = {} /\ Pathed(card.tab, Path(card))
    BY DEF DirInv, TypeInv, PathInv
  <2>11. /\ mem'.tab = w.tab /\ Path(mem') = Path(mem) /\ Size(mem') = Size(mem)
         /\ InOrder(mem') = InOrder(mem) /\ Listing(mem') = es
         /\ upset' = (upset \cup w.met) \cup traps
    BY <2>7, <2>9, <2>10, BecomesIs
  <2>12. /\ mem' \in DiskT /\ card' \in DiskT /\ mem'.met = {} /\ card'.met = {} /\ upset' \subseteq Trap
         /\ Pathed(mem'.tab, Path(mem')) /\ Pathed(card'.tab, Path(card'))
         /\ "stray" \notin upset' => mem'.tab[Last(Path(mem'))] # FREE /\ card'.tab[Last(Path(card'))] # FREE
         /\ "tail" \notin upset' => Flat(mem'.tab, Path(mem')) /\ Flat(card'.tab, Path(card'))
    <3>1. "tail" \notin upset' => Flat(w.tab, Path(w))
      BY <2>5, <2>6, <2>11
    <3> QED BY <2>7, <2>8, <2>9, <3>1, BecomesFit
  <2>13. /\ handle' \in Entry /\ handle'.name = op.name /\ handle'.end = op.end
         /\ handle'.cluster = n /\ handle'.dir = op.dir /\ handle'.start = op.start
    BY <1>2, <2>6, <2>7 DEF Entry, Entries
  <2>14. TypeInv'
    BY <1>1, <1>2, <2>12, <2>13, NoEntryIs DEF DirInv, TypeInv
  <2>15. PathInv'
    <3>1. 0 < Size(mem)
      BY <1>2, InOrderIs, DirNumbers
    <3>2. "outside" \notin upset' => op.end < Size(mem)
      BY <1>2, <2>11
    <3> QED BY <1>1, <2>11, <2>12, <2>13, <3>1, <3>2, NoEntryIs DEF PathInv
  <2>16. StepInv'
    BY <1>1 DEF StepInv
  <2>17. ListInv'
    <3> SUFFICES ASSUME upset' \cap {"gap", "outside", "stray", "torn"} = {}
                 PROVE  Filed(InOrder(mem), Size(mem), es) /\ Lists(pc', op', handle', names', es)
      BY <2>11 DEF ListInv
    <3>1. upset \cap {"gap", "outside", "stray", "torn"} = {}
      BY <2>11
    <3>2. handle' = [op EXCEPT !.cluster = handle'.cluster] /\ ~handle'.dir
      BY <1>4, <2>7, <2>13, <3>1
    <3> QED BY <1>1, <1>4, <3>1, <3>2 DEF Lists
  <2>18. OwnInv'
    <3> SUFFICES ASSUME upset' \subseteq {"leak", "empty"}
                 PROVE  Owns(upset', pc', op', handle', w.tab, Path(mem), es)
      BY <2>11 DEF OwnInv
    <3> DEFINE p == Path(mem)
               h == handle'
    <3>1. upset \subseteq {"leak", "empty"} /\ "beyond" \notin w.met
      BY <2>11
    <3>2. /\ Filed(InOrder(mem), Size(mem), es) /\ op \in es /\ Size(mem) \in Nat
          /\ OwnedApart(mem.tab, p, es)
          /\ upset \subseteq {"empty"} => AllOwned(mem.tab, p, es)
      BY <1>2, <1>5, <3>1, InOrderType
    <3>3. h # NoEntry /\ h.name = op.name
      BY <1>2, <2>13, NoEntryIs, DirNumbers
    <3>4. Held(h, es) = (es \ {op}) \cup {h}
      <4> HIDE DEF h
      <4> QED BY <3>2, <3>3, HeldOne
    <3>5. Owners(pc', op', handle', es) = (es \ {op}) \cup {h}
      BY <1>1, <3>4 DEF Owners
    <3>6. \A i \in 1 .. Len(p) : p[i] # op.cluster
      BY <1>2, <3>2, OwnedOff
    <3>7. \/ /\ n \in Clusters /\ d.tab[n] = FREE
             /\ \A i \in 1 .. Len(p) : p[i] # n
             /\ \A x \in Clusters : w.tab[x] = IF x = n THEN EOF ELSE d.tab[x]
          \/ n = FREE /\ w.tab = d.tab
      BY <2>5, <2>6, <3>1
    <3>8. ASSUME NEW e \in es \ {op}, e.cluster # FREE
          PROVE  /\ e.cluster \in Clusters /\ w.tab[e.cluster] = EOF /\ e.cluster # n
                 /\ \A i \in 1 .. Len(p) : p[i] # e.cluster
      <4>1. /\ e.cluster \in Clusters /\ mem.tab[e.cluster] = EOF
            /\ \A i \in 1 .. Len(p) : p[i] # e.cluster
        BY <3>2, <3>8 DEF OwnedApart
      <4>2. e.cluster # op.cluster
        BY <3>2, <3>8 DEF OwnedApart
      <4>3. d.tab[e.cluster] = EOF
        BY <2>5, <4>1, <4>2
      <4>4. e.cluster # n
        BY <3>7, <3>8, <4>3, Numbers
      <4> QED BY <3>7, <4>1, <4>3, <4>4
    <3>9. h.cluster # FREE =>
            /\ h.cluster \in Clusters /\ w.tab[h.cluster] = EOF
            /\ \A i \in 1 .. Len(p) : p[i] # h.cluster
      BY <2>13, <3>7
    <3> HIDE DEF h, p
    <3>10. OwnedApart(w.tab, p, (es \ {op}) \cup {h})
      <4>1. \A e, f \in (es \ {op}) \cup {h} : e.cluster = f.cluster /\ e.cluster # FREE => e = f
        <5>1. \A e, f \in es : e.cluster = f.cluster /\ e.cluster # FREE => e = f
          BY <3>2 DEF OwnedApart
        <5>2. \A e \in es \ {op} : e.cluster # FREE => e.cluster # h.cluster
          BY <2>13, <3>8 DEF h
        <5> QED BY <5>1, <5>2
      <4> QED BY <3>8, <3>9, <4>1 DEF OwnedApart
    <3>11. upset' \subseteq {"empty"} => AllOwned(w.tab, p, (es \ {op}) \cup {h})
      <4> SUFFICES ASSUME upset' \subseteq {"empty"}, NEW c \in Clusters, w.tab[c] # FREE,
                          \A i \in 1 .. Len(p) : p[i] # c
                   PROVE  \E e \in (es \ {op}) \cup {h} : e.cluster = c
        BY DEF AllOwned
      <4>1. upset \subseteq {"empty"}
        BY <2>11
      <4>2. CASE c = n
        BY <2>13, <4>2 DEF h
      <4>3. CASE c # n
        <5>1. d.tab[c] # FREE
          BY <3>7, <4>3
        <5>2. mem.tab[c] # FREE /\ c # op.cluster
          BY <2>5, <5>1
        <5>3. PICK e \in es : e.cluster = c
          BY <3>2, <4>1, <5>2 DEF AllOwned
        <5> QED BY <5>2, <5>3
      <4> QED BY <4>2, <4>3
    <3>12. \A e \in es : e.name = handle'.name =>
              \A i \in 1 .. Len(p) : p[i] = e.cluster => handle'.end < Slots * (i - 1)
      <4>1. \A e \in es : e.name = op.name => e = op
        BY <3>2 DEF Filed
      <4> QED BY <2>13, <3>6, <4>1
    <3> QED BY <3>5, <3>10, <3>11, <3>12 DEF Owns, p
  <2> QED BY <2>14, <2>15, <2>16, <2>17, <2>18 DEF DirInv
<1> QED BY <1>7, <1>8

\* What close makes of the directory.
LEMMA ClosedIs ==
    ASSUME DirInv, Close
    PROVE  \E e \in Listing(mem) : \E w \in DiskT :
              /\ handle = [e EXCEPT !.cluster = handle.cluster]
              /\ handle.name = e.name /\ handle.start = e.start /\ handle.end = e.end /\ handle.dir = e.dir
              /\ Becomes(w, {}) /\ w.met = {} /\ w.tab = mem.tab /\ Path(w) = Path(mem)
              /\ mem'.tab = mem.tab /\ Path(mem') = Path(mem) /\ Size(mem') = Size(mem)
              /\ upset' = upset
              /\ Listing(mem') = (Listing(mem) \ {e}) \cup {handle}
              /\ Filed(InOrder(mem'), Size(mem'), Listing(mem'))
<1> DEFINE es == Listing(mem)
           s == At(mem, handle.end)
           x == IF s.what = "long" THEN [s EXCEPT !.text = NoName] ELSE [s EXCEPT !.cluster = handle.cluster]
           new == [k \in {handle.end} |->
                      IF s.what = "long" THEN [s EXCEPT !.text = NoName]
                      ELSE [s EXCEPT !.cluster = handle.cluster]]
           w == Written(mem, new)
<1>1. /\ Ready /\ handle # NoEntry
      /\ Becomes(w, {})
  BY DEF Close
<1>2. /\ upset \subseteq {"leak", "empty"} /\ pc = "idle"
      /\ mem \in DiskT /\ mem.met = {} /\ Fit(mem) /\ Pathed(mem.tab, Path(mem))
      /\ mem.tab[Last(Path(mem))] # FREE
      /\ Filed(InOrder(mem), Size(mem), es)
      /\ Lists(pc, op, handle, names, es)
      /\ Owns(upset, pc, op, handle, mem.tab, Path(mem), es)
      /\ Owners(pc, op, handle, es) = Held(handle, es)
      /\ es \subseteq Entry
  BY <1>1, ReadyIs DEF Fit
<1>3. PICK e \in es : handle = [e EXCEPT !.cluster = handle.cluster]
  BY <1>1, <1>2 DEF Lists
<1>4. handle \in Entry /\ handle.name \in Names /\ handle.cluster \in Entries /\ handle.end \in Nat
  BY <1>1 DEF DirInv, TypeInv, Entry, Entries
<1>5. Size(mem) \in Nat /\ InOrder(mem) \in [0 .. Size(mem) - 1 -> SlotT]
  BY <1>2, InOrderType
<1>6. /\ e \in Entry /\ e.name \in Names /\ e.end \in 0 .. Size(mem) - 1
      /\ InOrder(mem)[e.end].what = "data" /\ InOrder(mem)[e.end] \in SlotT
      /\ InOrder(mem)[e.end].mark = "used"
  <2>1. /\ e \in Entry /\ e.name \in Names /\ e.end \in Nat /\ e.end < Size(mem) /\ e.end \in Run(e)
        /\ \A k \in Run(e) :
              /\ InOrder(mem)[k].what = (IF k = e.end THEN "data" ELSE "long") /\ InOrder(mem)[k] \in SlotT
              /\ InOrder(mem)[k].mark = "used"
    BY <1>2, <1>5, FiledRun
  <2>2. e.end \in 0 .. Size(mem) - 1
    BY <1>5, <2>1
  <2> QED BY <2>1, <2>2
<1>7. handle.name = e.name /\ handle.start = e.start /\ handle.end = e.end /\ handle.dir = e.dir
  BY <1>3, <1>6 DEF Entry
<1>8. s = InOrder(mem)[e.end]
  BY <1>2, <1>6, <1>7, InOrderIs
<1>9. x = [s EXCEPT !.cluster = handle.cluster] /\ x \in SlotT
  <2>1. s.what = "data" /\ s \in SlotT /\ s.mark = "used"
    BY <1>6, <1>8
  <2>2. x = [s EXCEPT !.cluster = handle.cluster]
    BY <2>1
  <2> HIDE DEF x, s
  <2> QED BY <1>4, <2>1, <2>2 DEF SlotT
<1>10. DOMAIN new = {e.end} /\ \A k \in DOMAIN new : new[k] = x
  BY <1>7
<1> HIDE DEF new, x, s
<1>11. /\ w \in DiskT /\ w.tab = mem.tab /\ w.met = mem.met
       /\ Path(w) = Path(mem) /\ Size(w) = Size(mem)
       /\ InOrder(w) = [k \in 0 .. Size(mem) - 1 |-> IF k \in DOMAIN new THEN new[k] ELSE InOrder(mem)[k]]
  <2>1. DOMAIN new \subseteq 0 .. Size(mem) - 1 /\ \A k \in DOMAIN new : new[k] \in SlotT
    BY <1>6, <1>9, <1>10
  <2> QED BY <1>2, <2>1, WrittenIs
<1> HIDE DEF w
<1>12. \A k \in 0 .. Size(mem) - 1 :
          InOrder(w)[k] = IF k = e.end THEN [InOrder(mem)[k] EXCEPT !.cluster = handle.cluster] ELSE InOrder(mem)[k]
  BY <1>8, <1>9, <1>10, <1>11
<1>13. Filed(InOrder(w), Size(w), (es \ {e}) \cup {handle})
  <2>1. Filed(InOrder(w), Size(mem), (es \ {e}) \cup {[e EXCEPT !.cluster = handle.cluster]})
    BY <1>2, <1>4, <1>5, <1>12, FiledChanged
  <2> QED BY <1>3, <1>11, <2>1
<1>14. Pathed(w.tab, Path(w))
  BY <1>2, <1>11
<1>15. Listing(w) = (es \ {e}) \cup {handle}
  BY <1>11, <1>13, <1>14, FiledListing
<1>16. card \in DiskT /\ card.met = {} /\ Pathed(card.tab, Path(card))
  BY DEF DirInv, TypeInv, PathInv
<1>17. /\ mem'.tab = mem.tab /\ Path(mem') = Path(mem) /\ Size(mem') = Size(mem)
       /\ InOrder(mem') = InOrder(w) /\ Listing(mem') = (es \ {e}) \cup {handle}
       /\ upset' = upset
  <2>1. /\ mem'.tab = w.tab /\ Path(mem') = Path(w) /\ Size(mem') = Size(w)
        /\ InOrder(mem') = InOrder(w) /\ Listing(mem') = Listing(w) /\ upset' = (upset \cup w.met) \cup {}
    BY <1>1, <1>11, <1>14, <1>16, BecomesIs
  <2>2. upset' = upset
    BY <1>2, <1>11, <2>1
  <2> QED BY <1>11, <1>15, <2>1, <2>2
<1>18. Filed(InOrder(mem'), Size(mem'), Listing(mem'))
  <2>1. InOrder(mem') = InOrder(w) /\ Size(mem') = Size(w)
    BY <1>11, <1>17
  <2> QED BY <1>13, <1>17, <2>1
<1>19. Becomes(w, {}) /\ w \in DiskT /\ w.met = {} /\ w.tab = mem.tab /\ Path(w) = Path(mem)
  BY <1>1, <1>2, <1>11
<1> HIDE DEF es
<1> QED BY ONLY <1>3, <1>7, <1>17, <1>18, <1>19 DEF es

LEMMA CloseStep ==
    ASSUME DirInv, Close
    PROVE  DirInv'
<1> DEFINE es == Listing(mem)
<1>1. /\ Ready /\ handle # NoEntry
      /\ names' = [names EXCEPT ![handle.name] = handle.cluster]
      /\ synced' = Touched({handle.name}) /\ handle' = NoEntry
      /\ pc' = "flush" /\ op' = [NoEntry EXCEPT !.name = handle.name] /\ cuts' = cuts
  BY DEF Close
<1>2. /\ upset \subseteq {"leak", "empty"} /\ pc = "idle"
      /\ mem \in DiskT /\ Pathed(mem.tab, Path(mem)) /\ mem.tab[Last(Path(mem))] # FREE
      /\ Flat(mem.tab, Path(mem))
      /\ Filed(InOrder(mem), Size(mem), es)
      /\ Lists(pc, op, handle, names, es)
      /\ Owns(upset, pc, op, handle, mem.tab, Path(mem), es)
      /\ Owners(pc, op, handle, es) = Held(handle, es)
  BY <1>1, ReadyIs DEF Fit
<1>3. PICK e \in es, w \in DiskT :
        /\ handle.name = e.name
        /\ Becomes(w, {}) /\ w.met = {} /\ w.tab = mem.tab /\ Path(w) = Path(mem)
        /\ mem'.tab = mem.tab /\ Path(mem') = Path(mem) /\ Size(mem') = Size(mem)
        /\ upset' = upset
        /\ Listing(mem') = (es \ {e}) \cup {handle}
        /\ Filed(InOrder(mem'), Size(mem'), Listing(mem'))
  BY ClosedIs
<1>4. handle \in Entry /\ handle.name \in Names /\ handle.cluster \in Entries
  BY <1>1 DEF DirInv, TypeInv, Entry, Entries
<1>5. Size(mem) \in Nat
  BY <1>2, InOrderType
<1>6. /\ mem' \in DiskT /\ card' \in DiskT /\ mem'.met = {} /\ card'.met = {} /\ upset' \subseteq Trap
      /\ Pathed(mem'.tab, Path(mem')) /\ Pathed(card'.tab, Path(card'))
      /\ "stray" \notin upset' => mem'.tab[Last(Path(mem'))] # FREE /\ card'.tab[Last(Path(card'))] # FREE
      /\ "tail" \notin upset' => Flat(mem'.tab, Path(mem')) /\ Flat(card'.tab, Path(card'))
  <2>1. {} \in SUBSET Trap
    OBVIOUS
  <2> QED BY <1>1, <1>2, <1>3, <2>1, BecomesFit
<1>7. op' \in Entry /\ op'.end = 0
  BY <1>1, <1>4, NoEntryIs DEF NoEntry, Entry
<1>8. TypeInv'
  <2>1. synced' \in [Names -> Entries \cup {Absent}]
    BY <1>1, TouchedType DEF DirInv, TypeInv
  <2>2. names' \in [Names -> Entries \cup {Absent}]
    BY <1>1, <1>4 DEF DirInv, TypeInv
  <2>3. cuts \in Nat /\ handle' \in Entry /\ handle' = NoEntry /\ pc' = "flush" /\ cuts' = cuts
    BY <1>1, NoEntryIs DEF DirInv, TypeInv
  <2> QED BY ONLY <1>6, <1>7, <2>1, <2>2, <2>3 DEF TypeInv
<1>9. PathInv'
  <2>1. 0 < Size(mem)
    BY <1>2, InOrderIs, DirNumbers
  <2>2. op'.end < Size(mem')
    BY <1>3, <1>7, <2>1
  <2>3. handle'.end < Size(mem')
    BY <1>1, <1>3, <2>1, NoEntryIs
  <2> QED BY ONLY <1>6, <2>2, <2>3 DEF PathInv
<1>10. StepInv'
  BY <1>1, <1>3 DEF DirInv, StepInv
<1> DEFINE fs == (es \ {e}) \cup {handle}
<1>11. Lists(pc', op', handle', names', fs)
  <2>1. \A n \in Names : Stands(fs, n, names'[n])
    <3> SUFFICES ASSUME NEW n \in Names PROVE Stands(fs, n, names'[n])
      OBVIOUS
    <3>1. \A f \in es : f.name = e.name <=> f = e
      BY <1>2 DEF Filed
    <3>2. CASE n = e.name
      <4>1. Named(fs, n) = {handle}
        BY <1>3, <3>1, <3>2 DEF Named
      <4>2. names'[n] = handle.cluster
        BY <1>1, <1>3, <1>4, <3>2 DEF DirInv, TypeInv
      <4>3. handle.cluster # Absent
        BY <1>4, DirNumbers, Numbers
      <4> HIDE DEF fs
      <4>4. {f.cluster : f \in {handle}} = {handle.cluster} \ {Absent}
        BY <4>3
      <4> QED BY <4>1, <4>2, <4>4 DEF Stands
    <3>3. CASE n # e.name
      <4>1. Named(fs, n) = Named(es, n)
        BY <1>3, <3>1, <3>3 DEF Named
      <4>2. names'[n] = names[n]
        BY <1>1, <1>3, <3>3 DEF DirInv, TypeInv
      <4>3. Stands(es, n, names[n])
        BY <1>2 DEF Lists
      <4> QED BY <4>1, <4>2, <4>3 DEF Stands
    <3> QED BY <3>2, <3>3
  <2> QED BY <1>1, <2>1 DEF Lists
<1>12. ListInv'
  BY <1>3, <1>11 DEF ListInv
<1>13. OwnInv'
  <2> SUFFICES Owns(upset, pc', op', handle', mem.tab, Path(mem), fs)
    BY <1>3 DEF OwnInv
  <2>1. Held(handle, es) = fs
    BY <1>1, <1>2, <1>3, <1>5, HeldOne
  <2> HIDE DEF fs
  <2>2. Owners(pc', op', handle', fs) = fs
    BY <1>1 DEF Owners, Held
  <2>3. \A f \in fs : f.name # handle'.name
    <3>1. Filed(InOrder(mem'), Size(mem'), fs)
      BY <1>3 DEF fs
    <3> QED BY <1>1, <3>1, NoEntryIs, DirNumbers DEF Filed
  <2> QED BY <1>2, <2>1, <2>2, <2>3 DEF Owns
<1> QED BY <1>8, <1>9, <1>10, <1>12, <1>13 DEF DirInv

\* What removing the entry under way makes of the directory.
LEMMA RemovedBy ==
    ASSUME DirInv, pc \in {"unlinking", "renaming"}, Becomes(Removed(mem, op), {})
    PROVE  \E w \in DiskT :
              /\ Becomes(w, {}) /\ w.met = {} /\ w.tab = mem.tab /\ Path(w) = Path(mem) /\ Size(w) = Size(mem)
              /\ mem'.tab = mem.tab /\ Path(mem') = Path(mem) /\ Size(mem') = Size(mem)
              /\ InOrder(mem') = InOrder(w) /\ Listing(mem') = Listing(w) /\ upset' = upset
              /\ upset \cap {"gap", "outside", "stray", "torn"} = {} =>
                    /\ Old(op) \in Listing(mem) /\ op.name # handle.name /\ Old(op).name = op.name
                    /\ Listing(w) = Listing(mem) \ {Old(op)}
                    /\ Filed(InOrder(w), Size(w), Listing(w))
<1> DEFINE es == Listing(mem)
           w == Removed(mem, op)
           o == Old(op)
<1>1. /\ mem \in DiskT /\ mem.met = {} /\ Pathed(mem.tab, Path(mem))
      /\ op \in Entry /\ op.end < Size(mem)
  BY DEF DirInv, TypeInv, PathInv
<1>2. /\ w \in DiskT /\ w.tab = mem.tab /\ w.met = mem.met
      /\ Path(w) = Path(mem) /\ Size(w) = Size(mem)
      /\ \A k \in 0 .. Size(mem) - 1 :
            InOrder(w)[k] = IF k \in Run(op) THEN [InOrder(mem)[k] EXCEPT !.mark = "free"] ELSE InOrder(mem)[k]
  BY <1>1, RemovedIs
<1> HIDE DEF w
<1>3. Becomes(w, {})
  BY DEF w
<1>4. Pathed(w.tab, Path(w))
  BY <1>1, <1>2
<1>5. card \in DiskT /\ card.met = {} /\ Pathed(card.tab, Path(card))
  BY DEF DirInv, TypeInv, PathInv
<1>6. /\ mem'.tab = mem.tab /\ Path(mem') = Path(mem) /\ Size(mem') = Size(mem)
      /\ InOrder(mem') = InOrder(w) /\ Listing(mem') = Listing(w) /\ upset' = upset
  <2>1. /\ mem'.tab = w.tab /\ Path(mem') = Path(w) /\ Size(mem') = Size(w)
        /\ InOrder(mem') = InOrder(w) /\ Listing(mem') = Listing(w) /\ upset' = (upset \cup w.met) \cup {}
    BY <1>2, <1>3, <1>4, <1>5, BecomesIs
  <2>2. upset' = upset
    BY <1>1, <1>2, <2>1
  <2> QED BY <1>2, <2>1, <2>2
<1>7. ASSUME upset \cap {"gap", "outside", "stray", "torn"} = {}
      PROVE  /\ o \in es /\ op.name # handle.name /\ o.name = op.name
             /\ Listing(w) = es \ {o} /\ Filed(InOrder(w), Size(w), Listing(w))
  <2>1. Filed(InOrder(mem), Size(mem), es) /\ Lists(pc, op, handle, names, es)
    BY <1>7 DEF DirInv, ListInv
  <2>2. o \in es /\ op.name # handle.name
    BY <2>1 DEF Lists
  <2>3. Run(op) = Run(o) /\ o.name = op.name
    BY <1>1 DEF Old, Entry, Run
  <2>4. Size(mem) \in Nat
    BY <1>1, InOrderType
  <2> HIDE DEF o
  <2>5. Filed(InOrder(w), Size(mem), es \ {o})
    BY <1>2, <2>1, <2>2, <2>3, <2>4, FiledRemoved
  <2>6. Filed(InOrder(w), Size(w), es \ {o})
    BY <1>2, <2>5
  <2>7. Listing(w) = es \ {o}
    BY <1>2, <1>4, <2>6, FiledListing
  <2> QED BY <2>2, <2>3, <2>6, <2>7
<1>8. w \in DiskT /\ w.met = {} /\ w.tab = mem.tab /\ Path(w) = Path(mem) /\ Size(w) = Size(mem)
  BY <1>1, <1>2
<1> QED BY ONLY <1>3, <1>6, <1>7, <1>8

\* What removing it comes to, in unlink and in rename.
LEMMA RemovedStep ==
    ASSUME DirInv, pc \in {"unlinking", "renaming"}, Becomes(Removed(mem, op), {}),
           names' = [names EXCEPT ![op.name] = Absent], pc' \in {"idle", "flush"}, op' = NoEntry,
           handle' = handle, synced' = synced, cuts' = cuts
    PROVE  DirInv'
<1> DEFINE es == Listing(mem)
           o == Old(op)
           fs == es \ {o}
<1>1. /\ mem \in DiskT /\ Pathed(mem.tab, Path(mem))
      /\ op.name \in Names /\ ("outside" \notin upset => handle.end < Size(mem))
      /\ names \in [Names -> Entries \cup {Absent}] /\ upset \subseteq Trap
  BY DEF DirInv, TypeInv, PathInv
<1>2. PICK w \in DiskT :
        /\ Becomes(w, {}) /\ w.met = {} /\ w.tab = mem.tab /\ Path(w) = Path(mem) /\ Size(w) = Size(mem)
        /\ mem'.tab = mem.tab /\ Path(mem') = Path(mem) /\ Size(mem') = Size(mem)
        /\ InOrder(mem') = InOrder(w) /\ Listing(mem') = Listing(w) /\ upset' = upset
        /\ upset \cap {"gap", "outside", "stray", "torn"} = {} =>
              /\ o \in es /\ op.name # handle.name /\ o.name = op.name
              /\ Listing(w) = es \ {o} /\ Filed(InOrder(w), Size(w), Listing(w))
  BY RemovedBy
<1>3. Pathed(w.tab, Path(w))
  BY <1>1, <1>2
<1>4. /\ "stray" \notin upset' => w.tab[Last(Path(w))] # FREE
      /\ "tail" \notin upset' => Flat(w.tab, Path(w))
  BY <1>2 DEF DirInv, PathInv
<1>5. /\ mem' \in DiskT /\ card' \in DiskT /\ mem'.met = {} /\ card'.met = {} /\ upset' \subseteq Trap
      /\ Pathed(mem'.tab, Path(mem')) /\ Pathed(card'.tab, Path(card'))
      /\ "stray" \notin upset' => mem'.tab[Last(Path(mem'))] # FREE /\ card'.tab[Last(Path(card'))] # FREE
      /\ "tail" \notin upset' => Flat(mem'.tab, Path(mem')) /\ Flat(card'.tab, Path(card'))
  <2>1. {} \in SUBSET Trap
    OBVIOUS
  <2> QED BY <1>2, <1>3, <1>4, <2>1, BecomesFit
<1>6. TypeInv'
  <2>1. names' \in [Names -> Entries \cup {Absent}]
    BY <1>1
  <2> QED BY <1>5, <2>1, NoEntryIs DEF DirInv, TypeInv
<1>7. PathInv'
  <2>1. 0 < Size(mem)
    BY <1>1, InOrderIs, DirNumbers
  <2> QED BY <1>1, <1>2, <1>5, <2>1, NoEntryIs DEF PathInv
<1>8. StepInv'
  BY <1>2 DEF DirInv, StepInv
<1>9. ASSUME upset \cap {"gap", "outside", "stray", "torn"} = {}
      PROVE  /\ o \in es /\ op.name # handle.name /\ o.name = op.name
             /\ Listing(mem') = fs /\ Filed(InOrder(mem'), Size(mem'), fs)
             /\ Filed(InOrder(mem), Size(mem), es) /\ Lists(pc, op, handle, names, es)
  <2>1. Filed(InOrder(mem), Size(mem), es) /\ Lists(pc, op, handle, names, es)
    BY <1>9 DEF DirInv, ListInv
  <2> QED BY <1>2, <1>9, <2>1
<1> HIDE DEF o
<1>10. ListInv'
  <2> SUFFICES ASSUME upset \cap {"gap", "outside", "stray", "torn"} = {}
               PROVE  Filed(InOrder(mem'), Size(mem'), fs) /\ Lists(pc', op', handle', names', fs)
    BY <1>2, <1>9 DEF ListInv
  <2>1. \A f \in es : f.name = op.name <=> f = o
    BY <1>9 DEF Filed
  <2>2. \A n \in Names : Stands(es, n, names[n])
    BY <1>9 DEF Lists
  <2>3. ASSUME NEW n \in Names PROVE Stands(fs, n, names'[n])
    <3>1. CASE n = op.name
      <4>1. Named(fs, n) = {}
        BY <2>1, <3>1 DEF Named
      <4>2. names'[n] = Absent
        BY <1>1, <3>1
      <4> QED BY <4>1, <4>2 DEF Stands
    <3>2. CASE n # op.name
      <4>1. Named(fs, n) = Named(es, n)
        BY <2>1, <3>2, <1>9 DEF Named
      <4>2. names'[n] = names[n]
        BY <1>1, <3>2
      <4> QED BY <2>2, <4>1, <4>2 DEF Stands
    <3> QED BY <3>1, <3>2
  <2>4. handle # NoEntry => (\E e \in fs : handle = [e EXCEPT !.cluster = handle.cluster]) /\ ~handle.dir
    <3> SUFFICES ASSUME handle # NoEntry
                 PROVE  (\E e \in fs : handle = [e EXCEPT !.cluster = handle.cluster]) /\ ~handle.dir
      OBVIOUS
    <3>1. ~handle.dir /\ \E e \in es : handle = [e EXCEPT !.cluster = handle.cluster]
      BY <1>9 DEF Lists
    <3>2. PICK e \in es : handle = [e EXCEPT !.cluster = handle.cluster]
      BY <3>1
    <3>3. e \in Entry
      BY <1>1, ListingIs
    <3>4. handle.name = e.name
      BY <3>2, <3>3 DEF Entry
    <3>5. e # o
      BY <1>9, <3>4
    <3> QED BY <3>1, <3>2, <3>5
  <2> QED BY <1>9, <2>3, <2>4 DEF Lists
<1>11. OwnInv'
  <2> SUFFICES ASSUME upset \subseteq {"leak", "empty"}
               PROVE  Owns(upset, pc', op', handle', mem.tab, Path(mem), fs)
    BY <1>2, <1>9 DEF OwnInv
  <2>1. Owns(upset, pc, op, handle, mem.tab, Path(mem), es)
    BY DEF DirInv, OwnInv
  <2>2. o \in es /\ op.name # handle.name /\ o.name = op.name
    BY <1>9
  <2>3. Held(handle, fs) = Held(handle, es) \ {o}
    BY <2>2 DEF Held
  <2>4. Owners(pc, op, handle, es) = Held(handle, es) \ {o}
    BY DEF Owners, o
  <2>5. Owners(pc', op', handle', fs) = Held(handle, fs)
    BY DEF Owners
  <2> QED BY <2>1, <2>3, <2>4, <2>5 DEF Owns
<1> QED BY <1>6, <1>7, <1>8, <1>10, <1>11 DEF DirInv

LEMMA UnlinkEntryStep ==
    ASSUME DirInv, UnlinkEntry
    PROVE  DirInv'
BY RemovedStep DEF UnlinkEntry

LEMMA RenameEntryStep ==
    ASSUME DirInv, RenameEntry
    PROVE  DirInv'
BY RemovedStep DEF RenameEntry

\* The open file's entry is the one of its name.
LEMMA HandleEntry ==
    ASSUME DirInv, Ready, NEW e \in Listing(mem), handle # NoEntry, e.name = handle.name
    PROVE  handle = [e EXCEPT !.cluster = handle.cluster] /\ handle.end = e.end
<1>1. Filed(InOrder(mem), Size(mem), Listing(mem)) /\ Lists(pc, op, handle, names, Listing(mem))
      /\ Listing(mem) \subseteq Entry
  BY ReadyIs
<1>2. PICK f \in Listing(mem) : handle = [f EXCEPT !.cluster = handle.cluster]
  BY <1>1 DEF Lists
<1>3. f.name = handle.name /\ f.end = handle.end
  BY <1>1, <1>2 DEF Entry
<1>4. e = f
  BY <1>1, <1>3 DEF Filed
<1> QED BY <1>2, <1>3, <1>4

LEMMA UnlinkStep ==
    ASSUME DirInv, NEW n \in Names, Unlink(n)
    PROVE  DirInv'
<1> DEFINE es == Listing(mem)
           p == Path(mem)
<1>1. PICK e \in {Found(mem, n)} : \E d \in {Cut(mem, e.cluster)} : op' = e /\ Becomes(d, Stray(n))
  BY DEF Unlink
<1>2. PICK w \in {Cut(mem, e.cluster)} : op' = e /\ Becomes(w, Stray(n))
  BY <1>1
<1>3. /\ Ready /\ Exists(mem, n) /\ pc' = "unlinking" /\ synced' = Touched({n})
      /\ handle' = handle /\ names' = names /\ cuts' = cuts
      /\ e = Found(mem, n) /\ w = Cut(mem, e.cluster) /\ op' = e /\ Becomes(w, Stray(n))
  BY <1>1, <1>2 DEF Unlink
<1>4. /\ upset \subseteq {"leak", "empty"} /\ pc = "idle"
      /\ mem \in DiskT /\ mem.met = {} /\ Fit(mem) /\ Pathed(mem.tab, p) /\ mem.tab[Last(p)] # FREE
      /\ Flat(mem.tab, p) /\ handle.end < Size(mem)
      /\ Filed(InOrder(mem), Size(mem), es)
      /\ Lists(pc, op, handle, names, es)
      /\ Owns(upset, pc, op, handle, mem.tab, p, es)
      /\ Owners(pc, op, handle, es) = Held(handle, es)
      /\ es \subseteq Entry
  BY <1>3, ReadyIs DEF Fit
<1>5. e \in es /\ e.name = n
  BY <1>3, <1>4, FoundIs
<1>6. Size(mem) \in Nat /\ 0 < Size(mem)
  BY <1>4, InOrderIs, DirNumbers
<1>7. /\ e \in Entry /\ e.new = NoName /\ e.end \in Nat /\ e.end < Size(mem) /\ e.cluster \in Entries
  BY <1>4, <1>5, <1>6, FiledRun DEF Entry, Entries
<1>8. handle.end \in Nat /\ handle.end < Size(mem) /\ handle \in Entry
  BY <1>4 DEF DirInv, TypeInv, PathInv, Entry
<1>9. Len(p) \in Nat /\ p \in [1 .. Len(p) -> Clusters]
  BY <1>4, PathTypes
<1>10. OwnedApart(mem.tab, p, Held(handle, es))
  BY <1>4 DEF Owns
<1> HIDE DEF p, es
<1>11. ASSUME handle.name # n
       PROVE  e \in Held(handle, es) /\ \A i \in 1 .. Len(p) : p[i] # e.cluster
  <2>1. e \in Held(handle, es)
    BY <1>5, <1>11 DEF Held
  <2> QED BY <1>4, <1>10, <2>1, OwnedOff
<1>12. Stray(n) = (IF handle.name = n THEN {"stray"} ELSE {}) /\ Stray(n) \in SUBSET Trap
  BY DEF Stray, Trap
<1>13. ASSUME \A i \in 1 .. Len(p) : p[i] # e.cluster
       PROVE  /\ Fit(w) /\ Flat(w.tab, p) /\ w.met = {} /\ Path(w) = p /\ Size(w) = Size(mem)
              /\ InOrder(w) = InOrder(mem) /\ Listing(w) = es
              /\ \A x \in Clusters : w.tab[x] = IF x = e.cluster THEN FREE ELSE mem.tab[x]
  BY <1>3, <1>4, <1>7, <1>13, CutOff DEF p, es
<1>14. /\ w \in DiskT /\ w.met = {} /\ Pathed(w.tab, Path(w)) /\ Flat(w.tab, Path(w))
       /\ handle.name # n => w.tab[Last(Path(w))] # FREE
       /\ Size(w) \in Nat /\ e.end < Size(w) /\ handle.end < Size(w)
  <2>1. CASE \A i \in 1 .. Len(p) : p[i] # e.cluster
    BY <1>6, <1>7, <1>8, <1>13, <2>1 DEF Fit
  <2>2. CASE ~\A i \in 1 .. Len(p) : p[i] # e.cluster
    <3>1. PICK i \in 1 .. Len(p) : p[i] = e.cluster
      BY <2>2
    <3>2. handle.name = n
      BY <1>11, <2>2
    <3>3. w \in DiskT /\ w.met = mem.met /\ Pathed(w.tab, Path(w)) /\ Flat(w.tab, Path(w)) /\ Size(w) = Slots * i
      BY <1>3, <1>4, <3>1, CutOn DEF p
    <3>4. handle.end < Slots * (i - 1)
      BY <1>4, <1>5, <3>1, <3>2 DEF Owns
    <3>5. Slots * (i - 1) <= Slots * i /\ Slots * i \in Nat /\ Slots * (i - 1) \in Nat
      <4>1. i - 1 \in Nat /\ i \in Nat /\ i - 1 <= i
        BY <1>9
      <4> QED BY <4>1, TimesLess, DirNumbers
    <3>6. handle # NoEntry
      BY <3>2, NoEntryIs, DirNumbers
    <3>7. handle.end = e.end
      BY <1>3, <1>5, <3>2, <3>6, HandleEntry DEF es
    <3>8. handle.end < Size(w) /\ Size(w) \in Nat
      BY <1>8, <3>3, <3>4, <3>5
    <3> QED BY <1>4, <3>2, <3>3, <3>7, <3>8
  <2> QED BY <2>1, <2>2
<1>15. card \in DiskT /\ card.met = {} /\ Pathed(card.tab, Path(card))
  BY DEF DirInv, TypeInv, PathInv
<1>16. /\ mem'.tab = w.tab /\ Path(mem') = Path(w) /\ Size(mem') = Size(w)
       /\ InOrder(mem') = InOrder(w) /\ Listing(mem') = Listing(w)
       /\ upset' = upset \cup Stray(n)
  <2>1. /\ mem'.tab = w.tab /\ Path(mem') = Path(w) /\ Size(mem') = Size(w)
        /\ InOrder(mem') = InOrder(w) /\ Listing(mem') = Listing(w)
        /\ upset' = (upset \cup w.met) \cup Stray(n)
    BY <1>3, <1>14, <1>15, BecomesIs
  <2> QED BY <1>14, <2>1
<1>17. "stray" \notin upset' => handle.name # n
  BY <1>12, <1>16
<1>18. /\ mem' \in DiskT /\ card' \in DiskT /\ mem'.met = {} /\ card'.met = {} /\ upset' \subseteq Trap
       /\ Pathed(mem'.tab, Path(mem')) /\ Pathed(card'.tab, Path(card'))
       /\ "stray" \notin upset' => mem'.tab[Last(Path(mem'))] # FREE /\ card'.tab[Last(Path(card'))] # FREE
       /\ "tail" \notin upset' => Flat(mem'.tab, Path(mem')) /\ Flat(card'.tab, Path(card'))
  BY <1>3, <1>12, <1>14, <1>17, BecomesFit
<1>19. TypeInv'
  <2>1. synced' \in [Names -> Entries \cup {Absent}]
    BY <1>3, TouchedType DEF DirInv, TypeInv
  <2> QED BY <1>3, <1>5, <1>7, <1>18, <2>1 DEF DirInv, TypeInv
<1>20. PathInv'
  BY <1>3, <1>14, <1>16, <1>18 DEF PathInv
<1>21. StepInv'
  <2>1. upset' \subseteq {"leak", "empty", "stray"}
    BY <1>4, <1>12, <1>16
  <2> QED BY <1>3, <2>1 DEF StepInv
<1>22. ASSUME "stray" \notin upset'
       PROVE  /\ handle.name # n /\ upset' = upset /\ e \in Held(handle, es)
              /\ \A i \in 1 .. Len(p) : p[i] # e.cluster
              /\ Path(w) = p /\ Size(w) = Size(mem) /\ InOrder(w) = InOrder(mem) /\ Listing(w) = es
              /\ \A x \in Clusters : w.tab[x] = IF x = e.cluster THEN FREE ELSE mem.tab[x]
  <2>1. handle.name # n
    BY <1>17, <1>22
  <2>2. upset' = upset
    BY <1>12, <1>16, <2>1
  <2> QED BY <1>11, <1>13, <2>1, <2>2
<1>23. Old(e) = e
  BY <1>7 DEF Old, Entry
<1>24. ListInv'
  <2> SUFFICES ASSUME "stray" \notin upset'
               PROVE  Filed(InOrder(mem), Size(mem), es) /\ Lists(pc', op', handle', names', es)
    BY <1>16, <1>22 DEF ListInv
  <2> QED BY <1>3, <1>4, <1>5, <1>7, <1>22, <1>23 DEF Lists
<1>25. OwnInv'
  <2> SUFFICES ASSUME upset' \subseteq {"leak", "empty"}
               PROVE  Owns(upset', pc', op', handle', mem'.tab, Path(mem'), Listing(mem'))
    BY DEF OwnInv
  <2>1. /\ handle.name # n /\ upset' = upset /\ e \in Held(handle, es)
        /\ \A i \in 1 .. Len(p) : p[i] # e.cluster
        /\ Path(w) = p /\ Listing(w) = es
        /\ \A x \in Clusters : w.tab[x] = IF x = e.cluster THEN FREE ELSE mem.tab[x]
    BY <1>22
  <2> DEFINE os == Held(handle, es)
  <2>2. Owners(pc', op', handle', es) = os \ {e}
    BY <1>3, <1>23 DEF Owners
  <2>3. OwnedApart(mem.tab, p, os) /\ (upset \subseteq {"empty"} => AllOwned(mem.tab, p, os))
    BY <1>4 DEF Owns
  <2> HIDE DEF os
  <2>4. e \in os
    BY <2>1 DEF os
  <2>5. OwnedApart(w.tab, p, os \ {e})
    <3>1. ASSUME NEW f \in os \ {e}, f.cluster # FREE
          PROVE  /\ f.cluster \in Clusters /\ w.tab[f.cluster] = EOF
                 /\ \A i \in 1 .. Len(p) : p[i] # f.cluster
      <4>1. /\ f.cluster \in Clusters /\ mem.tab[f.cluster] = EOF
            /\ \A i \in 1 .. Len(p) : p[i] # f.cluster
        BY <2>3, <3>1 DEF OwnedApart
      <4>2. f.cluster # e.cluster
        BY <2>3, <2>4, <3>1 DEF OwnedApart
      <4> QED BY <2>1, <4>1, <4>2
    <3>2. \A f, h \in os \ {e} : f.cluster = h.cluster /\ f.cluster # FREE => f = h
      BY <2>3 DEF OwnedApart
    <3> QED BY <3>1, <3>2 DEF OwnedApart
  <2>6. upset \subseteq {"empty"} => AllOwned(w.tab, p, os \ {e})
    <3> SUFFICES ASSUME upset \subseteq {"empty"}, NEW c \in Clusters, w.tab[c] # FREE,
                        \A i \in 1 .. Len(p) : p[i] # c
                 PROVE  \E f \in os \ {e} : f.cluster = c
      BY DEF AllOwned
    <3>1. c # e.cluster /\ mem.tab[c] # FREE
      BY <2>1
    <3>2. PICK f \in os : f.cluster = c
      BY <2>3, <3>1 DEF AllOwned
    <3> QED BY <3>1, <3>2
  <2>7. \A f \in es : f.name = handle.name =>
            \A i \in 1 .. Len(p) : p[i] = f.cluster => handle.end < Slots * (i - 1)
    BY <1>4 DEF Owns
  <2>8. Owns(upset, pc', op', handle', w.tab, p, es)
    <3>1. OwnedApart(w.tab, p, Owners(pc', op', handle', es))
      BY <2>2, <2>5
    <3>2. upset \subseteq {"empty"} => AllOwned(w.tab, p, Owners(pc', op', handle', es))
      BY <2>2, <2>6
    <3>3. handle' = handle
      BY <1>3
    <3> QED BY ONLY <3>1, <3>2, <3>3, <2>7 DEF Owns
  <2>9. mem'.tab = w.tab /\ Path(mem') = p /\ Listing(mem') = es
    BY <1>16, <2>1
  <2> QED BY ONLY <2>1, <2>8, <2>9
<1> QED BY <1>19, <1>20, <1>21, <1>24, <1>25 DEF DirInv

\* What adding an entry comes to, in rename and in mkdir.
AddedStepFor(a, traps) ==
    LET es == Listing(mem)
        fs == IF a.ok THEN es \cup {a.entry} ELSE es
    IN  /\ mem' \in DiskT /\ card' \in DiskT /\ mem'.met = {} /\ card'.met = {} /\ upset' \subseteq Trap
        /\ Pathed(mem'.tab, Path(mem')) /\ Pathed(card'.tab, Path(card'))
        /\ "stray" \notin upset' => mem'.tab[Last(Path(mem'))] # FREE /\ card'.tab[Last(Path(card'))] # FREE
        /\ "tail" \notin upset' => Flat(mem'.tab, Path(mem')) /\ Flat(card'.tab, Path(card'))
        /\ Size(mem') \in Nat /\ Size(mem) <= Size(mem') /\ 0 < Size(mem')
        /\ op.end < Size(mem') /\ handle.end < Size(mem')
        /\ upset \subseteq upset' /\ traps \subseteq upset'
        /\ upset' \subseteq (upset \cup traps) \cup {"tail", "beyond", "gap", "outside"}
        /\ ("gap" \notin upset' /\ "outside" \notin upset') => Filed(InOrder(mem'), Size(mem'), fs) /\ Listing(mem') = fs
        /\ upset' \subseteq {"leak", "empty"} =>
              /\ \A os : OwnedApart(mem.tab, Path(mem), os) => OwnedApart(mem'.tab, Path(mem'), os)
              /\ \A os : AllOwned(mem.tab, Path(mem), os) => AllOwned(mem'.tab, Path(mem'), os)
              /\ \A e \in es : e.name = handle.name =>
                    \A i \in 1 .. Len(Path(mem')) : Path(mem')[i] = e.cluster => handle.end < Slots * (i - 1)

LEMMA AddedStep ==
    ASSUME DirInv, pc # "opening", upset \cap {"gap", "outside", "stray", "torn"} = {},
           NEW n \in Names, NEW c \in Entries, NEW dir \in BOOLEAN,
           \A f \in Listing(mem) : f.name # n,
           NEW a, a = Added(mem, n, c, dir), NEW traps \in SUBSET Trap, Becomes(a.d, traps)
    PROVE  AddedFor(mem, a, n, c, dir, Listing(mem)) /\ AddedStepFor(a, traps)
<1> DEFINE es == Listing(mem)
           fs == IF a.ok THEN es \cup {a.entry} ELSE es
           w == a.d
<1>1. /\ mem \in DiskT /\ mem.met = {} /\ Fit(mem) /\ Pathed(mem.tab, Path(mem))
      /\ Filed(InOrder(mem), Size(mem), es)
  BY DEF DirInv, TypeInv, PathInv, ListInv, Fit
<1>2. AddedFor(mem, a, n, c, dir, es)
  BY <1>1, AddedIs
<1>3. /\ a.ok \in BOOLEAN /\ Grew(mem, w)
      /\ w.met \subseteq {"tail", "beyond", "gap", "outside"}
      /\ (a.ok /\ "gap" \notin w.met /\ "outside" \notin w.met) => Filed(InOrder(w), Size(w), es \cup {a.entry})
      /\ (~a.ok /\ "outside" \notin w.met) => Filed(InOrder(w), Size(w), es)
  BY <1>2 DEF AddedFor
<1>4. Becomes(w, traps)
  OBVIOUS
<1> HIDE DEF w, es
<1>5. w \in DiskT /\ Pathed(w.tab, Path(w)) /\ w.tab[Last(Path(w))] # FREE
  BY <1>3 DEF Grew, Fit
<1>6. card \in DiskT /\ card.met = {} /\ Pathed(card.tab, Path(card))
  BY DEF DirInv, TypeInv, PathInv
<1>7. /\ mem'.tab = w.tab /\ Path(mem') = Path(w) /\ Size(mem') = Size(w)
      /\ InOrder(mem') = InOrder(w) /\ Listing(mem') = Listing(w)
      /\ upset' = (upset \cup w.met) \cup traps
  BY <1>4, <1>5, <1>6, BecomesIs
<1>8. /\ mem' \in DiskT /\ card' \in DiskT /\ mem'.met = {} /\ card'.met = {} /\ upset' \subseteq Trap
      /\ Pathed(mem'.tab, Path(mem')) /\ Pathed(card'.tab, Path(card'))
      /\ "stray" \notin upset' => mem'.tab[Last(Path(mem'))] # FREE /\ card'.tab[Last(Path(card'))] # FREE
      /\ "tail" \notin upset' => Flat(mem'.tab, Path(mem')) /\ Flat(card'.tab, Path(card'))
  <2>1. "tail" \notin upset' => Flat(w.tab, Path(w))
    <3>1. "tail" \notin upset => Flat(mem.tab, Path(mem))
      BY DEF DirInv, PathInv
    <3> QED BY <1>1, <1>3, <1>7, <3>1, FlatGrew
  <2> QED BY <1>4, <1>5, <2>1, BecomesFit
<1>9. Size(mem) \in Nat /\ Size(w) \in Nat /\ Size(mem) <= Size(w) /\ 0 < Size(mem)
  BY <1>1, <1>3, GrewSize
<1>10. op.end \in Nat /\ handle.end \in Nat /\ op.end < Size(mem) /\ handle.end < Size(mem)
  BY DEF DirInv, TypeInv, PathInv, Entry
<1>11. /\ Size(mem') \in Nat /\ Size(mem) <= Size(mem') /\ 0 < Size(mem')
       /\ op.end < Size(mem') /\ handle.end < Size(mem')
  BY <1>7, <1>9, <1>10
<1>12. /\ upset \subseteq upset' /\ traps \subseteq upset'
       /\ upset' \subseteq (upset \cup traps) \cup {"tail", "beyond", "gap", "outside"}
  BY <1>3, <1>7
<1>14. ASSUME "gap" \notin upset', "outside" \notin upset'
       PROVE  Filed(InOrder(mem'), Size(mem'), fs) /\ Listing(mem') = fs
  <2>1. Filed(InOrder(w), Size(w), fs)
    BY <1>3, <1>7, <1>14
  <2>2. Listing(w) = fs
    BY <1>5, <2>1, FiledListing
  <2> QED BY <1>7, <2>1, <2>2
<1>15. ASSUME upset' \subseteq {"leak", "empty"}
       PROVE  /\ \A os : OwnedApart(mem.tab, Path(mem), os) => OwnedApart(mem'.tab, Path(mem'), os)
              /\ \A os : AllOwned(mem.tab, Path(mem), os) => AllOwned(mem'.tab, Path(mem'), os)
              /\ \A e \in es : e.name = handle.name =>
                    \A i \in 1 .. Len(Path(mem')) : Path(mem')[i] = e.cluster => handle.end < Slots * (i - 1)
  <2>1. "tail" \notin w.met /\ upset \subseteq {"leak", "empty"}
    BY <1>7, <1>15
  <2>2. \A e \in es : e.name = handle.name =>
            \A i \in 1 .. Len(Path(mem)) : Path(mem)[i] = e.cluster => handle.end < Slots * (i - 1)
    BY <2>1 DEF DirInv, OwnInv, Owns, es
  <2>3. ASSUME NEW e \in es, e.name = handle.name
        PROVE  \A i \in 1 .. Len(Path(w)) : Path(w)[i] = e.cluster => handle.end < Slots * (i - 1)
    <3> DEFINE k == handle.end
               x == e.cluster
    <3>1. k \in Nat /\ k < Size(mem) /\ \A i \in 1 .. Len(Path(mem)) : Path(mem)[i] = x => k < Slots * (i - 1)
      BY <1>10, <2>2, <2>3
    <3> HIDE DEF k, x
    <3>2. \A i \in 1 .. Len(Path(w)) : Path(w)[i] = x => k < Slots * (i - 1)
      BY <1>1, <1>3, <3>1, BeforeGrew
    <3> QED BY <3>2 DEF k, x
  <2>4. \A os : OwnedApart(mem.tab, Path(mem), os) => OwnedApart(w.tab, Path(w), os)
    BY <1>1, <1>3, OwnedGrew
  <2>5. \A os : AllOwned(mem.tab, Path(mem), os) => AllOwned(w.tab, Path(w), os)
    BY <1>1, <1>3, <2>1, AllOwnedGrew
  <2> QED BY <1>7, <2>3, <2>4, <2>5
<1> QED BY <1>2, <1>8, <1>11, <1>12, <1>14, <1>15 DEF AddedStepFor, es

\* A name that is not listed is not that of the open file.
LEMMA HandleName ==
    ASSUME NEW es, es \subseteq Entry, NEW h, NEW s, NEW o, NEW ns, Lists(s, o, h, ns, es),
           NEW n \in Names, \A f \in es : f.name # n
    PROVE  h.name # n
<1>1. CASE h = NoEntry
  BY <1>1, NoEntryIs, DirNumbers
<1>2. CASE h # NoEntry
  <2>1. PICK f \in es : h = [f EXCEPT !.cluster = h.cluster]
    BY <1>2 DEF Lists
  <2>2. f \in Entry
    BY <2>1
  <2>3. h.name = f.name
    BY <2>1, <2>2 DEF Entry
  <2> QED BY <2>1, <2>3
<1> QED BY <1>1, <1>2

\* An entry with another name than the open file's stands for itself.
LEMMA HeldMore ==
    ASSUME NEW es, NEW h, NEW a, a.name # h.name
    PROVE  Held(h, es \cup {a}) = Held(h, es) \cup {a}
BY DEF Held

\* An entry takes the place of another with the same cluster.
LEMMA OwnedSwapped ==
    ASSUME NEW lk, NEW p, NEW os, NEW e \in os, NEW a, a.cluster = e.cluster, OwnedApart(lk, p, os)
    PROVE  OwnedApart(lk, p, (os \ {e}) \cup {a})
<1>1. ASSUME NEW f \in (os \ {e}) \cup {a}, f.cluster # FREE
      PROVE  f.cluster \in Clusters /\ lk[f.cluster] = EOF /\ \A i \in 1 .. Len(p) : p[i] # f.cluster
  <2>1. PICK g \in os : g.cluster = f.cluster
    BY <1>1
  <2> QED BY <1>1, <2>1 DEF OwnedApart
<1>2. ASSUME NEW f \in (os \ {e}) \cup {a}, NEW g \in (os \ {e}) \cup {a},
             f.cluster = g.cluster, f.cluster # FREE
      PROVE  f = g
  BY <1>2 DEF OwnedApart
<1> QED BY <1>1, <1>2 DEF OwnedApart

LEMMA AllSwapped ==
    ASSUME NEW lk, NEW p, NEW os, NEW e \in os, NEW a, a.cluster = e.cluster, AllOwned(lk, p, os)
    PROVE  AllOwned(lk, p, (os \ {e}) \cup {a})
<1> SUFFICES ASSUME NEW c \in Clusters, lk[c] # FREE, \A i \in 1 .. Len(p) : p[i] # c
             PROVE  \E f \in (os \ {e}) \cup {a} : f.cluster = c
  BY DEF AllOwned
<1>1. PICK f \in os : f.cluster = c
  BY DEF AllOwned
<1> QED BY <1>1

LEMMA RenameStep ==
    ASSUME DirInv, NEW n \in Names, NEW to \in Names, Rename(n, to)
    PROVE  DirInv'
<1> DEFINE es == Listing(mem)
           p == Path(mem)
<1>1. PICK e \in {Found(mem, n)} : \E a \in {Added(mem, to, e.cluster, e.dir)} :
        /\ Becomes(a.d, IF a.ok THEN Stray(n) ELSE {})
        /\ IF a.ok THEN /\ pc' = "renaming" /\ op' = [e EXCEPT !.new = to]
                        /\ names' = [names EXCEPT ![to] = e.cluster]
           ELSE UNCHANGED <<pc, op, names>>
  BY DEF Rename
<1>2. PICK a \in {Added(mem, to, e.cluster, e.dir)} :
        /\ Becomes(a.d, IF a.ok THEN Stray(n) ELSE {})
        /\ IF a.ok THEN /\ pc' = "renaming" /\ op' = [e EXCEPT !.new = to]
                        /\ names' = [names EXCEPT ![to] = e.cluster]
           ELSE UNCHANGED <<pc, op, names>>
  BY <1>1
<1>3. /\ Ready /\ Exists(mem, n) /\ ~Exists(mem, to) /\ synced' = Touched({n, to})
      /\ handle' = handle /\ cuts' = cuts /\ e = Found(mem, n) /\ a = Added(mem, to, e.cluster, e.dir)
  BY <1>1, <1>2 DEF Rename
<1>4. /\ upset \subseteq {"leak", "empty"} /\ pc = "idle"
      /\ mem \in DiskT /\ mem.met = {} /\ Fit(mem) /\ Pathed(mem.tab, p)
      /\ Filed(InOrder(mem), Size(mem), es)
      /\ Lists(pc, op, handle, names, es)
      /\ Owns(upset, pc, op, handle, mem.tab, p, es)
      /\ Owners(pc, op, handle, es) = Held(handle, es)
      /\ es \subseteq Entry
  BY <1>3, ReadyIs DEF Fit
<1>5. e \in es /\ e.name = n
  BY <1>3, <1>4, FoundIs
<1>6. Size(mem) \in Nat /\ 0 < Size(mem)
  BY <1>4, InOrderIs, DirNumbers
<1>7. /\ e \in Entry /\ e.new = NoName /\ e.end \in Nat /\ e.end < Size(mem) /\ e.cluster \in Entries
      /\ e.dir \in BOOLEAN
  BY <1>4, <1>5, <1>6, FiledRun DEF Entry, Entries
<1>8. \A f \in es : f.name # to
  BY <1>3 DEF Exists, Named
<1>9. n # to
  BY <1>5, <1>8
<1>10. Stray(n) = (IF handle.name = n THEN {"stray"} ELSE {})
  BY DEF Stray
<1> DEFINE traps == IF a.ok THEN Stray(n) ELSE {}
           fs == IF a.ok THEN es \cup {a.entry} ELSE es
<1>11. traps \in SUBSET Trap /\ traps \subseteq {"stray"}
       /\ (a.ok /\ "stray" \notin traps => handle.name # n)
  BY <1>10 DEF Trap
<1>12. Becomes(a.d, traps)
  BY <1>2
<1> HIDE DEF traps
<1>13. pc # "opening" /\ upset \cap {"gap", "outside", "stray", "torn"} = {}
  BY <1>4
<1>14. AddedFor(mem, a, to, e.cluster, e.dir, es) /\ AddedStepFor(a, traps)
  BY <1>3, <1>7, <1>8, <1>11, <1>12, <1>13, AddedStep
<1>15. /\ a.ok \in BOOLEAN
       /\ a.ok => a.entry.name = to /\ a.entry.cluster = e.cluster
  BY <1>14 DEF AddedFor
<1>16. /\ mem' \in DiskT /\ card' \in DiskT /\ mem'.met = {} /\ card'.met = {} /\ upset' \subseteq Trap
       /\ Pathed(mem'.tab, Path(mem')) /\ Pathed(card'.tab, Path(card'))
       /\ "stray" \notin upset' => mem'.tab[Last(Path(mem'))] # FREE /\ card'.tab[Last(Path(card'))] # FREE
       /\ "tail" \notin upset' => Flat(mem'.tab, Path(mem')) /\ Flat(card'.tab, Path(card'))
  BY <1>14 DEF AddedStepFor
<1>17. /\ Size(mem') \in Nat /\ Size(mem) <= Size(mem')
       /\ op.end < Size(mem') /\ handle.end < Size(mem')
       /\ upset \subseteq upset' /\ traps \subseteq upset'
       /\ ("gap" \notin upset' /\ "outside" \notin upset') => Filed(InOrder(mem'), Size(mem'), fs) /\ Listing(mem') = fs
  BY <1>14 DEF AddedStepFor
<1>18. upset' \subseteq {"leak", "empty"} =>
          /\ \A os : OwnedApart(mem.tab, p, os) => OwnedApart(mem'.tab, Path(mem'), os)
          /\ \A os : AllOwned(mem.tab, p, os) => AllOwned(mem'.tab, Path(mem'), os)
          /\ \A f \in es : f.name = handle.name =>
                \A i \in 1 .. Len(Path(mem')) : Path(mem')[i] = f.cluster => handle.end < Slots * (i - 1)
  BY <1>14 DEF AddedStepFor
<1>19. /\ a.ok => pc' = "renaming" /\ op' = [e EXCEPT !.new = to] /\ names' = [names EXCEPT ![to] = e.cluster]
       /\ ~a.ok => pc' = pc /\ op' = op /\ names' = names
  BY <1>2
<1>20. a.ok => /\ op' \in Entry /\ op'.name = n /\ op'.new = to /\ op'.end = e.end
               /\ op'.cluster = e.cluster /\ Old(op') = e
  BY <1>5, <1>7, <1>19 DEF Old, Entry
<1>21. handle.name # to
  BY <1>4, <1>8, HandleName
<1> HIDE DEF es, p
<1>22. TypeInv'
  <2>1. synced' \in [Names -> Entries \cup {Absent}]
    BY <1>3, TouchedType DEF DirInv, TypeInv
  <2>2. names' \in [Names -> Entries \cup {Absent}]
    BY <1>7, <1>15, <1>19 DEF DirInv, TypeInv
  <2>3. op' \in Entry /\ pc' \in {"idle", "renaming"} /\ (pc' = "renaming" => op'.name \in Names)
    BY <1>4, <1>15, <1>19, <1>20 DEF DirInv, TypeInv
  <2> QED BY <1>3, <1>16, <2>1, <2>2, <2>3 DEF DirInv, TypeInv
<1>23. PathInv'
  <2>1. op'.end < Size(mem')
    BY <1>6, <1>7, <1>15, <1>17, <1>19, <1>20
  <2> QED BY <1>3, <1>16, <1>17, <2>1 DEF PathInv
<1>24. StepInv'
  BY <1>4, <1>15, <1>17, <1>19 DEF StepInv
<1>25. CASE ~a.ok
  <2>1. fs = es /\ pc' = pc /\ op' = op /\ names' = names /\ handle' = handle
    BY <1>3, <1>19, <1>25
  <2>2. ListInv'
    BY <1>4, <1>17, <2>1 DEF ListInv
  <2>3. OwnInv'
    <3> SUFFICES ASSUME upset' \subseteq {"leak", "empty"}
                 PROVE  Owns(upset', pc, op, handle, mem'.tab, Path(mem'), Listing(mem'))
      BY <2>1 DEF OwnInv
    <3>1. Listing(mem') = es
      BY <1>17, <2>1
    <3>2. OwnedApart(mem'.tab, Path(mem'), Owners(pc, op, handle, es))
      BY <1>4, <1>18 DEF Owns
    <3>3. upset' \subseteq {"empty"} => AllOwned(mem'.tab, Path(mem'), Owners(pc, op, handle, es))
      BY <1>4, <1>17, <1>18 DEF Owns
    <3> QED BY <1>18, <3>1, <3>2, <3>3 DEF Owns
  <2> QED BY <1>22, <1>23, <1>24, <2>2, <2>3 DEF DirInv
<1>26. CASE a.ok
  <2> DEFINE x == a.entry
  <2>1. fs = es \cup {x} /\ x.name = to /\ x.cluster = e.cluster /\ x # e
    BY <1>5, <1>9, <1>15, <1>26
  <2>2. pc' = "renaming" /\ handle' = handle /\ names' = [names EXCEPT ![to] = e.cluster]
    BY <1>3, <1>19, <1>26
  <2> HIDE DEF x
  <2>3. ASSUME "stray" \notin upset' PROVE handle.name # n
    BY <1>11, <1>17, <1>26, <2>3
  <2>4. ListInv'
    <3> SUFFICES ASSUME upset' \cap {"gap", "outside", "stray", "torn"} = {}
                 PROVE  /\ Filed(InOrder(mem'), Size(mem'), Listing(mem'))
                        /\ Lists(pc', op', handle', names', Listing(mem'))
      BY DEF ListInv
    <3>1. Filed(InOrder(mem'), Size(mem'), fs) /\ Listing(mem') = fs
      BY <1>17
    <3>2. \A y \in Names : Stands(fs, y, names'[y])
      <4>1. \A y \in Names : Stands(es, y, names[y])
        BY <1>4 DEF Lists
      <4>2. \A y \in Names : names'[y] = IF y = to THEN x.cluster ELSE names[y]
        BY <2>1, <2>2 DEF DirInv, TypeInv
      <4>3. x.name = to /\ x.cluster \in Entries
        BY <1>7, <2>1
      <4>4. \A y \in Names : Stands(es \cup {x}, y, names'[y])
        BY <1>8, <4>1, <4>2, <4>3, ListsMore
      <4> QED BY <2>1, <4>4
    <3>3. Old(op') \in fs /\ op'.name # handle.name
      BY <1>5, <1>20, <1>26, <2>1, <2>3
    <3>4. \E t \in fs : t.name = op'.new /\ t.cluster = op'.cluster /\ t # Old(op')
      BY <1>20, <1>26, <2>1
    <3>5. handle # NoEntry => (\E f \in fs : handle = [f EXCEPT !.cluster = handle.cluster]) /\ ~handle.dir
      BY <1>4, <2>1 DEF Lists
    <3> QED BY <2>2, <3>1, <3>2, <3>3, <3>4, <3>5 DEF Lists
  <2>5. OwnInv'
    <3> SUFFICES ASSUME upset' \subseteq {"leak", "empty"}
                 PROVE  Owns(upset', pc', op', handle', mem'.tab, Path(mem'), Listing(mem'))
      BY DEF OwnInv
    <3> DEFINE os == Held(handle, es)
               q == Path(mem')
               lk == mem'.tab
    <3>1. Listing(mem') = fs /\ handle.name # n
      BY <1>17, <2>3
    <3>2. e \in os
      BY <1>5, <3>1 DEF Held
    <3>3. Held(handle, fs) = os \cup {x}
      BY <1>21, <2>1, HeldMore
    <3>4. x \in es => FALSE
      BY <1>8, <2>1
    <3>5. Owners(pc', op', handle', fs) = (os \ {e}) \cup {x}
      <4>1. Owners(pc', op', handle', fs) = Held(handle, fs) \ {e}
        BY <1>20, <1>26, <2>2 DEF Owners
      <4> HIDE DEF os
      <4> QED BY <2>1, <3>3, <4>1
    <3>6. OwnedApart(lk, q, os) /\ (upset' \subseteq {"empty"} => AllOwned(lk, q, os))
      BY <1>4, <1>17, <1>18 DEF Owns
    <3> HIDE DEF os
    <3>7. OwnedApart(lk, q, (os \ {e}) \cup {x})
      BY <2>1, <3>2, <3>6, OwnedSwapped
    <3>8. upset' \subseteq {"empty"} => AllOwned(lk, q, (os \ {e}) \cup {x})
      BY <2>1, <3>2, <3>6, AllSwapped
    <3>9. \A f \in fs : f.name = handle.name =>
            \A i \in 1 .. Len(q) : q[i] = f.cluster => handle.end < Slots * (i - 1)
      BY <1>18, <1>21, <2>1
    <3>10. Owns(upset', pc', op', handle, lk, q, fs)
      <4>1. OwnedApart(lk, q, Owners(pc', op', handle, fs))
        BY <2>2, <3>5, <3>7
      <4>2. upset' \subseteq {"empty"} => AllOwned(lk, q, Owners(pc', op', handle, fs))
        BY <2>2, <3>5, <3>8
      <4> QED BY ONLY <3>9, <4>1, <4>2 DEF Owns
    <3> QED BY <2>2, <3>1, <3>10
  <2> QED BY <1>22, <1>23, <1>24, <2>4, <2>5 DEF DirInv
<1> QED BY <1>15, <1>25, <1>26

LEMMA MkdirStep ==
    ASSUME DirInv, NEW n \in Names, Mkdir(n)
    PROVE  DirInv'
<1> DEFINE es == Listing(mem)
           p == Path(mem)
<1>1. PICK new \in {LinkedFree(mem, FREE)} :
        /\ Becomes(new.d, {})
        /\ IF new.cluster = FREE THEN UNCHANGED <<pc, op>>
           ELSE pc' = "making" /\ op' = [NoEntry EXCEPT !.name = n, !.cluster = new.cluster, !.dir = TRUE]
  BY DEF Mkdir
<1>2. /\ Ready /\ ~Exists(mem, n) /\ synced' = Touched({n})
      /\ handle' = handle /\ names' = names /\ cuts' = cuts /\ new = LinkedFree(mem, FREE)
  BY <1>1 DEF Mkdir
<1>3. /\ upset \subseteq {"leak", "empty"} /\ pc = "idle"
      /\ mem \in DiskT /\ mem.met = {} /\ Fit(mem) /\ Pathed(mem.tab, p)
      /\ Flat(mem.tab, p) /\ handle.end < Size(mem)
      /\ Filed(InOrder(mem), Size(mem), es)
      /\ Lists(pc, op, handle, names, es)
      /\ Owns(upset, pc, op, handle, mem.tab, p, es)
      /\ Owners(pc, op, handle, es) = Held(handle, es)
      /\ es \subseteq Entry
  BY <1>2, ReadyIs DEF Fit
<1>4. \A f \in es : f.name # n
  BY <1>2 DEF Exists, Named
<1> DEFINE w == new.d
           x == new.cluster
<1>5. /\ Fit(w) /\ Flat(w.tab, Path(w)) /\ x \in Entries /\ w.met \subseteq {"beyond"}
      /\ Path(w) = p /\ Size(w) = Size(mem)
      /\ InOrder(w) = InOrder(mem) /\ Listing(w) = es
      /\ \/ /\ x \in Clusters /\ mem.tab[x] = FREE
            /\ \A i \in 1 .. Len(p) : p[i] # x
            /\ \A y \in Clusters : w.tab[y] = IF y = x THEN EOF ELSE mem.tab[y]
         \/ "beyond" \in w.met
         \/ x = FREE /\ w.tab = mem.tab
  <2>1. mem.met \cup {"beyond"} = {"beyond"}
    BY <1>3
  <2> HIDE DEF es, p
  <2> QED BY <1>2, <1>3, <2>1, FirstIs DEF es, p
<1>6. Becomes(w, {})
  BY <1>1
<1>7. /\ x = FREE => pc' = pc /\ op' = op
      /\ x # FREE => pc' = "making" /\ op' = [NoEntry EXCEPT !.name = n, !.cluster = x, !.dir = TRUE]
  BY <1>1
<1> HIDE DEF w, x, es, p
<1>8. w \in DiskT /\ Pathed(w.tab, Path(w)) /\ w.tab[Last(Path(w))] # FREE
  BY <1>5 DEF Fit
<1>9. card \in DiskT /\ card.met = {} /\ Pathed(card.tab, Path(card))
  BY DEF DirInv, TypeInv, PathInv
<1>10. /\ mem'.tab = w.tab /\ Path(mem') = p /\ Size(mem') = Size(mem)
       /\ InOrder(mem') = InOrder(mem) /\ Listing(mem') = es
       /\ upset' = (upset \cup w.met) \cup {}
  BY <1>5, <1>6, <1>8, <1>9, BecomesIs
<1>11. upset' = upset \cup w.met
  BY <1>10
<1>12. /\ mem' \in DiskT /\ card' \in DiskT /\ mem'.met = {} /\ card'.met = {} /\ upset' \subseteq Trap
       /\ Pathed(mem'.tab, Path(mem')) /\ Pathed(card'.tab, Path(card'))
       /\ "stray" \notin upset' => mem'.tab[Last(Path(mem'))] # FREE /\ card'.tab[Last(Path(card'))] # FREE
       /\ "tail" \notin upset' => Flat(mem'.tab, Path(mem')) /\ Flat(card'.tab, Path(card'))
  <2>1. {} \in SUBSET Trap
    OBVIOUS
  <2> QED BY <1>5, <1>6, <1>8, <2>1, BecomesFit
<1>13. x # FREE => /\ op' \in Entry /\ op'.name = n /\ op'.cluster = x /\ op'.end = 0 /\ op'.new = NoName
  <2>1. x \in 0 .. LastCluster + 1
    BY <1>5 DEF Entries
  <2> QED BY <1>7, <2>1, NoEntryIs DEF Entry
<1>14. Size(mem) \in Nat /\ 0 < Size(mem)
  BY <1>3, InOrderIs, DirNumbers DEF p
<1>15. TypeInv'
  <2>1. synced' \in [Names -> Entries \cup {Absent}]
    BY <1>2, TouchedType DEF DirInv, TypeInv
  <2>2. op' \in Entry /\ pc' \in {"idle", "making"} /\ (pc' = "making" => op'.name \in Names)
    BY <1>3, <1>7, <1>13 DEF DirInv, TypeInv
  <2> QED BY <1>2, <1>12, <2>1, <2>2 DEF DirInv, TypeInv
<1>16. PathInv'
  <2>1. op'.end < Size(mem)
    BY <1>3, <1>7, <1>13, <1>14 DEF DirInv, PathInv
  <2>2. handle'.end < Size(mem)
    BY <1>2, <1>3
  <2> QED BY <1>10, <1>12, <2>1, <2>2 DEF PathInv
<1>17. StepInv'
  BY <1>3, <1>5, <1>7, <1>11 DEF StepInv
<1>18. ListInv'
  <2> SUFFICES Filed(InOrder(mem'), Size(mem'), es) /\ Lists(pc', op', handle', names', es)
    BY <1>10 DEF ListInv
  <2>1. x # FREE => Named(es, op'.name) = {}
    BY <1>4, <1>13 DEF Named
  <2>2. Lists(pc', op', handle', names', es)
    BY <1>2, <1>3, <1>7, <1>13, <2>1 DEF Lists
  <2> QED BY <1>3, <1>10, <2>2
<1>19. OwnInv'
  <2> SUFFICES ASSUME upset' \subseteq {"leak", "empty"}
               PROVE  Owns(upset', pc', op', handle, w.tab, p, es)
    BY <1>2, <1>10 DEF OwnInv
  <2>1. upset' = upset /\ "beyond" \notin w.met
    BY <1>5, <1>11
  <2> DEFINE os == Held(handle, es)
  <2>2. OwnedApart(mem.tab, p, os) /\ (upset \subseteq {"empty"} => AllOwned(mem.tab, p, os))
    BY <1>3 DEF Owns
  <2>3. \A f \in es : f.name = handle.name =>
            \A i \in 1 .. Len(p) : p[i] = f.cluster => handle.end < Slots * (i - 1)
    BY <1>3 DEF Owns
  <2>4. CASE x = FREE
    <3>1. w.tab = mem.tab /\ pc' = pc /\ op' = op
      BY <1>5, <1>7, <2>1, <2>4, Numbers
    <3> QED BY <1>3, <2>1, <3>1
  <2>5. CASE x # FREE
    <3>1. /\ x \in Clusters /\ mem.tab[x] = FREE
          /\ \A i \in 1 .. Len(p) : p[i] # x
          /\ \A y \in Clusters : w.tab[y] = IF y = x THEN EOF ELSE mem.tab[y]
      BY <1>5, <2>1, <2>5
    <3>2. Owners(pc', op', handle, es) = os \cup {op'}
      BY <1>7, <2>5 DEF Owners
    <3>3. op'.cluster = x
      BY <1>13, <2>5
    <3> HIDE DEF os
    <3>4. FREE # EOF
      BY Numbers
    <3>5. \A f \in os : f.cluster # FREE => f.cluster # x
      BY <2>2, <3>1, <3>4 DEF OwnedApart
    <3>6. OwnedApart(w.tab, p, os \cup {op'})
      <4>1. ASSUME NEW f \in os \cup {op'}, f.cluster # FREE
            PROVE  f.cluster \in Clusters /\ w.tab[f.cluster] = EOF /\ \A i \in 1 .. Len(p) : p[i] # f.cluster
        <5>1. CASE f = op'
          BY <3>1, <3>3, <5>1
        <5>2. CASE f \in os
          BY <2>2, <3>1, <4>1, <5>2 DEF OwnedApart
        <5> QED BY <5>1, <5>2
      <4>2. ASSUME NEW f \in os \cup {op'}, NEW g \in os \cup {op'}, f.cluster = g.cluster, f.cluster # FREE
            PROVE  f = g
        <5>1. CASE f \in os /\ g \in os
          BY <2>2, <4>2, <5>1 DEF OwnedApart
        <5>2. CASE f = op' \/ g = op'
          BY <3>3, <3>5, <4>2, <5>2
        <5> QED BY <5>1, <5>2
      <4> QED BY <4>1, <4>2 DEF OwnedApart
    <3>7. upset' \subseteq {"empty"} => AllOwned(w.tab, p, os \cup {op'})
      <4> SUFFICES ASSUME upset' \subseteq {"empty"}, NEW c \in Clusters, w.tab[c] # FREE,
                          \A i \in 1 .. Len(p) : p[i] # c
                   PROVE  \E f \in os \cup {op'} : f.cluster = c
        BY DEF AllOwned
      <4>1. CASE c = x
        BY <3>3, <4>1
      <4>2. CASE c # x
        BY <2>1, <2>2, <3>1, <4>2 DEF AllOwned
      <4> QED BY <4>1, <4>2
    <3>8. OwnedApart(w.tab, p, Owners(pc', op', handle, es))
      BY <3>2, <3>6
    <3>9. upset' \subseteq {"empty"} => AllOwned(w.tab, p, Owners(pc', op', handle, es))
      BY <3>2, <3>7
    <3> QED BY ONLY <2>3, <3>8, <3>9 DEF Owns
  <2> QED BY <2>4, <2>5
<1> QED BY <1>15, <1>16, <1>17, <1>18, <1>19 DEF DirInv

LEMMA MkdirEntryStep ==
    ASSUME DirInv, MkdirEntry
    PROVE  DirInv'
<1> DEFINE es == Listing(mem)
           p == Path(mem)
<1>1. PICK a \in {Added(mem, op.name, op.cluster, TRUE)} :
        /\ Becomes(a.d, IF a.ok THEN {} ELSE {"leak"})
        /\ IF a.ok THEN pc' = "flush" /\ names' = [names EXCEPT ![op.name] = op.cluster]
           ELSE pc' = "idle" /\ UNCHANGED names
  BY DEF MkdirEntry
<1>2. /\ pc = "making" /\ op' = NoEntry /\ handle' = handle /\ synced' = synced /\ cuts' = cuts
      /\ a = Added(mem, op.name, op.cluster, TRUE)
  BY <1>1 DEF MkdirEntry
<1>3. /\ upset \subseteq {"leak", "empty", "beyond"} /\ op \in Entry /\ op.name \in Names
      /\ Lists(pc, op, handle, names, es) /\ Filed(InOrder(mem), Size(mem), es)
  BY <1>2 DEF DirInv, StepInv, TypeInv, ListInv
<1>4. \A f \in es : f.name # op.name
  BY <1>2, <1>3 DEF Lists, Named
<1>5. op.cluster \in Entries
  BY <1>3 DEF Entry, Entries
<1>6. es \subseteq Entry
  BY <1>3 DEF Filed
<1> DEFINE traps == IF a.ok THEN {} ELSE {"leak"}
           fs == IF a.ok THEN es \cup {a.entry} ELSE es
<1>7. traps \in SUBSET Trap /\ traps \subseteq {"leak"} /\ (~a.ok => "leak" \in traps)
  BY DEF Trap
<1>8. Becomes(a.d, traps)
  BY <1>1
<1> HIDE DEF traps
<1>9. pc # "opening" /\ upset \cap {"gap", "outside", "stray", "torn"} = {}
  BY <1>2, <1>3
<1>10. AddedFor(mem, a, op.name, op.cluster, TRUE, es) /\ AddedStepFor(a, traps)
  BY <1>2, <1>3, <1>4, <1>5, <1>7, <1>8, <1>9, AddedStep
<1>11. /\ a.ok \in BOOLEAN
       /\ a.ok => a.entry.name = op.name /\ a.entry.cluster = op.cluster
  BY <1>10 DEF AddedFor
<1>12. /\ mem' \in DiskT /\ card' \in DiskT /\ mem'.met = {} /\ card'.met = {} /\ upset' \subseteq Trap
       /\ Pathed(mem'.tab, Path(mem')) /\ Pathed(card'.tab, Path(card'))
       /\ "stray" \notin upset' => mem'.tab[Last(Path(mem'))] # FREE /\ card'.tab[Last(Path(card'))] # FREE
       /\ "tail" \notin upset' => Flat(mem'.tab, Path(mem')) /\ Flat(card'.tab, Path(card'))
  BY <1>10 DEF AddedStepFor
<1>13. /\ Size(mem') \in Nat /\ Size(mem) <= Size(mem') /\ 0 < Size(mem')
       /\ handle.end < Size(mem')
       /\ upset \subseteq upset' /\ traps \subseteq upset'
       /\ ("gap" \notin upset' /\ "outside" \notin upset') => Filed(InOrder(mem'), Size(mem'), fs) /\ Listing(mem') = fs
  BY <1>10 DEF AddedStepFor
<1>14. upset' \subseteq {"leak", "empty"} =>
          /\ \A os : OwnedApart(mem.tab, p, os) => OwnedApart(mem'.tab, Path(mem'), os)
          /\ \A os : AllOwned(mem.tab, p, os) => AllOwned(mem'.tab, Path(mem'), os)
          /\ \A f \in es : f.name = handle.name =>
                \A i \in 1 .. Len(Path(mem')) : Path(mem')[i] = f.cluster => handle.end < Slots * (i - 1)
  BY <1>10 DEF AddedStepFor
<1>15. /\ a.ok => pc' = "flush" /\ names' = [names EXCEPT ![op.name] = op.cluster]
       /\ ~a.ok => pc' = "idle" /\ names' = names
  BY <1>1
<1>16. handle.name # op.name
  BY <1>3, <1>4, <1>6, HandleName
<1> HIDE DEF es, p
<1>17. TypeInv'
  <2>1. names' \in [Names -> Entries \cup {Absent}]
    BY <1>5, <1>11, <1>15 DEF DirInv, TypeInv
  <2>2. pc' \in {"idle", "flush"}
    BY <1>11, <1>15
  <2> QED BY <1>2, <1>12, <2>1, <2>2, NoEntryIs DEF DirInv, TypeInv
<1>18. PathInv'
  BY <1>2, <1>12, <1>13, NoEntryIs DEF PathInv
<1>19. StepInv'
  BY <1>11, <1>13, <1>15 DEF StepInv
<1> DEFINE x == a.entry
<1>20. a.ok => fs = es \cup {x} /\ x.name = op.name /\ x.cluster = op.cluster
  BY <1>11
<1>21. ~a.ok => fs = es
  OBVIOUS
<1> HIDE DEF x
<1>22. ListInv'
  <2> SUFFICES ASSUME upset' \cap {"gap", "outside", "stray", "torn"} = {}
               PROVE  /\ Filed(InOrder(mem'), Size(mem'), Listing(mem'))
                      /\ Lists(pc', op', handle', names', Listing(mem'))
    BY DEF ListInv
  <2>1. Filed(InOrder(mem'), Size(mem'), fs) /\ Listing(mem') = fs
    BY <1>13
  <2>2. pc' \in {"idle", "flush"}
    BY <1>11, <1>15
  <2>3. \A y \in Names : Stands(es, y, names[y])
    BY <1>3 DEF Lists
  <2>4. \A y \in Names : Stands(fs, y, names'[y])
    <3>1. CASE a.ok
      <4>1. \A y \in Names : names'[y] = IF y = op.name THEN x.cluster ELSE names[y]
        BY <1>15, <1>20, <3>1 DEF DirInv, TypeInv
      <4>2. x.name = op.name /\ x.cluster \in Entries
        BY <1>5, <1>20, <3>1
      <4>3. \A y \in Names : Stands(es \cup {x}, y, names'[y])
        BY <1>3, <1>4, <2>3, <4>1, <4>2, ListsMore
      <4> QED BY <1>20, <3>1, <4>3
    <3>2. CASE ~a.ok
      BY <1>15, <1>21, <2>3, <3>2
    <3> QED BY <1>11, <3>1, <3>2
  <2>5. es \subseteq fs
    OBVIOUS
  <2>6. handle # NoEntry => (\E f \in fs : handle = [f EXCEPT !.cluster = handle.cluster]) /\ ~handle.dir
    BY <1>3, <2>5 DEF Lists
  <2> QED BY <1>2, <2>1, <2>2, <2>4, <2>6 DEF Lists
<1>23. OwnInv'
  <2> SUFFICES ASSUME upset' \subseteq {"leak", "empty"}
               PROVE  Owns(upset', pc', op', handle', mem'.tab, Path(mem'), Listing(mem'))
    BY DEF OwnInv
  <2> DEFINE os == Held(handle, es)
             q == Path(mem')
             lk == mem'.tab
  <2>1. Listing(mem') = fs /\ upset \subseteq {"leak", "empty"} /\ (upset' \subseteq {"empty"} => upset \subseteq {"empty"})
    BY <1>13
  <2>2. Owners(pc, op, handle, es) = os \cup {op}
    BY <1>2 DEF Owners
  <2>3. Owns(upset, pc, op, handle, mem.tab, p, es)
    BY <2>1 DEF DirInv, OwnInv, p, es
  <2>4. OwnedApart(lk, q, os \cup {op}) /\ (upset' \subseteq {"empty"} => AllOwned(lk, q, os \cup {op}))
    BY <1>14, <2>1, <2>2, <2>3 DEF Owns
  <2>5. Owners(pc', op', handle, fs) = Held(handle, fs)
    BY <1>11, <1>15 DEF Owners
  <2>6. OwnedApart(lk, q, os)
    BY <2>4 DEF OwnedApart
  <2>7. OwnedApart(lk, q, Owners(pc', op', handle, fs))
        /\ (upset' \subseteq {"empty"} => AllOwned(lk, q, Owners(pc', op', handle, fs)))
    <3>1. CASE a.ok
      <4>1. fs = es \cup {x} /\ x.name # handle.name /\ x.cluster = op.cluster
        BY <1>16, <1>20, <3>1
      <4>2. Held(handle, fs) = os \cup {x}
        <5>1. Held(handle, es \cup {x}) = Held(handle, es) \cup {x}
          BY <4>1, HeldMore
        <5> HIDE DEF fs
        <5> QED BY ONLY <4>1, <5>1 DEF os
      <4>3. op \notin os
        BY <1>4, <1>16 DEF Held
      <4> HIDE DEF os
      <4>4. ((os \cup {op}) \ {op}) \cup {x} = os \cup {x} /\ op \in os \cup {op}
        BY <4>3
      <4>5. OwnedApart(lk, q, os \cup {x})
        BY <2>4, <4>1, <4>4, OwnedSwapped
      <4>6. upset' \subseteq {"empty"} => AllOwned(lk, q, os \cup {x})
        BY <2>4, <4>1, <4>4, AllSwapped
      <4> QED BY ONLY <2>5, <4>2, <4>5, <4>6
    <3>2. CASE ~a.ok
      <4>1. "leak" \in upset'
        BY <1>7, <1>13, <3>2
      <4>2. Owners(pc', op', handle, fs) = os
        BY <1>21, <2>5, <3>2
      <4> HIDE DEF os
      <4>3. ~(upset' \subseteq {"empty"})
        BY <4>1
      <4> QED BY <2>6, <4>2, <4>3
    <3> QED BY <1>11, <3>1, <3>2
  <2>8. \A f \in fs : f.name = handle.name =>
            \A i \in 1 .. Len(q) : q[i] = f.cluster => handle.end < Slots * (i - 1)
    BY <1>11, <1>14, <1>16, <1>20, <1>21
  <2>9. Owns(upset', pc', op', handle, lk, q, fs)
    BY ONLY <2>7, <2>8 DEF Owns
  <2> QED BY <1>2, <2>1, <2>9
<1> QED BY <1>17, <1>18, <1>19, <1>22, <1>23 DEF DirInv

-----------------------------------------------------------------------------
(* The steps of the card keep the invariant                                *)

\* A page of the directory reaches the card.
LEMMA EvictSlotsStep ==
    ASSUME DirInv, NEW c \in Clusters, EvictSlots(c)
    PROVE  DirInv'
<1>1. /\ card' = [card EXCEPT !.slots[c] = mem.slots[c]]
      /\ pc' = pc /\ op' = op /\ mem' = mem /\ handle' = handle /\ names' = names
      /\ synced' = synced /\ cuts' = cuts /\ upset' = upset
  BY DEF EvictSlots
<1>2. mem \in DiskT /\ card \in DiskT /\ card.met = {} /\ Pathed(card.tab, Path(card))
  BY DEF DirInv, TypeInv, PathInv
<1>3. card' \in DiskT /\ card'.tab = card.tab /\ card'.met = {}
  <2>1. mem.slots[c] \in [0 .. Slots - 1 -> SlotT]
    BY <1>2 DEF DiskT
  <2> QED BY <1>1, <1>2, <2>1 DEF DiskT
<1>4. Path(card') = Path(card)
  BY <1>2, <1>3, PathIs
<1>5. TypeInv'
  BY <1>1, <1>3 DEF DirInv, TypeInv
<1>6. PathInv'
  BY <1>1, <1>3, <1>4 DEF DirInv, PathInv
<1> QED BY <1>1, <1>5, <1>6 DEF DirInv, StepInv, ListInv, OwnInv

\* The page of the table reaches the card.
LEMMA EvictTableStep ==
    ASSUME DirInv, EvictTable
    PROVE  DirInv'
<1>1. /\ card' = [card EXCEPT !.tab = mem.tab]
      /\ pc' = pc /\ op' = op /\ mem' = mem /\ handle' = handle /\ names' = names
      /\ synced' = synced /\ cuts' = cuts /\ upset' = upset
  BY DEF EvictTable
<1>2. mem \in DiskT /\ card \in DiskT /\ card.met = {} /\ Pathed(mem.tab, Path(mem))
  BY DEF DirInv, TypeInv, PathInv
<1>3. card' \in DiskT /\ card'.tab = mem.tab /\ card'.met = {}
  BY <1>1, <1>2 DEF DiskT
<1>4. Path(card') = Path(mem)
  BY <1>2, <1>3, PathIs
<1>5. TypeInv'
  BY <1>1, <1>3 DEF DirInv, TypeInv
<1>6. PathInv'
  BY <1>1, <1>3, <1>4 DEF DirInv, PathInv
<1> QED BY <1>1, <1>5, <1>6 DEF DirInv, StepInv, ListInv, OwnInv

LEMMA FlushStep ==
    ASSUME DirInv, Flush
    PROVE  DirInv'
<1>1. /\ pc = "flush" /\ card' = [mem EXCEPT !.ff = FIRST]
      /\ synced' = [n \in Names |-> IF n = handle.name THEN Absent ELSE names[n]]
      /\ pc' = "idle" /\ op' = NoEntry
      /\ mem' = mem /\ handle' = handle /\ names' = names /\ cuts' = cuts /\ upset' = upset
  BY DEF Flush, Flushed, OnCard
<1>2. mem \in DiskT /\ mem.met = {} /\ Pathed(mem.tab, Path(mem))
  BY DEF DirInv, TypeInv, PathInv
<1>3. card' \in DiskT /\ card'.tab = mem.tab /\ card'.met = {}
  BY <1>1, <1>2, Numbers DEF DiskT
<1>4. Path(card') = Path(mem)
  BY <1>2, <1>3, PathIs
<1>5. 0 < Size(mem)
  BY <1>2, InOrderIs, DirNumbers
<1>6. synced' \in [Names -> Entries \cup {Absent}]
  BY <1>1 DEF DirInv, TypeInv
<1>7. TypeInv'
  BY <1>1, <1>3, <1>6, NoEntryIs DEF DirInv, TypeInv
<1>8. PathInv'
  BY <1>1, <1>3, <1>4, <1>5, NoEntryIs DEF DirInv, PathInv
<1>9. StepInv'
  BY <1>1 DEF DirInv, StepInv
<1>10. ListInv'
  BY <1>1 DEF DirInv, ListInv, Lists
<1>11. OwnInv'
  <2> SUFFICES ASSUME upset \subseteq {"leak", "empty"}
               PROVE  Owns(upset, pc', op', handle, mem.tab, Path(mem), Listing(mem))
    BY <1>1 DEF OwnInv
  <2>1. Owners(pc', op', handle, Listing(mem)) = Owners(pc, op, handle, Listing(mem))
    BY <1>1 DEF Owners
  <2> QED BY <2>1 DEF DirInv, OwnInv, Owns
<1> QED BY <1>7, <1>8, <1>9, <1>10, <1>11 DEF DirInv

\* A card on which every cluster in use is one entry's.
LEMMA OwnedIs ==
    ASSUME NEW d \in DiskT, Pathed(d.tab, Path(d)), Flat(d.tab, Path(d)), NEW es, \A e \in es : e.cluster \in Entries
    PROVE  /\ Owned(d, es) => OwnedApart(d.tab, Path(d), es) /\ AllOwned(d.tab, Path(d), es)
           /\ (OwnedApart(d.tab, Path(d), es) /\ AllOwned(d.tab, Path(d), es)) => Owned(d, es)
<1> DEFINE p == Path(d)
           U == {c \in Clusters : d.tab[c] # FREE}
           V == {e.cluster : e \in es} \ {FREE}
<1>1. Len(p) \in Nat /\ p \in [1 .. Len(p) -> Clusters]
  BY PathTypes
<1>2. \A c : c \in ToSet(p) <=> \E i \in 1 .. Len(p) : p[i] = c
  <2>1. DOMAIN p = 1 .. Len(p)
    BY <1>1
  <2>2. ToSet(p) = {p[i] : i \in DOMAIN p}
    BY DEF ToSet
  <2> QED BY <2>1, <2>2
<1>3. FREE \notin Clusters /\ FREE # EOF
  BY Numbers
<1>4. \A c \in Clusters : (\A i \in 1 .. Len(p) : p[i] # c) => d.tab[c] \in {FREE, EOF}
  BY DEF Flat
<1> HIDE DEF p
<1>5. ASSUME Owned(d, es)
      PROVE  OwnedApart(d.tab, p, es) /\ AllOwned(d.tab, p, es)
  <2>1. U \ ToSet(p) = V /\ \A e, f \in es : (e.cluster = f.cluster /\ e.cluster # FREE) => e = f
    BY <1>5 DEF Owned, p
  <2>2. ASSUME NEW e \in es, e.cluster # FREE
        PROVE  e.cluster \in Clusters /\ d.tab[e.cluster] = EOF /\ \A i \in 1 .. Len(p) : p[i] # e.cluster
    <3>1. e.cluster \in V
      BY <2>2
    <3>2. e.cluster \in U /\ e.cluster \notin ToSet(p)
      BY <2>1, <3>1
    <3> QED BY <1>2, <1>4, <3>2
  <2>3. ASSUME NEW c \in Clusters, d.tab[c] # FREE, \A i \in 1 .. Len(p) : p[i] # c
        PROVE  \E e \in es : e.cluster = c
    <3>1. c \in U \ ToSet(p)
      BY <1>2, <2>3
    <3>2. c \in V
      BY <2>1, <3>1
    <3> QED BY <3>2
  <2>4. OwnedApart(d.tab, p, es)
    BY <2>1, <2>2 DEF OwnedApart
  <2>5. AllOwned(d.tab, p, es)
    BY <2>3 DEF AllOwned
  <2> QED BY <2>4, <2>5
<1>6. ASSUME OwnedApart(d.tab, p, es), AllOwned(d.tab, p, es)
      PROVE  Owned(d, es)
  <2>1. \A c \in U \ ToSet(p) : c \in V
    <3> SUFFICES ASSUME NEW c \in U, c \notin ToSet(p) PROVE c \in V
      OBVIOUS
    <3>1. c \in Clusters /\ d.tab[c] # FREE /\ \A i \in 1 .. Len(p) : p[i] # c
      BY <1>2
    <3>2. PICK e \in es : e.cluster = c
      BY <1>6, <3>1 DEF AllOwned
    <3> QED BY <1>3, <3>1, <3>2
  <2>2. \A c \in V : c \in U \ ToSet(p)
    <3> SUFFICES ASSUME NEW e \in es, e.cluster # FREE PROVE e.cluster \in U \ ToSet(p)
      OBVIOUS
    <3>1. e.cluster \in Clusters /\ d.tab[e.cluster] = EOF /\ \A i \in 1 .. Len(p) : p[i] # e.cluster
      BY <1>6 DEF OwnedApart
    <3> QED BY <1>2, <1>3, <3>1
  <2>3. U \ ToSet(p) = V
    BY <2>1, <2>2
  <2>4. \A e, f \in es : (e.cluster = f.cluster /\ e.cluster # FREE) => e = f
    BY <1>6 DEF OwnedApart
  <2> QED BY <2>3, <2>4 DEF Owned, p
<1> QED BY <1>5, <1>6 DEF p

\* The card is mounted again: what is torn is told by upset.
LEMMA PowerCutStep ==
    ASSUME DirInv, PowerCut
    PROVE  DirInv'
<1> DEFINE es == Listing(card)
<1>1. /\ cuts' = cuts + 1 /\ mem' = card /\ card' = card
      /\ pc' = "idle" /\ op' = NoEntry /\ handle' = NoEntry
      /\ names' = [n \in Names |-> IF Exists(card, n) THEN Found(card, n).cluster ELSE Absent]
      /\ synced' = names'
      /\ upset' = upset \cup (IF Torn(card) THEN {"torn"} ELSE {})
  BY DEF PowerCut
<1>2. card \in DiskT /\ card.met = {} /\ Pathed(card.tab, Path(card))
  BY DEF DirInv, TypeInv, PathInv
<1>3. 0 < Size(card)
  BY <1>2, InOrderIs, DirNumbers
<1>4. \A e \in es : e \in Entry /\ e.cluster \in Entries /\ e.cluster # Absent
  <2>1. \A e \in es : e \in Entry
    BY <1>2, ListingIs
  <2> QED BY <2>1, DirNumbers, Numbers DEF Entry, Entries
<1>5. names' \in [Names -> Entries \cup {Absent}]
  <2>1. ASSUME NEW n \in Names PROVE names'[n] \in Entries \cup {Absent}
    <3>1. CASE Exists(card, n)
      <4>1. Found(card, n) \in es
        BY <1>2, <3>1, FoundIs
      <4>2. names'[n] = Found(card, n).cluster
        BY <1>1, <3>1
      <4> QED BY <1>4, <4>1, <4>2
    <3>2. CASE ~Exists(card, n)
      BY <1>1, <3>2
    <3> QED BY <3>1, <3>2
  <2> QED BY <1>1, <2>1
<1>6. TypeInv'
  <2>1. upset' \subseteq Trap
    BY <1>1 DEF DirInv, TypeInv, Trap
  <2>2. cuts' \in Nat
    BY <1>1 DEF DirInv, TypeInv
  <2> QED BY <1>1, <1>2, <1>5, <2>1, <2>2, NoEntryIs DEF TypeInv
<1>7. PathInv'
  BY <1>1, <1>3, NoEntryIs DEF DirInv, PathInv
<1>8. StepInv'
  BY <1>1 DEF DirInv, StepInv
<1>9. ASSUME "torn" \notin upset'
      PROVE  Tidy(card) /\ Owned(card, es) /\ Filed(InOrder(card), Size(card), es)
  <2>1. ~Torn(card)
    BY <1>1, <1>9
  <2>2. Tidy(card) /\ Owned(card, es)
    BY <2>1 DEF Torn
  <2> QED BY <1>2, <2>2, TidyFiled
<1>10. ListInv'
  <2> SUFFICES ASSUME "torn" \notin upset'
               PROVE  Filed(InOrder(card), Size(card), es) /\ Lists(pc', op', handle', names', es)
    BY <1>1 DEF ListInv
  <2>1. ASSUME NEW n \in Names PROVE Stands(es, n, names'[n])
    <3>1. CASE Exists(card, n)
      <4> DEFINE e == Found(card, n)
      <4>1. e \in es /\ e.name = n
        BY <1>2, <3>1, FoundIs
      <4>2. names'[n] = e.cluster
        BY <1>1, <3>1
      <4> HIDE DEF e, es
      <4>3. Named(es, n) = {e}
        BY <1>9, <4>1 DEF Filed, Named
      <4>4. {f.cluster : f \in {e}} = {e.cluster} \ {Absent}
        BY <1>4, <4>1
      <4> QED BY <4>2, <4>3, <4>4 DEF Stands
    <3>2. CASE ~Exists(card, n)
      <4>1. Named(es, n) = {} /\ names'[n] = Absent
        BY <1>1, <3>2 DEF Exists
      <4> QED BY <4>1 DEF Stands
    <3> QED BY <3>1, <3>2
  <2> QED BY <1>1, <1>9, <2>1 DEF Lists
<1>11. OwnInv'
  <2> SUFFICES ASSUME upset' \subseteq {"leak", "empty"}
               PROVE  Owns(upset', pc', op', handle', card.tab, Path(card), es)
    BY <1>1 DEF OwnInv
  <2>1. "torn" \notin upset'
    OBVIOUS
  <2>2. Owners(pc', op', handle', es) = es
    BY <1>1 DEF Owners, Held
  <2>3. OwnedApart(card.tab, Path(card), es) /\ AllOwned(card.tab, Path(card), es)
    <3>1. Flat(card.tab, Path(card))
      BY <1>1 DEF DirInv, PathInv
    <3> QED BY <1>2, <1>4, <1>9, <2>1, <3>1, OwnedIs
  <2>4. \A e \in es : e.name # handle'.name
    BY <1>1, <1>9, <2>1, NoEntryIs, DirNumbers DEF Filed
  <2> HIDE DEF es
  <2> QED BY <2>2, <2>3, <2>4 DEF Owns
<1> QED BY <1>6, <1>7, <1>8, <1>10, <1>11 DEF DirInv

LEMMA IdleStep ==
    ASSUME DirInv, UNCHANGED dirVars
    PROVE  DirInv'
BY DEF DirInv, dirVars, TypeInv, PathInv, StepInv, ListInv, OwnInv

LEMMA NextInv ==
    ASSUME DirInv, [DirNext]_dirVars
    PROVE  DirInv'
<1>1. ASSUME NEW n \in Names, Call(n) PROVE DirInv'
  <2>1. CASE \E trunc \in BOOLEAN : Open(n, trunc)
    BY <2>1, OpenStep
  <2>2. CASE Unlink(n)
    BY <2>2, UnlinkStep
  <2>3. CASE \E to \in Names : Rename(n, to)
    BY <2>3, RenameStep
  <2>4. CASE Mkdir(n)
    BY <2>4, MkdirStep
  <2> QED BY <1>1, <2>1, <2>2, <2>3, <2>4 DEF Call
<1>2. CASE OpenCluster
  BY <1>2, OpenClusterStep
<1>3. CASE Close
  BY <1>3, CloseStep
<1>4. CASE UnlinkEntry
  BY <1>4, UnlinkEntryStep
<1>5. CASE RenameEntry
  BY <1>5, RenameEntryStep
<1>6. CASE MkdirEntry
  BY <1>6, MkdirEntryStep
<1>7. ASSUME NEW c \in Clusters, EvictSlots(c) PROVE DirInv'
  BY <1>7, EvictSlotsStep
<1>8. CASE EvictTable
  BY <1>8, EvictTableStep
<1>9. CASE Flush
  BY <1>9, FlushStep
<1>10. CASE PowerCut
  BY <1>10, PowerCutStep
<1>11. CASE UNCHANGED dirVars
  BY <1>11, IdleStep
<1> QED BY <1>1, <1>2, <1>3, <1>4, <1>5, <1>6, <1>7, <1>8, <1>9, <1>10, <1>11 DEF DirNext

\* The invariant is inductive.
THEOREM DirInvariant == DirSpec => []DirInv
<1>1. DirInit => DirInv
  BY InvHolds
<1>2. DirInv /\ [DirNext]_dirVars => DirInv'
  BY NextInv
<1> QED BY <1>1, <1>2, PTL DEF DirSpec

\* The type invariant follows: the end of the open file's entry, where close
\* writes, lies in the directory, unless a position moved outside it.
THEOREM DirTypesHold == DirSpec => []DirTypeOK
<1>1. DirInv => DirTypeOK
  BY DEF DirInv, TypeInv, PathInv, DirTypeOK, DiskT, Tables, Links
<1> QED BY <1>1, DirInvariant, PTL

\* Between calls each name is listed as often and with the cluster as the calls
\* left it.
THEOREM ListingHolds == DirSpec => []ListingIsRight
<1>1. ASSUME DirInv PROVE ListingIsRight
  <2> DEFINE es == Listing(mem)
  <2> SUFFICES ASSUME pc = "idle", upset \cap {"gap", "outside", "stray", "torn"} = {}, NEW n \in Names
               PROVE  /\ {e.cluster : e \in Named(es, n)} = {names[n]} \ {Absent}
                      /\ Cardinality(Named(es, n)) <= 1
    BY DEF ListingIsRight
  <2>1. Filed(InOrder(mem), Size(mem), es) /\ Lists(pc, op, handle, names, es)
    BY <1>1 DEF DirInv, ListInv
  <2>2. {e.cluster : e \in Named(es, n)} = {names[n]} \ {Absent}
    BY <2>1 DEF Lists, Stands
  <2>3. Cardinality(Named(es, n)) <= 1
    <3>1. CASE Named(es, n) = {}
      BY <3>1, FS_EmptySet
    <3>2. CASE Named(es, n) # {}
      <4>1. PICK e \in es : e.name = n
        BY <3>2 DEF Named
      <4>2. Named(es, n) = {e}
        BY <2>1, <4>1 DEF Filed, Named
      <4>3. Cardinality({e}) = 1
        BY FS_Singleton
      <4> QED BY <4>2, <4>3
    <3> QED BY <3>1, <3>2
  <2> QED BY <2>2, <2>3
<1> QED BY <1>1, DirInvariant, PTL

\* Between calls the clusters in use are those of the entries, one to each.
THEOREM ClustersHold == DirSpec => []ClustersAreOwned
<1>1. ASSUME DirInv PROVE ClustersAreOwned
  <2> DEFINE es == Listing(mem)
             os == IF handle = NoEntry THEN es ELSE {e \in es : e.name # handle.name} \cup {handle}
  <2> SUFFICES ASSUME Ready, upset \subseteq {"empty"} PROVE Owned(mem, os)
    BY DEF ClustersAreOwned
  <2>1. /\ mem \in DiskT /\ Pathed(mem.tab, Path(mem)) /\ Flat(mem.tab, Path(mem)) /\ es \subseteq Entry
        /\ Owns(upset, pc, op, handle, mem.tab, Path(mem), es)
        /\ Owners(pc, op, handle, es) = Held(handle, es)
    BY <1>1, ReadyIs DEF Fit
  <2>2. os = Held(handle, es)
    BY DEF Held
  <2>3. OwnedApart(mem.tab, Path(mem), os) /\ AllOwned(mem.tab, Path(mem), os)
    <3> HIDE DEF os
    <3> QED BY <2>1, <2>2 DEF Owns
  <2>4. \A e \in os : e.cluster \in Entries
    <3>1. \A e \in os : e \in Entry
      BY <1>1, <2>1 DEF DirInv, TypeInv
    <3> QED BY <3>1 DEF Entry, Entries
  <2> HIDE DEF os
  <2> QED BY <2>1, <2>3, <2>4, OwnedIs
<1> QED BY <1>1, DirInvariant, PTL

-----------------------------------------------------------------------------
(* What a power cut finds                                                  *)

\* In the slots C, N of them, the entry f is as it was written, but for the
\* cluster, and readable in the first M.
Settled(C, N, M, f) ==
    /\ f.end < M
    /\ \A k \in 0 .. f.end : C[k].mark # "last"
    /\ \A k \in Run(f) : C[k] = NewSlot(f.name, k - f.start, C[f.end].cluster, f.dir)
    /\ \A k \in 0 .. N - 1 : (C[k].mark = "used" /\ C[k].of = f.name) => k \in Run(f)

\* The path q begins with the path p.
Begins(p, q) == Len(p) <= Len(q) /\ \A i \in 1 .. Len(p) : q[i] = p[i]

\* What the card has in the slots of the directory that the program sees.
Kept == Along(Path(mem), card.slots)

\* The file n, which has the cluster c, is on the card; C, N, M and es are the
\* slots there, their number, that of those that can be read, and what is listed.
Safe(n, c, C, N, M, es) ==
    /\ n \notin {handle.name, op.name, op.new} /\ names[n] = c
    /\ \A e \in es : e.name = n => Settled(C, N, M, e) /\ C[e.end].cluster = c
    /\ c # FREE =>
        /\ card.tab[c] # FREE
        /\ pc \in {"unlinking", "renaming"} => op.cluster # c
        /\ \A f \in es : f.cluster = c => Settled(C, N, M, f)
        /\ \A k \in 0 .. N - 1 : (C[k].mark = "used" /\ C[k].what = "data" /\ C[k].cluster = c) =>
              \E f \in es : /\ f.end = k /\ Settled(C, N, M, f)
                            /\ f.name \in {n, handle.name} \/ (pc = "flush" /\ f.name = op.name)

SafeInv ==
    upset \subseteq {"leak", "empty"} =>
        /\ Begins(Path(card), Path(mem))
        /\ \A n \in Names : synced[n] # Absent =>
              Safe(n, synced[n], Kept, Size(mem), Size(card), Listing(mem))

LEMMA SettledFiled ==
    ASSUME NEW N \in Nat, NEW F, NEW es, Filed(F, N, es), NEW f \in es, NEW M, f.end < M
    PROVE  Settled(F, N, M, f)
<1>1. /\ f.name \in Names /\ f.start \in Nat /\ f.end \in Nat /\ f.end < N /\ f.end \in Run(f)
      /\ \A k \in Run(f) : F[k] = NewSlot(f.name, k - f.start, f.cluster, f.dir) /\ F[k].mark = "used"
      /\ F[f.end].cluster = f.cluster
  BY FiledRun
<1>2. ASSUME NEW k \in 0 .. f.end, F[k].mark = "last" PROVE FALSE
  <2>1. k \in 0 .. N - 1 /\ f.end \in 0 .. N - 1
    BY <1>1
  <2>2. f.end < k
    BY <1>1, <1>2, <2>1 DEF Filed
  <2> QED BY <1>1, <2>2
<1>3. ASSUME NEW k \in 0 .. N - 1, F[k].mark = "used", F[k].of = f.name PROVE k \in Run(f)
  <2>1. PICK e \in es : k \in Run(e)
    BY <1>3 DEF Filed
  <2>2. F[k].of = e.name
    BY <2>1, FiledRun
  <2>3. e = f
    BY <1>3, <2>2 DEF Filed
  <2> QED BY <2>1, <2>3
<1> QED BY <1>1, <1>2, <1>3 DEF Settled

\* A slot of an entry does not know the cluster, but for the alias.
LEMMA NewSlotCluster ==
    ASSUME NEW n \in Names, NEW i, i # SlotsOf[n] - 1, NEW c, NEW c2, NEW dir
    PROVE  NewSlot(n, i, c, dir) = NewSlot(n, i, c2, dir)
BY DEF NewSlot

\* An entry stays settled when slots are replaced by those it should have.
LEMMA SettledMix ==
    ASSUME NEW N \in Nat, NEW F, NEW es, Filed(F, N, es), NEW f \in es, NEW C, NEW C2,
           NEW M \in Nat, NEW M2 \in Nat, M <= M2, Settled(C, N, M, f),
           \A k \in 0 .. N - 1 : C2[k] \in {C[k], F[k]}
    PROVE  Settled(C2, N, M2, f)
<1>1. /\ f.name \in Names /\ f.start \in Nat /\ f.end \in Nat /\ f.end < N /\ f.end \in Run(f)
      /\ f.end = f.start + SlotsOf[f.name] - 1 /\ Run(f) \subseteq 0 .. N - 1
      /\ \A k \in Run(f) : F[k] = NewSlot(f.name, k - f.start, f.cluster, f.dir)
      /\ F[f.end].cluster = f.cluster
  BY FiledRun
<1>2. /\ Settled(F, N, f.end + 1, f)
  <2>1. f.end < f.end + 1
    BY <1>1
  <2> HIDE DEF Settled
  <2> QED BY <2>1, SettledFiled
<1>3. ASSUME NEW k \in 0 .. f.end PROVE C2[k].mark # "last"
  <2>1. k \in 0 .. N - 1
    BY <1>1
  <2> QED BY <1>2, <2>1 DEF Settled
<1>4. ASSUME NEW k \in Run(f) PROVE C2[k] = NewSlot(f.name, k - f.start, C2[f.end].cluster, f.dir)
  <2>1. C2[k] = C[k] \/ C2[k] = F[k]
    BY <1>1
  <2>2. C[k] = NewSlot(f.name, k - f.start, C[f.end].cluster, f.dir)
    BY DEF Settled
  <2>3. CASE k = f.end
    BY <1>1, <2>1, <2>2, <2>3
  <2>4. CASE k # f.end
    <3>1. k - f.start # SlotsOf[f.name] - 1
      BY <1>1, <2>4, DirNumbers DEF Run
    <3>2. /\ C[k] = NewSlot(f.name, k - f.start, C2[f.end].cluster, f.dir)
          /\ F[k] = NewSlot(f.name, k - f.start, C2[f.end].cluster, f.dir)
      BY <1>1, <2>2, <3>1, NewSlotCluster
    <3> QED BY <2>1, <3>2
  <2> QED BY <2>3, <2>4
<1>5. ASSUME NEW k \in 0 .. N - 1, C2[k].mark = "used", C2[k].of = f.name PROVE k \in Run(f)
  <2>1. C2[k] = C[k] \/ C2[k] = F[k]
    OBVIOUS
  <2> QED BY <1>2, <1>5, <2>1 DEF Settled
<1>6. f.end < M2
  BY <1>1 DEF Settled
<1> QED BY <1>3, <1>4, <1>5, <1>6 DEF Settled

LEMMA SettledGrown ==
    ASSUME NEW N \in Nat, NEW N2 \in Nat, N <= N2, NEW f, f.start \in Nat, f.end \in Nat, f.end < N,
           NEW C, NEW C2, NEW M, Settled(C, N, M, f),
           \A k \in 0 .. N - 1 : C2[k] = C[k], \A k \in N .. N2 - 1 : C2[k].mark # "used"
    PROVE  Settled(C2, N2, M, f)
<1>1. \A k \in 0 .. f.end : C2[k] = C[k]
  OBVIOUS
<1>2. \A k \in Run(f) : C2[k] = C[k]
  BY DEF Run
<1>3. ASSUME NEW k \in 0 .. N2 - 1, C2[k].mark = "used", C2[k].of = f.name PROVE k \in Run(f)
  <2>1. k \in 0 .. N - 1
    BY <1>3
  <2> QED BY <1>3, <2>1 DEF Settled
<1>4. f.end \in 0 .. f.end
  OBVIOUS
<1> QED BY <1>1, <1>2, <1>3, <1>4 DEF Settled

LEMMA SettledSame ==
    ASSUME NEW C, NEW N, NEW M, NEW f, NEW g, g.name = f.name, g.start = f.start, g.end = f.end, g.dir = f.dir,
           Settled(C, N, M, f)
    PROVE  Settled(C, N, M, g)
BY DEF Settled, Run

\* The slots on the card, as far as they can be read.
LEMMA KeptCard ==
    ASSUME DirInv
    PROVE  /\ Size(mem) \in Nat /\ Size(card) \in Nat /\ Kept \in [0 .. Size(mem) - 1 -> SlotT]
           /\ Begins(Path(card), Path(mem)) =>
                Size(card) <= Size(mem) /\ \A k \in 0 .. Size(card) - 1 : InOrder(card)[k] = Kept[k]
<1> DEFINE p == Path(card)
           q == Path(mem)
<1>1. mem \in DiskT /\ card \in DiskT /\ Pathed(mem.tab, q) /\ Pathed(card.tab, p)
  BY DEF DirInv, TypeInv, PathInv
<1>2. /\ Len(p) \in Nat /\ Len(q) \in Nat
  BY <1>1, PathTypes
<1>3. /\ Size(card) = Slots * Len(p) /\ Size(mem) = Slots * Len(q) /\ Size(mem) \in Nat /\ Size(card) \in Nat
      /\ InOrder(card) = Along(p, card.slots)
  BY <1>1, InOrderIs
<1>4. Kept = Along(q, card.slots) /\ card.slots \in [Clusters -> [0 .. Slots - 1 -> SlotT]]
  BY <1>1 DEF Kept, DiskT
<1>5. Kept \in [0 .. Size(mem) - 1 -> SlotT]
  BY <1>1, <1>3, <1>4, AlongType
<1>6. ASSUME Begins(p, q)
      PROVE  Size(card) <= Size(mem) /\ \A k \in 0 .. Size(card) - 1 : InOrder(card)[k] = Kept[k]
  <2>1. Len(p) <= Len(q) /\ \A i \in 1 .. Len(p) : q[i] = p[i]
    BY <1>6 DEF Begins
  <2>2. Size(card) <= Size(mem)
    BY <1>2, <1>3, <2>1, TimesLess, DirNumbers
  <2>3. ASSUME NEW k \in 0 .. Size(card) - 1 PROVE InOrder(card)[k] = Kept[k]
    <3>1. k \in 0 .. Slots * Len(p) - 1 /\ k \in 0 .. Slots * Len(q) - 1
      BY <1>3, <2>2
    <3>2. k \div Slots + 1 \in 1 .. Len(p)
      BY <1>2, <3>1, Position
    <3>3. q[k \div Slots + 1] = p[k \div Slots + 1]
      BY <2>1, <3>2
    <3> QED BY <1>3, <1>4, <3>1, <3>3 DEF Along
  <2> QED BY <2>2, <2>3
<1> QED BY <1>3, <1>5, <1>6

\* A settled entry is found by the scan of the card, with the cluster it has there.
LEMMA SettledListed ==
    ASSUME DirInv, Begins(Path(card), Path(mem)), NEW f, f \in Entry, f.name \in Names, f.new = NoName,
           f.end = f.start + SlotsOf[f.name] - 1, Settled(Kept, Size(mem), Size(card), f)
    PROVE  /\ InOrder(card)[f.end].mark = "used" /\ InOrder(card)[f.end].what = "data"
           /\ \E x \in Listing(card) : x.name = f.name /\ x.end = f.end /\ x.cluster = Kept[f.end].cluster
<1> DEFINE N == Size(mem)
           M == Size(card)
           F == InOrder(card)
           c == Kept[f.end].cluster
           x == [f EXCEPT !.cluster = c]
<1>1. /\ N \in Nat /\ M \in Nat /\ Kept \in [0 .. N - 1 -> SlotT] /\ M <= N
      /\ \A k \in 0 .. M - 1 : F[k] = Kept[k]
  BY KeptCard
<1>2. card \in DiskT /\ Pathed(card.tab, Path(card))
  BY DEF DirInv, TypeInv, PathInv
<1>3. F \in [0 .. M - 1 -> SlotT]
  BY <1>2, InOrderType
<1>4. PICK g \in [0 .. M -> ScanT] : IsScan(g, F, M) /\ Listing(card) = g[M].found
  BY <1>2, ListingScan
<1>5. f.start \in Nat /\ f.end \in Nat /\ f.start <= f.end /\ f.dir \in BOOLEAN
  BY DirNumbers DEF Entry
<1>6. f.end < M
  BY DEF Settled
<1>7. f.end \in 0 .. M - 1 /\ Run(f) \subseteq 0 .. M - 1 /\ f.end \in Run(f)
  BY <1>1, <1>5, <1>6 DEF Run
<1>8. c \in Entries
  BY <1>1, <1>7 DEF SlotT
<1>9. /\ x \in Entry /\ x.name = f.name /\ x.new = NoName /\ x.end = f.end /\ x.start = f.start
      /\ x.cluster = c /\ x.dir = f.dir
  BY <1>8 DEF Entry, Entries
<1>10. Run(x) = Run(f)
  BY <1>9 DEF Run
<1>11. \A k \in Run(f) : Kept[k] = NewSlot(f.name, k - f.start, c, f.dir)
  BY DEF Settled
<1>12. \A k \in Run(f) : F[k] = NewSlot(f.name, k - f.start, c, f.dir)
  BY <1>1, <1>7, <1>11
<1>13. ASSUME NEW k \in 0 .. f.end PROVE F[k].mark # "last"
  <2>1. k \in 0 .. M - 1
    BY <1>1, <1>7
  <2>2. Kept[k].mark # "last"
    BY DEF Settled
  <2> QED BY <1>1, <2>1, <2>2
<1>14. ASSUME NEW k \in 0 .. f.start - 1, F[k].mark = "used" PROVE F[k].of # f.name
  <2>1. k \in 0 .. M - 1 /\ k \in 0 .. N - 1 /\ k \notin Run(f)
    BY <1>1, <1>5, <1>6 DEF Run
  <2>2. F[k] = Kept[k]
    BY <1>1, <2>1
  <2> QED BY <1>14, <2>1, <2>2 DEF Settled
<1>15. /\ F[f.end].mark = "used" /\ F[f.end].what = "data"
  <2>1. f.end - f.start = SlotsOf[f.name] - 1 /\ f.end - f.start \in 0 .. SlotsOf[f.name] - 1
    BY <1>5, DirNumbers
  <2>2. F[f.end] = NewSlot(f.name, f.end - f.start, c, f.dir)
    BY <1>7, <1>12
  <2> HIDE DEF c, F
  <2> QED BY <1>5, <1>8, <2>1, <2>2, NewSlotIs
<1> HIDE DEF x, c, F, M
<1>16. x \in g[M].found
  <2>1. \A j \in Run(x) : F[j] = NewSlot(x.name, j - x.start, x.cluster, x.dir)
    BY <1>9, <1>10, <1>12
  <2>2. x.end < M /\ x.end = x.start + SlotsOf[x.name] - 1
    BY <1>6, <1>9
  <2>3. \A j \in 0 .. x.end : F[j].mark # "last"
    BY <1>9, <1>13
  <2>4. \A j \in 0 .. x.start - 1 : F[j].mark = "used" => F[j].of # x.name
    BY <1>9, <1>14
  <2>5. IsScan(g, F, M) /\ x \in Entry /\ x.name \in Names /\ x.new = NoName
    BY <1>4, <1>9
  <2> QED BY <1>1, <1>3, <1>4, <2>1, <2>2, <2>3, <2>4, <2>5, RunIsFound
<1> QED BY <1>4, <1>9, <1>15, <1>16 DEF c, F

LEMMA SafeHolds == ASSUME DirInv, SafeInv PROVE UntouchedIsSafe
<1> DEFINE es == Listing(mem)
           xs == Listing(card)
           N == Size(mem)
           M == Size(card)
           F == InOrder(card)
<1> SUFFICES ASSUME upset \subseteq {"empty", "leak"}, NEW n \in Names, synced[n] # Absent
             PROVE  /\ {e.cluster : e \in Named(xs, n)} = {synced[n]}
                    /\ synced[n] # FREE => card.tab[synced[n]] # FREE
                    /\ \A e \in xs :
                        (e.cluster = synced[n] /\ e.cluster # FREE) => e.name \in {n, handle.name, op.name}
  BY DEF UntouchedIsSafe
<1> DEFINE c == synced[n]
<1>1. Begins(Path(card), Path(mem)) /\ Safe(n, c, Kept, N, M, es)
  BY DEF SafeInv
<1>2. upset \cap {"gap", "outside", "stray", "torn"} = {}
  OBVIOUS
<1>3. Filed(InOrder(mem), N, es) /\ Lists(pc, op, handle, names, es)
  BY <1>2 DEF DirInv, ListInv
<1>4. /\ N \in Nat /\ M \in Nat /\ Kept \in [0 .. N - 1 -> SlotT] /\ M <= N
      /\ \A k \in 0 .. M - 1 : F[k] = Kept[k]
  BY <1>1, KeptCard
<1>5. card \in DiskT /\ Pathed(card.tab, Path(card))
  BY DEF DirInv, TypeInv, PathInv
<1>6. /\ xs \subseteq Entry
      /\ \A e \in xs : e.end < M /\ Listed(F, e)
      /\ \A e, f \in xs : e.end = f.end => e = f
  BY <1>5, ListingIs
<1>7. ASSUME NEW f \in es, Settled(Kept, N, M, f)
      PROVE  /\ F[f.end].mark = "used" /\ F[f.end].what = "data"
             /\ \E x \in xs : x.name = f.name /\ x.end = f.end /\ x.cluster = Kept[f.end].cluster
  <2>1. /\ f \in Entry /\ f.name \in Names /\ f.new = NoName
        /\ f.end = f.start + SlotsOf[f.name] - 1
    BY <1>3, <1>4, FiledRun
  <2> QED BY <1>1, <1>7, <2>1, SettledListed
<1>8. PICK e \in es : e.name = n
  <2>1. Stands(es, n, names[n])
    BY <1>3 DEF Lists
  <2>2. names[n] # Absent
    BY <1>1 DEF Safe
  <2> QED BY <2>1, <2>2 DEF Stands, Named
<1>9. Settled(Kept, N, M, e) /\ Kept[e.end].cluster = c
  BY <1>1, <1>8 DEF Safe
<1>10. PICK x \in xs : x.name = n /\ x.end = e.end /\ x.cluster = c
  BY <1>7, <1>8, <1>9
<1>11. ASSUME NEW y \in xs, y.name = n PROVE y = x
  <2>1. /\ y.end < M /\ y.end \in Nat /\ F[y.end].mark = "used" /\ F[y.end].what = "data"
        /\ n \in {F[y.end].of, NoName}
    BY <1>6, <1>11 DEF Listed, Entry
  <2>2. y.end \in 0 .. M - 1 /\ y.end \in 0 .. N - 1 /\ F[y.end] = Kept[y.end]
    BY <1>4, <2>1
  <2>3. F[y.end].of = n
    BY <2>1, DirNumbers
  <2>4. y.end \in Run(e)
    BY <1>8, <1>9, <2>1, <2>2, <2>3 DEF Settled
  <2>5. Kept[y.end] = NewSlot(n, y.end - e.start, c, e.dir)
    BY <1>8, <1>9, <2>4 DEF Settled
  <2>6. /\ e \in Entry /\ e.start \in Nat /\ e.end \in Nat /\ e.end = e.start + SlotsOf[n] - 1 /\ e.dir \in BOOLEAN
    BY <1>3, <1>4, <1>8, FiledRun DEF Entry
  <2>7. y.end - e.start \in 0 .. SlotsOf[n] - 1
    BY <2>4, <2>6, DirNumbers DEF Run
  <2>8. c \in Entries
    BY <1>10 DEF DirInv, TypeInv
  <2>9. y.end - e.start = SlotsOf[n] - 1
    BY <2>1, <2>2, <2>5, <2>6, <2>7, <2>8, NewSlotIs
  <2>10. y.end = e.end
    BY <2>1, <2>6, <2>9, DirNumbers
  <2> QED BY <1>6, <1>10, <2>10
<1>12. {y.cluster : y \in Named(xs, n)} = {c}
  <2>1. Named(xs, n) = {x}
    BY <1>10, <1>11 DEF Named
  <2> QED BY <1>10, <2>1
<1>13. c # FREE => card.tab[c] # FREE
  BY <1>1 DEF Safe
<1>14. ASSUME NEW y \in xs, y.cluster = c, c # FREE PROVE y.name \in {n, handle.name, op.name}
  <2>1. /\ y.end < M /\ y.end \in Nat /\ F[y.end].mark = "used" /\ F[y.end].what = "data"
        /\ F[y.end].cluster = c
    BY <1>6, <1>14 DEF Listed, Entry
  <2>2. y.end \in 0 .. N - 1 /\ F[y.end] = Kept[y.end]
    BY <1>4, <2>1
  <2>3. PICK f \in es : /\ f.end = y.end /\ Settled(Kept, N, M, f)
                        /\ f.name \in {n, handle.name} \/ (pc = "flush" /\ f.name = op.name)
    BY <1>1, <1>14, <2>1, <2>2 DEF Safe
  <2>4. PICK z \in xs : z.name = f.name /\ z.end = f.end
    BY <1>7, <2>3
  <2>5. z = y
    BY <1>6, <2>3, <2>4
  <2> QED BY <2>3, <2>4, <2>5
<1> QED BY <1>12, <1>13, <1>14

\* Whose the cluster c of the file n is, when the call under way is not about n.
LEMMA OwnerOf ==
    ASSUME DirInv, upset \subseteq {"leak", "empty"}, NEW n \in Names, NEW c, names[n] = c, c # Absent,
           n \notin {handle.name, op.name}, c # FREE /\ pc \in {"unlinking", "renaming"} => op.cluster # c
    PROVE  \E e \in Listing(mem) :
              /\ e.name = n /\ e.cluster = c /\ e \in Owners(pc, op, handle, Listing(mem))
              /\ \A f \in Listing(mem) : f.name = n => f = e
              /\ c # FREE =>
                    /\ mem.tab[c] = EOF
                    /\ \A f \in Owners(pc, op, handle, Listing(mem)) : f.cluster = c => f = e
                    /\ \A f \in Listing(mem) : f.cluster = c => f.name \in {n, handle.name}
<1> DEFINE es == Listing(mem)
           os == Owners(pc, op, handle, es)
<1>1. upset \cap {"gap", "outside", "stray", "torn"} = {}
  OBVIOUS
<1>2. Filed(InOrder(mem), Size(mem), es) /\ Lists(pc, op, handle, names, es)
  BY <1>1 DEF DirInv, ListInv
<1>3. OwnedApart(mem.tab, Path(mem), os)
  BY DEF DirInv, OwnInv, Owns
<1>4. PICK e \in es : e.name = n /\ e.cluster = c
  <2>1. Stands(es, n, names[n])
    BY <1>2 DEF Lists
  <2> QED BY <2>1 DEF Stands, Named
<1>5. op \in Entry /\ Old(op).name = op.name /\ Old(op).cluster = op.cluster
  BY DEF DirInv, TypeInv, Old, Entry
<1>6. e \in Held(handle, es) /\ e # Old(op)
  BY <1>4, <1>5 DEF Held
<1>7. e \in os
  BY <1>6 DEF Owners
<1>8. \A f \in es : f.name = n => f = e
  BY <1>2, <1>4 DEF Filed
<1> HIDE DEF es
<1>9. ASSUME c # FREE PROVE mem.tab[c] = EOF /\ \A f \in os : f.cluster = c => f = e
  <2> HIDE DEF os
  <2> QED BY <1>3, <1>4, <1>7, <1>9 DEF OwnedApart
<1>10. ASSUME c # FREE, NEW f \in es, f.cluster = c PROVE f.name \in {n, handle.name}
  <2> SUFFICES ASSUME f.name # handle.name PROVE f.name = n
    OBVIOUS
  <2>1. f \in Held(handle, es)
    BY DEF Held
  <2>2. pc \in {"unlinking", "renaming"} => f # Old(op)
    BY <1>5, <1>10
  <2>3. f \in os
    BY <2>1, <2>2 DEF Owners
  <2> HIDE DEF os
  <2> QED BY <1>4, <1>9, <1>10, <2>3
<1> HIDE DEF os
<1> QED BY <1>4, <1>7, <1>8, <1>9, <1>10 DEF es, os

\* The card has the directory that the program sees.
Fresh ==
    /\ pc = "idle" /\ op = NoEntry
    /\ card.tab = mem.tab /\ card.slots = mem.slots
    /\ \A n \in Names : synced[n] # Absent => synced[n] = names[n] /\ n # handle.name

LEMMA FreshSafe == DirInv /\ Fresh => SafeInv
<1> DEFINE es == Listing(mem)
           F == InOrder(mem)
           N == Size(mem)
<1> SUFFICES ASSUME DirInv, Fresh, upset \subseteq {"leak", "empty"}
             PROVE  /\ Begins(Path(card), Path(mem))
                    /\ \A n \in Names : synced[n] # Absent => Safe(n, synced[n], Kept, N, Size(card), es)
  BY DEF SafeInv
<1>1. mem \in DiskT /\ card \in DiskT /\ Pathed(mem.tab, Path(mem))
  BY DEF DirInv, TypeInv, PathInv
<1>2. Path(card) = Path(mem) /\ Size(card) = N /\ N \in Nat
  <2>1. Path(card) = Path(mem)
    BY <1>1, PathIs DEF Fresh
  <2> QED BY <1>1, <2>1, InOrderIs DEF Size
<1>3. Kept = F
  BY <1>1, InOrderIs DEF Kept, Fresh
<1>4. Begins(Path(card), Path(mem))
  BY <1>1, <1>2, PathTypes DEF Begins
<1>5. upset \cap {"gap", "outside", "stray", "torn"} = {}
  OBVIOUS
<1>6. Filed(F, N, es) /\ Lists(pc, op, handle, names, es)
  BY <1>5 DEF DirInv, ListInv
<1> HIDE DEF es, F, N
<1>7. ASSUME NEW f \in es PROVE Settled(F, N, N, f) /\ F[f.end].cluster = f.cluster
  <2>1. f.end < N /\ F[f.end].cluster = f.cluster
    BY <1>2, <1>6, FiledRun
  <2> QED BY <1>2, <1>6, <2>1, SettledFiled
<1>8. ASSUME NEW n \in Names, synced[n] # Absent PROVE Safe(n, synced[n], F, N, N, es)
  <2> DEFINE c == synced[n]
  <2>1. c = names[n] /\ n # handle.name /\ pc = "idle" /\ op = NoEntry /\ c # Absent
    BY <1>8 DEF Fresh
  <2> HIDE DEF c
  <2>2. n \notin {handle.name, op.name, op.new}
    BY <2>1, NoEntryIs, DirNumbers
  <2>3. PICK e \in es :
          /\ e.name = n /\ e.cluster = c
          /\ \A f \in es : f.name = n => f = e
          /\ c # FREE =>
                /\ mem.tab[c] = EOF
                /\ \A f \in es : f.cluster = c => f.name \in {n, handle.name}
    BY <2>1, <2>2, OwnerOf DEF es
  <2>4. ASSUME NEW f \in es, f.name = n PROVE Settled(F, N, N, f) /\ F[f.end].cluster = c
    BY <1>7, <2>3, <2>4
  <2>5. c # FREE => card.tab[c] # FREE
    BY <2>3, Numbers DEF Fresh
  <2>6. ASSUME c # FREE, NEW k \in 0 .. N - 1, F[k].mark = "used", F[k].what = "data", F[k].cluster = c
        PROVE  \E f \in es : f.end = k /\ Settled(F, N, N, f) /\ f.name \in {n, handle.name}
    <3>1. PICK f \in es : k \in Run(f)
      BY <1>6, <2>6 DEF Filed
    <3>2. k = f.end
      BY <1>2, <1>6, <2>6, <3>1, FiledRun
    <3>3. f.cluster = c /\ Settled(F, N, N, f)
      BY <1>7, <2>6, <3>2
    <3> QED BY <2>3, <2>6, <3>2, <3>3
  <2>7. c # FREE => \A f \in es : f.cluster = c => Settled(F, N, N, f)
    BY <1>7
  <2> QED BY <2>1, <2>2, <2>4, <2>5, <2>6, <2>7 DEF Safe, c
<1> QED BY <1>2, <1>3, <1>4, <1>8

-----------------------------------------------------------------------------
(* The directory grows, at most                                            *)

LEMMA AlongGrown ==
    ASSUME NEW lk, NEW p, Pathed(lk, p), NEW lk2, NEW q, Pathed(lk2, q), Begins(p, q), NEW C, NEW C2,
           \A i \in 1 .. Len(p) : C2[p[i]] = C[p[i]],
           \A i \in Len(p) + 1 .. Len(q) : C2[q[i]] = BlankCluster,
           NEW A, A = Along(p, C), NEW A2, A2 = Along(q, C2)
    PROVE  /\ Slots * Len(p) \in Nat /\ Slots * Len(q) \in Nat /\ Slots * Len(p) <= Slots * Len(q)
           /\ \A k \in 0 .. Slots * Len(p) - 1 : A2[k] = A[k]
           /\ \A k \in Slots * Len(p) .. Slots * Len(q) - 1 : A2[k] = Blank
<1>1. /\ Len(p) \in Nat /\ Len(q) \in Nat /\ Len(p) <= Len(q)
      /\ \A i \in 1 .. Len(p) : q[i] = p[i]
  BY PathTypes DEF Begins
<1>2. Slots * Len(p) \in Nat /\ Slots * Len(q) \in Nat /\ Slots * Len(p) <= Slots * Len(q)
  BY <1>1, TimesLess, DirNumbers
<1>3. ASSUME NEW k \in 0 .. Slots * Len(p) - 1 PROVE A2[k] = A[k]
  <2>1. k \in 0 .. Slots * Len(p) - 1 /\ k \in 0 .. Slots * Len(q) - 1
    BY <1>2
  <2>2. k \div Slots + 1 \in 1 .. Len(p)
    BY <1>1, <2>1, Position
  <2>3. q[k \div Slots + 1] = p[k \div Slots + 1] /\ C2[p[k \div Slots + 1]] = C[p[k \div Slots + 1]]
    BY <1>1, <2>2
  <2> QED BY <2>1, <2>3 DEF Along
<1>4. ASSUME NEW k \in Slots * Len(p) .. Slots * Len(q) - 1 PROVE A2[k] = Blank
  <2>1. k \in 0 .. Slots * Len(q) - 1 /\ k >= Slots * Len(p)
    BY <1>2
  <2>2. /\ k \div Slots \in Nat /\ k \div Slots + 1 \in 1 .. Len(q) /\ k % Slots \in 0 .. Slots - 1
        /\ k = Slots * (k \div Slots) + (k % Slots)
    BY <1>1, <2>1, Position
  <2>3. Len(p) <= k \div Slots
    <3> SUFFICES ASSUME k \div Slots < Len(p) PROVE FALSE
      BY <1>1, <2>2
    <3>1. Slots * (k \div Slots) + Slots <= Slots * Len(p) /\ Slots * (k \div Slots) \in Nat
      BY <1>1, <2>2, TimesLess, DirNumbers
    <3> QED BY <1>2, <2>1, <2>2, <3>1, DirNumbers
  <2>4. k \div Slots + 1 \in Len(p) + 1 .. Len(q)
    BY <1>1, <2>2, <2>3
  <2>5. C2[q[k \div Slots + 1]] = BlankCluster
    BY <2>4
  <2>6. A2[k] = BlankCluster[k % Slots]
    BY <2>1, <2>5 DEF Along
  <2> QED BY <2>2, <2>6 DEF BlankCluster
<1> QED BY <1>2, <1>3, <1>4

\* A step that leaves the directory, or makes it longer and the card blank there.
Grows ==
    /\ Begins(Path(mem), Path(mem')) /\ Path(card') = Path(card) /\ card'.tab = card.tab
    /\ Size(card') = Size(card)
    /\ Size(mem) \in Nat /\ Size(mem') \in Nat /\ Size(mem) <= Size(mem')
    /\ \A k \in 0 .. Size(mem) - 1 : Kept'[k] = Kept[k]
    /\ \A k \in Size(mem) .. Size(mem') - 1 : Kept'[k].mark # "used"

LEMMA GrowsNot ==
    ASSUME DirInv, mem' = mem, card' = card
    PROVE  Grows
<1>1. Pathed(mem.tab, Path(mem))
  BY DEF DirInv, PathInv
<1>2. Len(Path(mem)) \in Nat /\ Size(mem) \in Nat
  BY <1>1, PathTypes, InOrderIs
<1>3. Begins(Path(mem), Path(mem))
  BY <1>2 DEF Begins
<1>4. Kept' = Kept
  BY DEF Kept
<1> QED BY <1>2, <1>3, <1>4 DEF Grows

LEMMA GrowsBy ==
    ASSUME DirInv, NEW d \in DiskT, "tail" \notin d.met, Pathed(d.tab, Path(d)), NEW traps, Becomes(d, traps),
           Begins(Path(mem), Path(d))
    PROVE  Grows
<1> DEFINE p == Path(mem)
           q == Path(d)
<1>1. card \in DiskT /\ card.met = {} /\ Pathed(card.tab, Path(card)) /\ Pathed(mem.tab, p)
  BY DEF DirInv, TypeInv, PathInv
<1>2. /\ Path(mem') = q /\ Size(mem') = Size(d)
      /\ card'.tab = card.tab /\ Path(card') = Path(card)
      /\ \A c \in Clusters : card'.slots[c] = IF c \in ToSet(q) \ ToSet(p) THEN BlankCluster ELSE card.slots[c]
  BY <1>1, BecomesIs
<1>3. /\ Len(p) \in Nat /\ Len(q) \in Nat /\ p \in [1 .. Len(p) -> Clusters] /\ q \in [1 .. Len(q) -> Clusters]
      /\ Len(p) <= Len(q) /\ \A i \in 1 .. Len(p) : q[i] = p[i]
      /\ \A i, j \in 1 .. Len(q) : q[i] = q[j] => i = j
  <2>1. Len(p) \in Nat /\ Len(q) \in Nat /\ p \in [1 .. Len(p) -> Clusters] /\ q \in [1 .. Len(q) -> Clusters]
    BY <1>1, PathTypes
  <2>2. \A i, j \in 1 .. Len(q) : q[i] = q[j] => i = j
    BY DEF Pathed
  <2> QED BY <2>1, <2>2 DEF Begins
<1>4. Size(mem) = Slots * Len(p) /\ Size(d) = Slots * Len(q)
  BY DEF Size
<1>5. /\ \A c : c \in ToSet(p) <=> \E i \in 1 .. Len(p) : p[i] = c
      /\ \A c : c \in ToSet(q) <=> \E i \in 1 .. Len(q) : q[i] = c
  <2>1. DOMAIN p = 1 .. Len(p) /\ DOMAIN q = 1 .. Len(q)
    BY <1>3
  <2> QED BY <2>1 DEF ToSet
<1>6. Begins(p, q) /\ Pathed(d.tab, q)
  OBVIOUS
<1> HIDE DEF p, q
<1>7. \A i \in 1 .. Len(p) : card'.slots[p[i]] = card.slots[p[i]]
  BY <1>2, <1>3, <1>5
<1>8. ASSUME NEW i \in Len(p) + 1 .. Len(q) PROVE card'.slots[q[i]] = BlankCluster
  <2>1. i \in 1 .. Len(q) /\ \A j \in 1 .. Len(p) : j \in 1 .. Len(q) /\ j # i
    BY <1>3
  <2>2. q[i] \in ToSet(q) /\ q[i] \in Clusters
    BY <1>3, <1>5, <2>1
  <2>3. q[i] \notin ToSet(p)
    BY <1>3, <1>5, <2>1
  <2> QED BY <1>2, <2>2, <2>3
<1>9. /\ Slots * Len(p) \in Nat /\ Slots * Len(q) \in Nat /\ Slots * Len(p) <= Slots * Len(q)
      /\ \A k \in 0 .. Slots * Len(p) - 1 : Along(q, card'.slots)[k] = Along(p, card.slots)[k]
      /\ \A k \in Slots * Len(p) .. Slots * Len(q) - 1 : Along(q, card'.slots)[k] = Blank
  <2> DEFINE C == card.slots
             C2 == card'.slots
             A == Along(p, C)
             A2 == Along(q, C2)
  <2>1. \A i \in 1 .. Len(p) : C2[p[i]] = C[p[i]]
    BY <1>7
  <2>2. \A i \in Len(p) + 1 .. Len(q) : C2[q[i]] = BlankCluster
    BY <1>8
  <2>3. Pathed(mem.tab, p) /\ Pathed(d.tab, q) /\ Begins(p, q)
    BY <1>1, <1>6
  <2>4. A = Along(p, C) /\ A2 = Along(q, C2)
    OBVIOUS
  <2> HIDE DEF C, C2, A, A2
  <2>5. /\ Slots * Len(p) \in Nat /\ Slots * Len(q) \in Nat /\ Slots * Len(p) <= Slots * Len(q)
        /\ \A k \in 0 .. Slots * Len(p) - 1 : A2[k] = A[k]
        /\ \A k \in Slots * Len(p) .. Slots * Len(q) - 1 : A2[k] = Blank
    BY ONLY <2>1, <2>2, <2>3, <2>4, AlongGrown
  <2> QED BY <2>5 DEF C, C2, A, A2
<1>10. Kept = Along(p, card.slots) /\ Kept' = Along(q, card'.slots)
  BY <1>2 DEF Kept, p
<1>11. Size(card') = Size(card)
  BY <1>2 DEF Size
<1>12. \A k \in Size(mem) .. Size(mem') - 1 : Kept'[k].mark # "used"
  BY <1>2, <1>4, <1>9, <1>10, BlankIs
<1>13. /\ Size(mem) \in Nat /\ Size(mem') \in Nat /\ Size(mem) <= Size(mem')
       /\ \A k \in 0 .. Size(mem) - 1 : Kept'[k] = Kept[k]
  BY <1>2, <1>4, <1>9, <1>10
<1> QED BY <1>2, <1>6, <1>11, <1>12, <1>13 DEF Grows, p

\* A step that does not touch the file n, or an entry of its cluster.
Moves(n) ==
    /\ n \notin {handle'.name, op'.name, op'.new} /\ names'[n] = names[n]
    /\ \A f \in Listing(mem') : f.name = n => f \in Listing(mem)
    /\ synced[n] # FREE =>
        /\ pc' \in {"unlinking", "renaming"} => op'.cluster # synced[n]
        /\ \A f \in Listing(mem') : f.cluster = synced[n] => f \in Listing(mem)
        /\ \A f \in Listing(mem) : f.name \in {n, handle.name} =>
              \E g \in Listing(mem') :
                  /\ g.name = f.name /\ g.start = f.start /\ g.end = f.end /\ g.dir = f.dir
                  /\ g.name \in {n, handle'.name} \/ (pc' = "flush" /\ g.name = op'.name)

LEMMA BeginsTwice ==
    ASSUME NEW p, NEW q, NEW r, Len(p) \in Nat, Len(q) \in Nat, Len(r) \in Nat, Begins(p, q), Begins(q, r)
    PROVE  Begins(p, r)
<1>1. ASSUME NEW i \in 1 .. Len(p) PROVE r[i] = p[i]
  <2>1. i \in 1 .. Len(q)
    BY DEF Begins
  <2> QED BY <2>1 DEF Begins
<1>2. Len(p) <= Len(r)
  BY DEF Begins
<1> QED BY <1>1, <1>2 DEF Begins

LEMMA SafeStep ==
    ASSUME DirInv, DirInv', SafeInv, pc # "flush",
           upset' \subseteq {"leak", "empty"} =>
              /\ upset \subseteq {"leak", "empty"} /\ Grows
              /\ \A n \in Names : synced'[n] # Absent => synced'[n] = synced[n] /\ Moves(n)
    PROVE  SafeInv'
<1> DEFINE es == Listing(mem)
           fs == Listing(mem')
           N == Size(mem)
           N2 == Size(mem')
           M == Size(card)
<1> SUFFICES ASSUME upset' \subseteq {"leak", "empty"}
             PROVE  /\ Begins(Path(card'), Path(mem'))
                    /\ \A n \in Names : synced'[n] # Absent => Safe(n, synced[n], Kept, N, M, es)'
  BY DEF SafeInv
<1>1. upset \subseteq {"leak", "empty"} /\ Grows
  OBVIOUS
<1>2. /\ Begins(Path(card), Path(mem))
      /\ \A n \in Names : synced[n] # Absent => Safe(n, synced[n], Kept, N, M, es)
  BY <1>1 DEF SafeInv
<1>3. /\ Begins(Path(mem), Path(mem')) /\ Path(card') = Path(card) /\ card'.tab = card.tab
      /\ Size(card') = M
      /\ N \in Nat /\ N2 \in Nat /\ N <= N2
      /\ \A k \in 0 .. N - 1 : Kept'[k] = Kept[k]
      /\ \A k \in N .. N2 - 1 : Kept'[k].mark # "used"
  BY <1>1 DEF Grows
<1>4. Begins(Path(card'), Path(mem'))
  <2>1. Len(Path(card)) \in Nat /\ Len(Path(mem)) \in Nat /\ Len(Path(mem')) \in Nat
    BY PathTypes DEF DirInv, PathInv
  <2> QED BY <1>2, <1>3, <2>1, BeginsTwice
<1>5. upset \cap {"gap", "outside", "stray", "torn"} = {}
  BY <1>1
<1>6. Filed(InOrder(mem), N, es)
  BY <1>5 DEF DirInv, ListInv
<1>7. ASSUME NEW f \in es, Settled(Kept, N, M, f) PROVE Settled(Kept', N2, M, f) /\ Kept'[f.end] = Kept[f.end]
  <2>1. f.start \in Nat /\ f.end \in Nat /\ f.end < N /\ f.end \in 0 .. N - 1
    BY <1>3, <1>6, FiledRun
  <2> HIDE DEF es, N, N2, M
  <2>2. Kept'[f.end] = Kept[f.end]
    BY <1>3, <2>1
  <2> DEFINE C == Kept
             C2 == Kept'
  <2>3. /\ Settled(C, N, M, f) /\ \A k \in 0 .. N - 1 : C2[k] = C[k]
        /\ \A k \in N .. N2 - 1 : C2[k].mark # "used"
    BY <1>3, <1>7
  <2> HIDE DEF C, C2
  <2>4. Settled(C2, N2, M, f)
    BY <1>3, <2>1, <2>3, SettledGrown
  <2> QED BY <2>2, <2>4 DEF C2
<1> HIDE DEF es, fs, N, N2, M
<1>8. ASSUME NEW n \in Names, synced'[n] # Absent PROVE Safe(n, synced[n], Kept, N, M, es)'
  <2> DEFINE c == synced[n]
  <2>1. synced'[n] = c /\ Moves(n) /\ Safe(n, c, Kept, N, M, es)
    BY <1>2, <1>8
  <2> HIDE DEF c
  <2>2. /\ n \notin {handle'.name, op'.name, op'.new} /\ names'[n] = c
        /\ \A f \in fs : f.name = n => f \in es
    BY <2>1 DEF Moves, Safe, es, fs
  <2>3. c # FREE =>
          /\ pc' \in {"unlinking", "renaming"} => op'.cluster # c
          /\ \A f \in fs : f.cluster = c => f \in es
          /\ \A f \in es : f.name \in {n, handle.name} =>
                \E g \in fs :
                    /\ g.name = f.name /\ g.start = f.start /\ g.end = f.end /\ g.dir = f.dir
                    /\ g.name \in {n, handle'.name} \/ (pc' = "flush" /\ g.name = op'.name)
    BY <2>1 DEF Moves, c, es, fs
  <2>4. ASSUME NEW e \in fs, e.name = n PROVE Settled(Kept', N2, M, e) /\ Kept'[e.end].cluster = c
    <3>1. e \in es
      BY <2>2, <2>4
    <3>2. Settled(Kept, N, M, e) /\ Kept[e.end].cluster = c
      BY <2>1, <2>4, <3>1 DEF Safe
    <3> QED BY <1>7, <3>1, <3>2
  <2>5. ASSUME c # FREE, NEW f \in fs, f.cluster = c PROVE Settled(Kept', N2, M, f)
    <3>1. f \in es
      BY <2>3, <2>5
    <3>2. Settled(Kept, N, M, f)
      BY <2>1, <2>5, <3>1 DEF Safe
    <3> QED BY <1>7, <3>1, <3>2
  <2>6. ASSUME c # FREE, NEW k \in 0 .. N2 - 1, Kept'[k].mark = "used", Kept'[k].what = "data",
               Kept'[k].cluster = c
        PROVE  \E g \in fs : /\ g.end = k /\ Settled(Kept', N2, M, g)
                             /\ g.name \in {n, handle'.name} \/ (pc' = "flush" /\ g.name = op'.name)
    <3>1. k \in 0 .. N - 1 /\ Kept'[k] = Kept[k]
      BY <1>3, <2>6
    <3>2. PICK f \in es : f.end = k /\ Settled(Kept, N, M, f) /\ f.name \in {n, handle.name}
      BY <2>1, <2>6, <3>1 DEF Safe
    <3>3. PICK g \in fs : /\ g.name = f.name /\ g.start = f.start /\ g.end = f.end /\ g.dir = f.dir
                          /\ g.name \in {n, handle'.name} \/ (pc' = "flush" /\ g.name = op'.name)
      BY <2>3, <2>6, <3>2
    <3>4. Settled(Kept', N2, M, f)
      BY <1>7, <3>2
    <3>5. Settled(Kept', N2, M, g)
      BY <3>3, <3>4, SettledSame
    <3> QED BY <3>2, <3>3, <3>5
  <2>7. c # FREE => card'.tab[c] # FREE
    BY <1>3, <2>1 DEF Safe
  <2>8. N' = N2 /\ M' = M /\ es' = fs
    BY <1>3 DEF N, N2, M, es, fs
  <2>9. /\ n \notin {handle'.name, op'.name, op'.new} /\ names'[n] = c
        /\ \A e \in fs : e.name = n => Settled(Kept', N2, M, e) /\ Kept'[e.end].cluster = c
        /\ c # FREE =>
            /\ card'.tab[c] # FREE
            /\ pc' \in {"unlinking", "renaming"} => op'.cluster # c
            /\ \A f \in fs : f.cluster = c => Settled(Kept', N2, M, f)
            /\ \A k \in 0 .. N2 - 1 :
                  (Kept'[k].mark = "used" /\ Kept'[k].what = "data" /\ Kept'[k].cluster = c) =>
                      \E f \in fs : /\ f.end = k /\ Settled(Kept', N2, M, f)
                                    /\ f.name \in {n, handle'.name} \/ (pc' = "flush" /\ f.name = op'.name)
    BY <2>2, <2>3, <2>4, <2>5, <2>6, <2>7
  <2>10. Safe(n, synced[n], Kept, N, M, es)'
    <3>1. synced'[n] = c
      BY <2>1
    <3> QED BY ONLY <2>8, <2>9, <3>1 DEF Safe
  <2> QED BY <2>10
<1> QED BY <1>4, <1>8

-----------------------------------------------------------------------------
(* The steps keep what the card has of it                                  *)

LEMMA SafeOwner ==
    ASSUME DirInv, SafeInv, upset \subseteq {"leak", "empty"}, NEW n \in Names, synced[n] # Absent
    PROVE  /\ n \notin {handle.name, op.name, op.new} /\ names[n] = synced[n]
           /\ \E e \in Listing(mem) :
                /\ e.name = n /\ e.cluster = synced[n]
                /\ synced[n] # FREE =>
                    \A f \in Owners(pc, op, handle, Listing(mem)) : f.cluster = synced[n] => f.name = n
<1>1. Safe(n, synced[n], Kept, Size(mem), Size(card), Listing(mem))
  BY DEF SafeInv
<1> DEFINE c == synced[n]
           os == Owners(pc, op, handle, Listing(mem))
<1>2. /\ n \notin {handle.name, op.name, op.new} /\ names[n] = c
      /\ c # FREE /\ pc \in {"unlinking", "renaming"} => op.cluster # c
  BY <1>1 DEF Safe
<1> HIDE DEF c
<1>3. c # Absent
  BY DEF c
<1>4. PICK e \in Listing(mem) :
        /\ e.name = n /\ e.cluster = c
        /\ c # FREE => \A f \in os : f.cluster = c => f = e
  BY <1>2, <1>3, OwnerOf
<1> HIDE DEF os
<1> QED BY <1>2, <1>4 DEF c, os

\* What Touched leaves.
LEMMA TouchedIs ==
    ASSUME NEW ns, synced' = Touched(ns), NEW n \in Names, synced'[n] # Absent
    PROVE  n \notin ns /\ synced'[n] = synced[n]
BY DEF Touched

\* A step after which the directory lists what it listed.
LEMMA SameSafe ==
    ASSUME DirInv, DirInv', SafeInv, pc # "flush",
           upset' \subseteq {"leak", "empty"} =>
              /\ upset \subseteq {"leak", "empty"} /\ Grows /\ Listing(mem') = Listing(mem)
              /\ names' = names /\ (handle' = handle \/ handle = NoEntry)
              /\ \A n \in Names : synced'[n] # Absent =>
                    /\ synced'[n] = synced[n] /\ n \notin {handle'.name, op'.name, op'.new}
                    /\ synced[n] # FREE /\ pc' \in {"unlinking", "renaming"} => op'.cluster # synced[n]
    PROVE  SafeInv'
<1> SUFFICES ASSUME upset' \subseteq {"leak", "empty"}, NEW n \in Names, synced'[n] # Absent
             PROVE  Moves(n)
  BY SafeStep
<1>1. upset \subseteq {"leak", "empty"} /\ Listing(mem') = Listing(mem)
  OBVIOUS
<1>2. upset \cap {"gap", "outside", "stray", "torn"} = {}
  BY <1>1
<1>3. Filed(InOrder(mem), Size(mem), Listing(mem))
  BY <1>2 DEF DirInv, ListInv
<1>4. \A f \in Listing(mem) : f.name # NoName
  BY <1>3, DirNumbers DEF Filed
<1>5. ASSUME NEW f \in Listing(mem), f.name \in {n, handle.name} PROVE f.name \in {n, handle'.name}
  BY <1>4, <1>5, NoEntryIs
<1> QED BY <1>1, <1>5 DEF Moves

LEMMA OpenSafe ==
    ASSUME DirInv, DirInv', SafeInv, NEW n \in Names, NEW trunc \in BOOLEAN, Open(n, trunc)
    PROVE  SafeInv'
<1> DEFINE es == Listing(mem)
<1>1. /\ upset \subseteq {"leak", "empty"} /\ pc = "idle"
      /\ mem \in DiskT /\ mem.met = {} /\ Fit(mem) /\ Pathed(mem.tab, Path(mem))
      /\ Filed(InOrder(mem), Size(mem), es) /\ es \subseteq Entry
  BY ReadyIs DEF Open, Fit
<1>2. handle = NoEntry /\ handle' = handle /\ synced' = Touched({n})
  BY DEF Open
<1>3. \A m \in Names : synced'[m] # Absent => m # n /\ synced'[m] = synced[m] /\ m # NoName
  BY <1>2, TouchedIs, DirNumbers
<1>4. CASE Exists(mem, n)
  <2>1. /\ pc' \in {"truncating", "opening"} /\ op' = Found(mem, n)
        /\ mem' = mem /\ card' = card /\ names' = names /\ upset' = upset
    BY <1>4 DEF Open
  <2>2. op' \in es /\ op'.name = n
    BY <1>1, <1>4, <2>1, FoundIs
  <2>3. op'.new = NoName
    BY <1>1, <2>2 DEF Filed
  <2>4. Grows
    BY <2>1, GrowsNot
  <2> QED BY <1>1, <1>2, <1>3, <2>1, <2>2, <2>3, <2>4, SameSafe, NoEntryIs
<1>5. CASE ~Exists(mem, n)
  <2>1. PICK a \in {Added(mem, n, FREE, FALSE)} :
          /\ Becomes(a.d, {}) /\ op' = a.entry
          /\ IF a.ok THEN pc' = "opening" /\ names' = [names EXCEPT ![n] = FREE]
             ELSE UNCHANGED <<pc, names>>
    BY <1>5 DEF Open
  <2>2. \A f \in es : f.name # n
    BY <1>5 DEF Exists, Named
  <2>3. FREE \in Entries /\ {} \in SUBSET Trap /\ pc # "opening"
        /\ upset \cap {"gap", "outside", "stray", "torn"} = {}
    BY <1>1, Numbers
  <2>4. AddedFor(mem, a, n, FREE, FALSE, es) /\ AddedStepFor(a, {})
    BY <2>1, <2>2, <2>3, AddedStep
  <2> DEFINE w == a.d
             x == a.entry
             fs == IF a.ok THEN es \cup {x} ELSE es
  <2>5. /\ a.ok \in BOOLEAN /\ Grew(mem, w) /\ x.new = NoName
        /\ a.ok => x.name = n /\ x.cluster = FREE
        /\ ~a.ok => x = NoEntry
    BY <2>4 DEF AddedFor
  <2>6. ("gap" \notin upset' /\ "outside" \notin upset') => Listing(mem') = fs
    BY <2>4 DEF AddedStepFor
  <2>7. Becomes(w, {}) /\ op' = x
    BY <2>1
  <2> HIDE DEF w, x
  <2>8. w \in DiskT /\ Pathed(w.tab, Path(w)) /\ Begins(Path(mem), Path(w))
    BY <2>5 DEF Grew, Fit, Begins
  <2>9. upset' \subseteq {"leak", "empty"} => Grows
    <3> SUFFICES ASSUME upset' \subseteq {"leak", "empty"} PROVE Grows
      OBVIOUS
    <3>1. "tail" \notin w.met
      BY <2>7 DEF Becomes
    <3> QED BY <2>7, <2>8, <3>1, GrowsBy
  <2>10. /\ pc' \in {"idle", "opening"}
         /\ \A m \in Names : m # n => names'[m] = names[m]
    BY <1>1, <2>1, <2>5 DEF DirInv, TypeInv
  <2>11. \A f \in fs : f \in es \/ (f.name = n /\ f.cluster = FREE)
    BY <2>5
  <2>12. es \subseteq fs
    OBVIOUS
  <2>13. op'.name \in {n, NoName} /\ op'.new = NoName
    BY <2>5, <2>7, NoEntryIs
  <2> HIDE DEF fs, es
  <2>14. ASSUME upset' \subseteq {"leak", "empty"}, NEW m \in Names, synced'[m] # Absent
         PROVE  Moves(m)
    <3>1. Listing(mem') = fs
      BY <2>6, <2>14
    <3>2. m # n /\ m # NoName
      BY <1>3, <2>14
    <3> QED BY <1>2, <2>10, <2>11, <2>12, <2>13, <3>1, <3>2, NoEntryIs DEF Moves, es
  <2> QED BY <1>1, <1>3, <2>9, <2>14, SafeStep
<1> QED BY <1>4, <1>5

LEMMA OpenClusterSafe ==
    ASSUME DirInv, DirInv', SafeInv, OpenCluster
    PROVE  SafeInv'
<1> DEFINE es == Listing(mem)
           d == IF pc = "truncating" THEN Cut(mem, op.cluster) ELSE mem
<1>1. /\ pc \in {"opening", "truncating"} /\ pc' = "idle" /\ op' = NoEntry
      /\ names' = names /\ synced' = synced
  BY DEF OpenCluster
<1>2. /\ mem \in DiskT /\ Pathed(mem.tab, Path(mem)) /\ "stray" \notin upset
      /\ op \in Entry /\ mem.tab[Last(Path(mem))] # FREE
  <2>1. "stray" \notin upset
    BY <1>1 DEF DirInv, StepInv
  <2> QED BY <2>1 DEF DirInv, TypeInv, PathInv
<1>3. Fit(mem)
  BY <1>2 DEF Fit
<1>4. ASSUME upset \subseteq {"leak", "empty"}
      PROVE  /\ handle = NoEntry /\ op \in es
             /\ \A i \in 1 .. Len(Path(mem)) : Path(mem)[i] # op.cluster
             /\ \A n \in Names : synced[n] # Absent => n # op.name /\ n # NoName
  <2>1. upset \cap {"gap", "outside", "stray", "torn"} = {}
    BY <1>4
  <2>2. Lists(pc, op, handle, names, es)
    BY <2>1 DEF DirInv, ListInv
  <2>3. handle = NoEntry /\ op \in es
    BY <1>1, <2>2 DEF Lists
  <2>4. Owns(upset, pc, op, handle, mem.tab, Path(mem), es)
    BY <1>4 DEF DirInv, OwnInv
  <2>5. OwnedApart(mem.tab, Path(mem), es)
    BY <1>1, <2>3, <2>4 DEF Owns, Owners, Held
  <2>6. \A i \in 1 .. Len(Path(mem)) : Path(mem)[i] # op.cluster
    BY <1>2, <2>3, <2>5, OwnedOff
  <2>7. \A n \in Names : synced[n] # Absent => n # op.name /\ n # NoName
    BY <1>4, SafeOwner, DirNumbers
  <2> QED BY <2>3, <2>6, <2>7
<1>5. CASE pc = "opening" /\ op.cluster # FREE
  <2>1. handle' = op /\ mem' = mem /\ card' = card /\ upset' = upset
    BY <1>5 DEF OpenCluster
  <2>2. Grows
    BY <2>1, GrowsNot
  <2> QED BY <1>1, <1>4, <2>1, <2>2, SameSafe, NoEntryIs
<1>6. CASE ~(pc = "opening" /\ op.cluster # FREE)
  <2>1. PICK new \in {LinkedFree(d, FREE)} :
          /\ Becomes(new.d, IF new.cluster = FREE THEN {"empty"} ELSE {})
          /\ handle' = [op EXCEPT !.cluster = new.cluster]
    BY <1>6 DEF OpenCluster
  <2>2. op.cluster \in Entries
    BY <1>2 DEF Entry, Entries
  <2>3. pc = "truncating" => upset \subseteq {"leak", "empty"}
    BY DEF DirInv, StepInv
  <2>4. Fit(d) /\ Path(d) = Path(mem) /\ Listing(d) = es /\ d.met = {}
    <3>0. mem.met = {}
      BY DEF DirInv, TypeInv
    <3>1. CASE pc = "opening"
      BY <1>3, <3>0, <3>1
    <3>2. CASE pc = "truncating"
      <4>1. \A i \in 1 .. Len(Path(mem)) : Path(mem)[i] # op.cluster
        BY <1>4, <2>3, <3>2
      <4>2. d = Cut(mem, op.cluster)
        BY <3>2
      <4>3. Flat(mem.tab, Path(mem))
        BY <2>3, <3>2 DEF DirInv, PathInv
      <4> HIDE DEF d, es
      <4> QED BY <1>3, <2>2, <3>0, <4>1, <4>2, <4>3, CutOff DEF es
    <3> QED BY <1>1, <3>1, <3>2
  <2> DEFINE w == new.d
             traps == IF new.cluster = FREE THEN {"empty"} ELSE {}
  <2>5. Fit(w) /\ Path(w) = Path(d) /\ Listing(w) = Listing(d) /\ "tail" \notin w.met
    <3>1. new = LinkedFree(d, FREE)
      BY <2>1
    <3> HIDE DEF d
    <3> QED BY <2>4, <3>1, FirstIs
  <2>6. Becomes(w, traps) /\ handle'.name = op.name /\ handle'.new = op.new
    BY <1>2, <2>1 DEF Entry
  <2> HIDE DEF w, traps, d
  <2>7. w \in DiskT /\ Pathed(w.tab, Path(w)) /\ Begins(Path(mem), Path(w)) /\ Listing(w) = es
    <3>1. Len(Path(mem)) \in Nat
      BY <1>2, PathTypes
    <3> QED BY <2>4, <2>5, <3>1 DEF Fit, Begins
  <2>8. Grows
    BY <2>5, <2>6, <2>7, GrowsBy
  <2>9. card \in DiskT /\ card.met = {} /\ Pathed(card.tab, Path(card))
    BY DEF DirInv, TypeInv, PathInv
  <2>10. Listing(mem') = es /\ upset' = (upset \cup w.met) \cup traps
    BY <2>6, <2>7, <2>9, BecomesIs
  <2>11. upset \subseteq upset'
    BY <2>10
  <2> QED BY <1>1, <1>4, <2>6, <2>8, <2>10, <2>11, SameSafe, NoEntryIs
<1> QED BY <1>5, <1>6

LEMMA CloseSafe ==
    ASSUME DirInv, DirInv', SafeInv, Close
    PROVE  SafeInv'
<1> DEFINE es == Listing(mem)
<1>1. /\ Ready /\ handle # NoEntry
      /\ names' = [names EXCEPT ![handle.name] = handle.cluster]
      /\ synced' = Touched({handle.name}) /\ handle' = NoEntry
      /\ pc' = "flush" /\ op' = [NoEntry EXCEPT !.name = handle.name]
  BY DEF Close
<1>2. /\ upset \subseteq {"leak", "empty"} /\ pc = "idle"
      /\ Filed(InOrder(mem), Size(mem), es)
      /\ Owners(pc, op, handle, es) = Held(handle, es)
      /\ Pathed(mem.tab, Path(mem))
  BY <1>1, ReadyIs DEF Fit
<1>3. PICK e \in es, w \in DiskT :
        /\ handle.name = e.name /\ handle.start = e.start /\ handle.end = e.end /\ handle.dir = e.dir
        /\ Becomes(w, {}) /\ w.met = {} /\ w.tab = mem.tab /\ Path(w) = Path(mem)
        /\ Listing(mem') = (es \ {e}) \cup {handle}
  BY ClosedIs
<1>4. \A f \in es : f.name = handle.name <=> f = e
  BY <1>2, <1>3 DEF Filed
<1>5. Grows
  <2>1. Begins(Path(mem), Path(w)) /\ Pathed(w.tab, Path(w)) /\ "tail" \notin w.met
    BY <1>2, <1>3, PathTypes DEF Begins
  <2> QED BY <1>3, <2>1, GrowsBy
<1>6. handle \in Held(handle, es)
  BY <1>1 DEF Held
<1>7. op'.name = handle.name /\ op'.new = NoName
  BY <1>1 DEF NoEntry
<1> DEFINE fs == (es \ {e}) \cup {handle}
<1>8. ASSUME NEW n \in Names, synced'[n] # Absent PROVE synced'[n] = synced[n] /\ Moves(n)
  <2>1. synced'[n] = synced[n] /\ n # handle.name /\ n # NoName
    BY <1>1, <1>8, TouchedIs, DirNumbers
  <2> DEFINE c == synced[n]
  <2>2. c # FREE => \A f \in Held(handle, es) : f.cluster = c => f.name = n
    BY <1>2, <1>8, <2>1, SafeOwner
  <2> HIDE DEF c
  <2>3. c # FREE => handle.cluster # c
    BY <1>6, <2>1, <2>2
  <2>4. n \notin {handle'.name, op'.name, op'.new} /\ names'[n] = names[n]
    BY <1>1, <1>7, <2>1, NoEntryIs DEF DirInv, TypeInv
  <2>5. \A f \in fs : f = handle \/ f \in es
    OBVIOUS
  <2>6. ASSUME NEW f \in es, f.name \in {n, handle.name}
        PROVE  \E g \in fs : /\ g.name = f.name /\ g.start = f.start /\ g.end = f.end /\ g.dir = f.dir
                             /\ g.name \in {n, handle'.name} \/ (pc' = "flush" /\ g.name = op'.name)
    <3>1. CASE f = e
      BY <1>1, <1>3, <1>4, <1>7, <3>1
    <3>2. CASE f # e
      BY <1>4, <2>6, <3>2
    <3> QED BY <3>1, <3>2
  <2>7. Listing(mem') = fs
    BY <1>3
  <2>8. pc' \notin {"unlinking", "renaming"}
    BY <1>1
  <2> HIDE DEF fs, es
  <2>9. Moves(n)
    BY <2>1, <2>3, <2>4, <2>5, <2>6, <2>7, <2>8 DEF Moves, c, es
  <2> QED BY <2>1, <2>9
<1> QED BY <1>2, <1>5, <1>8, SafeStep

LEMMA RemovedSafe ==
    ASSUME DirInv, DirInv', SafeInv, pc \in {"unlinking", "renaming"}, Becomes(Removed(mem, op), {}),
           names' = [names EXCEPT ![op.name] = Absent], pc' \in {"idle", "flush"}, op' = NoEntry,
           handle' = handle, synced' = synced
    PROVE  SafeInv'
<1> DEFINE es == Listing(mem)
           o == Old(op)
<1>1. PICK w \in DiskT :
        /\ Becomes(w, {}) /\ w.met = {} /\ w.tab = mem.tab /\ Path(w) = Path(mem)
        /\ Listing(mem') = Listing(w) /\ upset' = upset
        /\ upset \cap {"gap", "outside", "stray", "torn"} = {} =>
              o \in es /\ op.name # handle.name /\ o.name = op.name /\ Listing(w) = es \ {o}
  BY RemovedBy
<1>2. Pathed(mem.tab, Path(mem))
  BY DEF DirInv, PathInv
<1>3. Grows
  <2>1. Begins(Path(mem), Path(w)) /\ Pathed(w.tab, Path(w)) /\ "tail" \notin w.met
    BY <1>1, <1>2, PathTypes DEF Begins
  <2> QED BY <1>1, <2>1, GrowsBy
<1>4. ASSUME upset' \subseteq {"leak", "empty"}, NEW n \in Names, synced'[n] # Absent
      PROVE  Moves(n)
  <2>1. upset \subseteq {"leak", "empty"} /\ upset \cap {"gap", "outside", "stray", "torn"} = {}
    BY <1>1, <1>4
  <2>2. op.name # handle.name /\ o.name = op.name /\ Listing(mem') = es \ {o}
    BY <1>1, <2>1
  <2>3. n \notin {handle.name, op.name} /\ n # NoName
    BY <1>4, <2>1, SafeOwner, DirNumbers
  <2>4. n \notin {handle'.name, op'.name, op'.new} /\ names'[n] = names[n]
    BY <2>3, NoEntryIs DEF DirInv, TypeInv
  <2>5. ASSUME NEW f \in es, f.name \in {n, handle.name} PROVE f \in es \ {o} /\ f.name \in {n, handle'.name}
    BY <2>2, <2>3, <2>5
  <2> HIDE DEF o, es
  <2> QED BY <2>2, <2>4, <2>5 DEF Moves, es
<1>5. pc # "flush"
  OBVIOUS
<1> QED BY ONLY DirInv, DirInv', SafeInv, synced' = synced, <1>1, <1>3, <1>4, <1>5, SafeStep

LEMMA UnlinkSafe ==
    ASSUME DirInv, DirInv', SafeInv, NEW n \in Names, Unlink(n)
    PROVE  SafeInv'
<1> DEFINE es == Listing(mem)
           p == Path(mem)
<1>1. PICK e \in {Found(mem, n)} : \E d \in {Cut(mem, e.cluster)} : op' = e /\ Becomes(d, Stray(n))
  BY DEF Unlink
<1>2. PICK w \in {Cut(mem, e.cluster)} : op' = e /\ Becomes(w, Stray(n))
  BY <1>1
<1>3. /\ Ready /\ Exists(mem, n) /\ pc' = "unlinking" /\ synced' = Touched({n})
      /\ handle' = handle /\ names' = names
      /\ e = Found(mem, n) /\ w = Cut(mem, e.cluster) /\ op' = e /\ Becomes(w, Stray(n))
  BY <1>1, <1>2 DEF Unlink
<1>4. /\ upset \subseteq {"leak", "empty"} /\ pc = "idle"
      /\ mem \in DiskT /\ mem.met = {} /\ Fit(mem) /\ Flat(mem.tab, p) /\ Pathed(mem.tab, p)
      /\ Filed(InOrder(mem), Size(mem), es)
      /\ Owns(upset, pc, op, handle, mem.tab, p, es)
      /\ Owners(pc, op, handle, es) = Held(handle, es)
      /\ es \subseteq Entry
  BY <1>3, ReadyIs DEF Fit
<1>5. e \in es /\ e.name = n
  BY <1>3, <1>4, FoundIs
<1>6. e.new = NoName /\ e.cluster \in Entries
  BY <1>4, <1>5 DEF Filed, Entry, Entries
<1>7. OwnedApart(mem.tab, p, Held(handle, es))
  BY <1>4 DEF Owns
<1> HIDE DEF p, es
<1>8. ASSUME handle.name # n
      PROVE  e \in Held(handle, es) /\ \A i \in 1 .. Len(p) : p[i] # e.cluster
  <2>1. e \in Held(handle, es)
    BY <1>5, <1>8 DEF Held
  <2> QED BY <1>4, <1>7, <2>1, OwnedOff
<1>9. card \in DiskT /\ card.met = {} /\ Pathed(card.tab, Path(card))
  BY DEF DirInv, TypeInv, PathInv
<1>10. ASSUME upset' \subseteq {"leak", "empty"}
       PROVE  /\ Grows /\ Listing(mem') = es
              /\ \A m \in Names : synced'[m] # Absent =>
                    /\ synced'[m] = synced[m] /\ m \notin {handle'.name, op'.name, op'.new}
                    /\ synced[m] # FREE => op'.cluster # synced[m]
  <2>1. upset' = upset \cup w.met \cup Stray(n)
    BY <1>3 DEF Becomes
  <2>2. handle.name # n
    BY <1>10, <2>1 DEF Stray
  <2>3. Fit(w) /\ Path(w) = p /\ Listing(w) = es /\ w.met = {}
    BY <1>3, <1>4, <1>6, <1>8, <2>2, CutOff DEF p, es
  <2>4. w \in DiskT /\ Pathed(w.tab, Path(w)) /\ Becomes(w, Stray(n))
    BY <1>3, <2>3 DEF Fit
  <2>5. Begins(Path(mem), Path(w))
    BY <1>4, <2>3, PathTypes DEF Begins, p
  <2>6. Grows
    BY <2>3, <2>4, <2>5, GrowsBy
  <2>7. Listing(mem') = es
    BY <1>9, <2>3, <2>4, BecomesIs
  <2>8. ASSUME NEW m \in Names, synced'[m] # Absent
        PROVE  /\ synced'[m] = synced[m] /\ m \notin {handle'.name, op'.name, op'.new}
               /\ synced[m] # FREE => op'.cluster # synced[m]
    <3>1. m # n /\ synced'[m] = synced[m] /\ m # NoName
      BY <1>3, <2>8, TouchedIs, DirNumbers
    <3>2. m # handle.name /\ (synced[m] # FREE =>
              \A f \in Held(handle, es) : f.cluster = synced[m] => f.name = m)
      BY <1>4, <2>8, <3>1, SafeOwner DEF es
    <3>3. synced[m] # FREE => e.cluster # synced[m]
      BY <1>5, <1>8, <2>2, <3>1, <3>2
    <3> QED BY <1>3, <1>5, <1>6, <3>1, <3>2, <3>3
  <2> QED BY <2>6, <2>7, <2>8
<1>11. upset \subseteq {"leak", "empty"} /\ pc # "flush"
  BY <1>4
<1> QED BY <1>3, <1>10, <1>11, SameSafe DEF es

\* Adding an entry leaves what was there.
LEMMA AddedGrows ==
    ASSUME DirInv, NEW n, NEW c, NEW dir, NEW a, NEW traps, Becomes(a.d, traps),
           AddedFor(mem, a, n, c, dir, Listing(mem)), AddedStepFor(a, traps), upset' \subseteq {"leak", "empty"}
    PROVE  /\ Grows /\ Listing(mem) \subseteq Listing(mem')
           /\ \A f \in Listing(mem') : f \in Listing(mem) \/ (a.ok /\ f.name = n /\ f.cluster = c)
<1> DEFINE es == Listing(mem)
           w == a.d
           x == a.entry
<1>1. Listing(mem') = IF a.ok THEN es \cup {x} ELSE es
  <2>1. "gap" \notin upset' /\ "outside" \notin upset'
    OBVIOUS
  <2> QED BY <2>1 DEF AddedStepFor
<1>2. a.ok \in BOOLEAN /\ Grew(mem, w) /\ (a.ok => x.name = n /\ x.cluster = c)
  BY DEF AddedFor
<1>3. Becomes(w, traps)
  OBVIOUS
<1> HIDE DEF w, x, es
<1>4. w \in DiskT /\ Pathed(w.tab, Path(w)) /\ Begins(Path(mem), Path(w))
  BY <1>2 DEF Grew, Fit, Begins
<1>5. Grows
  <2>1. "tail" \notin w.met
    BY <1>3 DEF Becomes
  <2> QED BY <1>3, <1>4, <2>1, GrowsBy
<1> QED BY <1>1, <1>2, <1>5 DEF es

LEMMA RenameSafe ==
    ASSUME DirInv, DirInv', SafeInv, NEW n \in Names, NEW to \in Names, Rename(n, to)
    PROVE  SafeInv'
<1> DEFINE es == Listing(mem)
<1>1. PICK e \in {Found(mem, n)} : \E a \in {Added(mem, to, e.cluster, e.dir)} :
        /\ Becomes(a.d, IF a.ok THEN Stray(n) ELSE {})
        /\ IF a.ok THEN /\ pc' = "renaming" /\ op' = [e EXCEPT !.new = to]
                        /\ names' = [names EXCEPT ![to] = e.cluster]
           ELSE UNCHANGED <<pc, op, names>>
  BY DEF Rename
<1>2. PICK a \in {Added(mem, to, e.cluster, e.dir)} :
        /\ Becomes(a.d, IF a.ok THEN Stray(n) ELSE {})
        /\ IF a.ok THEN /\ pc' = "renaming" /\ op' = [e EXCEPT !.new = to]
                        /\ names' = [names EXCEPT ![to] = e.cluster]
           ELSE UNCHANGED <<pc, op, names>>
  BY <1>1
<1>3. /\ Ready /\ Exists(mem, n) /\ ~Exists(mem, to) /\ synced' = Touched({n, to})
      /\ handle' = handle /\ e = Found(mem, n) /\ a = Added(mem, to, e.cluster, e.dir)
  BY <1>1, <1>2 DEF Rename
<1>4. /\ upset \subseteq {"leak", "empty"} /\ pc = "idle"
      /\ mem \in DiskT /\ Pathed(mem.tab, Path(mem))
      /\ Owners(pc, op, handle, es) = Held(handle, es)
      /\ es \subseteq Entry
  BY <1>3, ReadyIs DEF Fit
<1>5. e \in es /\ e.name = n
  BY <1>3, <1>4, FoundIs
<1>6. e \in Entry /\ e.cluster \in Entries /\ e.dir \in BOOLEAN
  BY <1>4, <1>5 DEF Entry, Entries
<1>7. \A f \in es : f.name # to
  BY <1>3 DEF Exists, Named
<1> DEFINE traps == IF a.ok THEN Stray(n) ELSE {}
<1>8. traps \in SUBSET Trap /\ (a.ok => traps = Stray(n))
  BY DEF Stray, Trap
<1>9. Becomes(a.d, traps)
  BY <1>2
<1> HIDE DEF traps
<1>10. pc # "opening" /\ upset \cap {"gap", "outside", "stray", "torn"} = {}
  BY <1>4
<1>11. AddedFor(mem, a, to, e.cluster, e.dir, es) /\ AddedStepFor(a, traps)
  BY <1>3, <1>6, <1>7, <1>8, <1>9, <1>10, AddedStep
<1>12. traps \subseteq upset' /\ a.ok \in BOOLEAN
  BY <1>11 DEF AddedStepFor, AddedFor
<1>13. /\ a.ok => /\ pc' = "renaming" /\ op'.name = n /\ op'.new = to /\ op'.cluster = e.cluster
                  /\ names' = [names EXCEPT ![to] = e.cluster]
       /\ ~a.ok => pc' = pc /\ op' = op /\ names' = names
  BY <1>2, <1>5, <1>6 DEF Entry
<1> HIDE DEF es
<1>14. ASSUME upset' \subseteq {"leak", "empty"}
       PROVE  Grows /\ \A m \in Names : synced'[m] # Absent => synced'[m] = synced[m] /\ Moves(m)
  <2>2. /\ Grows /\ es \subseteq Listing(mem')
        /\ \A f \in Listing(mem') : f \in es \/ (a.ok /\ f.name = to /\ f.cluster = e.cluster)
    BY <1>9, <1>11, <1>14, AddedGrows DEF es
  <2>3. a.ok => e \in Held(handle, es)
    <3> SUFFICES ASSUME a.ok PROVE e \in Held(handle, es)
      OBVIOUS
    <3>1. handle.name # n
      BY <1>8, <1>12, <1>14 DEF Stray
    <3> QED BY <1>5, <3>1 DEF Held
  <2>4. ASSUME NEW m \in Names, synced'[m] # Absent PROVE synced'[m] = synced[m] /\ Moves(m)
    <3>1. m \notin {n, to} /\ synced'[m] = synced[m] /\ synced[m] # Absent
      BY <1>3, <2>4, TouchedIs
    <3>2. /\ m \notin {handle.name, op.name, op.new}
          /\ synced[m] # FREE => \A f \in Held(handle, es) : f.cluster = synced[m] => f.name = m
      BY <1>4, <3>1, SafeOwner DEF es
    <3>3. a.ok /\ synced[m] # FREE => e.cluster # synced[m]
      BY <1>5, <2>3, <3>1, <3>2
    <3>4. m \notin {handle'.name, op'.name, op'.new} /\ names'[m] = names[m]
      BY <1>3, <1>12, <1>13, <3>1, <3>2 DEF DirInv, TypeInv
    <3>5. synced[m] # FREE => (pc' \in {"unlinking", "renaming"} => op'.cluster # synced[m])
      BY <1>4, <1>12, <1>13, <3>3
    <3>6. \A f \in Listing(mem') : f.name = m => f \in es
      BY <2>2, <3>1
    <3>7. synced[m] # FREE => \A f \in Listing(mem') : f.cluster = synced[m] => f \in es
      BY <2>2, <3>3
    <3>8. \A f \in es : f.name \in {m, handle.name} => f \in Listing(mem') /\ f.name \in {m, handle'.name}
      BY <1>3, <2>2
    <3>9. Moves(m)
      BY <3>4, <3>5, <3>6, <3>7, <3>8 DEF Moves, es
    <3> QED BY <3>1, <3>9
  <2> QED BY <2>2, <2>4
<1>15. upset \subseteq {"leak", "empty"} /\ pc # "flush"
  BY <1>4
<1> QED BY <1>14, <1>15, SafeStep

LEMMA MkdirSafe ==
    ASSUME DirInv, DirInv', SafeInv, NEW n \in Names, Mkdir(n)
    PROVE  SafeInv'
<1> DEFINE es == Listing(mem)
<1>1. PICK new \in {LinkedFree(mem, FREE)} :
        /\ Becomes(new.d, {})
        /\ IF new.cluster = FREE THEN UNCHANGED <<pc, op>>
           ELSE pc' = "making" /\ op' = [NoEntry EXCEPT !.name = n, !.cluster = new.cluster, !.dir = TRUE]
  BY DEF Mkdir
<1>2. /\ Ready /\ synced' = Touched({n}) /\ handle' = handle /\ names' = names
      /\ new = LinkedFree(mem, FREE)
  BY <1>1 DEF Mkdir
<1>3. /\ upset \subseteq {"leak", "empty"} /\ pc = "idle" /\ mem.met = {} /\ Fit(mem) /\ Pathed(mem.tab, Path(mem))
  BY <1>2, ReadyIs DEF Fit
<1> DEFINE w == new.d
<1>4. Fit(w) /\ Path(w) = Path(mem) /\ Listing(w) = es /\ "tail" \notin w.met
  BY <1>2, <1>3, FirstIs
<1>5. Becomes(w, {})
  BY <1>1
<1>6. /\ pc' \in {"idle", "making"}
      /\ op' = op \/ (op'.name = n /\ op'.new = NoName)
  BY <1>1, <1>3 DEF NoEntry
<1> HIDE DEF w, es
<1>7. w \in DiskT /\ Pathed(w.tab, Path(w)) /\ Begins(Path(mem), Path(w))
  BY <1>3, <1>4, PathTypes DEF Fit, Begins
<1>8. Grows
  BY <1>4, <1>5, <1>7, GrowsBy
<1>9. card \in DiskT /\ card.met = {} /\ Pathed(card.tab, Path(card))
  BY DEF DirInv, TypeInv, PathInv
<1>10. Listing(mem') = es
  BY <1>4, <1>5, <1>7, <1>9, BecomesIs
<1>11. ASSUME NEW m \in Names, synced'[m] # Absent
       PROVE  synced'[m] = synced[m] /\ m \notin {handle'.name, op'.name, op'.new}
  <2>1. m # n /\ synced'[m] = synced[m] /\ m # NoName
    BY <1>2, <1>11, TouchedIs, DirNumbers
  <2>2. m \notin {handle.name, op.name, op.new}
    BY <1>3, <1>11, <2>1, SafeOwner
  <2> QED BY <1>2, <1>6, <2>1, <2>2
<1>12. pc # "flush" /\ pc' \notin {"unlinking", "renaming"}
  BY <1>3, <1>6
<1> QED BY <1>2, <1>3, <1>8, <1>10, <1>11, <1>12, SameSafe DEF es

LEMMA MkdirEntrySafe ==
    ASSUME DirInv, DirInv', SafeInv, MkdirEntry
    PROVE  SafeInv'
<1> DEFINE es == Listing(mem)
<1>1. PICK a \in {Added(mem, op.name, op.cluster, TRUE)} :
        /\ Becomes(a.d, IF a.ok THEN {} ELSE {"leak"})
        /\ IF a.ok THEN pc' = "flush" /\ names' = [names EXCEPT ![op.name] = op.cluster]
           ELSE pc' = "idle" /\ UNCHANGED names
  BY DEF MkdirEntry
<1>2. /\ pc = "making" /\ op' = NoEntry /\ handle' = handle /\ synced' = synced
      /\ a = Added(mem, op.name, op.cluster, TRUE)
  BY <1>1 DEF MkdirEntry
<1>3. /\ upset \subseteq {"leak", "empty", "beyond"} /\ op \in Entry /\ op.name \in Names
      /\ Lists(pc, op, handle, names, es)
  BY <1>2 DEF DirInv, StepInv, TypeInv, ListInv
<1>4. \A f \in es : f.name # op.name
  BY <1>2, <1>3 DEF Lists, Named
<1>5. op.cluster \in Entries
  BY <1>3 DEF Entry, Entries
<1> DEFINE traps == IF a.ok THEN {} ELSE {"leak"}
<1>6. traps \in SUBSET Trap
  BY DEF Trap
<1>7. Becomes(a.d, traps)
  BY <1>1
<1> HIDE DEF traps
<1>8. pc # "opening" /\ upset \cap {"gap", "outside", "stray", "torn"} = {}
  BY <1>2, <1>3
<1>9. AddedFor(mem, a, op.name, op.cluster, TRUE, es) /\ AddedStepFor(a, traps)
  BY <1>2, <1>3, <1>4, <1>5, <1>6, <1>7, <1>8, AddedStep
<1>10. pc' \in {"flush", "idle"} /\ (names' = names \/ names' = [names EXCEPT ![op.name] = op.cluster])
  BY <1>1
<1>11. upset \subseteq upset'
  BY <1>9 DEF AddedStepFor
<1>12. op \in Owners(pc, op, handle, es)
  BY <1>2 DEF Owners
<1> HIDE DEF es
<1>13. ASSUME upset' \subseteq {"leak", "empty"}
       PROVE  /\ upset \subseteq {"leak", "empty"} /\ Grows
              /\ \A m \in Names : synced'[m] # Absent => synced'[m] = synced[m] /\ Moves(m)
  <2>1. upset \subseteq {"leak", "empty"}
    BY <1>11, <1>13
  <2>2. /\ Grows /\ es \subseteq Listing(mem')
        /\ \A f \in Listing(mem') : f \in es \/ (a.ok /\ f.name = op.name /\ f.cluster = op.cluster)
    BY <1>7, <1>9, <1>13, AddedGrows DEF es
  <2>3. ASSUME NEW m \in Names, synced[m] # Absent PROVE Moves(m)
    <3>1. /\ m \notin {handle.name, op.name, op.new} /\ m # NoName
          /\ synced[m] # FREE => \A f \in Owners(pc, op, handle, es) : f.cluster = synced[m] => f.name = m
      BY <2>1, <2>3, SafeOwner, DirNumbers DEF es
    <3>2. synced[m] # FREE => op.cluster # synced[m]
      BY <1>12, <3>1
    <3>3. m \notin {handle'.name, op'.name, op'.new} /\ names'[m] = names[m]
      BY <1>2, <1>3, <1>10, <3>1, NoEntryIs DEF DirInv, TypeInv
    <3>4. pc' \notin {"unlinking", "renaming"}
      BY <1>10
    <3>5. \A f \in Listing(mem') : f.name = m => f \in es
      BY <2>2, <3>1
    <3>6. synced[m] # FREE => \A f \in Listing(mem') : f.cluster = synced[m] => f \in es
      BY <2>2, <3>2
    <3>7. \A f \in es : f.name \in {m, handle.name} => f \in Listing(mem') /\ f.name \in {m, handle'.name}
      BY <1>2, <2>2
    <3> QED BY <3>3, <3>4, <3>5, <3>6, <3>7 DEF Moves, es
  <2> QED BY <1>2, <2>1, <2>2, <2>3
<1>14. pc # "flush"
  BY <1>2
<1> QED BY <1>13, <1>14, SafeStep

\* A page of the directory reaches the card.
LEMMA EvictSlotsSafe ==
    ASSUME DirInv, DirInv', SafeInv, NEW x \in Clusters, EvictSlots(x)
    PROVE  SafeInv'
<1> DEFINE es == Listing(mem)
           F == InOrder(mem)
           N == Size(mem)
           M == Size(card)
           C == Kept
           C2 == Kept'
<1>1. /\ card' = [card EXCEPT !.slots[x] = mem.slots[x]]
      /\ pc' = pc /\ op' = op /\ mem' = mem /\ handle' = handle /\ names' = names
      /\ synced' = synced /\ upset' = upset
  BY DEF EvictSlots
<1> SUFFICES ASSUME upset \subseteq {"leak", "empty"}
             PROVE  /\ Begins(Path(card'), Path(mem))
                    /\ \A n \in Names : synced[n] # Absent => Safe(n, synced[n], Kept, N, M, es)'
  BY <1>1 DEF SafeInv
<1>2. mem \in DiskT /\ card \in DiskT /\ Pathed(mem.tab, Path(mem)) /\ Pathed(card.tab, Path(card))
  BY DEF DirInv, TypeInv, PathInv
<1>3. card' \in DiskT /\ card'.tab = card.tab
  <2>1. mem.slots[x] \in [0 .. Slots - 1 -> SlotT]
    BY <1>2 DEF DiskT
  <2> QED BY <1>1, <1>2, <2>1 DEF DiskT
<1>4. Path(card') = Path(card)
  BY <1>2, <1>3, PathIs
<1>5. Size(card') = M
  BY <1>4 DEF Size
<1>6. /\ Begins(Path(card), Path(mem))
      /\ \A n \in Names : synced[n] # Absent => Safe(n, synced[n], C, N, M, es)
  BY DEF SafeInv
<1>7. N \in Nat /\ M \in Nat
  BY KeptCard
<1>8. \A k \in 0 .. N - 1 : C2[k] \in {C[k], F[k]}
  <2> DEFINE p == Path(mem)
  <2>1. /\ C = Along(p, card.slots) /\ C2 = Along(p, card'.slots) /\ F = Along(p, mem.slots)
        /\ N = Slots * Len(p)
    BY <1>1, <1>2, InOrderIs DEF Kept
  <2>2. \A y \in Clusters : card'.slots[y] \in {card.slots[y], mem.slots[y]}
    BY <1>1, <1>2 DEF DiskT
  <2>3. p \in Seq(Clusters) /\ Len(p) \in Nat
    BY <1>2, PathTypes
  <2>4. ASSUME NEW k \in 0 .. Slots * Len(p) - 1
        PROVE  Along(p, card'.slots)[k] \in {Along(p, card.slots)[k], Along(p, mem.slots)[k]}
    <3> HIDE DEF p
    <3>1. k \div Slots + 1 \in 1 .. Len(p)
      BY <2>3, Position
    <3>2. p[k \div Slots + 1] \in Clusters
      BY <2>3, <3>1
    <3>3. \A S : Along(p, S)[k] = S[p[k \div Slots + 1]][k % Slots]
      BY DEF Along
    <3> QED BY <2>2, <3>2, <3>3
  <2> QED BY <2>1, <2>4
<1>9. upset \cap {"gap", "outside", "stray", "torn"} = {}
  OBVIOUS
<1>10. Filed(F, N, es)
  BY <1>9 DEF DirInv, ListInv
<1> HIDE DEF es, F, N, M, C, C2
<1>11. ASSUME NEW f \in es, Settled(C, N, M, f) PROVE Settled(C2, N, M, f)
  <2>1. M <= M
    BY <1>7
  <2> QED BY <1>7, <1>8, <1>10, <1>11, <2>1, SettledMix
<1>12. ASSUME NEW f \in es PROVE F[f.end].cluster = f.cluster /\ f.end \in 0 .. N - 1
  <2>1. f.end \in Nat /\ f.end < N /\ F[f.end].cluster = f.cluster
    BY <1>7, <1>10, FiledRun
  <2> QED BY <1>7, <2>1
<1>13. ASSUME NEW n \in Names, synced[n] # Absent PROVE Safe(n, synced[n], Kept, N, M, es)'
  <2> DEFINE c == synced[n]
  <2>1. Safe(n, c, C, N, M, es)
    BY <1>6, <1>13
  <2>2. /\ n \notin {handle.name, op.name, op.new} /\ names[n] = c
        /\ c # FREE /\ pc \in {"unlinking", "renaming"} => op.cluster # c
    BY <2>1 DEF Safe
  <2> HIDE DEF c
  <2>3. PICK e \in es :
          /\ e.name = n /\ e.cluster = c
          /\ \A f \in es : f.name = n => f = e
          /\ c # FREE => \A f \in es : f.cluster = c => f.name \in {n, handle.name}
    <3>1. c # Absent
      BY <1>13 DEF c
    <3> QED BY <2>2, <3>1, OwnerOf DEF es
  <2>4. ASSUME NEW f \in es, f.name = n PROVE Settled(C2, N, M, f) /\ C2[f.end].cluster = c
    <3>1. Settled(C, N, M, f) /\ C[f.end].cluster = c
      BY <2>1, <2>4 DEF Safe
    <3>2. F[f.end].cluster = c
      BY <1>12, <2>3, <2>4
    <3> QED BY <1>8, <1>11, <1>12, <3>1, <3>2
  <2>5. ASSUME c # FREE, NEW f \in es, f.cluster = c PROVE Settled(C2, N, M, f)
    <3>1. Settled(C, N, M, f)
      BY <2>1, <2>5 DEF Safe
    <3> QED BY <1>11, <3>1
  <2>6. ASSUME c # FREE, NEW k \in 0 .. N - 1, C2[k].mark = "used", C2[k].what = "data", C2[k].cluster = c
        PROVE  \E f \in es : /\ f.end = k /\ Settled(C2, N, M, f)
                             /\ f.name \in {n, handle.name} \/ (pc = "flush" /\ f.name = op.name)
    <3>1. CASE C2[k] = C[k]
      <4>1. \E f \in es : /\ f.end = k /\ Settled(C, N, M, f)
                          /\ f.name \in {n, handle.name} \/ (pc = "flush" /\ f.name = op.name)
        BY <2>1, <2>6, <3>1 DEF Safe
      <4> QED BY <1>11, <4>1
    <3>2. CASE C2[k] = F[k]
      <4>1. F[k].mark = "used" /\ F[k].what = "data" /\ F[k].cluster = c
        BY <2>6, <3>2
      <4>2. PICK f \in es : k \in Run(f)
        BY <1>10, <2>6, <4>1 DEF Filed
      <4>3. k = f.end
        BY <1>7, <1>10, <4>1, <4>2, FiledRun
      <4>4. f.cluster = c
        BY <1>12, <4>1, <4>3
      <4> QED BY <2>3, <2>5, <2>6, <4>3, <4>4
    <3> QED BY <1>8, <2>6, <3>1, <3>2
  <2>7. c # FREE => card'.tab[c] # FREE
    BY <1>3, <2>1 DEF Safe
  <2>8. Kept' = C2 /\ Size(mem') = N /\ Size(card') = M /\ Listing(mem') = es /\ synced'[n] = c
    BY <1>1, <1>5 DEF C2, N, M, es, c
  <2> QED BY <1>1, <2>2, <2>4, <2>5, <2>6, <2>7, <2>8 DEF Safe, C2, N, M, es
<1> QED BY <1>4, <1>6, <1>13

\* The page of the table reaches the card.
LEMMA EvictTableSafe ==
    ASSUME DirInv, DirInv', SafeInv, EvictTable
    PROVE  SafeInv'
<1> DEFINE es == Listing(mem)
           N == Size(mem)
           M == Size(card)
<1>1. /\ card' = [card EXCEPT !.tab = mem.tab]
      /\ pc' = pc /\ op' = op /\ mem' = mem /\ handle' = handle /\ names' = names
      /\ synced' = synced /\ upset' = upset
  BY DEF EvictTable
<1> SUFFICES ASSUME upset \subseteq {"leak", "empty"}
             PROVE  /\ Begins(Path(card'), Path(mem))
                    /\ \A n \in Names : synced[n] # Absent => Safe(n, synced[n], Kept, N, M, es)'
  BY <1>1 DEF SafeInv
<1>2. mem \in DiskT /\ card \in DiskT /\ Pathed(mem.tab, Path(mem))
  BY DEF DirInv, TypeInv, PathInv
<1>3. card' \in DiskT /\ card'.tab = mem.tab /\ card'.slots = card.slots
  BY <1>1, <1>2 DEF DiskT
<1>4. Path(card') = Path(mem)
  BY <1>2, <1>3, PathIs
<1>5. Size(card') = N /\ Kept' = Kept
  BY <1>1, <1>3, <1>4 DEF Size, Kept
<1>6. Begins(Path(card'), Path(mem))
  BY <1>2, <1>4, PathTypes DEF Begins
<1>7. N \in Nat /\ \A n \in Names : synced[n] # Absent => Safe(n, synced[n], Kept, N, M, es)
  BY KeptCard DEF SafeInv
<1>8. upset \cap {"gap", "outside", "stray", "torn"} = {}
  OBVIOUS
<1>9. \A f \in es : f.end < N
  BY <1>8 DEF DirInv, ListInv, Filed
<1> HIDE DEF es, N, M
<1>10. ASSUME NEW f \in es, Settled(Kept, N, M, f) PROVE Settled(Kept, N, N, f)
  BY <1>9, <1>10 DEF Settled
<1>11. ASSUME NEW n \in Names, synced[n] # Absent PROVE Safe(n, synced[n], Kept, N, M, es)'
  <2> DEFINE c == synced[n]
  <2>1. Safe(n, c, Kept, N, M, es)
    BY <1>7, <1>11
  <2>2. /\ n \notin {handle.name, op.name, op.new} /\ names[n] = c
        /\ c # FREE /\ pc \in {"unlinking", "renaming"} => op.cluster # c
    BY <2>1 DEF Safe
  <2>3. c # Absent
    BY <1>11
  <2> HIDE DEF c
  <2>4. c # FREE => mem.tab[c] = EOF
    BY <2>2, <2>3, OwnerOf
  <2>5. c # FREE => card'.tab[c] # FREE
    BY <1>3, <2>4, Numbers
  <2>6. \A e \in es : e.name = n => Settled(Kept, N, N, e) /\ Kept[e.end].cluster = c
    BY <1>10, <2>1 DEF Safe
  <2>7. c # FREE =>
            /\ \A f \in es : f.cluster = c => Settled(Kept, N, N, f)
            /\ \A k \in 0 .. N - 1 : (Kept[k].mark = "used" /\ Kept[k].what = "data" /\ Kept[k].cluster = c) =>
                  \E f \in es : /\ f.end = k /\ Settled(Kept, N, N, f)
                                /\ f.name \in {n, handle.name} \/ (pc = "flush" /\ f.name = op.name)
    BY <1>10, <2>1 DEF Safe
  <2>8. Kept' = Kept /\ Size(mem') = N /\ Size(card') = N /\ Listing(mem') = es /\ synced'[n] = c
    BY <1>1, <1>5 DEF N, es, c
  <2> QED BY <1>1, <2>2, <2>5, <2>6, <2>7, <2>8 DEF Safe, N, M, es
<1> QED BY <1>6, <1>11

LEMMA FlushSafe ==
    ASSUME DirInv, DirInv', Flush
    PROVE  SafeInv'
<1>1. /\ card' = [mem EXCEPT !.ff = FIRST]
      /\ synced' = [n \in Names |-> IF n = handle.name THEN Absent ELSE names[n]]
      /\ pc' = "idle" /\ op' = NoEntry /\ mem' = mem /\ handle' = handle /\ names' = names
  BY DEF Flush, Flushed, OnCard
<1>2. card'.tab = mem'.tab /\ card'.slots = mem'.slots
  BY <1>1 DEF DirInv, TypeInv, DiskT
<1>3. \A n \in Names : synced'[n] # Absent => synced'[n] = names'[n] /\ n # handle'.name
  BY <1>1
<1>4. Fresh'
  BY <1>1, <1>2, <1>3 DEF Fresh
<1>5. (DirInv /\ Fresh)' => SafeInv'
  BY FreshSafe, PTL
<1> QED BY <1>4, <1>5

LEMMA PowerCutSafe ==
    ASSUME DirInv, DirInv', PowerCut
    PROVE  SafeInv'
<1>1. mem' = card /\ card' = card /\ pc' = "idle" /\ op' = NoEntry /\ handle' = NoEntry /\ synced' = names'
  BY DEF PowerCut
<1>2. \A n \in Names : n # handle'.name
  BY <1>1, NoEntryIs, DirNumbers
<1>3. Fresh'
  BY <1>1, <1>2 DEF Fresh
<1>4. (DirInv /\ Fresh)' => SafeInv'
  BY FreshSafe, PTL
<1> QED BY <1>3, <1>4

LEMMA IdleSafe ==
    ASSUME DirInv, SafeInv, UNCHANGED dirVars
    PROVE  SafeInv'
BY DEF SafeInv, Safe, Kept, Settled, dirVars

LEMMA InitSafe == DirInit => SafeInv
<1> SUFFICES ASSUME DirInit PROVE SafeInv
  OBVIOUS
<1>1. DirInv
  BY InvHolds
<1>2. Fresh
  BY DEF DirInit, Fresh
<1> QED BY <1>1, <1>2, FreshSafe

LEMMA NextSafe ==
    ASSUME DirInv, DirInv', SafeInv, [DirNext]_dirVars
    PROVE  SafeInv'
<1>1. ASSUME NEW n \in Names, Call(n) PROVE SafeInv'
  <2>1. CASE \E trunc \in BOOLEAN : Open(n, trunc)
    BY <2>1, OpenSafe
  <2>2. CASE Unlink(n)
    BY <2>2, UnlinkSafe
  <2>3. CASE \E to \in Names : Rename(n, to)
    BY <2>3, RenameSafe
  <2>4. CASE Mkdir(n)
    BY <2>4, MkdirSafe
  <2> QED BY <1>1, <2>1, <2>2, <2>3, <2>4 DEF Call
<1>2. CASE OpenCluster
  BY <1>2, OpenClusterSafe
<1>3. CASE Close
  BY <1>3, CloseSafe
<1>4. CASE UnlinkEntry
  BY <1>4, RemovedSafe DEF UnlinkEntry
<1>5. CASE RenameEntry
  BY <1>5, RemovedSafe DEF RenameEntry
<1>6. CASE MkdirEntry
  BY <1>6, MkdirEntrySafe
<1>7. ASSUME NEW c \in Clusters, EvictSlots(c) PROVE SafeInv'
  BY <1>7, EvictSlotsSafe
<1>8. CASE EvictTable
  BY <1>8, EvictTableSafe
<1>9. CASE Flush
  BY <1>9, FlushSafe
<1>10. CASE PowerCut
  BY <1>10, PowerCutSafe
<1>11. CASE UNCHANGED dirVars
  BY <1>11, IdleSafe
<1> QED BY <1>1, <1>2, <1>3, <1>4, <1>5, <1>6, <1>7, <1>8, <1>9, <1>10, <1>11 DEF DirNext

\* A file that nobody touched since the last flush is on the card, whatever the
\* calls did to other files since, whichever pages the cache evicted in between,
\* and wherever the power is cut: DirInv says of the calls what SafeInv needs to
\* carry this over a step.
THEOREM UntouchedHolds == DirSpec => []UntouchedIsSafe
<1>1. DirInit => SafeInv
  BY InitSafe
<1>2. DirInv /\ DirInv' /\ SafeInv /\ [DirNext]_dirVars => SafeInv'
  BY NextSafe
<1>3. DirInv /\ SafeInv => UntouchedIsSafe
  BY SafeHolds
<1> QED BY <1>1, <1>2, <1>3, DirInvariant, PTL DEF DirSpec
================================================================================
