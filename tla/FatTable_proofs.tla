---------------------------- MODULE FatTable_proofs ----------------------------
(***************************************************************************)
(* What the functions of the table do, for every number of clusters: the   *)
(* search finds a free entry or there is none, linking and freeing keep    *)
(* the reserved entries, a chain is closed and holds nothing it need not.  *)
(*                                                                         *)
(* The module also holds the induction that proofs about recursive         *)
(* functions need.  An induction principle that quantifies over a          *)
(* predicate cannot be instantiated here, one that quantifies over a set   *)
(* can: SetInduction.                                                      *)
(***************************************************************************)
EXTENDS FatTable, FiniteSetTheorems, WellFoundedInduction, TLAPS

LEMMA Numbers ==
    /\ LastCluster \in Nat /\ LastCluster >= 2
    /\ FIRST = 2 /\ FREE = 0
    /\ EOF \notin Nat
    /\ Clusters = 2 .. LastCluster /\ Entries = 0 .. LastCluster + 1
    /\ Clusters \subseteq Entries /\ FREE \in Entries /\ FREE \notin Clusters
    /\ EOF \notin Clusters /\ EOF \notin Entries /\ EOF # FREE
BY TableAssumption DEF FIRST, FREE, Clusters, Entries

-----------------------------------------------------------------------------
(* Division                                                                *)

LEMMA DivMod ==
    ASSUME NEW b \in Nat, b > 0, NEW n \in Nat
    PROVE  /\ n \div b \in Nat /\ n % b \in 0 .. b - 1
           /\ n = b * (n \div b) + (n % b)
OBVIOUS

LEMMA DivModUnique ==
    ASSUME NEW b \in Nat, b > 0, NEW q \in Nat, NEW r \in 0 .. b - 1
    PROVE  (b * q + r) \div b = q /\ (b * q + r) % b = r
OBVIOUS

-----------------------------------------------------------------------------
(* Induction over the naturals, and what is built step by step             *)

Less == {ss \in Nat \X Nat : ss[1] < ss[2]}

LEMMA LessIsWellFounded == IsWellFoundedOn(Less, Nat)
  BY NatLessThanWellFounded DEF OpToRel, Less

LEMMA LessIs == \A x, y \in Nat : x < y => <<x, y>> \in Less
  BY DEF Less

LEMMA LeastOf ==
    ASSUME NEW T \in SUBSET Nat, T # {}
    PROVE  \E x \in T : \A y \in T : x <= y
<1>1. \E x \in T : \A y \in T : ~(<<y, x>> \in Less)
  BY LessIsWellFounded, WFMin
<1>2. PICK x \in T : \A y \in T : ~(<<y, x>> \in Less)
  BY <1>1
<1>3. ASSUME NEW y \in T PROVE x <= y
  <2>1. x \in Nat /\ y \in Nat
    OBVIOUS
  <2>2. ~(y < x)
    BY <1>2, <2>1, LessIs
  <2> QED BY <2>1, <2>2
<1> QED BY <1>3

LEMMA SetInduction ==
    ASSUME NEW S, 0 \in S, \A n \in Nat : n \in S => n + 1 \in S
    PROVE  \A n \in Nat : n \in S
<1> SUFFICES ASSUME NEW m \in Nat, m \notin S PROVE FALSE
  OBVIOUS
<1> DEFINE T == {n \in Nat : n \notin S}
<1>1. PICK x \in T : \A y \in T : x <= y
  BY LeastOf
<1>2. x # 0 /\ x \in Nat /\ x \notin S
  BY <1>1
<1>3. x - 1 \in Nat /\ x - 1 \notin T
  BY <1>1, <1>2
<1> QED BY <1>2, <1>3

\* The values of a function that is iterated, up to n and without end.
UpTo(g, n, T, x0, f) == g \in [0 .. n -> T] /\ g[0] = x0 /\ \A k \in 0 .. n - 1 : g[k + 1] = f[g[k]]
EverOn(g, T, x0, f) == g \in [Nat -> T] /\ g[0] = x0 /\ \A k \in Nat : g[k + 1] = f[g[k]]

LEMMA Iterates ==
    ASSUME NEW T, NEW x0 \in T, NEW f \in [T -> T], NEW N \in Nat
    PROVE  \E g : UpTo(g, N, T, x0, f)
<1> DEFINE Is(n, g) == UpTo(g, n, T, x0, f)
           S == {n \in Nat : \E g : Is(n, g)}
<1>1. 0 \in S
  <2> DEFINE g == [k \in 0 .. 0 |-> x0]
  <2>1. Is(0, g)
    BY DEF UpTo
  <2> HIDE DEF g, Is
  <2> QED BY <2>1
<1>2. ASSUME NEW n \in Nat, n \in S PROVE n + 1 \in S
  <2>1. PICK g : Is(n, g)
    BY <1>2
  <2> DEFINE e == [k \in 0 .. n + 1 |-> IF k = n + 1 THEN f[g[n]] ELSE g[k]]
  <2>2. e \in [0 .. n + 1 -> T]
    BY <2>1 DEF UpTo
  <2>3. \A k \in 0 .. n : e[k] = g[k]
    OBVIOUS
  <2>4. e[0] = x0
    BY <2>1, <2>3 DEF UpTo
  <2>5. ASSUME NEW k \in 0 .. (n + 1) - 1 PROVE e[k + 1] = f[e[k]]
    <3>1. CASE k = n
      BY <2>3, <3>1
    <3>2. CASE k # n
      <4>1. k \in 0 .. n - 1 /\ k + 1 \in 0 .. n /\ k \in 0 .. n
        BY <3>2
      <4> HIDE DEF e
      <4> QED BY <2>1, <2>3, <4>1 DEF UpTo
    <3> QED BY <3>1, <3>2
  <2>6. Is(n + 1, e)
    <3> HIDE DEF e
    <3> QED BY <2>2, <2>4, <2>5 DEF UpTo
  <2> HIDE DEF e, Is
  <2> QED BY <2>6
<1> HIDE DEF S
<1>3. N \in S
  BY <1>1, <1>2, SetInduction
<1> QED BY <1>3 DEF S

LEMMA IteratesForEver ==
    ASSUME NEW T, NEW x0 \in T, NEW f \in [T -> T]
    PROVE  \E g : EverOn(g, T, x0, f)
<1> DEFINE Is(n, g) == UpTo(g, n, T, x0, f)
           G(n) == CHOOSE g : Is(n, g)
<1>1. ASSUME NEW n \in Nat PROVE Is(n, G(n))
  <2>1. PICK g : UpTo(g, n, T, x0, f)
    BY Iterates
  <2> QED BY <2>1
<1> HIDE DEF G
<1>2. ASSUME NEW n \in Nat PROVE G(n + 1)[n] = G(n)[n]
  <2>1. Is(n, G(n)) /\ Is(n + 1, G(n + 1))
    BY <1>1
  <2> DEFINE S == {k \in Nat : k <= n => G(n + 1)[k] = G(n)[k]}
  <2>2. 0 \in S
    BY <2>1 DEF UpTo
  <2>3. ASSUME NEW k \in Nat, k \in S PROVE k + 1 \in S
    <3> SUFFICES ASSUME k + 1 <= n PROVE G(n + 1)[k + 1] = G(n)[k + 1]
      OBVIOUS
    <3>1. k \in 0 .. n - 1 /\ k \in 0 .. (n + 1) - 1
      OBVIOUS
    <3>2. G(n)[k + 1] = f[G(n)[k]] /\ G(n + 1)[k + 1] = f[G(n + 1)[k]]
      BY <2>1, <3>1 DEF UpTo
    <3> QED BY <2>3, <3>2
  <2> HIDE DEF S
  <2>4. n \in S
    BY <2>2, <2>3, SetInduction
  <2> QED BY <2>4 DEF S
<1> DEFINE g == [k \in Nat |-> G(k)[k]]
<1>3. g \in [Nat -> T]
  BY <1>1 DEF UpTo
<1>4. g[0] = x0
  BY <1>1 DEF UpTo
<1>5. ASSUME NEW k \in Nat PROVE g[k + 1] = f[g[k]]
  <2>1. k + 1 \in Nat /\ k \in 0 .. (k + 1) - 1
    OBVIOUS
  <2>2. G(k + 1)[k + 1] = f[G(k + 1)[k]]
    BY <1>1, <2>1 DEF UpTo
  <2> QED BY <1>2, <2>1, <2>2
<1> HIDE DEF g
<1> QED BY <1>3, <1>4, <1>5 DEF EverOn

-----------------------------------------------------------------------------
(* The search                                                              *)

LEMMA LeastIs ==
    ASSUME NEW S, S \subseteq Nat, S # {}
    PROVE  Least(S) \in S /\ \A d \in S : Least(S) <= d
<1>1. \E c \in S : \A d \in S : c <= d
  <2>. DEFINE R == OpToRel(<, Nat)
  <2>1. IsWellFoundedOn(R, Nat)
    BY NatLessThanWellFounded
  <2>2. PICK c \in S : \A d \in S : ~(<<d, c>> \in R)
    <3>. HIDE DEF R
    <3>. QED BY <2>1, WFMin
  <2>3. \A d \in S : ~(d < c)
    BY <2>2 DEF OpToRel
  <2>. QED BY <2>3
<1>. QED BY <1>1 DEF Least

LEMMA FirstFromIs ==
    ASSUME NEW free, free \subseteq Clusters, NEW from \in Nat
    PROVE  /\ free = {} => FirstFrom(free, from) = LastCluster + 2
           /\ free # {} => FirstFrom(free, from) \in free
<1>. DEFINE behind == {c \in free : c > from}
<1>1. free \subseteq Nat /\ behind \subseteq Nat
  <2>1. Clusters \subseteq Nat
    BY Numbers
  <2>. QED BY <2>1
<1>2. behind # {} => Least(behind) \in behind
  <2>. HIDE DEF behind
  <2>. QED BY <1>1, LeastIs
<1>3. free # {} => Least(free) \in free
  BY <1>1, LeastIs
<1>. QED BY <1>2, <1>3 DEF FirstFrom

Links == [Entries -> Entries \cup {EOF}]

LEMMA SearchIs ==
    ASSUME NEW lk \in Links, NEW from \in FIRST .. LastCluster + 1
    PROVE  \/ /\ Search(lk, from) \in FIRST .. LastCluster + 1
              /\ lk[Search(lk, from)] = FREE
           \/ /\ Search(lk, from) = LastCluster + 2
              /\ \A d \in Clusters : lk[d] # FREE
<1>. DEFINE free == {c \in Clusters : lk[c] = FREE}
<1>1. free \subseteq Clusters /\ from \in Nat
  BY Numbers
<1>2. /\ free = {} => FirstFrom(free, from) = LastCluster + 2
      /\ free # {} => FirstFrom(free, from) \in free
  <2>. HIDE DEF free
  <2>. QED BY <1>1, FirstFromIs
<1>. QED BY <1>2, Numbers DEF Search

\* What linkFreeCluster comes to: nothing, a link that was there, a new
\* cluster, or a full card.
Linked(lk, c, n) == Put(IF c < LastCluster THEN Put(lk, c, n) ELSE lk, n, EOF)

LEMMA LinkFreeIs ==
    ASSUME NEW lk \in Links, NEW ff \in FIRST .. LastCluster + 1, NEW c \in Entries
    PROVE  \/ c > LastCluster /\ LinkFree(lk, ff, c) = Result(lk, ff, FREE)
           \/ c <= LastCluster /\ lk[c] \in Clusters /\ LinkFree(lk, ff, c) = Result(lk, ff, lk[c])
           \/ /\ c <= LastCluster /\ lk[c] \notin Clusters
              /\ \E n \in FIRST .. LastCluster + 1 :
                    /\ lk[n] = FREE
                    /\ LinkFree(lk, ff, c) = Result(Linked(lk, c, n), n, n)
           \/ /\ c <= LastCluster /\ lk[c] \notin Clusters
              /\ LinkFree(lk, ff, c) = Result(lk, LastCluster + 1, FREE)
              /\ \A d \in Clusters : lk[d] # FREE
<1>. DEFINE n == Search(lk, ff)
<1>1. CASE c > LastCluster
  BY <1>1, Numbers DEF LinkFree
<1>2. CASE c <= LastCluster /\ lk[c] \in Clusters
  BY <1>2, Numbers DEF LinkFree
<1>3. CASE c <= LastCluster /\ lk[c] \notin Clusters
  <2>1. LinkFree(lk, ff, c) = Taken(lk, c, n)
    BY <1>3, Numbers DEF LinkFree
  <2>2. \/ n \in FIRST .. LastCluster + 1 /\ lk[n] = FREE
        \/ n = LastCluster + 2 /\ \A d \in Clusters : lk[d] # FREE
    BY SearchIs
  <2>3. CASE n \in FIRST .. LastCluster + 1 /\ lk[n] = FREE
    <3>1. Taken(lk, c, n) = Result(Linked(lk, c, n), n, n)
      BY <2>3, Numbers DEF Taken, Linked
    <3>. QED BY <1>3, <2>1, <2>3, <3>1
  <2>4. CASE n = LastCluster + 2 /\ \A d \in Clusters : lk[d] # FREE
    <3>1. Taken(lk, c, n) = Result(lk, LastCluster + 1, FREE)
      BY <2>4, Numbers DEF Taken
    <3>. QED BY <1>3, <2>1, <2>4, <3>1
  <2>. QED BY <2>2, <2>3, <2>4
<1>. QED BY <1>1, <1>2, <1>3, Numbers

\* A table whose reserved entries are left alone.
Tables == {lk \in Links : \A c \in Entries : c < FIRST => lk[c] = EOF}

LEMMA PutType ==
    ASSUME NEW lk \in Tables, NEW c \in Entries, NEW v \in Entries \cup {EOF}
    PROVE  Put(lk, c, v) \in Tables
BY Numbers DEF Put, Tables, Links

LEMMA GrownType ==
    ASSUME NEW lk \in Tables, NEW c \in Entries, NEW n \in Entries
    PROVE  Linked(lk, c, n) \in Tables
<1>1. Put(lk, c, n) \in Tables
  BY PutType
<1>2. (IF c < LastCluster THEN Put(lk, c, n) ELSE lk) \in Tables
  BY <1>1
<1>. QED BY <1>2, PutType DEF Linked

LEMMA LinkFreeType ==
    ASSUME NEW lk \in Tables, NEW ff \in FIRST .. LastCluster + 1, NEW c \in Entries
    PROVE  /\ LinkFree(lk, ff, c).link \in Tables
           /\ LinkFree(lk, ff, c).firstFree \in FIRST .. LastCluster + 1
           /\ LinkFree(lk, ff, c).cluster \in Entries
<1>1. lk \in Links
  BY DEF Tables
<1>2. \A n \in FIRST .. LastCluster + 1 : n \in Entries /\ Linked(lk, c, n) \in Tables
  BY GrownType, Numbers
<1>3. \A l, f, n : /\ Result(l, f, n).link = l
                    /\ Result(l, f, n).firstFree = f /\ Result(l, f, n).cluster = n
  BY DEF Result
<1>4. lk[c] \in Clusters => lk[c] \in Entries
  BY Numbers
<1>5. FREE \in Entries /\ LastCluster + 1 \in FIRST .. LastCluster + 1
  BY Numbers
<1>. DEFINE res == LinkFree(lk, ff, c)
<1>6. \/ res = Result(lk, ff, FREE)
      \/ lk[c] \in Clusters /\ res = Result(lk, ff, lk[c])
      \/ \E n \in FIRST .. LastCluster + 1 : res = Result(Linked(lk, c, n), n, n)
      \/ res = Result(lk, LastCluster + 1, FREE)
  BY <1>1, LinkFreeIs
<1>. HIDE DEF res
<1>7. res.link \in Tables /\ res.firstFree \in FIRST .. LastCluster + 1 /\ res.cluster \in Entries
  BY <1>2, <1>3, <1>4, <1>5, <1>6
<1>. QED BY <1>7 DEF res

LEMMA ClearLinksType ==
    ASSUME NEW lk \in Tables, NEW ff \in FIRST .. LastCluster + 1, NEW c \in Entries
    PROVE  /\ ClearLinks(lk, ff, c).link \in Tables
           /\ ClearLinks(lk, ff, c).firstFree \in FIRST .. LastCluster + 1
           /\ ClearLinks(lk, ff, c).cluster = c
<1>. DEFINE cut == [e \in Entries |-> IF e \in Chain(lk, c) THEN FREE ELSE lk[e]]
<1>1. Chain(lk, c) \subseteq Clusters
  BY DEF Chain
<1>2. cut \in Tables
  BY <1>1, Numbers DEF Tables, Links
<1>3. c \in Clusters => ClearLinks(lk, ff, c) = Result(cut, IF c < ff THEN c ELSE ff, c)
  BY DEF ClearLinks
<1>4. c \notin Clusters => ClearLinks(lk, ff, c) = Result(lk, ff, c)
  BY DEF ClearLinks
<1>. HIDE DEF cut
<1>. QED BY <1>2, <1>3, <1>4, Numbers DEF Result

-----------------------------------------------------------------------------
(* Chains                                                                  *)

\* A chain holds its first cluster and whatever a link of it names, and it is
\* part of every set that does.
LEMMA ChainIsClosed ==
    ASSUME NEW lk, NEW c
    PROVE  /\ Chain(lk, c) \subseteq Clusters
           /\ c \in Clusters => c \in Chain(lk, c)
           /\ \A d \in Chain(lk, c) : lk[d] \in Clusters => lk[d] \in Chain(lk, c)
<1>1. \A S \in ClosedSets(lk, c) : /\ c \in Clusters => c \in S
                                   /\ \A d \in S : lk[d] \in Clusters => lk[d] \in S
  BY DEF ClosedSets
<1>. QED BY <1>1 DEF Chain

LEMMA ChainIsLeast ==
    ASSUME NEW lk, NEW c, NEW S \in SUBSET Clusters,
           c \in Clusters => c \in S,
           \A d \in S : lk[d] \in Clusters => lk[d] \in S
    PROVE  Chain(lk, c) \subseteq S
<1>1. S \in ClosedSets(lk, c)
  BY DEF ClosedSets
<1>. QED BY <1>1 DEF Chain

\* Every cluster of a chain but the first is named by another one of it.
LEMMA ChainHasPredecessors ==
    ASSUME NEW lk, NEW c, NEW d \in Chain(lk, c), d # c
    PROVE  \E e \in Chain(lk, c) : lk[e] = d
<1>. SUFFICES ASSUME \A e \in Chain(lk, c) : lk[e] # d
              PROVE  FALSE
  OBVIOUS
<1>. DEFINE S == Chain(lk, c) \ {d}
<1>1. /\ S \in SUBSET Clusters /\ (c \in Clusters => c \in S)
      /\ \A e \in S : lk[e] \in Clusters => lk[e] \in S
  BY ChainIsClosed
<1>. HIDE DEF S
<1>2. Chain(lk, c) \subseteq S
  BY <1>1, ChainIsLeast
<1>. QED BY <1>2 DEF S

\* A chain depends on its own entries only.
LEMMA ChainFrame ==
    ASSUME NEW lk, NEW lk2, NEW c, \A d \in Chain(lk, c) : lk2[d] = lk[d]
    PROVE  Chain(lk2, c) = Chain(lk, c)
<1>1. Chain(lk2, c) \subseteq Chain(lk, c)
  <2>. DEFINE S == Chain(lk, c)
  <2>1. /\ S \in SUBSET Clusters /\ (c \in Clusters => c \in S)
        /\ \A d \in S : lk2[d] \in Clusters => lk2[d] \in S
    BY ChainIsClosed
  <2>. HIDE DEF S
  <2>2. Chain(lk2, c) \subseteq S
    BY <2>1, ChainIsLeast
  <2>. QED BY <2>2 DEF S
<1>2. Chain(lk, c) \subseteq Chain(lk2, c)
  <2>. DEFINE S == Chain(lk2, c)
  <2>1. S \in SUBSET Clusters /\ (c \in Clusters => c \in S)
    BY ChainIsClosed
  <2>2. \A d \in S : lk[d] \in Clusters => lk[d] \in S
    BY <1>1, ChainIsClosed
  <2>. HIDE DEF S
  <2>3. Chain(lk, c) \subseteq S
    BY <2>1, <2>2, ChainIsLeast
  <2>. QED BY <2>3 DEF S
<1>. QED BY <1>1, <1>2

\* Linking a new cluster to the end of a chain adds it and nothing else.
LEMMA ChainGrows ==
    ASSUME NEW lk, NEW lk2, NEW c, NEW p \in Chain(lk, c), NEW n \in Clusters,
           lk[p] \notin Clusters, lk[n] \notin Clusters, n # p,
           lk2[p] = n, lk2[n] \notin Clusters,
           \A d \in Clusters \ {p, n} : lk2[d] = lk[d]
    PROVE  Chain(lk2, c) = Chain(lk, c) \cup {n}
<1>1. Chain(lk2, c) \subseteq Chain(lk, c) \cup {n}
  <2>. DEFINE S == Chain(lk, c) \cup {n}
  <2>1. /\ S \in SUBSET Clusters /\ (c \in Clusters => c \in S)
        /\ \A d \in S : lk2[d] \in Clusters => lk2[d] \in S
    BY ChainIsClosed
  <2>. HIDE DEF S
  <2>2. Chain(lk2, c) \subseteq S
    BY <2>1, ChainIsLeast
  <2>. QED BY <2>2 DEF S
<1>2. Chain(lk, c) \subseteq Chain(lk2, c)
  <2>. DEFINE S == Chain(lk2, c)
  <2>1. S \in SUBSET Clusters /\ (c \in Clusters => c \in S)
    BY ChainIsClosed
  <2>2. \A d \in S : lk[d] \in Clusters => lk[d] \in S
    BY ChainIsClosed
  <2>. HIDE DEF S
  <2>3. Chain(lk, c) \subseteq S
    BY <2>1, <2>2, ChainIsLeast
  <2>. QED BY <2>3 DEF S
<1>3. n \in Chain(lk2, c)
  BY <1>2, ChainIsClosed
<1>. QED BY <1>1, <1>2, <1>3

LEMMA ClearedIs ==
    ASSUME NEW lk \in Links, NEW ff, NEW c
    PROVE  LET cut == ClearLinks(lk, ff, c).link IN
           \A d \in Clusters : cut[d] = IF d \in Chain(lk, c) THEN FREE ELSE lk[d]
<1>1. CASE c \in Clusters
  BY <1>1, Numbers DEF ClearLinks, Result
<1>2. CASE c \notin Clusters
  <2>1. Chain(lk, c) \subseteq {}
    <3>. DEFINE S == {}
    <3>1. S \in SUBSET Clusters /\ \A d \in S : lk[d] \in Clusters => lk[d] \in S
      OBVIOUS
    <3>. HIDE DEF S
    <3>2. Chain(lk, c) \subseteq S
      BY <1>2, <3>1, ChainIsLeast
    <3>. QED BY <3>2 DEF S
  <2>. QED BY <1>2, <2>1 DEF ClearLinks, Result
<1>. QED BY <1>1, <1>2

LEMMA GrownIs ==
    ASSUME NEW lk \in Links, NEW p \in Entries, NEW n \in Clusters
    PROVE  \A d \in Clusters :
              Linked(lk, p, n)[d] = IF d = n THEN EOF
                                   ELSE IF d = p /\ p < LastCluster THEN n ELSE lk[d]
BY Numbers DEF Linked, Put, Links

=============================================================================
