---------------------------- MODULE FatFile_proofs ----------------------------
(***************************************************************************)
(* Proofs about one file, for every card, cluster size, seek, transfer and *)
(* mode: types, positions, the length of the chain, the places that a      *)
(* transfer touches, and why a write ends short.                           *)
(*                                                                         *)
(* FileInv says where the file's bytes are: its chain is a path of as many *)
(* clusters as its size needs (Path, Needed), no other chain meets it      *)
(* (Alone), and both positions stand at the bytes they are for (Stands).   *)
(* A transfer is a run of turns, a piece and a move each; Aligned says of  *)
(* every turn that the transfer is still with its file.                    *)
(***************************************************************************)
EXTENDS FatFile, FatTable_proofs, SequenceTheorems

-----------------------------------------------------------------------------
(* Following a chain                                                       *)

Cells == Entries \cup {EOF}

\* The next cluster is an entry of the table or the end.
LEMMA NextOfIs ==
    ASSUME NEW lk \in Links, NEW c \in Cells
    PROVE  NextOf(lk, c) \in Cells
BY DEF NextOf, Cells, Links

\* Nth walks along the links: a function over the naturals has its values.
LEMMA NthRun ==
    ASSUME NEW lk \in Links, NEW c \in Cells
    PROVE  \E g \in [Nat -> Cells] :
              /\ g[0] = c
              /\ \A k \in Nat : g[k + 1] = NextOf(lk, g[k])
              /\ \A i \in Nat : Nth(lk, c, i) = g[i]
<1> DEFINE f == [x \in Cells |-> NextOf(lk, x)]
<1>1. f \in [Cells -> Cells]
  BY NextOfIs
<1>2. PICK g : EverOn(g, Cells, c, f)
  <2> HIDE DEF f
  <2> QED BY <1>1, IteratesForEver
<1>3. g \in [Nat -> Cells] /\ g[0] = c /\ \A k \in Nat : g[k + 1] = f[g[k]]
  BY <1>2 DEF EverOn
<1>4. g[0] = c /\ \A k \in Nat : g[k + 1] = NextOf(lk, g[k])
  <2>1. g[0] = c
    BY <1>3
  <2>2. ASSUME NEW k \in Nat PROVE g[k + 1] = NextOf(lk, g[k])
    <3>1. k + 1 \in Nat /\ k + 1 # 0 /\ (k + 1) - 1 = k /\ g[k] \in Cells
      BY <1>3
    <3>2. g[k + 1] = f[g[k]]
      <4> HIDE DEF f
      <4> QED BY <1>3
    <3> QED BY <3>1, <3>2
  <2> QED BY <2>1, <2>2
<1>5. ASSUME NEW i \in Nat PROVE Nth(lk, c, i) = g[i]
  <2> DEFINE nth[j \in 0 .. i] == IF j = 0 THEN c ELSE NextOf(lk, nth[j - 1])
             e == [j \in 0 .. i |-> g[j]]
  <2>1. Nth(lk, c, i) = nth[i]
    BY DEF Nth
  <2>2. e = [j \in 0 .. i |-> IF j = 0 THEN c ELSE NextOf(lk, e[j - 1])]
    <3>1. ASSUME NEW j \in 0 .. i PROVE e[j] = IF j = 0 THEN c ELSE NextOf(lk, e[j - 1])
      <4>1. CASE j = 0
        BY <1>4, <4>1
      <4>2. CASE j # 0
        <5>1. j - 1 \in 0 .. i /\ j - 1 \in Nat /\ (j - 1) + 1 = j
          BY <4>2
        <5>2. g[j] = NextOf(lk, g[j - 1])
          BY <1>4, <5>1
        <5> QED BY <4>2, <5>1, <5>2
      <4> QED BY <4>1, <4>2
    <3>2. DOMAIN e = 0 .. i
      OBVIOUS
    <3>3. e = [j \in 0 .. i |-> e[j]]
      OBVIOUS
    <3> HIDE DEF e
    <3> QED BY <3>1, <3>3
  <2>3. nth = [j \in 0 .. i |-> IF j = 0 THEN c ELSE NextOf(lk, nth[j - 1])]
    <3> HIDE DEF e
    <3> QED BY <2>2
  <2> HIDE DEF nth
  <2>4. \A j \in 0 .. i : nth[j] = IF j = 0 THEN c ELSE NextOf(lk, nth[j - 1])
    BY <2>3
  <2> DEFINE S == {j \in Nat : j <= i => nth[j] = g[j]}
  <2>5. 0 \in S
    <3>1. 0 \in 0 .. i
      OBVIOUS
    <3>2. nth[0] = c
      BY <2>4, <3>1, Zenon
    <3> QED BY <1>4, <3>2
  <2>6. ASSUME NEW j \in Nat, j \in S PROVE j + 1 \in S
    <3> SUFFICES ASSUME j + 1 <= i PROVE nth[j + 1] = g[j + 1]
      OBVIOUS
    <3>1. j + 1 \in 0 .. i /\ j + 1 # 0 /\ (j + 1) - 1 = j /\ j <= i
      OBVIOUS
    <3>2. nth[j + 1] = NextOf(lk, nth[j])
      BY <2>4, <3>1
    <3> QED BY <1>4, <2>6, <3>1, <3>2
  <2> HIDE DEF S
  <2>7. i \in S
    BY <2>5, <2>6, SetInduction
  <2> QED BY <2>1, <2>7 DEF S
<1> QED BY <1>3, <1>4, <1>5

\* The clusters of a chain in their order.
LEMMA NthIs ==
    ASSUME NEW lk \in Links, NEW c \in Cells
    PROVE  /\ Nth(lk, c, 0) = c
           /\ \A i \in Nat : /\ Nth(lk, c, i) \in Cells
                             /\ Nth(lk, c, i + 1) = NextOf(lk, Nth(lk, c, i))
<1>1. PICK g \in [Nat -> Cells] : /\ g[0] = c
                                  /\ \A k \in Nat : g[k + 1] = NextOf(lk, g[k])
                                  /\ \A i \in Nat : Nth(lk, c, i) = g[i]
  BY NthRun
<1>2. 0 \in Nat /\ \A i \in Nat : i + 1 \in Nat
  OBVIOUS
<1> HIDE DEF Cells
<1> QED BY <1>1, <1>2

\* The first m clusters of the chain from c are all there are.
Path(lk, c, m) ==
    /\ m \in Nat /\ m >= 1
    /\ \A i \in 0 .. m - 1 : Nth(lk, c, i) \in Clusters
    /\ NextOf(lk, Nth(lk, c, m - 1)) = EOF

Track(lk, c, m) == {Nth(lk, c, i) : i \in 0 .. m - 1}

\* Every cluster has one predecessor at most, and the roots have none.  Roots
\* and successors are in use.
Alone(lk, R) ==
    /\ R \subseteq Clusters
    /\ \A c, d, e \in Clusters : lk[d] = c /\ lk[e] = c => d = e
    /\ \A c \in R, d \in Clusters : lk[d] # c
    /\ \A c \in R : lk[c] # FREE
    /\ \A d \in Clusters : lk[d] \in Clusters => lk[lk[d]] # FREE

\* What a path of m clusters is, read off.
LEMMA PathStep ==
    ASSUME NEW lk \in Links, NEW c \in Cells, NEW m, Path(lk, c, m)
    PROVE  /\ m \in Nat /\ m >= 1 /\ m - 1 \in 0 .. m - 1
           /\ \A i \in 0 .. m - 1 : Nth(lk, c, i) \in Clusters
           /\ \A i \in 0 .. m - 1 : i + 1 <= m - 1 => lk[Nth(lk, c, i)] = Nth(lk, c, i + 1)
           /\ lk[Nth(lk, c, m - 1)] = EOF
<1>1. m \in Nat /\ m >= 1 /\ m - 1 \in 0 .. m - 1
  BY DEF Path
<1>2. \A i \in 0 .. m - 1 : Nth(lk, c, i) \in Clusters
  BY DEF Path
<1>3. \A x \in Clusters : NextOf(lk, x) = lk[x]
  BY Numbers DEF NextOf
<1>4. ASSUME NEW i \in 0 .. m - 1, i + 1 <= m - 1 PROVE lk[Nth(lk, c, i)] = Nth(lk, c, i + 1)
  <2>1. i \in Nat
    BY <1>1
  <2> QED BY <1>2, <1>3, <2>1, NthIs
<1>5. lk[Nth(lk, c, m - 1)] = EOF
  BY <1>1, <1>2, <1>3 DEF Path
<1> QED BY <1>1, <1>2, <1>4, <1>5

\* A chain has one length.
LEMMA PathIsUnique ==
    ASSUME NEW lk \in Links, NEW c \in Cells, NEW m, NEW n, Path(lk, c, m), Path(lk, c, n)
    PROVE  m = n
<1>1. ASSUME NEW a, NEW b, Path(lk, c, a), Path(lk, c, b), a < b
      PROVE  FALSE
  <2>1. a \in Nat /\ b \in Nat /\ a >= 1 /\ a - 1 \in Nat /\ (a - 1) + 1 = a /\ a \in 0 .. b - 1
    BY <1>1, PathStep
  <2>2. Nth(lk, c, a) \in Clusters
    BY <1>1, <2>1, PathStep
  <2>3. Nth(lk, c, a) = NextOf(lk, Nth(lk, c, a - 1))
    BY <2>1, NthIs
  <2> QED BY <1>1, <2>2, <2>3, Numbers DEF Path
<1>2. m \in Nat /\ n \in Nat
  BY PathStep
<1> QED BY <1>1, <1>2

\* A chain from a root does not come back to a cluster.
LEMMA NthInjective ==
    ASSUME NEW lk \in Links, NEW R, Alone(lk, R), NEW c \in R, NEW N \in Nat,
           \A i \in 0 .. N : Nth(lk, c, i) \in Clusters
    PROVE  \A i, j \in 0 .. N : Nth(lk, c, i) = Nth(lk, c, j) => i = j
<1>1. c \in Clusters /\ c \in Cells
  BY Numbers DEF Alone, Cells
<1>2. Nth(lk, c, 0) = c
  BY <1>1, NthIs
<1>3. ASSUME NEW i \in Nat, i + 1 \in 0 .. N
      PROVE  /\ Nth(lk, c, i) \in Clusters /\ Nth(lk, c, i + 1) \in Clusters
             /\ lk[Nth(lk, c, i)] = Nth(lk, c, i + 1)
  <2>1. i \in 0 .. N
    BY <1>3
  <2>2. Nth(lk, c, i + 1) = NextOf(lk, Nth(lk, c, i))
    BY <1>1, NthIs
  <2>3. Nth(lk, c, i) \in Clusters /\ Nth(lk, c, i + 1) \in Clusters
    BY <1>3, <2>1
  <2> QED BY <2>2, <2>3, Numbers DEF NextOf
<1> DEFINE S == {i \in Nat : \A j \in 0 .. N : i < j /\ i <= N => Nth(lk, c, i) # Nth(lk, c, j)}
<1>4. 0 \in S
  <2> SUFFICES ASSUME NEW j \in 0 .. N, 0 < j PROVE Nth(lk, c, 0) # Nth(lk, c, j)
    OBVIOUS
  <2>1. j - 1 \in Nat /\ (j - 1) + 1 = j
    OBVIOUS
  <2>2. Nth(lk, c, j - 1) \in Clusters /\ lk[Nth(lk, c, j - 1)] = Nth(lk, c, j)
    BY <1>3, <2>1
  <2> QED BY <1>2, <2>2 DEF Alone
<1>5. ASSUME NEW i \in Nat, i \in S PROVE i + 1 \in S
  <2> SUFFICES ASSUME NEW j \in 0 .. N, i + 1 < j, i + 1 <= N, Nth(lk, c, i + 1) = Nth(lk, c, j)
               PROVE  FALSE
    OBVIOUS
  <2>1. j - 1 \in Nat /\ (j - 1) + 1 = j /\ j - 1 \in 0 .. N /\ i < j - 1 /\ i <= N /\ i + 1 \in 0 .. N
    OBVIOUS
  <2>2. /\ Nth(lk, c, i) \in Clusters /\ lk[Nth(lk, c, i)] = Nth(lk, c, i + 1)
        /\ Nth(lk, c, i + 1) \in Clusters
    BY <1>3, <2>1
  <2>3. Nth(lk, c, j - 1) \in Clusters /\ lk[Nth(lk, c, j - 1)] = Nth(lk, c, j)
    BY <1>3, <2>1
  <2>4. Nth(lk, c, i) = Nth(lk, c, j - 1)
    BY <2>2, <2>3 DEF Alone
  <2> QED BY <1>5, <2>1, <2>4
<1> HIDE DEF S
<1>6. \A i \in Nat : i \in S
  BY <1>4, <1>5, SetInduction
<1> QED BY <1>6 DEF S

\* Hence it ends before the clusters run out.
LEMMA ChainEnds ==
    ASSUME NEW lk \in Tables, lk[LastCluster + 1] = FREE, NEW R, Alone(lk, R),
           NEW c \in Entries, c \in Clusters => c \in R
    PROVE  \E j \in 0 .. LastCluster : NextOf(lk, Nth(lk, c, j)) \in {FREE, EOF}
<1>1. lk \in Links /\ c \in Cells
  BY DEF Tables, Cells
<1>2. \A x \in Cells : x \notin Clusters => NextOf(lk, x) \in {FREE, EOF}
  BY Numbers DEF Tables, NextOf, Cells
<1>3. CASE c \notin Clusters
  <2>1. Nth(lk, c, 0) = c /\ 0 \in 0 .. LastCluster
    BY <1>1, NthIs, Numbers
  <2> QED BY <1>1, <1>2, <1>3, <2>1
<1>4. CASE c \in Clusters
  <2> SUFFICES ASSUME \A j \in 0 .. LastCluster : NextOf(lk, Nth(lk, c, j)) \notin {FREE, EOF}
               PROVE  FALSE
    OBVIOUS
  <2>1. ASSUME NEW i \in 0 .. LastCluster PROVE Nth(lk, c, i) \in Clusters
    <3>1. i \in Nat /\ Nth(lk, c, i) \in Cells
      BY <1>1, NthIs, Numbers
    <3> QED BY <1>2, <3>1
  <2>2. \A i, j \in 0 .. LastCluster : Nth(lk, c, i) = Nth(lk, c, j) => i = j
    <3>1. c \in R /\ LastCluster \in Nat
      BY <1>4, Numbers
    <3> QED BY <1>1, <2>1, <3>1, NthInjective
  <2> DEFINE f == [i \in 0 .. LastCluster |-> Nth(lk, c, i)]
             D == 0 .. LastCluster
             C == Clusters
  <2>3. f \in [D -> C] /\ \A i, j \in D : f[i] = f[j] => i = j
    BY <2>1, <2>2
  <2>4. IsFiniteSet(D) /\ IsFiniteSet(C) /\ Cardinality(C) < Cardinality(D)
    <3>1. 0 \in Int /\ 2 \in Int /\ LastCluster \in Int /\ LastCluster >= 2 /\ C = 2 .. LastCluster
      BY Numbers
    <3>2. IsFiniteSet(0 .. LastCluster) /\ Cardinality(0 .. LastCluster) = LastCluster + 1
      BY <3>1, FS_Interval
    <3>3. IsFiniteSet(2 .. LastCluster) /\ Cardinality(2 .. LastCluster) = LastCluster - 1
      BY <3>1, FS_Interval
    <3> QED BY <3>1, <3>2, <3>3
  <2> HIDE DEF f, D, C
  <2>5. \E x, y \in D : x # y /\ f[x] = f[y]
    BY <2>3, <2>4, FS_PigeonHole
  <2> QED BY <2>3, <2>5
<1> QED BY <1>3, <1>4

\* The functions over a chain that is a path of m clusters.
LEMMA PathIsChain ==
    ASSUME NEW lk \in Links, NEW R, Alone(lk, R), NEW c \in R, NEW m, Path(lk, c, m)
    PROVE  /\ \A i, j \in 0 .. m - 1 : Nth(lk, c, i) = Nth(lk, c, j) => i = j
           /\ Chain(lk, c) = Track(lk, c, m)
           /\ Cardinality(Chain(lk, c)) = m
           /\ m <= LastCluster - 1
<1>1. c \in Clusters /\ c \in Cells
  BY Numbers DEF Alone, Cells
<1>2. /\ m \in Nat /\ m >= 1 /\ m - 1 \in Nat
      /\ \A i \in 0 .. m - 1 : Nth(lk, c, i) \in Clusters
      /\ \A i \in 0 .. m - 1 : i + 1 <= m - 1 => lk[Nth(lk, c, i)] = Nth(lk, c, i + 1)
      /\ lk[Nth(lk, c, m - 1)] = EOF
      /\ Nth(lk, c, 0) = c
  <2>1. /\ m \in Nat /\ m >= 1
        /\ \A i \in 0 .. m - 1 : Nth(lk, c, i) \in Clusters
        /\ \A i \in 0 .. m - 1 : i + 1 <= m - 1 => lk[Nth(lk, c, i)] = Nth(lk, c, i + 1)
        /\ lk[Nth(lk, c, m - 1)] = EOF
    BY <1>1, PathStep
  <2>2. Nth(lk, c, 0) = c
    BY <1>1, NthIs
  <2> QED BY <2>1, <2>2
<1>3. \A i, j \in 0 .. m - 1 : Nth(lk, c, i) = Nth(lk, c, j) => i = j
  <2> DEFINE N == m - 1
  <2>1. N \in Nat /\ \A i \in 0 .. N : Nth(lk, c, i) \in Clusters
    BY <1>2
  <2> HIDE DEF N
  <2>2. \A i, j \in 0 .. N : Nth(lk, c, i) = Nth(lk, c, j) => i = j
    BY <2>1, NthInjective
  <2> QED BY <2>2 DEF N
<1>4. Chain(lk, c) \subseteq Track(lk, c, m)
  <2> DEFINE S == Track(lk, c, m)
  <2>1. S \in SUBSET Clusters
    BY <1>2 DEF Track
  <2>2. c \in S
    BY <1>2 DEF Track
  <2>3. ASSUME NEW d \in S, lk[d] \in Clusters PROVE lk[d] \in S
    <3>1. PICK i \in 0 .. m - 1 : d = Nth(lk, c, i)
      BY DEF Track
    <3>2. i + 1 \in 0 .. m - 1
      <4>1. i # m - 1
        BY <1>2, <2>3, <3>1, Numbers
      <4> QED BY <1>2, <4>1
    <3>3. lk[d] = Nth(lk, c, i + 1)
      BY <1>2, <3>1, <3>2
    <3> QED BY <3>2, <3>3 DEF Track
  <2> HIDE DEF S
  <2>4. Chain(lk, c) \subseteq S
    BY <2>1, <2>2, <2>3, ChainIsLeast
  <2> QED BY <2>4 DEF S
<1>5. Track(lk, c, m) \subseteq Chain(lk, c)
  <2> DEFINE S == {i \in Nat : i <= m - 1 => Nth(lk, c, i) \in Chain(lk, c)}
  <2>1. 0 \in S
    BY <1>1, <1>2, ChainIsClosed
  <2>2. ASSUME NEW i \in Nat, i \in S PROVE i + 1 \in S
    <3> SUFFICES ASSUME i + 1 <= m - 1 PROVE Nth(lk, c, i + 1) \in Chain(lk, c)
      OBVIOUS
    <3>1. i \in 0 .. m - 1 /\ i + 1 \in 0 .. m - 1 /\ Nth(lk, c, i) \in Chain(lk, c)
      BY <1>2, <2>2
    <3>2. lk[Nth(lk, c, i)] = Nth(lk, c, i + 1) /\ Nth(lk, c, i + 1) \in Clusters
      BY <1>2, <3>1
    <3> QED BY <3>1, <3>2, ChainIsClosed
  <2> HIDE DEF S
  <2>3. \A i \in Nat : i \in S
    BY <2>1, <2>2, SetInduction
  <2> SUFFICES ASSUME NEW i \in 0 .. m - 1 PROVE Nth(lk, c, i) \in Chain(lk, c)
    BY DEF Track
  <2>4. i \in Nat /\ i <= m - 1
    BY <1>2
  <2> QED BY <2>3, <2>4 DEF S
<1>6. Cardinality(Track(lk, c, m)) = m
  <2> DEFINE D == 0 .. m - 1
             T == Track(lk, c, m)
             f == [i \in D |-> Nth(lk, c, i)]
  <2>1. f \in Surjection(D, T) /\ f \in Injection(D, T)
    BY <1>3 DEF Track, Surjection, Injection, IsInjective
  <2>2. IsFiniteSet(D) /\ Cardinality(D) = m
    <3>1. IsFiniteSet(0 .. m - 1) /\ Cardinality(0 .. m - 1) = (m - 1) - 0 + 1
      BY <1>2, FS_Interval
    <3> QED BY <1>2, <3>1
  <2> HIDE DEF D, T, f
  <2>3. Cardinality(T) = Cardinality(D)
    BY <2>1, <2>2, FS_Surjection
  <2> QED BY <2>2, <2>3 DEF T
<1>7. m <= LastCluster - 1
  <2>1. 2 \in Int /\ LastCluster \in Int /\ LastCluster >= 2 /\ Clusters = 2 .. LastCluster
    BY Numbers
  <2>2. IsFiniteSet(Clusters) /\ Cardinality(Clusters) = LastCluster - 1
    <3>1. IsFiniteSet(2 .. LastCluster) /\ Cardinality(2 .. LastCluster) = LastCluster - 1
      BY <2>1, FS_Interval
    <3> QED BY <2>1, <3>1
  <2>3. Track(lk, c, m) \in SUBSET Clusters
    BY <1>2 DEF Track
  <2>4. Cardinality(Track(lk, c, m)) <= Cardinality(Clusters)
    BY <2>2, <2>3, FS_Subset
  <2> QED BY <1>6, <2>2, <2>4
<1>8. Chain(lk, c) = Track(lk, c, m)
  BY <1>4, <1>5
<1>9. Cardinality(Chain(lk, c)) = m
  BY <1>6, <1>8
<1> QED BY <1>3, <1>7, <1>8, <1>9

\* lastCluster finds the end of a path that is no longer than the table.
LEMMA LastOfPath ==
    ASSUME NEW lk \in Links, NEW c \in Cells, NEW m, Path(lk, c, m), m <= LastCluster
    PROVE  LastOf(lk, c) = Nth(lk, c, m - 1)
<1> DEFINE ends == {j \in 0 .. LastCluster : NextOf(lk, Nth(lk, c, j)) \in {FREE, EOF}}
<1>1. m \in Nat /\ m >= 1 /\ m - 1 \in 0 .. LastCluster
  BY Numbers DEF Path
<1>2. m - 1 \in ends
  BY <1>1 DEF Path
<1>3. ASSUME NEW j \in ends PROVE j >= m - 1
  <2> SUFFICES ASSUME j < m - 1 PROVE FALSE
    BY <1>1, Numbers
  <2>1. j \in Nat /\ j \in 0 .. m - 1 /\ j + 1 \in 0 .. m - 1
    BY <1>1, Numbers
  <2>2. Nth(lk, c, j + 1) = NextOf(lk, Nth(lk, c, j)) /\ Nth(lk, c, j + 1) \in Clusters
    BY <2>1, NthIs DEF Path
  <2> QED BY <2>2, Numbers
<1>4. ends \subseteq Nat
  BY Numbers
<1>5. LastOf(lk, c) = Nth(lk, c, Least(ends))
  BY DEF LastOf
<1> HIDE DEF ends
<1>6. Least(ends) \in ends /\ \A d \in ends : Least(ends) <= d
  BY <1>2, <1>4, LeastIs
<1>7. Least(ends) = m - 1
  <2>1. Least(ends) \in Nat /\ m - 1 \in Nat
    BY <1>2, <1>4, <1>6
  <2>2. Least(ends) <= m - 1 /\ Least(ends) >= m - 1
    BY <1>2, <1>3, <1>6
  <2> QED BY <2>1, <2>2
<1> QED BY <1>5, <1>7

\* A path depends on its own clusters only.
LEMMA PathFrame ==
    ASSUME NEW lk \in Links, NEW lk2 \in Links, NEW c \in Cells, NEW m, Path(lk, c, m),
           \A d \in Track(lk, c, m) : lk2[d] = lk[d]
    PROVE  /\ Path(lk2, c, m)
           /\ \A i \in 0 .. m - 1 : Nth(lk2, c, i) = Nth(lk, c, i)
<1>1. /\ m \in Nat /\ m >= 1 /\ m - 1 \in 0 .. m - 1
      /\ \A i \in 0 .. m - 1 : Nth(lk, c, i) \in Clusters
      /\ \A i \in 0 .. m - 1 : i + 1 <= m - 1 => lk[Nth(lk, c, i)] = Nth(lk, c, i + 1)
      /\ lk[Nth(lk, c, m - 1)] = EOF
  BY PathStep
<1>2. \A x \in Clusters : NextOf(lk2, x) = lk2[x]
  BY Numbers DEF NextOf
<1>3. \A i \in 0 .. m - 1 : lk2[Nth(lk, c, i)] = lk[Nth(lk, c, i)]
  BY DEF Track
<1> DEFINE S == {i \in Nat : i <= m - 1 => Nth(lk2, c, i) = Nth(lk, c, i)}
<1>4. 0 \in S
  BY NthIs
<1>5. ASSUME NEW i \in Nat, i \in S PROVE i + 1 \in S
  <2> SUFFICES ASSUME i + 1 <= m - 1 PROVE Nth(lk2, c, i + 1) = Nth(lk, c, i + 1)
    OBVIOUS
  <2>1. i \in 0 .. m - 1 /\ Nth(lk2, c, i) = Nth(lk, c, i)
    BY <1>1, <1>5
  <2>2. Nth(lk2, c, i + 1) = NextOf(lk2, Nth(lk2, c, i))
    BY NthIs
  <2> QED BY <1>1, <1>2, <1>3, <2>1, <2>2
<1> HIDE DEF S
<1>6. \A i \in Nat : i \in S
  BY <1>4, <1>5, SetInduction
<1>7. \A i \in 0 .. m - 1 : Nth(lk2, c, i) = Nth(lk, c, i)
  BY <1>1, <1>6 DEF S
<1>8. Path(lk2, c, m)
  BY <1>1, <1>2, <1>3, <1>7 DEF Path
<1> QED BY <1>7, <1>8

\* A free cluster behind the last one makes the path longer.
LEMMA PathGrows ==
    ASSUME NEW lk \in Links, NEW lk2 \in Links, NEW c \in Cells, NEW m, Path(lk, c, m),
           NEW n \in Clusters, lk[n] = FREE, lk2[n] = EOF, lk2[Nth(lk, c, m - 1)] = n,
           \A d \in Clusters : d # n /\ d # Nth(lk, c, m - 1) => lk2[d] = lk[d]
    PROVE  /\ Path(lk2, c, m + 1)
           /\ \A i \in 0 .. m - 1 : Nth(lk2, c, i) = Nth(lk, c, i)
           /\ Nth(lk2, c, m) = n
<1>1. /\ m \in Nat /\ m >= 1 /\ m - 1 \in 0 .. m - 1
      /\ \A i \in 0 .. m - 1 : Nth(lk, c, i) \in Clusters
      /\ \A i \in 0 .. m - 1 : i + 1 <= m - 1 => lk[Nth(lk, c, i)] = Nth(lk, c, i + 1)
      /\ lk[Nth(lk, c, m - 1)] = EOF
  BY PathStep
<1>2. \A x \in Clusters : NextOf(lk2, x) = lk2[x]
  BY Numbers DEF NextOf
<1>3. ASSUME NEW i \in 0 .. m - 1, i + 1 <= m - 1
      PROVE  lk2[Nth(lk, c, i)] = Nth(lk, c, i + 1)
  <2>1. i + 1 \in 0 .. m - 1 /\ Nth(lk, c, i) \in Clusters /\ Nth(lk, c, i + 1) \in Clusters
        /\ lk[Nth(lk, c, i)] = Nth(lk, c, i + 1)
    BY <1>1, <1>3
  <2>2. Nth(lk, c, i) # n /\ Nth(lk, c, i) # Nth(lk, c, m - 1)
    BY <1>1, <2>1, Numbers
  <2> QED BY <2>1, <2>2
<1> DEFINE S == {i \in Nat : i <= m - 1 => Nth(lk2, c, i) = Nth(lk, c, i)}
<1>4. 0 \in S
  BY NthIs
<1>5. ASSUME NEW i \in Nat, i \in S PROVE i + 1 \in S
  <2> SUFFICES ASSUME i + 1 <= m - 1 PROVE Nth(lk2, c, i + 1) = Nth(lk, c, i + 1)
    OBVIOUS
  <2>1. i \in 0 .. m - 1 /\ Nth(lk2, c, i) = Nth(lk, c, i)
    BY <1>1, <1>5
  <2>2. Nth(lk2, c, i + 1) = NextOf(lk2, Nth(lk2, c, i))
    BY NthIs
  <2> QED BY <1>1, <1>2, <1>3, <2>1, <2>2
<1> HIDE DEF S
<1>6. \A i \in Nat : i \in S
  BY <1>4, <1>5, SetInduction
<1>7. \A i \in 0 .. m - 1 : Nth(lk2, c, i) = Nth(lk, c, i)
  BY <1>1, <1>6 DEF S
<1>8. Nth(lk2, c, m) = n
  <2>1. m - 1 \in Nat /\ (m - 1) + 1 = m
    BY <1>1
  <2>2. Nth(lk2, c, m) = NextOf(lk2, Nth(lk2, c, m - 1))
    BY <2>1, NthIs
  <2> QED BY <1>1, <1>2, <1>7, <2>2
<1>9. Path(lk2, c, m + 1)
  <2>1. m + 1 \in Nat /\ m + 1 >= 1 /\ (m + 1) - 1 = m
    BY <1>1
  <2>2. ASSUME NEW i \in 0 .. m PROVE Nth(lk2, c, i) \in Clusters
    <3>1. i = m \/ i \in 0 .. m - 1
      BY <1>1
    <3> QED BY <1>1, <1>7, <1>8, <3>1
  <2>3. NextOf(lk2, Nth(lk2, c, m)) = EOF
    BY <1>2, <1>8
  <2> QED BY <2>1, <2>2, <2>3 DEF Path
<1> QED BY <1>7, <1>8, <1>9

-----------------------------------------------------------------------------
(* The table under the file                                                *)

\* The entry behind the table is never written.
Clean == {lk \in Tables : lk[LastCluster + 1] = FREE}

Full(lk) == \A c \in Clusters : lk[c] # FREE

\* No cluster is linked to the entry behind the table.
Inside(lk) == \A c \in Clusters : lk[c] # LastCluster + 1

\* firstFree points past the table only when there is nothing to find.
Hint(lk, ff) == ff \in FIRST .. LastCluster + 1 /\ (ff = LastCluster + 1 => Full(lk))

\* A clean table is a table.
LEMMA CleanIs == \A lk \in Clean : lk \in Tables /\ lk \in Links /\ lk[LastCluster + 1] = FREE
BY DEF Clean, Tables

\* writeFatEntry leaves the entry past the table alone.
LEMMA CleanPut ==
    ASSUME NEW lk \in Clean, NEW c \in Entries, NEW v \in Entries \cup {EOF}
    PROVE  Put(lk, c, v) \in Clean
<1>1. Put(lk, c, v) \in Tables
  BY PutType, CleanIs
<1>2. Put(lk, c, v)[LastCluster + 1] = FREE
  BY CleanIs, Numbers DEF Put, Links
<1> QED BY <1>1, <1>2 DEF Clean

\* So does a link.
LEMMA CleanLinked ==
    ASSUME NEW lk \in Clean, NEW c \in Entries, NEW n \in Entries
    PROVE  Linked(lk, c, n) \in Clean
<1>1. Put(lk, c, n) \in Clean
  BY CleanPut
<1>2. (IF c < LastCluster THEN Put(lk, c, n) ELSE lk) \in Clean
  BY <1>1
<1> QED BY <1>2, CleanPut DEF Linked

\* The entry past the table can be linked to, but it is not written.
LEMMA LinkedBeyond ==
    ASSUME NEW lk \in Links, NEW p \in Entries
    PROVE  \A d \in Clusters : \/ Linked(lk, p, LastCluster + 1)[d] = lk[d]
                               \/ d = p /\ Linked(lk, p, LastCluster + 1)[d] = LastCluster + 1
BY Numbers DEF Linked, Put, Links

\* A link to a free cluster keeps the chains apart.
LEMMA AloneLinked ==
    ASSUME NEW lk \in Clean, NEW R, Alone(lk, R), NEW c \in Entries, lk[c] \notin Clusters,
           NEW n \in Clusters, lk[n] = FREE
    PROVE  /\ Alone(Linked(lk, c, n), R)
           /\ c \notin Clusters => Alone(Linked(lk, c, n), R \cup {n})
<1> DEFINE lk2 == Linked(lk, c, n)
<1>1. \A d \in Clusters : lk2[d] = IF d = n THEN EOF ELSE IF d = c /\ c < LastCluster THEN n ELSE lk[d]
  BY CleanIs, GrownIs
<1>2. \A d \in Clusters : lk[d] # n
  BY DEF Alone
<1> HIDE DEF lk2
<1>3. \A d \in Clusters : lk2[d] \in Clusters => (d # n /\ (lk2[d] = lk[d] \/ (d = c /\ lk2[d] = n)))
  BY <1>1, Numbers
<1>4. \A d \in Clusters : lk[d] # FREE => lk2[d] # FREE
  BY <1>1, Numbers
<1>5. lk2[n] # FREE
  BY <1>1, Numbers
<1>6. \A x, d, e \in Clusters : lk2[d] = x /\ lk2[e] = x => d = e
  <2> SUFFICES ASSUME NEW x \in Clusters, NEW d \in Clusters, NEW e \in Clusters, lk2[d] = x, lk2[e] = x
               PROVE  d = e
    OBVIOUS
  <2>1. CASE x = n
    BY <1>2, <1>3, <2>1
  <2>2. CASE x # n
    BY <1>3, <2>2 DEF Alone
  <2> QED BY <2>1, <2>2
<1>7. R \subseteq Clusters /\ n \notin R
  BY DEF Alone
<1>8. \A r \in R : lk2[r] # FREE /\ \A d \in Clusters : lk2[d] # r
  BY <1>3, <1>4, <1>7 DEF Alone
<1>9. \A d \in Clusters : lk2[d] \in Clusters => lk2[lk2[d]] # FREE
  BY <1>3, <1>4, <1>5 DEF Alone
<1>10. Alone(lk2, R)
  BY <1>6, <1>7, <1>8, <1>9 DEF Alone
<1>11. ASSUME c \notin Clusters PROVE Alone(lk2, R \cup {n})
  <2>1. \A d \in Clusters : lk2[d] # n
    BY <1>2, <1>3, <1>11
  <2> QED BY <1>5, <1>10, <2>1 DEF Alone
<1> QED BY <1>10, <1>11 DEF lk2

\* The clusters of the chain from c are free, and others are left alone.
Freed(lk, lk2, c) ==
    \A d \in Clusters : lk2[d] = IF d \in Chain(lk, c) THEN FREE ELSE lk[d]

\* Freeing the chain of a root.
LEMMA AloneCut ==
    ASSUME NEW lk \in Clean, NEW ff, NEW R, Alone(lk, R), NEW c \in R
    PROVE  /\ Alone(ClearLinks(lk, ff, c).link, R \ {c})
           /\ Freed(lk, ClearLinks(lk, ff, c).link, c)
           /\ R \cap Chain(lk, c) = {c}
<1> DEFINE cut == ClearLinks(lk, ff, c).link
           C == Chain(lk, c)
<1>1. \A d \in Clusters : cut[d] = IF d \in C THEN FREE ELSE lk[d]
  BY CleanIs, ClearedIs
<1>2. C \subseteq Clusters /\ c \in C /\ \A d \in C : lk[d] \in Clusters => lk[d] \in C
  BY ChainIsClosed DEF Alone
<1>3. \A d \in C : d # c => \E e \in C : lk[e] = d
  BY ChainHasPredecessors
<1> HIDE DEF cut, C
<1>4. R \cap C = {c}
  BY <1>2, <1>3 DEF Alone
<1>5. \A d \in Clusters : d \notin C /\ lk[d] \in Clusters => lk[d] \notin C
  BY <1>2, <1>3 DEF Alone
<1>6. \A d \in Clusters : cut[d] \in Clusters => d \notin C /\ cut[d] = lk[d]
  BY <1>1, Numbers
<1>7. Alone(cut, R \ {c})
  <2>1. R \ {c} \subseteq Clusters
    BY DEF Alone
  <2>2. \A x, d, e \in Clusters : cut[d] = x /\ cut[e] = x => d = e
    BY <1>6 DEF Alone
  <2>3. \A r \in R \ {c}, d \in Clusters : cut[d] # r
    BY <1>6 DEF Alone
  <2>4. \A r \in R \ {c} : cut[r] # FREE
    BY <1>1, <1>4 DEF Alone
  <2>5. \A d \in Clusters : cut[d] \in Clusters => cut[cut[d]] # FREE
    BY <1>1, <1>5, <1>6 DEF Alone
  <2> QED BY <2>1, <2>2, <2>3, <2>4, <2>5 DEF Alone
<1> QED BY <1>1, <1>4, <1>7 DEF cut, C, Freed

\* Fewer chains keep apart as well.
LEMMA AloneLess ==
    ASSUME NEW lk, NEW R, Alone(lk, R), NEW S \in SUBSET R
    PROVE  Alone(lk, S)
BY DEF Alone

\* clearLinks leaves a clean table and a good hint, and nothing but a cluster
\* of the table starts it.
LEMMA ClearLinksKeeps ==
    ASSUME NEW lk \in Clean, NEW ff, Hint(lk, ff), NEW c \in Entries
    PROVE  /\ ClearLinks(lk, ff, c).link \in Clean
           /\ Hint(ClearLinks(lk, ff, c).link, ClearLinks(lk, ff, c).firstFree)
           /\ c \notin Clusters => ClearLinks(lk, ff, c) = Result(lk, ff, c)
<1>1. CASE c \notin Clusters
  <2>1. ClearLinks(lk, ff, c) = Result(lk, ff, c)
    BY <1>1 DEF ClearLinks
  <2> QED BY <1>1, <2>1 DEF Result
<1>2. CASE c \in Clusters
  <2> DEFINE cut == [e \in Entries |-> IF e \in Chain(lk, c) THEN FREE ELSE lk[e]]
             f == IF c < ff THEN c ELSE ff
  <2>1. ClearLinks(lk, ff, c) = Result(cut, f, c)
    BY <1>2 DEF ClearLinks
  <2>2. Chain(lk, c) \subseteq Clusters
    BY ChainIsClosed
  <2>3. cut \in Tables
    BY <2>2, CleanIs, Numbers DEF Tables, Links
  <2>4. cut[LastCluster + 1] = FREE
    BY <2>2, CleanIs, Numbers
  <2>5. f \in FIRST .. LastCluster + 1 /\ f # LastCluster + 1
    BY <1>2, Numbers DEF Hint
  <2> HIDE DEF cut, f
  <2> QED BY <1>2, <2>1, <2>3, <2>4, <2>5 DEF Result, Clean, Hint
<1> QED BY <1>1, <1>2

\* What linkFreeCluster comes to while firstFree is a good hint.
LEMMA LinkFreeCases ==
    ASSUME NEW lk \in Clean, NEW ff, Hint(lk, ff), NEW c \in Entries
    PROVE  \/ /\ c \in Clusters /\ lk[c] \in Clusters
              /\ LinkFree(lk, ff, c) = Result(lk, ff, lk[c])
           \/ /\ lk[c] \notin Clusters
              /\ \E n \in Clusters : /\ lk[n] = FREE
                                     /\ LinkFree(lk, ff, c) = Result(Linked(lk, c, n), n, n)
           \/ /\ lk[c] \notin Clusters /\ Full(lk)
              /\ LinkFree(lk, ff, c) = Result(Linked(lk, c, LastCluster + 1), LastCluster + 1, LastCluster + 1)
           \/ /\ c = LastCluster + 1
              /\ LinkFree(lk, ff, c) = Result(lk, ff, FREE)
           \/ /\ lk[c] \notin Clusters /\ Full(lk)
              /\ LinkFree(lk, ff, c) = Result(lk, LastCluster + 1, FREE)
<1>1. lk \in Links /\ lk \in Tables /\ ff \in FIRST .. LastCluster + 1
  BY CleanIs DEF Hint
<1>2. CASE c > LastCluster
  BY <1>2, Numbers DEF LinkFree
<1>3. CASE c <= LastCluster /\ lk[c] \in Clusters
  <2>1. c \in Clusters
    BY <1>1, <1>3, Numbers DEF Tables
  <2> QED BY <1>3, <2>1, Numbers DEF LinkFree
<1>4. CASE c <= LastCluster /\ lk[c] \notin Clusters
  <2> DEFINE n == Search(lk, ff)
             free == {x \in Clusters : lk[x] = FREE}
  <2>1. LinkFree(lk, ff, c) = Taken(lk, c, n)
    BY <1>4, Numbers DEF LinkFree
  <2>2. free \subseteq Clusters /\ ff \in Nat
    BY <1>1, Numbers
  <2>3. (free = {} => FirstFrom(free, ff) = LastCluster + 2) /\ (free # {} => FirstFrom(free, ff) \in free)
    <3> HIDE DEF free
    <3> QED BY <2>2, FirstFromIs
  <2>4. CASE n \in Clusters
    <3>1. lk[n] = FREE
      <4>1. \/ n \in FIRST .. LastCluster + 1 /\ lk[n] = FREE
            \/ n = LastCluster + 2
        BY <1>1, SearchIs
      <4> QED BY <2>4, <4>1, Numbers
    <3>2. Taken(lk, c, n) = Result(Linked(lk, c, n), n, n)
      BY <2>4, Numbers DEF Taken, Linked
    <3> HIDE DEF n
    <3> QED BY <1>4, <2>1, <2>4, <3>1, <3>2
  <2>5. CASE n = LastCluster + 1
    <3>1. ff = LastCluster + 1
      <4>1. lk[ff] # FREE => n = FirstFrom(free, ff)
        BY DEF Search
      <4>2. lk[ff] = FREE => n = ff
        BY DEF Search
      <4> QED BY <2>3, <2>5, <4>1, <4>2, Numbers
    <3>2. Taken(lk, c, n) = Result(Linked(lk, c, n), n, n)
      BY <2>5, Numbers DEF Taken, Linked
    <3> HIDE DEF n
    <3> QED BY <1>4, <2>1, <2>5, <3>1, <3>2 DEF Hint
  <2>6. CASE n = LastCluster + 2
    <3>1. Full(lk)
      <4>1. \/ n \in FIRST .. LastCluster + 1
            \/ \A d \in Clusters : lk[d] # FREE
        BY <1>1, SearchIs
      <4> QED BY <2>6, <4>1, Numbers DEF Full
    <3>2. Taken(lk, c, n) = Result(lk, LastCluster + 1, FREE)
      BY <2>6, Numbers DEF Taken
    <3> HIDE DEF n
    <3> QED BY <1>4, <2>1, <3>1, <3>2
  <2>7. n \in Clusters \/ n = LastCluster + 1 \/ n = LastCluster + 2
    <3>1. \/ n \in FIRST .. LastCluster + 1
          \/ n = LastCluster + 2
      BY <1>1, SearchIs
    <3> HIDE DEF n
    <3> QED BY <3>1, Numbers
  <2> QED BY <2>4, <2>5, <2>6, <2>7
<1> QED BY <1>2, <1>3, <1>4, Numbers

\* linkFreeCluster keeps table, hint and chains, and comes back without a
\* cluster only when none is free.
LEMMA LinkFreeKeeps ==
    ASSUME NEW lk \in Clean, NEW ff, Hint(lk, ff), NEW c \in Entries, NEW R, Alone(lk, R)
    PROVE  LET res == LinkFree(lk, ff, c) IN
           /\ res.link \in Clean /\ Hint(res.link, res.firstFree) /\ Alone(res.link, R)
           /\ res.cluster \in Entries
           /\ res.cluster = FREE => Full(res.link) \/ (c = LastCluster + 1 /\ res.link = lk)
           /\ res.cluster = LastCluster + 1 => Full(res.link)
           /\ Full(lk) => Full(res.link)
           /\ Inside(lk) => Inside(res.link) \/ res.cluster = LastCluster + 1
<1>1. \A l, f, x : /\ Result(l, f, x).link = l
                   /\ Result(l, f, x).firstFree = f /\ Result(l, f, x).cluster = x
  BY DEF Result
<1> DEFINE res == LinkFree(lk, ff, c)
<1>2. CASE c \in Clusters /\ lk[c] \in Clusters /\ res = Result(lk, ff, lk[c])
  <2>1. res.link = lk /\ res.firstFree = ff /\ res.cluster = lk[c]
    BY <1>1, <1>2
  <2> HIDE DEF res
  <2> QED BY <1>2, <2>1, Numbers DEF res
<1>3. ASSUME NEW n \in Clusters, lk[c] \notin Clusters, lk[n] = FREE, res = Result(Linked(lk, c, n), n, n)
      PROVE  /\ res.link \in Clean /\ Hint(res.link, res.firstFree) /\ Alone(res.link, R)
             /\ res.cluster \in Clusters /\ ~Full(lk) /\ (Inside(lk) => Inside(res.link))
  <2>1. res.link = Linked(lk, c, n) /\ res.firstFree = n /\ res.cluster = n
    BY <1>1, <1>3
  <2>4. Inside(lk) => Inside(Linked(lk, c, n))
    <3>1. \A d \in Clusters : Linked(lk, c, n)[d] = IF d = n THEN EOF
                                   ELSE IF d = c /\ c < LastCluster THEN n ELSE lk[d]
      BY CleanIs, GrownIs
    <3> QED BY <3>1, Numbers DEF Inside
  <2>2. Linked(lk, c, n) \in Clean /\ Alone(Linked(lk, c, n), R)
    BY <1>3, CleanLinked, AloneLinked, Numbers
  <2>3. n \in FIRST .. LastCluster + 1 /\ n # LastCluster + 1
    BY Numbers
  <2> HIDE DEF res
  <2> QED BY <1>3, <2>1, <2>2, <2>3, <2>4 DEF Hint, Full
<1>4. ASSUME lk[c] \notin Clusters, Full(lk),
             res = Result(Linked(lk, c, LastCluster + 1), LastCluster + 1, LastCluster + 1)
      PROVE  /\ res.link \in Clean /\ Hint(res.link, res.firstFree) /\ Alone(res.link, R)
             /\ res.cluster = LastCluster + 1 /\ Full(res.link)
  <2> DEFINE l == Linked(lk, c, LastCluster + 1)
  <2>1. res.link = l /\ res.firstFree = LastCluster + 1 /\ res.cluster = LastCluster + 1
    BY <1>1, <1>4
  <2>2. l \in Clean
    BY CleanLinked, Numbers
  <2>3. \A d \in Clusters : l[d] = lk[d] \/ (d = c /\ l[d] = LastCluster + 1)
    BY CleanIs, LinkedBeyond
  <2> HIDE DEF res, l
  <2>4. Full(l)
    BY <1>4, <2>3, Numbers DEF Full
  <2>5. \A d \in Clusters : l[d] \in Clusters => l[d] = lk[d]
    BY <2>3, Numbers
  <2>6. Alone(l, R)
    BY <2>4, <2>5 DEF Alone, Full
  <2> QED BY <2>1, <2>2, <2>4, <2>6, Numbers DEF Hint
<1>5. CASE c = LastCluster + 1 /\ res = Result(lk, ff, FREE)
  <2>1. res.link = lk /\ res.firstFree = ff /\ res.cluster = FREE
    BY <1>1, <1>5
  <2> HIDE DEF res
  <2> QED BY <1>5, <2>1, Numbers DEF res
<1>6. CASE lk[c] \notin Clusters /\ Full(lk) /\ res = Result(lk, LastCluster + 1, FREE)
  <2>1. res.link = lk /\ res.firstFree = LastCluster + 1 /\ res.cluster = FREE
    BY <1>1, <1>6
  <2> HIDE DEF res
  <2> QED BY <1>6, <2>1, Numbers DEF res, Hint
<1>7. \/ c \in Clusters /\ lk[c] \in Clusters /\ res = Result(lk, ff, lk[c])
      \/ lk[c] \notin Clusters
         /\ \E n \in Clusters : lk[n] = FREE /\ res = Result(Linked(lk, c, n), n, n)
      \/ lk[c] \notin Clusters /\ Full(lk)
         /\ res = Result(Linked(lk, c, LastCluster + 1), LastCluster + 1, LastCluster + 1)
      \/ c = LastCluster + 1 /\ res = Result(lk, ff, FREE)
      \/ lk[c] \notin Clusters /\ Full(lk) /\ res = Result(lk, LastCluster + 1, FREE)
  BY LinkFreeCases
<1> HIDE DEF res
<1>8. CASE lk[c] \notin Clusters /\ \E n \in Clusters : lk[n] = FREE /\ res = Result(Linked(lk, c, n), n, n)
  <2>1. /\ res.link \in Clean /\ Hint(res.link, res.firstFree) /\ Alone(res.link, R)
        /\ res.cluster \in Clusters /\ ~Full(lk) /\ (Inside(lk) => Inside(res.link))
    BY <1>3, <1>8
  <2> QED BY <2>1, Numbers DEF res
<1>9. CASE lk[c] \notin Clusters /\ Full(lk)
           /\ res = Result(Linked(lk, c, LastCluster + 1), LastCluster + 1, LastCluster + 1)
  <2>1. /\ res.link \in Clean /\ Hint(res.link, res.firstFree) /\ Alone(res.link, R)
        /\ res.cluster = LastCluster + 1 /\ Full(res.link)
    BY <1>4, <1>9
  <2> QED BY <2>1, Numbers DEF res
<1> QED BY <1>2, <1>5, <1>6, <1>7, <1>8, <1>9

\* The last cluster of a chain is one of the table's entries.
LEMMA LastOfType ==
    ASSUME NEW lk \in Clean, NEW R, Alone(lk, R), NEW c \in Entries, c \in Clusters => c \in R
    PROVE  LastOf(lk, c) \in Entries
<1> DEFINE ends == {j \in 0 .. LastCluster : NextOf(lk, Nth(lk, c, j)) \in {FREE, EOF}}
<1>1. ends # {}
  BY ChainEnds, CleanIs
<1>2. ends \subseteq Nat
  BY Numbers
<1>3. c \in Cells /\ lk \in Links
  BY CleanIs DEF Cells
<1>4. LastOf(lk, c) = Nth(lk, c, Least(ends))
  BY DEF LastOf
<1>5. ends = {j \in 0 .. LastCluster : NextOf(lk, Nth(lk, c, j)) \in {FREE, EOF}}
  OBVIOUS
<1> HIDE DEF ends
<1>6. Least(ends) \in ends /\ \A d \in ends : Least(ends) <= d
  BY <1>1, <1>2, LeastIs
<1> DEFINE j == Least(ends)
<1>7. j \in Nat /\ j \in 0 .. LastCluster /\ \A d \in ends : j <= d
  BY <1>5, <1>6, Numbers
<1> HIDE DEF j
<1>8. CASE j = 0
  BY <1>3, <1>4, <1>8, NthIs DEF j
<1>9. CASE j # 0
  <2>1. j - 1 \in Nat /\ j - 1 \in 0 .. LastCluster /\ (j - 1) + 1 = j /\ ~(j <= j - 1)
    BY <1>7, <1>9, Numbers
  <2>2. j - 1 \notin ends
    BY <1>7, <2>1
  <2>3. NextOf(lk, Nth(lk, c, j - 1)) # EOF
    BY <1>5, <2>1, <2>2
  <2>4. Nth(lk, c, j) = NextOf(lk, Nth(lk, c, j - 1)) /\ Nth(lk, c, j) \in Cells
    BY <1>3, <1>7, <2>1, NthIs
  <2> QED BY <1>4, <2>3, <2>4 DEF j, Cells
<1> QED BY <1>8, <1>9

\* No chain of another root meets the path of a root.
LEMMA PathIsApart ==
    ASSUME NEW lk \in Clean, NEW R, Alone(lk, R), NEW s \in R, NEW m, Path(lk, s, m),
           NEW c \in R, c # s
    PROVE  Chain(lk, c) \cap Track(lk, s, m) = {}
<1>1. lk \in Links /\ s \in Cells /\ s \in Clusters /\ c \in Clusters
  BY CleanIs, Numbers DEF Alone, Cells
<1>2. /\ m \in Nat /\ m >= 1
      /\ \A i \in 0 .. m - 1 : Nth(lk, s, i) \in Clusters
      /\ \A i \in 0 .. m - 1 : i + 1 <= m - 1 => lk[Nth(lk, s, i)] = Nth(lk, s, i + 1)
      /\ Nth(lk, s, 0) = s
  <2>1. /\ m \in Nat /\ m >= 1
        /\ \A i \in 0 .. m - 1 : Nth(lk, s, i) \in Clusters
        /\ \A i \in 0 .. m - 1 : i + 1 <= m - 1 => lk[Nth(lk, s, i)] = Nth(lk, s, i + 1)
    BY <1>1, PathStep
  <2>2. Nth(lk, s, 0) = s
    BY <1>1, NthIs
  <2> QED BY <2>1, <2>2
<1> DEFINE S == Clusters \ Track(lk, s, m)
<1>3. ASSUME NEW d \in Clusters, lk[d] \in Track(lk, s, m) PROVE d \in Track(lk, s, m)
  <2>1. PICK i \in 0 .. m - 1 : lk[d] = Nth(lk, s, i)
    BY <1>3 DEF Track
  <2>2. i # 0
    BY <1>2, <2>1 DEF Alone
  <2>3. i - 1 \in 0 .. m - 1 /\ (i - 1) + 1 = i /\ (i - 1) + 1 <= m - 1
    BY <1>2, <2>2
  <2>4. lk[Nth(lk, s, i - 1)] = Nth(lk, s, i) /\ Nth(lk, s, i - 1) \in Clusters /\ Nth(lk, s, i) \in Clusters
    BY <1>2, <2>3
  <2>5. d = Nth(lk, s, i - 1)
    BY <2>1, <2>4 DEF Alone
  <2> QED BY <2>3, <2>5 DEF Track
<1>4. c \notin Track(lk, s, m)
  <2> SUFFICES ASSUME NEW i \in 0 .. m - 1, c = Nth(lk, s, i) PROVE FALSE
    BY DEF Track
  <2>1. i # 0
    BY <1>2
  <2>2. i - 1 \in 0 .. m - 1 /\ (i - 1) + 1 = i /\ (i - 1) + 1 <= m - 1
    BY <1>2, <2>1
  <2>3. lk[Nth(lk, s, i - 1)] = c /\ Nth(lk, s, i - 1) \in Clusters
    BY <1>2, <2>2
  <2> QED BY <2>3 DEF Alone
<1>5. S \in SUBSET Clusters /\ (c \in Clusters => c \in S)
  BY <1>4
<1>6. \A d \in S : lk[d] \in Clusters => lk[d] \in S
  BY <1>3
<1> HIDE DEF S
<1>7. Chain(lk, c) \subseteq S
  BY <1>5, <1>6, ChainIsLeast
<1> QED BY <1>7 DEF S

-----------------------------------------------------------------------------
(* Bytes and clusters                                                      *)

\* A cluster has bytes.
LEMMA SizeIs == ClusterSize \in Nat /\ ClusterSize >= 1
<1>1. ASSUME NEW a \in Nat, NEW b \in Nat, a >= 1, b >= 1 PROVE a * b \in Nat /\ a * b >= 1
  BY <1>1
<1>2. SectorSize \in Nat /\ Sectors \in Nat /\ SectorSize >= 1 /\ Sectors >= 1
  BY FileAssumption
<1> QED BY <1>1, <1>2 DEF ClusterSize

\* The byte at offset o of the i-th cluster of a file.
Offset(i, o) == ClusterSize * i + o

\* Cluster and offset in it are quotient and remainder of the offset.
LEMMA OffsetIs ==
    ASSUME NEW i \in Nat, NEW o \in Nat
    PROVE  /\ Offset(i, o) \in Nat
           /\ Offset(i, o) = Offset(i, 0) + o
           /\ Offset(i, ClusterSize) = Offset(i + 1, 0)
           /\ o < ClusterSize => Offset(i, o) \div ClusterSize = i /\ Offset(i, o) % ClusterSize = o
<1> DEFINE b == ClusterSize
<1>1. b \in Nat /\ b >= 1
  BY SizeIs
<1> HIDE DEF b
<1>2. b * i + o \in Nat /\ b * i + 0 \in Nat /\ b * i + o = (b * i + 0) + o /\ b * i + b = b * (i + 1) + 0
  BY <1>1
<1>3. o < b => (b * i + o) \div b = i /\ (b * i + o) % b = o
  <2> SUFFICES ASSUME o < b PROVE (b * i + o) \div b = i /\ (b * i + o) % b = o
    OBVIOUS
  <2>1. o \in 0 .. b - 1 /\ b > 0
    BY <1>1
  <2> QED BY <1>1, <2>1, DivModUnique
<1> QED BY <1>2, <1>3 DEF b, Offset

\* Every byte has its cluster and its offset there.
LEMMA OffsetOf ==
    ASSUME NEW p \in Nat
    PROVE  /\ p \div ClusterSize \in Nat /\ p % ClusterSize \in 0 .. ClusterSize - 1
           /\ p = Offset(p \div ClusterSize, p % ClusterSize)
<1> DEFINE b == ClusterSize
<1>1. b \in Nat /\ b > 0
  BY SizeIs
<1> HIDE DEF b
<1>2. p \div b \in Nat /\ p % b \in 0 .. b - 1 /\ p = b * (p \div b) + (p % b)
  BY <1>1, DivMod
<1> QED BY <1>2 DEF b, Offset

\* Later clusters hold later bytes.
LEMMA OffsetGrows ==
    ASSUME NEW i \in Nat, NEW j \in Nat, i <= j
    PROVE  Offset(i, 0) <= Offset(j, 0)
<1> DEFINE b == ClusterSize
           d == j - i
<1>1. b \in Nat /\ d \in Nat /\ j = i + d
  BY SizeIs
<1> HIDE DEF b, d
<1>2. b * i + 0 <= b * (i + d) + 0
  <2>1. b * (i + d) = b * i + b * d /\ b * d \in Nat /\ b * i \in Nat
    BY <1>1
  <2> QED BY <2>1
<1> QED BY <1>1, <1>2 DEF b, Offset

\* Positions are ordered by their cluster first.
LEMMA OffsetOrder ==
    ASSUME NEW i \in Nat, NEW j \in Nat, NEW o \in 0 .. ClusterSize, NEW q \in 0 .. ClusterSize
    PROVE  /\ i < j => Offset(i, o) <= Offset(j, q)
           /\ i < j /\ o < ClusterSize => Offset(i, o) < Offset(j, q)
           /\ i < j /\ q > 0 => Offset(i, o) < Offset(j, q)
<1>1. o \in Nat /\ q \in Nat /\ i + 1 \in Nat /\ ClusterSize \in Nat
  BY SizeIs
<1>2. /\ Offset(i, o) = Offset(i, 0) + o /\ Offset(j, q) = Offset(j, 0) + q
      /\ Offset(i, ClusterSize) = Offset(i, 0) + ClusterSize
      /\ Offset(i, ClusterSize) = Offset(i + 1, 0)
      /\ Offset(i, 0) \in Nat /\ Offset(j, 0) \in Nat
  BY <1>1, OffsetIs
<1>3. i < j => Offset(i + 1, 0) <= Offset(j, 0)
  BY <1>1, OffsetGrows
<1> QED BY <1>1, <1>2, <1>3

\* As many clusters as the size asks for.
Fits(m, size) ==
    /\ m \in Nat /\ m >= 1
    /\ size <= Offset(m, 0)
    /\ m = 1 \/ size > Offset(m - 1, 0)

\* One number of clusters at most fits a size.
LEMMA FitsIsUnique ==
    ASSUME NEW size \in Nat, NEW m, NEW n, Fits(m, size), Fits(n, size)
    PROVE  m = n
<1>1. ASSUME NEW a, NEW b, Fits(a, size), Fits(b, size), a < b PROVE FALSE
  <2>1. a \in Nat /\ b \in Nat /\ b - 1 \in Nat /\ a <= b - 1 /\ b # 1 /\ size <= Offset(a, 0) /\ size > Offset(b - 1, 0)
    BY <1>1 DEF Fits
  <2>2. Offset(a, 0) <= Offset(b - 1, 0)
    BY <2>1, OffsetGrows
  <2>3. Offset(a, 0) \in Nat /\ Offset(b - 1, 0) \in Nat
    BY <2>1, OffsetIs
  <2> QED BY <2>1, <2>2, <2>3
<1>2. m \in Nat /\ n \in Nat
  BY DEF Fits
<1> QED BY <1>1, <1>2

\* The number of clusters that a file needs fits its size.
LEMMA NeededFits ==
    ASSUME NEW size \in Nat
    PROVE  Fits(Needed(size), size)
<1> DEFINE b == ClusterSize
           r == size + b - 1
<1>1. b \in Nat /\ b >= 1
  BY SizeIs
<1>2. CASE size = 0
  <2>1. Needed(size) = 1
    BY <1>2 DEF Needed
  <2>2. Offset(1, 0) \in Nat
    BY OffsetIs
  <2> QED BY <1>2, <2>1, <2>2 DEF Fits
<1>3. CASE size # 0
  <2>1. r \in Nat /\ size >= 1
    BY <1>1, <1>3
  <2>2. Needed(size) = r \div b
    BY <1>3 DEF Needed
  <2>3. r \div b \in Nat /\ r % b \in 0 .. b - 1 /\ r = Offset(r \div b, r % b)
    <3> HIDE DEF r
    <3> QED BY <2>1, OffsetOf
  <2> DEFINE m == r \div b
             o == r % b
  <2>4. m \in Nat /\ o \in 0 .. b - 1 /\ size + b - 1 = Offset(m, o)
    BY <2>3
  <2>5. Needed(size) = m
    BY <2>2
  <2> HIDE DEF m, o, r
  <2>6. Offset(m, o) = Offset(m, 0) + o /\ Offset(m, 0) \in Nat
    BY <1>1, <2>4, OffsetIs
  <2>7. m >= 1
    <3> SUFFICES ASSUME m = 0 PROVE FALSE
      BY <2>4
    <3>1. Offset(0, 0) = 0
      BY <1>1 DEF Offset
    <3> QED BY <1>1, <2>1, <2>4, <2>6, <3>1
  <2>8. size <= Offset(m, 0)
    BY <1>1, <2>1, <2>4, <2>6
  <2>9. size > Offset(m - 1, 0)
    <3>1. m - 1 \in Nat /\ (m - 1) + 1 = m
      BY <2>4, <2>7
    <3>2. Offset(m - 1, b) = Offset(m, 0) /\ Offset(m - 1, b) = Offset(m - 1, 0) + b /\ Offset(m - 1, 0) \in Nat
      BY <1>1, <3>1, OffsetIs
    <3> QED BY <1>1, <2>1, <2>4, <2>6, <3>2
  <2> QED BY <2>4, <2>5, <2>7, <2>8, <2>9 DEF Fits
<1> QED BY <1>2, <1>3

\* Hence it is the number that fits.
LEMMA FitsIsNeeded ==
    ASSUME NEW size \in Nat
    PROVE  \A m : Fits(m, size) <=> m = Needed(size)
BY NeededFits, FitsIsUnique

\* The end of a file lies in its last cluster.
LEMMA EndOffIs ==
    ASSUME NEW size \in Nat
    PROVE  EndOff(size) \in 0 .. ClusterSize /\ size = Offset(Needed(size) - 1, EndOff(size))
<1> DEFINE b == ClusterSize
           q == size \div b
           r == size % b
<1>1. b \in Nat /\ b >= 1
  BY SizeIs
<1>2. q \in Nat /\ r \in 0 .. b - 1 /\ size = Offset(q, r)
  BY OffsetOf
<1>3. EndOff(size) = IF size > 0 /\ r = 0 THEN b ELSE r
  BY DEF EndOff
<1> HIDE DEF b, q, r
<1>4. CASE size > 0 /\ r = 0
  <2>1. q # 0
    BY <1>1, <1>2, <1>4, SizeIs DEF Offset
  <2>2. q - 1 \in Nat /\ (q - 1) + 1 = q /\ q >= 1
    BY <1>2, <2>1
  <2>3. Offset(q - 1, b) = Offset(q, 0) /\ Offset(q - 1, b) = Offset(q - 1, 0) + b /\ Offset(q - 1, 0) \in Nat
    BY <1>1, <2>2, OffsetIs DEF b
  <2>4. Fits(q, size)
    BY <1>1, <1>2, <1>4, <2>2, <2>3 DEF Fits
  <2>5. Needed(size) = q
    BY <2>4, FitsIsNeeded
  <2> QED BY <1>1, <1>2, <1>3, <1>4, <2>3, <2>5 DEF b
<1>5. CASE size = 0
  <2>1. Needed(size) = 1
    BY <1>5 DEF Needed
  <2>2. Offset(0, 0) = 0
    BY SizeIs DEF Offset
  <2>3. r = 0
    <3>1. Offset(q, r) = Offset(q, 0) + r /\ Offset(q, 0) \in Nat
      BY <1>1, <1>2, OffsetIs
    <3>2. r \in Nat /\ Offset(q, r) = 0
      BY <1>1, <1>2, <1>5
    <3> QED BY <3>1, <3>2
  <2> QED BY <1>1, <1>3, <1>5, <2>1, <2>2, <2>3 DEF b
<1>6. CASE size > 0 /\ r # 0
  <2>1. q + 1 \in Nat /\ q + 1 >= 1 /\ (q + 1) - 1 = q /\ r \in Nat /\ r > 0 /\ r <= b
    BY <1>1, <1>2, <1>6
  <2>2. Offset(q, r) = Offset(q, 0) + r /\ Offset(q, b) = Offset(q + 1, 0) /\ Offset(q, b) = Offset(q, 0) + b
        /\ Offset(q, 0) \in Nat
    BY <1>1, <1>2, <2>1, OffsetIs DEF b
  <2>3. Fits(q + 1, size)
    BY <1>1, <1>2, <2>1, <2>2 DEF Fits
  <2>4. Needed(size) = q + 1
    BY <2>1, <2>3, FitsIsNeeded
  <2> QED BY <1>1, <1>2, <1>3, <1>6, <2>1, <2>4 DEF b
<1> QED BY <1>2, <1>4, <1>5, <1>6

\* A position on the card stands at byte p: in the i-th cluster of the chain.
StandsIn(lk, s, pos, i, p) == pos.cluster = Nth(lk, s, i) /\ p = Offset(i, pos.off)

Stands(lk, s, pos, p) == \E i \in Nat : StandsIn(lk, s, pos, i, p)

\* What the property calls a position of the file is one that stands there.
LEMMA DenotesIs ==
    ASSUME NEW pos \in Position, NEW p \in Nat
    PROVE  Denotes(pos, p) <=> Stands(link, h.start, pos, p)
<1> DEFINE b == ClusterSize
           q == p \div b
           r == p % b
<1>1. b \in Nat /\ b >= 1
  BY SizeIs
<1>2. q \in Nat /\ r \in 0 .. b - 1 /\ p = Offset(q, r)
  BY OffsetOf
<1>3. pos.off \in 0 .. b /\ pos.off \in Nat /\ pos = At(pos.cluster, pos.off)
  BY <1>1 DEF Position, At
<1>4. \A x, y : At(x, y).cluster = x /\ At(x, y).off = y
  BY DEF At
<1>5. Denotes(pos, p) <=> \/ pos = At(Nth(link, h.start, q), r)
                          \/ p > 0 /\ r = 0 /\ pos = At(Nth(link, h.start, q - 1), b)
  BY DEF Denotes
<1>6. ASSUME Denotes(pos, p) PROVE Stands(link, h.start, pos, p)
  <2> HIDE DEF b, q, r
  <2>1. CASE pos = At(Nth(link, h.start, q), r)
    <3>1. pos.cluster = Nth(link, h.start, q) /\ pos.off = r
      BY <1>4, <2>1
    <3> QED BY <1>2, <3>1 DEF Stands, StandsIn
  <2>2. CASE p > 0 /\ r = 0 /\ pos = At(Nth(link, h.start, q - 1), b)
    <3>1. pos.cluster = Nth(link, h.start, q - 1) /\ pos.off = b
      BY <1>4, <2>2
    <3>2. q # 0
      BY <1>2, <2>2, SizeIs DEF Offset
    <3>3. q - 1 \in Nat /\ (q - 1) + 1 = q
      BY <1>2, <3>2
    <3>4. Offset(q - 1, b) = Offset(q, 0)
      BY <1>1, <3>3, OffsetIs DEF b
    <3> QED BY <1>2, <2>2, <3>1, <3>3, <3>4 DEF Stands, StandsIn
  <2> QED BY <1>5, <1>6, <2>1, <2>2
<1>7. ASSUME Stands(link, h.start, pos, p) PROVE Denotes(pos, p)
  <2>1. PICK i \in Nat : pos.cluster = Nth(link, h.start, i) /\ p = Offset(i, pos.off)
    BY <1>7 DEF Stands, StandsIn
  <2>2. CASE pos.off < b
    <3>1. q = i /\ r = pos.off
      BY <1>3, <2>1, <2>2, OffsetIs
    <3> QED BY <1>3, <1>5, <2>1, <3>1
  <2>3. CASE pos.off = b
    <3>1. p = Offset(i + 1, 0) /\ i + 1 \in Nat /\ 0 < b /\ (i + 1) - 1 = i
      BY <1>1, <2>1, <2>3, OffsetIs
    <3>2. Offset(i + 1, 0) \div b = i + 1 /\ Offset(i + 1, 0) % b = 0
      BY <3>1, OffsetIs
    <3>3. q = i + 1 /\ r = 0
      BY <3>1, <3>2
    <3>4. p > 0
      <4>1. Offset(i, b) = Offset(i, 0) + b /\ Offset(i, 0) \in Nat
        BY <1>1, OffsetIs
      <4> QED BY <1>1, <2>1, <2>3, <4>1
    <3> HIDE DEF b, q, r
    <3> QED BY <1>3, <1>5, <2>1, <2>3, <3>1, <3>3, <3>4
  <2> QED BY <1>1, <1>3, <2>2, <2>3
<1> QED BY <1>6, <1>7

-----------------------------------------------------------------------------
(* Seeking                                                                 *)

\* A turn of seek's loop, and all of them.
WalkStep(x) ==
    IF NextOf(link, x.cluster) \in {FREE, EOF} THEN x
    ELSE [cluster |-> NextOf(link, x.cluster), left |-> x.left - 1]

WalkBy(g, c, n) ==
    /\ g \in [0 .. n -> [cluster : Entries, left : Int]]
    /\ g[0] = [cluster |-> c, left |-> n]
    /\ \A k \in Nat : k + 1 <= n => g[k + 1] = WalkStep(g[k])
    /\ Walked(c, n) = g[n]

\* The loop of seek takes its steps one by one.
LEMMA WalkRun ==
    ASSUME link \in Links, NEW c \in Entries, NEW n \in Nat
    PROVE  \E g : WalkBy(g, c, n)
<1> DEFINE W == [cluster : Entries, left : Int]
           x0 == [cluster |-> c, left |-> n]
           f == [x \in W |-> WalkStep(x)]
<1>1. x0 \in W
  OBVIOUS
<1>2. ASSUME NEW x \in W PROVE WalkStep(x) \in W
  <2>1. NextOf(link, x.cluster) \in {FREE, EOF} \/ NextOf(link, x.cluster) \in Entries
    BY NextOfIs DEF Cells
  <2> QED BY <2>1 DEF WalkStep
<1>3. f \in [W -> W]
  BY <1>2
<1>4. PICK g : UpTo(g, n, W, x0, f)
  <2> HIDE DEF f, W, x0
  <2> QED BY <1>1, <1>3, Iterates
<1>5. g \in [0 .. n -> W] /\ g[0] = x0 /\ \A k \in 0 .. n - 1 : g[k + 1] = f[g[k]]
  BY <1>4 DEF UpTo
<1>6. ASSUME NEW k \in Nat, k + 1 <= n PROVE g[k + 1] = WalkStep(g[k])
  <2>1. k \in 0 .. n - 1 /\ k \in 0 .. n
    BY <1>6
  <2>2. g[k] \in W /\ g[k + 1] = f[g[k]]
    <3> HIDE DEF f, W
    <3> QED BY <1>5, <2>1
  <2>3. \A x \in W : f[x] = WalkStep(x)
    OBVIOUS
  <2> HIDE DEF f, W
  <2> QED BY <2>2, <2>3
<1>7. Walked(c, n) = g[n]
  <2> DEFINE w[k \in 0 .. n] ==
                 IF k = 0 THEN [cluster |-> c, left |-> n]
                 ELSE IF NextOf(link, w[k - 1].cluster) \in {FREE, EOF} THEN w[k - 1]
                 ELSE [cluster |-> NextOf(link, w[k - 1].cluster), left |-> w[k - 1].left - 1]
  <2>1. Walked(c, n) = w[n]
    BY DEF Walked
  <2>2. g = [k \in 0 .. n |->
                 IF k = 0 THEN [cluster |-> c, left |-> n]
                 ELSE IF NextOf(link, g[k - 1].cluster) \in {FREE, EOF} THEN g[k - 1]
                 ELSE [cluster |-> NextOf(link, g[k - 1].cluster), left |-> g[k - 1].left - 1]]
    <3>1. ASSUME NEW k \in 0 .. n
          PROVE  g[k] = IF k = 0 THEN [cluster |-> c, left |-> n]
                        ELSE IF NextOf(link, g[k - 1].cluster) \in {FREE, EOF} THEN g[k - 1]
                        ELSE [cluster |-> NextOf(link, g[k - 1].cluster), left |-> g[k - 1].left - 1]
      <4>1. CASE k = 0
        BY <1>5, <4>1
      <4>2. CASE k # 0
        <5>1. k - 1 \in Nat /\ (k - 1) + 1 = k /\ (k - 1) + 1 <= n
          BY <4>2
        <5>2. g[k] = WalkStep(g[k - 1])
          BY <1>6, <5>1
        <5> QED BY <4>2, <5>2 DEF WalkStep
      <4> QED BY <4>1, <4>2
    <3>2. g = [k \in 0 .. n |-> g[k]]
      BY <1>5
    <3> QED BY <3>1, <3>2
  <2>3. w = [k \in 0 .. n |->
                 IF k = 0 THEN [cluster |-> c, left |-> n]
                 ELSE IF NextOf(link, w[k - 1].cluster) \in {FREE, EOF} THEN w[k - 1]
                 ELSE [cluster |-> NextOf(link, w[k - 1].cluster), left |-> w[k - 1].left - 1]]
    BY <2>2
  <2> HIDE DEF w
  <2>4. ASSUME NEW k \in Nat, k + 1 <= n PROVE w[k + 1] = WalkStep(w[k])
    <3>1. k + 1 \in 0 .. n /\ k + 1 # 0 /\ (k + 1) - 1 = k
      BY <2>4
    <3> QED BY <2>3, <3>1 DEF WalkStep
  <2>5. w[0] = x0
    <3>1. 0 \in 0 .. n
      OBVIOUS
    <3> QED BY <2>3, <3>1
  <2> DEFINE S == {j \in Nat : j <= n => w[j] = g[j]}
  <2>6. 0 \in S
    BY <1>5, <2>5
  <2>7. ASSUME NEW j \in Nat, j \in S PROVE j + 1 \in S
    <3> SUFFICES ASSUME j + 1 <= n PROVE w[j + 1] = g[j + 1]
      OBVIOUS
    <3>1. w[j] = g[j]
      BY <2>7
    <3> QED BY <1>6, <2>4, <3>1
  <2> HIDE DEF S
  <2>8. n \in S
    BY <2>6, <2>7, SetInduction
  <2> QED BY <2>1, <2>8 DEF S
<1> QED BY <1>5, <1>6, <1>7 DEF WalkBy

\* Wherever it ends is an entry of the table.
LEMMA WalkType ==
    ASSUME link \in Links, NEW c \in Entries, NEW n \in Nat
    PROVE  Walked(c, n).cluster \in Entries /\ Walked(c, n).left \in Int
<1>1. PICK g : WalkBy(g, c, n)
  BY WalkRun
<1>2. n \in 0 .. n
  OBVIOUS
<1> QED BY <1>1, <1>2 DEF WalkBy

\* Along a path the walk ends n clusters on, or in the last cluster.
LEMMA WalkPath ==
    ASSUME link \in Links, NEW s \in Cells, NEW m, Path(link, s, m), NEW i \in 0 .. m - 1,
           NEW c \in Entries, c = Nth(link, s, i), NEW n \in Nat
    PROVE  /\ i + n <= m - 1 => Walked(c, n).cluster = Nth(link, s, i + n) /\ Walked(c, n).left = 0
           /\ i + n > m - 1 => Walked(c, n).cluster = Nth(link, s, m - 1) /\ Walked(c, n).left > 0
<1>1. PICK g \in [0 .. n -> [cluster : Entries, left : Int]] :
              /\ g[0] = [cluster |-> c, left |-> n]
              /\ \A k \in Nat : k + 1 <= n => g[k + 1] = WalkStep(g[k])
              /\ Walked(c, n) = g[n]
  BY WalkRun DEF WalkBy
<1>2. /\ m \in Nat /\ m >= 1
      /\ \A j \in 0 .. m - 1 : Nth(link, s, j) \in Clusters
  BY PathStep
<1>3. NextOf(link, Nth(link, s, m - 1)) = EOF
  BY DEF Path
<1>4. \A j \in Nat : Nth(link, s, j + 1) = NextOf(link, Nth(link, s, j))
  BY NthIs
<1> DEFINE In(k) == g[k].cluster = Nth(link, s, i + k) /\ g[k].left = n - k
           Out(k) == g[k].cluster = Nth(link, s, m - 1) /\ g[k].left = n - (m - 1 - i)
           S == {k \in Nat : k <= n => (i + k <= m - 1 => In(k)) /\ (i + k > m - 1 => Out(k))}
<1>5. 0 \in S
  BY <1>1, <1>2
<1>6. ASSUME NEW k \in Nat, k \in S PROVE k + 1 \in S
  <2> SUFFICES ASSUME k + 1 <= n
               PROVE  (i + (k + 1) <= m - 1 => In(k + 1)) /\ (i + (k + 1) > m - 1 => Out(k + 1))
    OBVIOUS
  <2>1. g[k + 1] = WalkStep(g[k]) /\ k \in 0 .. n
    BY <1>1
  <2>2. i \in Nat /\ i + k \in Nat
    BY <1>2
  <2>3. CASE i + (k + 1) <= m - 1
    <3>1. In(k) /\ i + (k + 1) \in 0 .. m - 1 /\ i + (k + 1) = (i + k) + 1
      BY <1>2, <1>6, <2>2, <2>3
    <3>2. Nth(link, s, i + (k + 1)) = NextOf(link, g[k].cluster) /\ Nth(link, s, i + (k + 1)) \in Clusters
      BY <1>2, <1>4, <2>2, <3>1
    <3>3. g[k + 1] = [cluster |-> NextOf(link, g[k].cluster), left |-> g[k].left - 1]
      BY <2>1, <3>2, Numbers DEF WalkStep
    <3>4. In(k + 1)
      BY <3>1, <3>2, <3>3
    <3> QED BY <1>2, <2>2, <2>3, <3>4
  <2>4. CASE i + (k + 1) > m - 1
    <3>1. g[k].cluster = Nth(link, s, m - 1) /\ g[k].left = n - (m - 1 - i)
      <4>1. CASE i + k = m - 1
        <5>1. In(k)
          BY <1>2, <1>6, <2>2, <4>1
        <5>2. n - k = n - (m - 1 - i)
          BY <1>2, <2>2, <4>1
        <5> QED BY <4>1, <5>1, <5>2
      <4>2. CASE i + k > m - 1
        BY <1>6, <4>2
      <4> QED BY <1>2, <2>2, <2>4, <4>1, <4>2
    <3>2. g[k + 1] = g[k]
      BY <1>3, <2>1, <3>1 DEF WalkStep
    <3> HIDE DEF Walked
    <3> QED BY <1>2, <2>2, <2>4, <3>1, <3>2
  <2> QED BY <1>2, <2>2, <2>3, <2>4
<1> HIDE DEF S
<1>7. n \in S
  BY <1>5, <1>6, SetInduction
<1>8. (i + n <= m - 1 => In(n)) /\ (i + n > m - 1 => Out(n))
  BY <1>7 DEF S
<1> QED BY <1>1, <1>2, <1>8

-----------------------------------------------------------------------------
(* Transfers                                                               *)

\* Places are numbers.
LEMMA PlaceType == \A c \in Entries, o \in Nat : Place(c, o) \in Nat
<1>1. \A a, b \in Nat : a * b \in Nat
  OBVIOUS
<1>2. Entries \subseteq Nat
  BY Numbers
<1> QED BY <1>1, <1>2, SizeIs DEF Place

\* A sequence with r elements added.
LEMMA Joined ==
    ASSUME NEW s \in Seq(Nat), NEW r \in Nat, NEW e \in [1 .. r -> Nat]
    PROVE  /\ s \o e \in Seq(Nat) /\ Len(s \o e) = Len(s) + r
           /\ \A i \in 1 .. Len(s) : (s \o e)[i] = s[i]
           /\ \A i \in 1 .. r : (s \o e)[Len(s) + i] = e[i]
<1>1. e \in Seq(Nat) /\ Len(e) = r /\ Len(s) \in Nat
  OBVIOUS
<1>2. s \o e \in Seq(Nat) /\ Len(s \o e) = Len(s) + Len(e)
  BY <1>1
<1>3. \A i \in 1 .. Len(s) + Len(e) : (s \o e)[i] = IF i <= Len(s) THEN s[i] ELSE e[i - Len(s)]
  BY <1>1
<1>4. ASSUME NEW i \in 1 .. r PROVE (s \o e)[Len(s) + i] = e[i]
  <2>1. Len(s) + i \in 1 .. Len(s) + Len(e) /\ ~(Len(s) + i <= Len(s)) /\ (Len(s) + i) - Len(s) = i
    BY <1>1
  <2> QED BY <1>3, <2>1
<1> QED BY <1>1, <1>2, <1>3, <1>4

\* The traps that a transfer can meet.
MoveTraps == {"tail", "beyond", "short"}

\* Transfers of n bytes, on a table whose chains start at the roots R.
Transfers(n) ==
    [link : Clean, firstFree : FIRST .. LastCluster + 1, pos : Position, remain : 0 .. n,
     places : Seq(Nat), ok : BOOLEAN, aborted : BOOLEAN, traps : SUBSET MoveTraps]

\* Those with a good hint and chains that keep apart.
Sane(n, R) == {t \in Transfers(n) : Hint(t.link, t.firstFree) /\ Alone(t.link, R)}

\* A transfer of n bytes that is to begin at pos.
Begins(t, lk, ff, pos, n, R) ==
    /\ t \in Sane(n, R) /\ t.link = lk /\ t.firstFree = ff /\ t.pos = pos /\ t.remain = n
    /\ t.places = <<>> /\ t.ok = TRUE /\ t.aborted = FALSE /\ t.traps = {}

\* A transfer begins as it was asked for.
LEMMA TransferIs ==
    ASSUME NEW lk \in Clean, NEW ff, Hint(lk, ff), NEW R, Alone(lk, R), NEW pos \in Position,
           NEW n \in Nat
    PROVE  Begins(Transfer(lk, ff, pos, n), lk, ff, pos, n, R)
<1> DEFINE t == Transfer(lk, ff, pos, n)
<1>1. /\ t.link = lk /\ t.firstFree = ff /\ t.pos = pos /\ t.remain = n /\ t.places = <<>>
      /\ t.ok = TRUE /\ t.aborted = FALSE /\ t.traps = {}
  BY DEF Transfer
<1>2. ff \in FIRST .. LastCluster + 1 /\ n \in 0 .. n /\ <<>> \in Seq(Nat)
  BY DEF Hint
<1>3. t \in Transfers(n)
  BY <1>2 DEF Transfer, Transfers
<1> HIDE DEF t
<1>4. t \in Sane(n, R)
  BY <1>1, <1>3 DEF Sane
<1> QED BY <1>1, <1>4 DEF t, Begins

\* Growing a chain meets no other traps.
LEMMA TrapsType == \A c, res : Traps(c, res) \subseteq MoveTraps
BY DEF Traps, MoveTraps

\* What a transfer is after a cluster was asked for.
LEMMA GrownFields ==
    ASSUME NEW n, NEW t \in Transfers(n), NEW got,
           got.link \in Clean, got.firstFree \in FIRST .. LastCluster + 1, got.cluster \in Entries
    PROVE  LET u == Grown(t, got)
               c == IF got.cluster = FREE THEN t.pos.cluster ELSE got.cluster
           IN
           /\ u \in Transfers(n)
           /\ u.link = got.link /\ u.firstFree = got.firstFree
           /\ u.pos.cluster = c /\ u.pos.off = 0
           /\ u.remain = t.remain /\ u.places = t.places
           /\ u.ok = (got.cluster # FREE)
           /\ u.aborted = t.aborted /\ u.traps = t.traps \cup Traps(t.pos.cluster, got)
<1> DEFINE u == Grown(t, got)
           c == IF got.cluster = FREE THEN t.pos.cluster ELSE got.cluster
           tr == Traps(t.pos.cluster, got)
           k == got.cluster # FREE
<1>1. tr \subseteq MoveTraps /\ k \in BOOLEAN
  BY TrapsType
<1>2. c \in Entries /\ 0 \in 0 .. ClusterSize
  BY SizeIs DEF Transfers, Position
<1>3. At(c, 0) \in Position /\ At(c, 0).cluster = c /\ At(c, 0).off = 0
  <2> HIDE DEF c
  <2> QED BY <1>2 DEF At, Position
<1>4. u = [t EXCEPT !.link = got.link, !.firstFree = got.firstFree, !.pos = At(c, 0),
                    !.ok = k, !.traps = t.traps \cup tr]
  BY DEF Grown, Transfers
<1> HIDE DEF u, c, tr, k
<1>5. /\ u \in Transfers(n) /\ u.link = got.link /\ u.firstFree = got.firstFree /\ u.pos = At(c, 0)
      /\ u.remain = t.remain /\ u.places = t.places /\ u.ok = k /\ u.aborted = t.aborted
      /\ u.traps = t.traps \cup tr
  BY <1>1, <1>3, <1>4 DEF Transfers
<1>6. u.pos.cluster = c /\ u.pos.off = 0
  BY <1>3, <1>5
<1> QED BY <1>5, <1>6 DEF u, c, tr, k

\* A step on to the next cluster of the chain, for writes and reads.
Next(t) == NextOf(t.link, t.pos.cluster)
Moved(t) == [t EXCEPT !.pos = At(Next(t), 0)]

\* What it is after a move to the next cluster of the chain.
LEMMA MovedFields ==
    ASSUME NEW n, NEW t \in Transfers(n), Next(t) \notin {FREE, EOF}
    PROVE  /\ Moved(t) \in Transfers(n)
           /\ Moved(t).link = t.link /\ Moved(t).firstFree = t.firstFree
           /\ Moved(t).pos.cluster = Next(t) /\ Moved(t).pos.off = 0
           /\ Moved(t).remain = t.remain /\ Moved(t).places = t.places
           /\ Moved(t).ok = t.ok /\ Moved(t).aborted = t.aborted /\ Moved(t).traps = t.traps
<1> DEFINE c == Next(t)
<1>1. c \in Entries
  <2>1. t.link \in Links /\ t.pos.cluster \in Entries
    BY CleanIs DEF Transfers, Position
  <2> QED BY <2>1 DEF Next, NextOf, Links
<1>2. At(c, 0) \in Position /\ At(c, 0).cluster = c /\ At(c, 0).off = 0
  <2> HIDE DEF c
  <2> QED BY <1>1, SizeIs DEF At, Position
<1>3. Moved(t) = [t EXCEPT !.pos = At(c, 0)]
  BY DEF Moved
<1> HIDE DEF c
<1>4. /\ Moved(t) \in Transfers(n) /\ Moved(t).pos = At(c, 0)
      /\ Moved(t).link = t.link /\ Moved(t).firstFree = t.firstFree
      /\ Moved(t).remain = t.remain /\ Moved(t).places = t.places
      /\ Moved(t).ok = t.ok /\ Moved(t).aborted = t.aborted /\ Moved(t).traps = t.traps
  BY <1>2, <1>3 DEF Transfers
<1> QED BY <1>2, <1>4 DEF c

\* What linkFreeCluster gives a transfer.
Got(t) == LinkFree(t.link, t.firstFree, t.pos.cluster)

\* How a write moves on: not at all, by growing, or along the chain.
LEMMA MoveWriteIs ==
    ASSUME NEW n, NEW t \in Transfers(n)
    PROVE  /\ t.pos.off < ClusterSize => MoveWrite(t) = t
           /\ ~(t.pos.off < ClusterSize) /\ Next(t) \in {FREE, EOF} => MoveWrite(t) = Grown(t, Got(t))
           /\ ~(t.pos.off < ClusterSize) /\ Next(t) \notin {FREE, EOF} => MoveWrite(t) = Moved(t)
BY DEF MoveWrite, Next, Got, Moved

\* How a read moves on: not at all, into the end of the chain, or along it.
LEMMA MoveReadIs ==
    ASSUME NEW n, NEW t \in Transfers(n)
    PROVE  /\ t.pos.off < ClusterSize => MoveRead(t) = t
           /\ ~(t.pos.off < ClusterSize) /\ Next(t) \in {FREE, EOF} =>
                MoveRead(t) = [t EXCEPT !.ok = FALSE, !.traps = {"short"}]
           /\ ~(t.pos.off < ClusterSize) /\ Next(t) \notin {FREE, EOF} => MoveRead(t) = Moved(t)
BY DEF MoveRead, Next, Moved

\* Nothing is written past the table while a cluster is free.
OnCard(t) ==
    /\ ~t.ok => Full(t.link) /\ t.pos.off = 0
    /\ t.pos.cluster = LastCluster + 1 => Full(t.link)
    /\ Inside(t.link) \/ Full(t.link)

\* A write that moves on keeps the table, and its errors are a full card's.
LEMMA MoveWriteSane ==
    ASSUME NEW n, NEW R, NEW t \in Sane(n, R)
    PROVE  /\ MoveWrite(t) \in Sane(n, R)
           /\ MoveWrite(t).remain = t.remain /\ MoveWrite(t).places = t.places
           /\ MoveWrite(t).aborted = t.aborted /\ t.traps \subseteq MoveWrite(t).traps
           /\ t.ok /\ MoveWrite(t).ok => MoveWrite(t).pos.off < ClusterSize
           /\ t.ok /\ OnCard(t) => OnCard(MoveWrite(t))
           /\ ~(t.pos.off < ClusterSize) => MoveWrite(t).pos.off = 0
<1> DEFINE u == MoveWrite(t)
<1>1. t \in Transfers(n) /\ Hint(t.link, t.firstFree) /\ Alone(t.link, R)
      /\ t.link \in Clean /\ t.pos.cluster \in Entries
  BY DEF Sane, Transfers, Position
<1>2. CASE t.pos.off < ClusterSize
  <2>1. u = t
    BY <1>1, <1>2, MoveWriteIs
  <2> HIDE DEF u
  <2> QED BY <1>2, <2>1 DEF u
<1>3. CASE ~(t.pos.off < ClusterSize) /\ Next(t) \notin {FREE, EOF}
  <2>1. u = Moved(t)
    BY <1>1, <1>3, MoveWriteIs
  <2> HIDE DEF u
  <2>2. /\ u \in Transfers(n)
        /\ u.link = t.link /\ u.firstFree = t.firstFree
        /\ u.pos.cluster = Next(t) /\ u.pos.off = 0
        /\ u.remain = t.remain /\ u.places = t.places
        /\ u.ok = t.ok /\ u.aborted = t.aborted /\ u.traps = t.traps
    BY <1>1, <1>3, <2>1, MovedFields
  <2>3. OnCard(t) => (u.pos.cluster = LastCluster + 1 => Full(u.link))
    <3> SUFFICES ASSUME OnCard(t), Next(t) = LastCluster + 1 PROVE Full(t.link)
      BY <2>2
    <3>1. t.pos.cluster \in Clusters => Full(t.link)
      BY <1>1, Numbers DEF OnCard, Inside, Next, NextOf
    <3>2. t.pos.cluster < FIRST => Next(t) = EOF
      BY <1>1, CleanIs, Numbers DEF Next, NextOf, Tables
    <3> QED BY <1>1, <3>1, <3>2, Numbers DEF OnCard
  <2> QED BY <1>1, <2>2, <2>3, SizeIs DEF u, Sane, OnCard
<1>4. CASE ~(t.pos.off < ClusterSize) /\ Next(t) \in {FREE, EOF}
  <2> DEFINE got == Got(t)
  <2>1. u = Grown(t, got)
    BY <1>1, <1>4, MoveWriteIs
  <2>2. /\ got.link \in Clean /\ Hint(got.link, got.firstFree) /\ Alone(got.link, R)
        /\ got.cluster \in Entries
        /\ got.cluster = FREE => Full(got.link) \/ (t.pos.cluster = LastCluster + 1 /\ got.link = t.link)
        /\ got.cluster = LastCluster + 1 => Full(got.link)
        /\ Full(t.link) => Full(got.link)
        /\ Inside(t.link) => Inside(got.link) \/ got.cluster = LastCluster + 1
    BY <1>1, LinkFreeKeeps DEF Got
  <2> HIDE DEF u, got
  <2>3. got.firstFree \in FIRST .. LastCluster + 1
    BY <2>2 DEF Hint
  <2>4. /\ u \in Transfers(n)
        /\ u.link = got.link /\ u.firstFree = got.firstFree
        /\ u.pos.cluster = (IF got.cluster = FREE THEN t.pos.cluster ELSE got.cluster) /\ u.pos.off = 0
        /\ u.remain = t.remain /\ u.places = t.places
        /\ u.ok = (got.cluster # FREE)
        /\ u.aborted = t.aborted /\ u.traps = t.traps \cup Traps(t.pos.cluster, got)
    BY <1>1, <2>1, <2>2, <2>3, GrownFields
  <2>5. u \in Sane(n, R)
    BY <2>2, <2>4 DEF Sane
  <2>6. OnCard(t) => OnCard(u)
    BY <2>2, <2>4 DEF OnCard
  <2> QED BY <2>4, <2>5, <2>6, SizeIs DEF u
<1> QED BY <1>2, <1>3, <1>4

\* Inside the chain a read moves on as a write does.
LEMMA MoveReadSane ==
    ASSUME NEW n, NEW R, NEW t \in Sane(n, R)
    PROVE  /\ MoveRead(t) \in Sane(n, R)
           /\ MoveRead(t).remain = t.remain /\ MoveRead(t).places = t.places
           /\ t.ok /\ Next(t) \notin {FREE, EOF} => MoveRead(t) = MoveWrite(t)
<1> DEFINE u == MoveRead(t)
<1>1. t \in Transfers(n)
  BY DEF Sane
<1>2. CASE t.pos.off < ClusterSize
  <2>1. u = t /\ MoveWrite(t) = t
    BY <1>1, <1>2, MoveWriteIs, MoveReadIs
  <2> HIDE DEF u
  <2> QED BY <2>1 DEF u
<1>3. CASE ~(t.pos.off < ClusterSize) /\ Next(t) \notin {FREE, EOF}
  <2>1. u = MoveWrite(t)
    BY <1>1, <1>3, MoveWriteIs, MoveReadIs
  <2> QED BY <2>1, MoveWriteSane
<1>4. CASE ~(t.pos.off < ClusterSize) /\ Next(t) \in {FREE, EOF}
  <2>1. u = [t EXCEPT !.ok = FALSE, !.traps = {"short"}]
    BY <1>1, <1>4, MoveReadIs
  <2>2. {"short"} \subseteq MoveTraps /\ FALSE \in BOOLEAN
    BY DEF MoveTraps
  <2> HIDE DEF u
  <2>3. /\ u \in Transfers(n) /\ u.remain = t.remain /\ u.places = t.places
        /\ u.link = t.link /\ u.firstFree = t.firstFree
    BY <1>1, <2>1, <2>2 DEF Transfers
  <2>4. u \in Sane(n, R)
    BY <2>3 DEF Sane
  <2> QED BY <1>4, <2>3, <2>4 DEF u
<1> QED BY <1>2, <1>3, <1>4

\* The places that a piece of r bytes adds.
Adds(t, u, r) ==
    /\ Len(u.places) = Len(t.places) + r
    /\ \A i \in 1 .. Len(t.places) : u.places[i] = t.places[i]
    /\ \A i \in 1 .. r : u.places[Len(t.places) + i] = Place(t.pos.cluster, t.pos.off + i - 1)

\* A piece goes to the end of the transfer or of the cluster.
LEMMA PieceIs ==
    ASSUME NEW n \in Nat, NEW R, NEW t \in Sane(n, R)
    PROVE  /\ Piece(t) \in Sane(n, R)
           /\ Piece(t).link = t.link /\ Piece(t).firstFree = t.firstFree
           /\ Piece(t).ok = t.ok /\ Piece(t).aborted = t.aborted /\ Piece(t).traps = t.traps
           /\ Piece(t).pos.cluster = t.pos.cluster
           /\ Room(t) \in Nat /\ Room(t) <= t.remain /\ Room(t) <= ClusterSize - t.pos.off
           /\ Room(t) = t.remain \/ Room(t) = ClusterSize - t.pos.off
           /\ Piece(t).pos.off = t.pos.off + Room(t)
           /\ Piece(t).remain = t.remain - Room(t)
           /\ Adds(t, Piece(t), Room(t))
<1> DEFINE r == Room(t)
           x == t.pos.cluster
           o == t.pos.off
           e == [i \in 1 .. r |-> Place(x, o + i - 1)]
           pl == t.places \o e
           u == Piece(t)
<1>1. /\ t \in Transfers(n) /\ t.remain \in Nat /\ t.remain <= n /\ x \in Entries /\ o \in Nat
      /\ o <= ClusterSize /\ ClusterSize \in Nat /\ t.pos \in Position /\ t.places \in Seq(Nat)
  BY SizeIs DEF Sane, Transfers, Position
<1>2. r \in Nat /\ r <= t.remain /\ r <= ClusterSize - o /\ (r = t.remain \/ r = ClusterSize - o)
  BY <1>1 DEF Room
<1>3. u = [t EXCEPT !.pos = [t.pos EXCEPT !.off = o + r], !.remain = t.remain - r, !.places = pl]
  BY <1>1 DEF Piece, Transfers, Position
<1> HIDE DEF r
<1>4. e \in [1 .. r -> Nat]
  <2>1. ASSUME NEW i \in 1 .. r PROVE Place(x, o + i - 1) \in Nat
    <3>1. o + i - 1 \in Nat
      BY <1>1, <1>2
    <3> QED BY <1>1, <3>1, PlaceType
  <2> QED BY <2>1
<1>5. \A i \in 1 .. r : e[i] = Place(x, o + i - 1)
  OBVIOUS
<1> HIDE DEF e
<1>6. /\ pl \in Seq(Nat) /\ Len(pl) = Len(t.places) + r
      /\ \A i \in 1 .. Len(t.places) : pl[i] = t.places[i]
      /\ \A i \in 1 .. r : pl[Len(t.places) + i] = e[i]
  BY <1>1, <1>2, <1>4, Joined
<1> HIDE DEF pl, u, x, o
<1> DEFINE p == [t.pos EXCEPT !.off = o + r]
<1>7. p \in Position /\ p.cluster = x /\ p.off = o + r
  <2>1. o + r \in 0 .. ClusterSize
    BY <1>1, <1>2
  <2> DEFINE q == o + r
  <2> HIDE DEF q
  <2>2. q \in 0 .. ClusterSize
    BY <2>1 DEF q
  <2>3. [t.pos EXCEPT !.off = q] \in Position /\ [t.pos EXCEPT !.off = q].cluster = x
        /\ [t.pos EXCEPT !.off = q].off = q
    BY <1>1, <2>2 DEF Position, x
  <2> QED BY <2>3 DEF q
<1> HIDE DEF p
<1>8. u = [t EXCEPT !.pos = p, !.remain = t.remain - r, !.places = pl]
  BY <1>3 DEF p
<1>9. t.remain - r \in 0 .. n
  BY <1>1, <1>2
<1>10. /\ u \in Transfers(n) /\ u.link = t.link /\ u.firstFree = t.firstFree
       /\ u.ok = t.ok /\ u.aborted = t.aborted /\ u.traps = t.traps
       /\ u.pos = p /\ u.remain = t.remain - r /\ u.places = pl
  BY <1>1, <1>6, <1>7, <1>8, <1>9 DEF Transfers
<1>11. u \in Sane(n, R)
  BY <1>10 DEF Sane
<1>12. Adds(t, u, r)
  BY <1>5, <1>6, <1>10 DEF Adds, x, o
<1> QED BY <1>2, <1>7, <1>10, <1>11, <1>12 DEF u, r, x, o

\* One turn of the loop of a transfer: a piece, and on to the next cluster.
WriteTurn(t) == Onward(IF t.ok THEN Piece(t) ELSE t, MoveWrite)
ReadTurn(t) == Onward(IF t.ok THEN Piece(t) ELSE t, MoveRead)

\* A turn by its cases.
LEMMA TurnIs ==
    ASSUME NEW t
    PROVE  /\ ~t.ok => WriteTurn(t) = t /\ ReadTurn(t) = t
           /\ t.ok /\ (~Piece(t).ok \/ Piece(t).remain = 0) =>
                 WriteTurn(t) = Piece(t) /\ ReadTurn(t) = Piece(t)
           /\ t.ok /\ ~(~Piece(t).ok \/ Piece(t).remain = 0) =>
                 WriteTurn(t) = MoveWrite(Piece(t)) /\ ReadTurn(t) = MoveRead(Piece(t))
BY DEF WriteTurn, ReadTurn, Onward

\* A turn keeps the table.
LEMMA TurnSane ==
    ASSUME NEW n \in Nat, NEW R, NEW t \in Sane(n, R)
    PROVE  WriteTurn(t) \in Sane(n, R) /\ ReadTurn(t) \in Sane(n, R)
<1>1. CASE ~t.ok
  BY <1>1, TurnIs
<1>2. CASE t.ok
  <2>1. Piece(t) \in Sane(n, R)
    BY PieceIs
  <2>2. MoveWrite(Piece(t)) \in Sane(n, R) /\ MoveRead(Piece(t)) \in Sane(n, R)
    BY <2>1, MoveWriteSane, MoveReadSane
  <2> QED BY <1>2, <2>1, <2>2, TurnIs
<1> QED BY <1>1, <1>2

\* The turns that a transfer needs at most, and the states it goes through.
Last(t) == (t.remain \div ClusterSize) + 2

WritesBy(g, t, n, R) ==
    /\ g \in [Nat -> Sane(n, R)]
    /\ g[0] = MoveWrite(t)
    /\ \A k \in Nat : g[k + 1] = WriteTurn(g[k])
    /\ Run(t, MoveWrite) = g[Last(t)]

ReadsBy(g, t, n, R) ==
    /\ g \in [Nat -> Sane(n, R)]
    /\ g[0] = MoveRead(t)
    /\ \A k \in Nat : g[k + 1] = ReadTurn(g[k])
    /\ Run(t, MoveRead) = g[Last(t)]

\* The loop of a write is a run of turns.
LEMMA WriteRun ==
    ASSUME NEW n \in Nat, NEW R, NEW t \in Sane(n, R)
    PROVE  \E g : WritesBy(g, t, n, R)
<1> DEFINE T == Sane(n, R)
           x0 == MoveWrite(t)
           f == [x \in T |-> WriteTurn(x)]
<1>1. x0 \in T
  BY MoveWriteSane
<1>2. \A x \in T : WriteTurn(x) \in T
  BY TurnSane
<1> HIDE DEF T, x0
<1>3. f \in [T -> T]
  BY <1>2
<1>4. PICK g : EverOn(g, T, x0, f)
  <2> HIDE DEF f
  <2> QED BY <1>1, <1>3, IteratesForEver
<1>5. g \in [Nat -> T] /\ g[0] = x0 /\ \A k \in Nat : g[k + 1] = f[g[k]]
  BY <1>4 DEF EverOn
<1>6. ASSUME NEW k \in Nat PROVE g[k + 1] = WriteTurn(g[k])
  <2>1. g[k] \in T /\ g[k + 1] = f[g[k]]
    <3> HIDE DEF f
    <3> QED BY <1>5
  <2>2. \A x \in T : f[x] = WriteTurn(x)
    OBVIOUS
  <2> HIDE DEF f
  <2> QED BY <2>1, <2>2
<1>7. Last(t) \in Nat
  <2>1. t.remain \in Nat
    BY DEF Sane, Transfers
  <2>2. t.remain \div ClusterSize \in Nat
    BY <2>1, OffsetOf
  <2> QED BY <2>2 DEF Last
<1>8. Run(t, MoveWrite) = g[Last(t)]
  <2> DEFINE run[k \in Nat] ==
                 IF k = 0 THEN MoveWrite(t)
                 ELSE Onward(IF run[k - 1].ok THEN Piece(run[k - 1]) ELSE run[k - 1], MoveWrite)
  <2>1. Run(t, MoveWrite) = run[Last(t)]
    BY DEF Run, Last
  <2>2. g = [k \in Nat |->
                 IF k = 0 THEN MoveWrite(t)
                 ELSE Onward(IF g[k - 1].ok THEN Piece(g[k - 1]) ELSE g[k - 1], MoveWrite)]
    <3>1. ASSUME NEW k \in Nat
          PROVE  g[k] = IF k = 0 THEN MoveWrite(t)
                        ELSE Onward(IF g[k - 1].ok THEN Piece(g[k - 1]) ELSE g[k - 1], MoveWrite)
      <4>1. CASE k = 0
        BY <1>5, <4>1 DEF x0
      <4>2. CASE k # 0
        <5>1. k - 1 \in Nat /\ (k - 1) + 1 = k
          BY <4>2
        <5>2. g[k] = WriteTurn(g[k - 1])
          BY <1>6, <5>1
        <5> QED BY <4>2, <5>2 DEF WriteTurn
      <4> QED BY <4>1, <4>2
    <3>2. g = [k \in Nat |-> g[k]]
      BY <1>5
    <3> QED BY <3>1, <3>2
  <2>3. run = [k \in Nat |->
                 IF k = 0 THEN MoveWrite(t)
                 ELSE Onward(IF run[k - 1].ok THEN Piece(run[k - 1]) ELSE run[k - 1], MoveWrite)]
    BY <2>2
  <2> HIDE DEF run
  <2>4. ASSUME NEW k \in Nat PROVE run[k + 1] = WriteTurn(run[k])
    <3>1. k + 1 \in Nat /\ k + 1 # 0 /\ (k + 1) - 1 = k
      OBVIOUS
    <3> QED BY <2>3, <3>1 DEF WriteTurn
  <2>5. run[0] = x0
    <3>1. 0 \in Nat
      OBVIOUS
    <3> QED BY <2>3, <3>1 DEF x0
  <2> DEFINE S == {j \in Nat : run[j] = g[j]}
  <2>6. 0 \in S
    BY <1>5, <2>5
  <2>7. ASSUME NEW j \in Nat, j \in S PROVE j + 1 \in S
    BY <1>6, <2>4, <2>7
  <2> HIDE DEF S
  <2>8. Last(t) \in S
    BY <1>7, <2>6, <2>7, SetInduction
  <2> QED BY <2>1, <2>8 DEF S
<1> QED BY <1>5, <1>6, <1>8 DEF WritesBy, T, x0

\* The loop of a read is a run of turns.
LEMMA ReadRun ==
    ASSUME NEW n \in Nat, NEW R, NEW t \in Sane(n, R)
    PROVE  \E g : ReadsBy(g, t, n, R)
<1> DEFINE T == Sane(n, R)
           x0 == MoveRead(t)
           f == [x \in T |-> ReadTurn(x)]
<1>1. x0 \in T
  BY MoveReadSane
<1>2. \A x \in T : ReadTurn(x) \in T
  BY TurnSane
<1> HIDE DEF T, x0
<1>3. f \in [T -> T]
  BY <1>2
<1>4. PICK g : EverOn(g, T, x0, f)
  <2> HIDE DEF f
  <2> QED BY <1>1, <1>3, IteratesForEver
<1>5. g \in [Nat -> T] /\ g[0] = x0 /\ \A k \in Nat : g[k + 1] = f[g[k]]
  BY <1>4 DEF EverOn
<1>6. ASSUME NEW k \in Nat PROVE g[k + 1] = ReadTurn(g[k])
  <2>1. g[k] \in T /\ g[k + 1] = f[g[k]]
    <3> HIDE DEF f
    <3> QED BY <1>5
  <2>2. \A x \in T : f[x] = ReadTurn(x)
    OBVIOUS
  <2> HIDE DEF f
  <2> QED BY <2>1, <2>2
<1>7. Last(t) \in Nat
  <2>1. t.remain \in Nat
    BY DEF Sane, Transfers
  <2>2. t.remain \div ClusterSize \in Nat
    BY <2>1, OffsetOf
  <2> QED BY <2>2 DEF Last
<1>8. Run(t, MoveRead) = g[Last(t)]
  <2> DEFINE run[k \in Nat] ==
                 IF k = 0 THEN MoveRead(t)
                 ELSE Onward(IF run[k - 1].ok THEN Piece(run[k - 1]) ELSE run[k - 1], MoveRead)
  <2>1. Run(t, MoveRead) = run[Last(t)]
    BY DEF Run, Last
  <2>2. g = [k \in Nat |->
                 IF k = 0 THEN MoveRead(t)
                 ELSE Onward(IF g[k - 1].ok THEN Piece(g[k - 1]) ELSE g[k - 1], MoveRead)]
    <3>1. ASSUME NEW k \in Nat
          PROVE  g[k] = IF k = 0 THEN MoveRead(t)
                        ELSE Onward(IF g[k - 1].ok THEN Piece(g[k - 1]) ELSE g[k - 1], MoveRead)
      <4>1. CASE k = 0
        BY <1>5, <4>1 DEF x0
      <4>2. CASE k # 0
        <5>1. k - 1 \in Nat /\ (k - 1) + 1 = k
          BY <4>2
        <5>2. g[k] = ReadTurn(g[k - 1])
          BY <1>6, <5>1
        <5> QED BY <4>2, <5>2 DEF ReadTurn
      <4> QED BY <4>1, <4>2
    <3>2. g = [k \in Nat |-> g[k]]
      BY <1>5
    <3> QED BY <3>1, <3>2
  <2>3. run = [k \in Nat |->
                 IF k = 0 THEN MoveRead(t)
                 ELSE Onward(IF run[k - 1].ok THEN Piece(run[k - 1]) ELSE run[k - 1], MoveRead)]
    BY <2>2
  <2> HIDE DEF run
  <2>4. ASSUME NEW k \in Nat PROVE run[k + 1] = ReadTurn(run[k])
    <3>1. k + 1 \in Nat /\ k + 1 # 0 /\ (k + 1) - 1 = k
      OBVIOUS
    <3> QED BY <2>3, <3>1 DEF ReadTurn
  <2>5. run[0] = x0
    <3>1. 0 \in Nat
      OBVIOUS
    <3> QED BY <2>3, <3>1 DEF x0
  <2> DEFINE S == {j \in Nat : run[j] = g[j]}
  <2>6. 0 \in S
    BY <1>5, <2>5
  <2>7. ASSUME NEW j \in Nat, j \in S PROVE j + 1 \in S
    BY <1>6, <2>4, <2>7
  <2> HIDE DEF S
  <2>8. Last(t) \in S
    BY <1>7, <2>6, <2>7, SetInduction
  <2> QED BY <2>1, <2>8 DEF S
<1> QED BY <1>5, <1>6, <1>8 DEF ReadsBy, T, x0

-----------------------------------------------------------------------------
(* What a transfer ends with                                               *)

\* A turn finds the card as a move does.
LEMMA TurnOnCard ==
    ASSUME NEW n \in Nat, NEW R, NEW t \in Sane(n, R), OnCard(t)
    PROVE  OnCard(WriteTurn(t))
<1>1. CASE ~t.ok
  BY <1>1, TurnIs
<1>2. CASE t.ok
  <2> DEFINE u == Piece(t)
  <2>1. u \in Sane(n, R) /\ u.link = t.link /\ u.ok = t.ok /\ u.pos.cluster = t.pos.cluster
    BY PieceIs
  <2>2. (~u.ok \/ u.remain = 0 => WriteTurn(t) = u) /\ (~(~u.ok \/ u.remain = 0) => WriteTurn(t) = MoveWrite(u))
    BY <1>2, TurnIs
  <2> HIDE DEF u
  <2>3. OnCard(u)
    BY <1>2, <2>1 DEF OnCard
  <2>4. OnCard(MoveWrite(u))
    BY <1>2, <2>1, <2>3, MoveWriteSane
  <2> QED BY <2>2, <2>3, <2>4
<1> QED BY <1>1, <1>2

\* Every turn does, hence the whole run.
LEMMA RunOnCard ==
    ASSUME NEW n \in Nat, NEW R, NEW t \in Sane(n, R), t.ok, OnCard(t)
    PROVE  OnCard(Run(t, MoveWrite))
<1>1. PICK g : WritesBy(g, t, n, R)
  BY WriteRun
<1> DEFINE S == {k \in Nat : OnCard(g[k])}
<1>2. 0 \in S
  BY <1>1, MoveWriteSane DEF WritesBy
<1>3. ASSUME NEW k \in Nat, k \in S PROVE k + 1 \in S
  BY <1>1, <1>3, TurnOnCard DEF WritesBy
<1>4. Last(t) \in Nat
  <2>1. t.remain \in Nat
    BY DEF Sane, Transfers
  <2> QED BY <2>1, OffsetOf DEF Last
<1> HIDE DEF S
<1>5. Last(t) \in S
  BY <1>2, <1>3, <1>4, SetInduction
<1> QED BY <1>1, <1>5 DEF S, WritesBy

\* Every piece but the first starts a cluster and fills it.
Progress(u, t, k) ==
    /\ u.remain <= t.remain /\ u.aborted = t.aborted /\ t.traps \subseteq u.traps
    /\ u.ok /\ u.remain > 0 => u.pos.off < ClusterSize
    /\ u.ok /\ u.remain > 0 /\ k > 0 =>
          u.pos.off = 0 /\ t.remain - u.remain > Offset(k - 1, 0)
    /\ u.ok /\ u.remain = 0 /\ t.remain > 0 => u.pos.off > 0

\* A turn moves as far as it can, so that the turns suffice.
LEMMA TurnProgress ==
    ASSUME NEW n \in Nat, NEW R, NEW t \in Sane(n, R), NEW u \in Sane(n, R), NEW k \in Nat,
           Progress(u, t, k)
    PROVE  Progress(WriteTurn(u), t, k + 1)
<1>1. CASE ~u.ok
  BY <1>1, TurnIs DEF Progress
<1>2. CASE u.ok
  <2> DEFINE v == Piece(u)
             r == Room(u)
             b == ClusterSize
  <2>1. /\ v \in Sane(n, R) /\ v.ok = u.ok /\ v.aborted = u.aborted /\ v.traps = u.traps
        /\ r \in Nat /\ r <= u.remain /\ r <= b - u.pos.off
        /\ r = u.remain \/ r = b - u.pos.off
        /\ v.pos.off = u.pos.off + r /\ v.remain = u.remain - r
    BY PieceIs
  <2>2. /\ ~v.ok \/ v.remain = 0 => WriteTurn(u) = v
        /\ ~(~v.ok \/ v.remain = 0) => WriteTurn(u) = MoveWrite(v)
    BY <1>2, TurnIs
  <2>3. u.pos.off \in Nat /\ u.remain \in Nat /\ t.remain \in Nat /\ b \in Nat /\ b >= 1
        /\ u.pos.off <= b
    BY SizeIs DEF Sane, Transfers, Position
  <2> HIDE DEF v, r, b
  <2>4. CASE v.remain = 0
    <3>1. WriteTurn(u) = v
      BY <2>2, <2>4
    <3>2. t.remain > 0 => v.pos.off > 0
      <4>1. CASE u.remain > 0
        <5>1. u.pos.off < b
          BY <1>2, <4>1 DEF Progress, b
        <5> QED BY <2>1, <2>3, <4>1, <5>1
      <4>2. CASE u.remain = 0
        <5>1. t.remain > 0 => u.pos.off > 0
          BY <1>2, <4>2 DEF Progress
        <5> QED BY <2>1, <2>3, <4>2, <5>1
      <4> QED BY <2>3, <4>1, <4>2
    <3>3. v.remain <= t.remain /\ v.aborted = t.aborted /\ t.traps \subseteq v.traps
      BY <2>1, <2>3 DEF Progress
    <3> QED BY <2>4, <3>1, <3>2, <3>3 DEF Progress
  <2>5. CASE v.remain # 0
    <3> DEFINE w == MoveWrite(v)
    <3>1. WriteTurn(u) = w
      BY <1>2, <2>1, <2>2, <2>5
    <3>2. v.remain > 0 /\ r = b - u.pos.off /\ v.pos.off = b /\ u.remain > 0
      BY <2>1, <2>3, <2>5
    <3>3. w.remain = v.remain /\ w.aborted = v.aborted /\ v.traps \subseteq w.traps /\ w.pos.off = 0
      BY <2>1, <2>3, <3>2, MoveWriteSane DEF b
    <3> HIDE DEF w
    <3>4. t.remain - v.remain > Offset(k, 0)
      <4>1. u.pos.off < b /\ u.remain <= t.remain
        BY <1>2, <3>2 DEF Progress, b
      <4>2. CASE k = 0
        <5>1. Offset(0, 0) = 0
          BY SizeIs DEF Offset
        <5> QED BY <2>1, <2>3, <3>2, <4>1, <4>2, <5>1
      <4>3. CASE k > 0
        <5>1. u.pos.off = 0 /\ t.remain - u.remain > Offset(k - 1, 0)
          BY <1>2, <3>2, <4>3 DEF Progress
        <5>2. k - 1 \in Nat /\ (k - 1) + 1 = k
          BY <4>3
        <5>3. Offset(k - 1, b) = Offset(k, 0) /\ Offset(k - 1, b) = Offset(k - 1, 0) + b
              /\ Offset(k - 1, 0) \in Nat
          BY <2>3, <5>2, OffsetIs DEF b
        <5> QED BY <2>1, <2>3, <3>2, <5>1, <5>3
      <4> QED BY <4>2, <4>3
    <3>5. (k + 1) - 1 = k
      OBVIOUS
    <3>6. w.remain <= t.remain /\ w.aborted = t.aborted /\ t.traps \subseteq w.traps /\ w.remain > 0
      BY <2>1, <2>3, <3>2, <3>3 DEF Progress
    <3>7. w.pos.off < ClusterSize /\ t.remain - w.remain > Offset((k + 1) - 1, 0)
      BY <2>3, <3>3, <3>4, <3>5 DEF b
    <3> QED BY <3>1, <3>3, <3>6, <3>7 DEF Progress
  <2> QED BY <2>4, <2>5
<1> QED BY <1>1, <1>2

\* A write that is not stopped writes everything, and its last piece is not
\* empty.
LEMMA RunEnds ==
    ASSUME NEW n \in Nat, NEW R, NEW t \in Sane(n, R), t.ok
    PROVE  LET u == Run(t, MoveWrite) IN
           /\ u \in Sane(n, R) /\ u.aborted = t.aborted /\ t.traps \subseteq u.traps
           /\ u.remain <= t.remain
           /\ u.ok => u.remain = 0
           /\ u.ok /\ t.remain > 0 => u.pos.off > 0
<1>1. PICK g : WritesBy(g, t, n, R)
  BY WriteRun
<1>2. g \in [Nat -> Sane(n, R)] /\ g[0] = MoveWrite(t) /\ Run(t, MoveWrite) = g[Last(t)]
      /\ \A k \in Nat : g[k + 1] = WriteTurn(g[k])
  BY <1>1 DEF WritesBy
<1>3. t.remain \in Nat
  BY DEF Sane, Transfers
<1> DEFINE S == {k \in Nat : Progress(g[k], t, k)}
<1>4. 0 \in S
  <2> DEFINE u == MoveWrite(t)
  <2>1. u.remain = t.remain /\ u.aborted = t.aborted /\ t.traps \subseteq u.traps
        /\ (u.ok => u.pos.off < ClusterSize)
    BY MoveWriteSane
  <2> HIDE DEF u
  <2>2. Progress(u, t, 0)
    BY <1>3, <2>1 DEF Progress
  <2> QED BY <1>2, <2>2 DEF u
<1>5. ASSUME NEW k \in Nat, k \in S PROVE k + 1 \in S
  <2>1. g[k] \in Sane(n, R) /\ g[k + 1] = WriteTurn(g[k]) /\ Progress(g[k], t, k)
    BY <1>2, <1>5
  <2>2. Progress(WriteTurn(g[k]), t, k + 1)
    BY <2>1, TurnProgress
  <2> QED BY <2>1, <2>2
<1> HIDE DEF S
<1> DEFINE q == t.remain \div ClusterSize
           u == g[Last(t)]
<1>6. q \in Nat /\ Last(t) = q + 2 /\ t.remain % ClusterSize \in 0 .. ClusterSize - 1
      /\ t.remain = Offset(q, t.remain % ClusterSize)
  BY <1>3, OffsetOf DEF Last
<1> HIDE DEF q
<1>7. Last(t) \in Nat /\ Last(t) > 0 /\ Last(t) - 1 = q + 1
  BY <1>6
<1>8. Last(t) \in S
  BY <1>4, <1>5, <1>7, SetInduction
<1>9. Progress(u, t, Last(t)) /\ u \in Sane(n, R)
  BY <1>2, <1>7, <1>8 DEF S
<1>10. t.remain <= Offset(q + 1, 0) /\ Offset(q + 1, 0) \in Nat
  <2>1. q + 1 \in Nat /\ q < q + 1 /\ 0 \in 0 .. ClusterSize /\ t.remain % ClusterSize \in 0 .. ClusterSize
    BY <1>6, SizeIs
  <2> DEFINE r == t.remain % ClusterSize
  <2> HIDE DEF r
  <2>2. r \in 0 .. ClusterSize
    BY <2>1 DEF r
  <2>3. Offset(q, r) <= Offset(q + 1, 0)
    BY <1>6, <2>1, <2>2, OffsetOrder
  <2> QED BY <1>6, <2>1, <2>3, OffsetIs DEF r
<1> HIDE DEF u
<1>11. u.remain \in Nat
  BY <1>9 DEF Sane, Transfers
<1>12. u.ok => u.remain = 0
  <2> SUFFICES ASSUME u.ok, u.remain > 0 PROVE FALSE
    BY <1>11
  <2>1. t.remain - u.remain > Offset(q + 1, 0)
    BY <1>7, <1>9 DEF Progress
  <2> QED BY <1>3, <1>10, <1>11, <2>1
<1>13. u = Run(t, MoveWrite)
  BY <1>2 DEF u
<1> QED BY <1>9, <1>12, <1>13 DEF Progress

-----------------------------------------------------------------------------
(* Where a transfer goes                                                   *)

\* The place of byte p of the file that starts at s.
PlaceIn(lk, s, p) == Place(Nth(lk, s, p \div ClusterSize), p % ClusterSize)

\* The place of a byte by cluster and offset.
LEMMA PlaceInIs ==
    ASSUME NEW lk, NEW s, NEW i \in Nat, NEW o \in Nat, o < ClusterSize
    PROVE  PlaceIn(lk, s, Offset(i, o)) = Place(Nth(lk, s, i), o)
BY OffsetIs DEF PlaceIn

\* A byte before a position in the i-th cluster lies there or before it.
LEMMA ClusterOf ==
    ASSUME NEW p \in Nat, NEW i \in Nat, NEW o \in 0 .. ClusterSize, p < Offset(i, o)
    PROVE  p \div ClusterSize \in 0 .. i
<1> DEFINE q == p \div ClusterSize
           r == p % ClusterSize
<1>1. q \in Nat /\ r \in 0 .. ClusterSize - 1 /\ p = Offset(q, r)
  BY OffsetOf
<1>2. r \in 0 .. ClusterSize
  BY <1>1, SizeIs
<1> HIDE DEF q, r
<1>3. i < q => Offset(i, o) <= Offset(q, r)
  BY <1>1, <1>2, OffsetOrder
<1>4. Offset(i, o) \in Nat /\ Offset(q, r) \in Nat
  BY <1>1, <1>2, SizeIs, OffsetIs
<1>5. ~(i < q)
  BY <1>1, <1>3, <1>4
<1> QED BY <1>1, <1>5 DEF q

\* Transfer u of n bytes from byte p on, of a file whose m0 clusters start at
\* s: it stands in the i-th of now m clusters, at the byte it says, and what it
\* touched are the places of the bytes up to there.
In(u, s, lk0, m0, p, n, m, i) ==
    /\ Path(u.link, s, m) /\ i <= m - 1 /\ m0 <= m /\ (m = m0 \/ m = i + 1)
    /\ m = m0 => u.link = lk0
    /\ Inside(u.link)
    /\ \A j \in 0 .. m0 - 1 : Nth(u.link, s, j) = Nth(lk0, s, j)
    /\ u.pos.cluster = Nth(u.link, s, i)
    /\ p + (n - u.remain) = Offset(i, IF u.ok THEN u.pos.off ELSE ClusterSize)
    /\ Len(u.places) = n - u.remain
    /\ \A k \in 1 .. n - u.remain : u.places[k] = PlaceIn(u.link, s, p + k - 1)

Aligned(u, s, lk0, m0, p, n) == \E m, i \in Nat : In(u, s, lk0, m0, p, n, m, i)

\* A move without a trap keeps the transfer with its file.
LEMMA MoveAligned ==
    ASSUME NEW n \in Nat, NEW R, NEW s \in R, NEW lk0, NEW m0 \in Nat, NEW p \in Nat,
           NEW u \in Sane(n, R), u.ok, Aligned(u, s, lk0, m0, p, n), MoveWrite(u).traps = {}
    PROVE  Aligned(MoveWrite(u), s, lk0, m0, p, n)
<1> DEFINE v == MoveWrite(u)
<1>1. PICK m \in Nat, i \in Nat : In(u, s, lk0, m0, p, n, m, i)
  BY DEF Aligned
<1>2. /\ u \in Transfers(n) /\ Hint(u.link, u.firstFree) /\ Alone(u.link, R)
      /\ u.link \in Clean /\ u.link \in Links /\ u.pos.cluster \in Entries
      /\ u.pos.off \in 0 .. ClusterSize /\ u.remain \in 0 .. n
  BY CleanIs DEF Sane, Transfers, Position
<1>3. s \in Clusters /\ s \in Cells
  BY <1>2, Numbers DEF Alone, Cells
<1>4. /\ m >= 1 /\ m - 1 \in 0 .. m - 1
      /\ \A j \in 0 .. m - 1 : Nth(u.link, s, j) \in Clusters
      /\ \A j \in 0 .. m - 1 : j + 1 <= m - 1 => u.link[Nth(u.link, s, j)] = Nth(u.link, s, j + 1)
      /\ u.link[Nth(u.link, s, m - 1)] = EOF
  <2> DEFINE lk == u.link
  <2>1. lk \in Links /\ Path(lk, s, m)
    BY <1>1, <1>2 DEF In
  <2> HIDE DEF lk
  <2>2. /\ m >= 1 /\ m - 1 \in 0 .. m - 1
        /\ \A j \in 0 .. m - 1 : Nth(lk, s, j) \in Clusters
        /\ \A j \in 0 .. m - 1 : j + 1 <= m - 1 => lk[Nth(lk, s, j)] = Nth(lk, s, j + 1)
        /\ lk[Nth(lk, s, m - 1)] = EOF
    BY <1>3, <2>1, PathStep
  <2> QED BY <2>2 DEF lk
<1>5. i \in 0 .. m - 1
  BY <1>1, <1>4 DEF In
<1>6. Next(u) = u.link[u.pos.cluster]
  BY <1>2 DEF Next, NextOf
<1>7. CASE u.pos.off < ClusterSize
  <2>1. v = u
    BY <1>2, <1>7, MoveWriteIs
  <2> QED BY <2>1
<1>8. CASE ~(u.pos.off < ClusterSize) /\ i < m - 1
  <2>1. i + 1 \in 0 .. m - 1 /\ Next(u) = Nth(u.link, s, i + 1) /\ Next(u) \in Clusters
    BY <1>1, <1>4, <1>5, <1>6, <1>8 DEF In
  <2>2. Next(u) \notin {FREE, EOF}
    BY <2>1, Numbers
  <2>3. v = Moved(u)
    BY <1>2, <1>8, <2>2, MoveWriteIs
  <2> HIDE DEF v
  <2>4. /\ v.link = u.link /\ v.pos.cluster = Next(u) /\ v.pos.off = 0
        /\ v.remain = u.remain /\ v.places = u.places /\ v.ok = u.ok
    BY <1>2, <2>2, <2>3, MovedFields
  <2>5. u.pos.off = ClusterSize
    BY <1>2, <1>8, SizeIs
  <2>6. Offset(i, u.pos.off) = Offset(i + 1, 0)
    BY <2>5, SizeIs, OffsetIs
  <2>7. m = m0
    BY <1>1, <1>8 DEF In
  <2>8. In(v, s, lk0, m0, p, n, m, i + 1)
    BY <1>1, <2>1, <2>4, <2>6, <2>7 DEF In
  <2>9. i + 1 \in Nat
    OBVIOUS
  <2> QED BY <2>8, <2>9 DEF Aligned, v
<1>9. CASE ~(u.pos.off < ClusterSize) /\ i = m - 1
  <2> DEFINE got == Got(u)
             x == u.pos.cluster
             lk == u.link
  <2>1. x = Nth(lk, s, m - 1) /\ x \in Clusters /\ lk[x] = EOF /\ lk[x] \notin Clusters
    BY <1>1, <1>4, <1>9, Numbers DEF In
  <2>2. Next(u) \in {FREE, EOF}
    BY <1>6, <2>1
  <2>3. v = Grown(u, got)
    BY <1>2, <1>9, <2>2, MoveWriteIs
  <2>4. /\ got.link \in Clean /\ Hint(got.link, got.firstFree) /\ got.cluster \in Entries
        /\ Inside(lk) => Inside(got.link) \/ got.cluster = LastCluster + 1
    BY <1>2, LinkFreeKeeps DEF Got
  <2> HIDE DEF got, v
  <2>5. got.firstFree \in FIRST .. LastCluster + 1
    BY <2>4 DEF Hint
  <2>6. /\ v.link = got.link
        /\ v.pos.cluster = (IF got.cluster = FREE THEN x ELSE got.cluster) /\ v.pos.off = 0
        /\ v.remain = u.remain /\ v.places = u.places
        /\ v.ok = (got.cluster # FREE)
        /\ v.traps = u.traps \cup Traps(x, got)
    BY <1>2, <2>3, <2>4, <2>5, GrownFields
  <2>7. Traps(x, got) = {}
    BY <2>6 DEF v
  <2>8. (x = LastCluster => got.cluster = FREE) /\ ~(got.cluster > LastCluster)
    BY <2>7 DEF Traps
  <2>9. \A l, f, c : /\ Result(l, f, c).link = l
                     /\ Result(l, f, c).firstFree = f /\ Result(l, f, c).cluster = c
    BY DEF Result
  <2>10. \/ \E c \in Clusters : lk[c] = FREE /\ got.link = Linked(lk, x, c) /\ got.cluster = c
         \/ got.cluster = LastCluster + 1
         \/ got.link = lk /\ got.cluster = FREE
    BY <1>2, <2>1, <2>9, LinkFreeCases DEF got, Got
  <2>11. CASE got.link = lk /\ got.cluster = FREE
    <3>1. u.pos.off = ClusterSize
      BY <1>2, <1>9, SizeIs
    <3>2. ~v.ok
      BY <2>6, <2>11, Zenon
    <3>3. In(v, s, lk0, m0, p, n, m, i)
      BY <1>1, <2>6, <2>11, <3>1, <3>2 DEF In
    <3> QED BY <3>3 DEF Aligned, v
  <2>12. CASE got.cluster = LastCluster + 1
    BY <2>8, <2>12, Numbers
  <2>13. ASSUME NEW c \in Clusters, lk[c] = FREE, got.link = Linked(lk, x, c), got.cluster = c
         PROVE  Aligned(v, s, lk0, m0, p, n)
    <3>1. x < LastCluster /\ x # LastCluster
      BY <2>1, <2>8, <2>13, Numbers
    <3>2. \A d \in Clusters : got.link[d] = IF d = c THEN EOF
                                            ELSE IF d = x /\ x < LastCluster THEN c ELSE lk[d]
      BY <1>2, <2>1, <2>13, Numbers, GrownIs
    <3>3. c # x /\ got.link \in Links
      BY <2>1, <2>4, <2>13, CleanIs, Numbers
    <3>4. /\ got.link[c] = EOF /\ got.link[x] = c
          /\ \A d \in Clusters : d # c /\ d # x => got.link[d] = lk[d]
      BY <2>1, <2>13, <3>1, <3>2, <3>3
    <3>5. Path(lk, s, m)
      BY <1>1 DEF In
    <3>6. /\ Path(got.link, s, m + 1)
          /\ \A j \in 0 .. m - 1 : Nth(got.link, s, j) = Nth(lk, s, j)
          /\ Nth(got.link, s, m) = c
      BY <1>2, <1>3, <2>1, <2>13, <3>3, <3>4, <3>5, PathGrows
    <3>7. v.link = got.link /\ v.pos.cluster = c /\ v.ok
      BY <2>6, <2>13, Numbers
    <3>8. p + (n - v.remain) = Offset(m, v.pos.off) /\ p + (n - u.remain) = Offset(i, ClusterSize)
      <4>1. u.pos.off = ClusterSize
        BY <1>2, <1>9, SizeIs
      <4>2. Offset(i, ClusterSize) = Offset(i + 1, 0) /\ i + 1 = m
        BY <1>9, SizeIs, OffsetIs
      <4> QED BY <1>1, <2>6, <4>1, <4>2 DEF In
    <3>9. ASSUME NEW k \in 1 .. n - v.remain PROVE v.places[k] = PlaceIn(v.link, s, p + k - 1)
      <4>1. k \in 1 .. n - u.remain /\ v.places[k] = PlaceIn(lk, s, p + k - 1)
        BY <1>1, <2>6 DEF In
      <4>2. p + k - 1 \in Nat /\ p + k - 1 < p + (n - u.remain) /\ ClusterSize \in 0 .. ClusterSize
        BY <1>2, <2>6, SizeIs
      <4> DEFINE q == p + k - 1
      <4>3. q \in Nat /\ q < Offset(i, ClusterSize)
        BY <3>8, <4>2
      <4> HIDE DEF q
      <4>4. q \div ClusterSize \in 0 .. i
        BY <4>2, <4>3, ClusterOf
      <4>5. Nth(got.link, s, q \div ClusterSize) = Nth(lk, s, q \div ClusterSize)
        BY <1>9, <3>6, <4>4
      <4>6. PlaceIn(v.link, s, q) = PlaceIn(lk, s, q)
        BY <3>7, <4>5 DEF PlaceIn
      <4> QED BY <4>1, <4>6 DEF q
    <3>10. m + 1 \in Nat /\ (m + 1) - 1 = m /\ m0 <= m + 1 /\ m <= (m + 1) - 1 /\ m + 1 # m0
      BY <1>1 DEF In
    <3>11. Len(v.places) = n - v.remain
      BY <1>1, <2>6 DEF In
    <3>13. \A j \in 0 .. m0 - 1 : Nth(v.link, s, j) = Nth(lk0, s, j)
      BY <1>1, <3>6, <3>7 DEF In
    <3>14. Inside(v.link)
      BY <1>1, <2>4, <2>13, <3>7, Numbers DEF In
    <3>12. In(v, s, lk0, m0, p, n, m + 1, m)
      BY <3>6, <3>7, <3>8, <3>9, <3>10, <3>11, <3>13, <3>14 DEF In
    <3> QED BY <3>10, <3>12 DEF Aligned
  <2> QED BY <2>10, <2>11, <2>12, <2>13 DEF v
<1> QED BY <1>5, <1>7, <1>8, <1>9

\* So does a piece: it touches the places of its own bytes.
LEMMA PieceAligned ==
    ASSUME NEW n \in Nat, NEW R, NEW s \in R, NEW lk0, NEW m0 \in Nat, NEW p \in Nat,
           NEW u \in Sane(n, R), u.ok, Aligned(u, s, lk0, m0, p, n)
    PROVE  Aligned(Piece(u), s, lk0, m0, p, n)
<1> DEFINE v == Piece(u)
           r == Room(u)
           o == u.pos.off
           done == n - u.remain
<1>1. PICK m \in Nat, i \in Nat : In(u, s, lk0, m0, p, n, m, i)
  BY DEF Aligned
<1>2. u.remain \in 0 .. n /\ o \in 0 .. ClusterSize /\ ClusterSize \in Nat
  BY SizeIs DEF Sane, Transfers, Position
<1>3. /\ v.link = u.link /\ v.pos.cluster = u.pos.cluster
      /\ r \in Nat /\ r <= u.remain /\ r <= ClusterSize - o
      /\ v.pos.off = o + r /\ v.remain = u.remain - r
      /\ Adds(u, v, r)
  <2>1. v.link = u.link /\ v.pos.cluster = u.pos.cluster
    BY PieceIs
  <2>4. Adds(u, v, r)
    BY PieceIs, Zenon
  <2>2. r \in Nat /\ r <= u.remain /\ r <= ClusterSize - u.pos.off
    BY PieceIs
  <2>3. v.pos.off = u.pos.off + r /\ v.remain = u.remain - r
    BY PieceIs
  <2> QED BY <2>1, <2>2, <2>3, <2>4
<1> HIDE DEF v, r
<1>10. /\ done \in Nat /\ n - v.remain = done + r
  BY <1>2, <1>3
<1>11. Len(u.places) = done /\ p + done = Offset(i, o)
  BY <1>1 DEF In
<1> HIDE DEF done, o
<1>4. done \in Nat /\ n - v.remain = done + r /\ Len(u.places) = done /\ p + done = Offset(i, o)
  BY <1>10, <1>11
<1>12. /\ Len(v.places) = Len(u.places) + r
       /\ \A k \in 1 .. Len(u.places) : v.places[k] = u.places[k]
       /\ \A k \in 1 .. r : v.places[Len(u.places) + k] = Place(u.pos.cluster, o + k - 1)
  BY <1>3 DEF Adds, o
<1>5. Offset(i, o) = Offset(i, 0) + o /\ Offset(i, o + r) = Offset(i, 0) + (o + r) /\ Offset(i, 0) \in Nat
  <2>1. o \in Nat /\ o + r \in Nat
    BY <1>2, <1>3
  <2> DEFINE z == o + r
  <2> HIDE DEF z
  <2>2. Offset(i, z) = Offset(i, 0) + z
    BY <2>1, OffsetIs DEF z
  <2> QED BY <2>1, <2>2, OffsetIs DEF z
<1>6. p + (n - v.remain) = Offset(i, v.pos.off)
  <2>1. p + (done + r) = (p + done) + r /\ Offset(i, 0) + (o + r) = (Offset(i, 0) + o) + r
    BY <1>2, <1>3, <1>4, <1>5
  <2> QED BY <1>3, <1>4, <1>5, <2>1
<1>7. ASSUME NEW k \in 1 .. n - v.remain PROVE v.places[k] = PlaceIn(v.link, s, p + k - 1)
  <2>1. CASE k <= done
    <3>1. k \in 1 .. done /\ k \in 1 .. Len(u.places)
      BY <1>4, <2>1
    <3> QED BY <1>1, <1>3, <1>4, <1>12, <3>1 DEF In, done
  <2>2. CASE k > done
    <3> DEFINE j == k - done
    <3>1. j \in 1 .. r /\ k = done + j
      BY <1>3, <1>4, <2>2
    <3> HIDE DEF j
    <3>2. v.places[k] = Place(u.pos.cluster, o + j - 1)
      BY <1>4, <1>12, <3>1
    <3>3. o + j - 1 \in Nat /\ o + j - 1 < ClusterSize
      BY <1>2, <1>3, <3>1
    <3>4. p + k - 1 = Offset(i, o + j - 1)
      <4>1. Offset(i, o + j - 1) = Offset(i, 0) + (o + j - 1)
        BY <3>3, OffsetIs
      <4>2. o \in Nat /\ j \in Nat
        BY <1>2, <3>1
      <4>3. p + k - 1 = ((p + done) + j) - 1
        BY <1>4, <3>1, <4>2
      <4>4. Offset(i, 0) + (o + j - 1) = ((Offset(i, 0) + o) + j) - 1
        BY <1>5, <4>2
      <4> QED BY <1>4, <1>5, <4>1, <4>3, <4>4
    <3> DEFINE q == o + j - 1
    <3> HIDE DEF q
    <3>5. PlaceIn(u.link, s, Offset(i, q)) = Place(Nth(u.link, s, i), q)
      BY <3>3, PlaceInIs DEF q
    <3>6. u.pos.cluster = Nth(u.link, s, i)
      BY <1>1 DEF In
    <3> QED BY <1>3, <3>2, <3>4, <3>5, <3>6 DEF q
  <2> QED BY <1>4, <2>1, <2>2
<1>8. Len(v.places) = n - v.remain
  BY <1>4, <1>12
<1>13. v.ok
  BY PieceIs DEF v
<1>9. In(v, s, lk0, m0, p, n, m, i)
  BY <1>1, <1>3, <1>6, <1>7, <1>8, <1>13 DEF In
<1> QED BY <1>9 DEF Aligned, v

\* So does a turn.
LEMMA TurnAligned ==
    ASSUME NEW n \in Nat, NEW R, NEW s \in R, NEW lk0, NEW m0 \in Nat, NEW p \in Nat,
           NEW u \in Sane(n, R), u.traps = {} => Aligned(u, s, lk0, m0, p, n)
    PROVE  WriteTurn(u).traps = {} => Aligned(WriteTurn(u), s, lk0, m0, p, n)
<1>1. CASE ~u.ok
  BY <1>1, TurnIs
<1>2. CASE u.ok
  <2> DEFINE v == Piece(u)
  <2>1. v \in Sane(n, R) /\ v.ok = u.ok /\ v.traps = u.traps
    BY PieceIs
  <2>2. v.traps = {} => Aligned(v, s, lk0, m0, p, n)
    BY <1>2, <2>1, PieceAligned
  <2>3. /\ ~v.ok \/ v.remain = 0 => WriteTurn(u) = v
        /\ ~(~v.ok \/ v.remain = 0) => WriteTurn(u) = MoveWrite(v)
    BY <1>2, TurnIs
  <2> HIDE DEF v
  <2>4. v.traps \subseteq MoveWrite(v).traps
    BY <2>1, MoveWriteSane
  <2>5. MoveWrite(v).traps = {} => Aligned(MoveWrite(v), s, lk0, m0, p, n)
    BY <1>2, <2>1, <2>2, <2>4, MoveAligned
  <2> QED BY <2>2, <2>3, <2>5
<1> QED BY <1>1, <1>2

\* Without a trap a write stays with its file.
LEMMA RunAligned ==
    ASSUME NEW n \in Nat, NEW R, NEW s \in R, NEW lk0, NEW m0 \in Nat, NEW p \in Nat,
           NEW t \in Sane(n, R), t.ok, Aligned(t, s, lk0, m0, p, n)
    PROVE  Run(t, MoveWrite).traps = {} => Aligned(Run(t, MoveWrite), s, lk0, m0, p, n)
<1>1. PICK g : WritesBy(g, t, n, R)
  BY WriteRun
<1>2. g \in [Nat -> Sane(n, R)] /\ g[0] = MoveWrite(t) /\ Run(t, MoveWrite) = g[Last(t)]
      /\ \A k \in Nat : g[k + 1] = WriteTurn(g[k])
  BY <1>1 DEF WritesBy
<1> DEFINE S == {k \in Nat : g[k].traps = {} => Aligned(g[k], s, lk0, m0, p, n)}
<1>3. 0 \in S
  BY <1>2, MoveAligned
<1>4. ASSUME NEW k \in Nat, k \in S PROVE k + 1 \in S
  <2>1. g[k] \in Sane(n, R) /\ g[k + 1] = WriteTurn(g[k]) /\ (g[k].traps = {} => Aligned(g[k], s, lk0, m0, p, n))
    BY <1>2, <1>4
  <2>2. WriteTurn(g[k]).traps = {} => Aligned(WriteTurn(g[k]), s, lk0, m0, p, n)
    BY <2>1, TurnAligned
  <2> QED BY <2>1, <2>2
<1>5. Last(t) \in Nat
  <2>1. t.remain \in Nat
    BY DEF Sane, Transfers
  <2> QED BY <2>1, OffsetOf DEF Last
<1> HIDE DEF S
<1>6. Last(t) \in S
  BY <1>3, <1>4, <1>5, SetInduction
<1> QED BY <1>2, <1>6 DEF S

\* A position at or before the end of the file's clusters stands in one of them.
LEMMA StandsInside ==
    ASSUME NEW lk \in Links, NEW s \in Cells, NEW m, Path(lk, s, m), NEW pos \in Position,
           NEW p \in Nat, p <= Offset(m, 0), Stands(lk, s, pos, p)
    PROVE  \E i \in 0 .. m - 1 : StandsIn(lk, s, pos, i, p)
<1>1. PICK i \in Nat : StandsIn(lk, s, pos, i, p)
  BY DEF Stands
<1>2. m \in Nat /\ m >= 1 /\ m - 1 \in Nat /\ (m - 1) + 1 = m /\ NextOf(lk, Nth(lk, s, m - 1)) = EOF
  BY DEF Path
<1>3. Nth(lk, s, m) = EOF
  BY <1>2, NthIs
<1>4. pos.cluster \in Entries /\ pos.off \in 0 .. ClusterSize /\ 0 \in 0 .. ClusterSize /\ 0 < ClusterSize
  BY SizeIs DEF Position
<1>5. i # m
  BY <1>1, <1>3, <1>4, Numbers DEF StandsIn
<1>6. m < i => Offset(m, 0) < Offset(i, pos.off)
  <2> DEFINE o == pos.off
  <2> HIDE DEF o
  <2>1. m < i => Offset(m, 0) < Offset(i, o)
    BY <1>2, <1>4, OffsetOrder DEF o
  <2> QED BY <2>1 DEF o
<1>7. ~(m < i)
  <2>1. p = Offset(i, pos.off) /\ Offset(m, 0) \in Nat
    BY <1>1, <1>2, OffsetIs DEF StandsIn
  <2> QED BY <1>6, <2>1
<1>8. i \in 0 .. m - 1
  BY <1>2, <1>5, <1>7
<1> QED BY <1>1, <1>8

\* A transfer that begins where its first byte is, is with its file.
LEMMA StartAligned ==
    ASSUME NEW lk \in Clean, Inside(lk), NEW ff, NEW s, NEW m \in Nat, Path(lk, s, m), NEW pos \in Position,
           NEW p \in Nat, NEW i \in 0 .. m - 1, StandsIn(lk, s, pos, i, p), NEW n \in Nat,
           NEW t, t.link = lk, t.pos = pos, t.remain = n, t.places = <<>>, t.ok
    PROVE  Aligned(t, s, lk, m, p, n)
<1>1. i \in Nat /\ i <= m - 1 /\ m <= m
  OBVIOUS
<1>2. n - t.remain = 0 /\ Len(t.places) = 0
  OBVIOUS
<1>3. t.pos.cluster = Nth(t.link, s, i) /\ p + (n - t.remain) = Offset(i, t.pos.off)
  BY <1>2 DEF StandsIn
<1>4. \A k \in 1 .. n - t.remain : t.places[k] = PlaceIn(t.link, s, p + k - 1)
  BY <1>2
<1>5. In(t, s, lk, m, p, n, m, i)
  BY <1>1, <1>2, <1>3, <1>4 DEF In
<1> QED BY <1>1, <1>5 DEF Aligned

\* While there are bytes of the file to go, a read moves on as a write does.
LEMMA MoveInside ==
    ASSUME NEW n \in Nat, NEW R, NEW s \in R, NEW lk0, NEW m0 \in Nat, NEW p \in Nat,
           NEW u \in Sane(n, R), u.ok, Aligned(u, s, lk0, m0, p, n), u.remain > 0,
           p + n <= Offset(m0, 0)
    PROVE  /\ MoveRead(u) = MoveWrite(u)
           /\ MoveWrite(u).link = u.link /\ MoveWrite(u).traps = u.traps /\ MoveWrite(u).ok
<1>1. PICK m \in Nat, i \in Nat : In(u, s, lk0, m0, p, n, m, i)
  BY DEF Aligned
<1>2. /\ u \in Transfers(n) /\ u.link \in Links /\ u.pos.cluster \in Entries
      /\ u.pos.off \in 0 .. ClusterSize /\ u.remain \in 0 .. n /\ Alone(u.link, R)
  BY CleanIs DEF Sane, Transfers, Position
<1>3. CASE u.pos.off < ClusterSize
  <2>1. MoveRead(u) = u /\ MoveWrite(u) = u
    BY <1>2, <1>3, MoveWriteIs, MoveReadIs
  <2> QED BY <2>1
<1>4. CASE ~(u.pos.off < ClusterSize)
  <2>1. u.pos.off = ClusterSize
    BY <1>2, <1>4, SizeIs
  <2>2. i + 1 < m0
    <3>1. p + (n - u.remain) = Offset(i, ClusterSize)
      BY <1>1, <2>1 DEF In
    <3>2. Offset(i, ClusterSize) = Offset(i + 1, 0) /\ Offset(i + 1, 0) \in Nat /\ Offset(m0, 0) \in Nat
      BY SizeIs, OffsetIs
    <3>3. Offset(i + 1, 0) < Offset(m0, 0)
      BY <1>2, <3>1, <3>2
    <3>4. i + 1 >= m0 => Offset(m0, 0) <= Offset(i + 1, 0)
      BY OffsetGrows
    <3> QED BY <3>2, <3>3, <3>4
  <2>3. i + 1 \in 0 .. m - 1 /\ i \in 0 .. m - 1
    BY <1>1, <2>2 DEF In
  <2>4. Next(u) \in Clusters
    <3>1. Path(u.link, s, m) /\ u.pos.cluster = Nth(u.link, s, i) /\ s \in Cells
      BY <1>1, <1>2, Numbers DEF In, Alone, Cells
    <3>2. Nth(u.link, s, i + 1) = NextOf(u.link, Nth(u.link, s, i))
      BY <1>2, <3>1, NthIs
    <3>3. Nth(u.link, s, i + 1) \in Clusters
      BY <2>3, <3>1 DEF Path
    <3> QED BY <3>1, <3>2, <3>3 DEF Next
  <2>5. Next(u) \notin {FREE, EOF}
    BY <2>4, Numbers
  <2>6. MoveRead(u) = Moved(u) /\ MoveWrite(u) = Moved(u)
    BY <1>2, <1>4, <2>5, MoveWriteIs, MoveReadIs
  <2>7. Moved(u).link = u.link /\ Moved(u).traps = u.traps /\ Moved(u).ok = u.ok
    BY <1>2, <2>5, MovedFields
  <2> QED BY <2>6, <2>7
<1> QED BY <1>3, <1>4

\* What holds of a transfer within the file.
Within(u, lk0, s, m0, p, n) ==
    u.ok /\ u.traps = {} /\ u.link = lk0 /\ Aligned(u, s, lk0, m0, p, n)

\* A turn of a read within the file is a turn of a write, and links nothing.
LEMMA TurnWithin ==
    ASSUME NEW n \in Nat, NEW R, NEW s \in R, NEW lk0, NEW m0 \in Nat, NEW p \in Nat,
           NEW u \in Sane(n, R), Within(u, lk0, s, m0, p, n), p + n <= Offset(m0, 0)
    PROVE  ReadTurn(u) = WriteTurn(u) /\ Within(WriteTurn(u), lk0, s, m0, p, n)
<1> DEFINE v == Piece(u)
<1>1. u.ok /\ u.traps = {} /\ u.link = lk0 /\ Aligned(u, s, lk0, m0, p, n)
  BY DEF Within
<1>2. v \in Sane(n, R) /\ v.link = lk0 /\ v.traps = {}
  BY <1>1, PieceIs
<1>3. v.ok
  BY <1>1, PieceIs
<1>4. Aligned(v, s, lk0, m0, p, n)
  BY <1>1, PieceAligned
<1>5. /\ ~v.ok \/ v.remain = 0 => WriteTurn(u) = v /\ ReadTurn(u) = v
      /\ ~(~v.ok \/ v.remain = 0) => WriteTurn(u) = MoveWrite(v) /\ ReadTurn(u) = MoveRead(v)
  BY <1>1, TurnIs
<1> HIDE DEF v
<1>6. CASE v.remain = 0
  BY <1>2, <1>3, <1>4, <1>5, <1>6 DEF Within
<1>7. CASE v.remain # 0
  <2>1. v.remain > 0
    BY <1>2, <1>7 DEF Sane, Transfers
  <2>2. /\ MoveRead(v) = MoveWrite(v)
        /\ MoveWrite(v).link = v.link /\ MoveWrite(v).traps = v.traps /\ MoveWrite(v).ok
    BY <1>2, <1>3, <1>4, <2>1, MoveInside
  <2>3. Aligned(MoveWrite(v), s, lk0, m0, p, n)
    BY <1>2, <1>3, <1>4, <2>2, MoveAligned
  <2> QED BY <1>2, <1>3, <1>5, <1>7, <2>2, <2>3 DEF Within
<1> QED BY <1>6, <1>7

\* So is the whole read.
LEMMA RunWithin ==
    ASSUME NEW n \in Nat, NEW R, NEW s \in R, NEW lk0, NEW m0 \in Nat, NEW p \in Nat,
           NEW t \in Sane(n, R), Within(t, lk0, s, m0, p, n), t.remain > 0, p + n <= Offset(m0, 0)
    PROVE  /\ Run(t, MoveRead) = Run(t, MoveWrite)
           /\ Within(Run(t, MoveRead), lk0, s, m0, p, n)
<1>1. PICK g : WritesBy(g, t, n, R)
  BY WriteRun
<1>2. g \in [Nat -> Sane(n, R)] /\ g[0] = MoveWrite(t) /\ Run(t, MoveWrite) = g[Last(t)]
      /\ \A k \in Nat : g[k + 1] = WriteTurn(g[k])
  BY <1>1 DEF WritesBy
<1>3. PICK e : ReadsBy(e, t, n, R)
  BY ReadRun
<1>4. e \in [Nat -> Sane(n, R)] /\ e[0] = MoveRead(t) /\ Run(t, MoveRead) = e[Last(t)]
      /\ \A k \in Nat : e[k + 1] = ReadTurn(e[k])
  BY <1>3 DEF ReadsBy
<1> DEFINE S == {k \in Nat : e[k] = g[k] /\ Within(g[k], lk0, s, m0, p, n)}
<1>5. 0 \in S
  <2>1. t.ok /\ t.traps = {} /\ t.link = lk0 /\ Aligned(t, s, lk0, m0, p, n)
    BY DEF Within
  <2>2. /\ MoveRead(t) = MoveWrite(t)
        /\ MoveWrite(t).link = t.link /\ MoveWrite(t).traps = t.traps /\ MoveWrite(t).ok
    BY <2>1, MoveInside
  <2>3. Aligned(MoveWrite(t), s, lk0, m0, p, n)
    BY <2>1, <2>2, MoveAligned
  <2> QED BY <1>2, <1>4, <2>1, <2>2, <2>3 DEF Within
<1>6. ASSUME NEW k \in Nat, k \in S PROVE k + 1 \in S
  <2>1. g[k] \in Sane(n, R) /\ Within(g[k], lk0, s, m0, p, n) /\ e[k] = g[k]
    BY <1>2, <1>6
  <2>2. ReadTurn(g[k]) = WriteTurn(g[k]) /\ Within(WriteTurn(g[k]), lk0, s, m0, p, n)
    BY <2>1, TurnWithin
  <2> QED BY <1>2, <1>4, <2>1, <2>2
<1>7. Last(t) \in Nat
  <2>1. t.remain \in Nat
    BY DEF Sane, Transfers
  <2> QED BY <2>1, OffsetOf DEF Last
<1> HIDE DEF S
<1>8. Last(t) \in S
  BY <1>5, <1>6, <1>7, SetInduction
<1> QED BY <1>2, <1>4, <1>8 DEF S

\* A run of reads, whatever the state of the file.
LEMMA ReadSane ==
    ASSUME NEW n \in Nat, NEW R, NEW t \in Sane(n, R)
    PROVE  Run(t, MoveRead) \in Sane(n, R)
<1>1. PICK e : ReadsBy(e, t, n, R)
  BY ReadRun
<1>2. Last(t) \in Nat
  <2>1. t.remain \in Nat
    BY DEF Sane, Transfers
  <2> QED BY <2>1, OffsetOf DEF Last
<1> QED BY <1>1, <1>2 DEF ReadsBy

\* A write from a position in the file.
LEMMA WriteFrom ==
    ASSUME NEW lk \in Clean, NEW ff, Hint(lk, ff), Inside(lk), NEW R, Alone(lk, R), NEW s \in R,
           NEW m,
           Path(lk, s, m), NEW pos \in Position, NEW p \in Nat, p <= Offset(m, 0),
           Stands(lk, s, pos, p), NEW n \in Nat
    PROVE  LET t == Transfer(lk, ff, pos, n)
               u == Run(t, MoveWrite)
           IN  /\ Within(t, lk, s, m, p, n)
               /\ u.traps = {} => Aligned(u, s, lk, m, p, n)
               /\ OnCard(u)
<1> DEFINE t == Transfer(lk, ff, pos, n)
<1>1. lk \in Links /\ s \in Cells /\ s \in Clusters /\ m \in Nat
  BY CleanIs, Numbers DEF Alone, Cells, Path
<1>2. PICK i \in 0 .. m - 1 : StandsIn(lk, s, pos, i, p)
  BY <1>1, StandsInside
<1>3. /\ t \in Sane(n, R) /\ t.link = lk /\ t.pos = pos /\ t.remain = n /\ t.places = <<>>
      /\ t.ok = TRUE /\ t.traps = {}
  <2>1. Begins(t, lk, ff, pos, n, R)
    BY TransferIs
  <2> HIDE DEF t
  <2> QED BY <2>1 DEF Begins
<1> HIDE DEF t
<1>4. Aligned(t, s, lk, m, p, n)
  BY <1>1, <1>2, <1>3, StartAligned
<1>5. Within(t, lk, s, m, p, n)
  BY <1>3, <1>4 DEF Within
<1>6. Run(t, MoveWrite).traps = {} => Aligned(Run(t, MoveWrite), s, lk, m, p, n)
  BY <1>1, <1>3, <1>4, RunAligned
<1>7. pos.cluster \in Clusters
  BY <1>2 DEF Path, StandsIn
<1>8. OnCard(t)
  BY <1>3, <1>7, Numbers DEF OnCard
<1>9. OnCard(Run(t, MoveWrite))
  BY <1>3, <1>8, RunOnCard
<1> QED BY <1>5, <1>6, <1>9 DEF t

-----------------------------------------------------------------------------
(* A whole write                                                           *)

\* The fields of a handle.
LEMMA HandleIs ==
    ASSUME h \in Handle
    PROVE  /\ h.start \in Entries /\ h.size \in Nat /\ h.cur \in Nat
           /\ h.rw \in Position /\ h.app \in Position
           /\ h.read \in BOOLEAN /\ h.write \in BOOLEAN /\ h.append \in BOOLEAN
BY DEF Handle

\* A position is made of a cluster and an offset.
LEMMA PositionAt == \A c \in Entries, o \in 0 .. ClusterSize : At(c, o) \in Position
BY DEF At, Position

\* file_extend_r moves on once more when it could write its zeroes.
LEMMA FinishedIs == \A t : Finished(t) = IF t.ok THEN MoveWrite(t) ELSE t
BY DEF Finished

\* The zeroes of a write behind the end of the file, and the cluster they may
\* be followed by.
LEMMA ExtendedSane ==
    ASSUME link \in Clean, Hint(link, firstFree), NEW R, Alone(link, R), h \in Handle,
           h.start \in Clusters => h.start \in R, h.cur > h.size
    PROVE  /\ Extended \in Sane(h.cur - h.size, R)
           /\ ~Extended.aborted
           /\ Extended.ok => Extended.remain = 0
<1> DEFINE z == h.cur - h.size
           pos == At(LastOf(link, h.start), EndOff(h.size))
           t == Transfer(link, firstFree, pos, z)
           u == Run(t, MoveWrite)
<1>1. z \in Nat /\ h.start \in Entries /\ h.size \in Nat
  BY HandleIs
<1>2. pos \in Position
  BY <1>1, LastOfType, EndOffIs, PositionAt
<1>3. Extended = Finished(u)
  BY DEF Extended, Zeroed
<1> HIDE DEF z, pos
<1>4. Begins(t, link, firstFree, pos, z, R)
  BY <1>1, <1>2, TransferIs
<1> HIDE DEF t
<1>5. t \in Sane(z, R) /\ t.ok /\ ~t.aborted /\ t.remain = z
  BY <1>4 DEF Begins
<1>6. u \in Sane(z, R) /\ u.aborted = t.aborted /\ (u.ok => u.remain = 0)
  BY <1>1, <1>5, RunEnds
<1> HIDE DEF u
<1>7. ~u.aborted
  BY <1>5, <1>6
<1>8. CASE ~u.ok
  BY <1>3, <1>6, <1>7, <1>8, FinishedIs DEF z
<1>9. CASE u.ok
  <2>1. Extended = MoveWrite(u)
    BY <1>3, <1>9, FinishedIs
  <2> DEFINE v == MoveWrite(u)
  <2>2. v \in Sane(z, R) /\ v.aborted = u.aborted /\ v.remain = u.remain
    BY <1>6, MoveWriteSane
  <2> HIDE DEF v
  <2> QED BY <1>6, <1>7, <1>9, <2>1, <2>2 DEF v, z
<1> QED BY <1>8, <1>9

\* What follows the zeroes.
Resumed(v, n) == [Transfer(v.link, v.firstFree, v.pos, n) EXCEPT !.traps = v.traps]
Stopped(v, n) == [v EXCEPT !.remain = n, !.places = <<>>, !.aborted = TRUE]

\* t goes on, or ends, with n bytes where v stands.
GoesOn(t, v, n, R) ==
    /\ t \in Sane(n, R) /\ t.link = v.link /\ t.pos = v.pos /\ t.remain = n
    /\ t.places = <<>> /\ t.traps = v.traps

\* A write goes on behind the zeroes, or ends with them.
LEMMA BehindIs ==
    \A v, n : Behind(v, n) = IF v.ok THEN Run(Resumed(v, n), MoveWrite) ELSE Stopped(v, n)
BY DEF Behind, Resumed, Stopped

\* Going on behind the zeroes.
LEMMA ResumedIs ==
    ASSUME NEW z, NEW R, NEW v \in Sane(z, R), NEW n \in Nat
    PROVE  GoesOn(Resumed(v, n), v, n, R) /\ Resumed(v, n).ok /\ ~Resumed(v, n).aborted
<1> DEFINE b == Transfer(v.link, v.firstFree, v.pos, n)
           t == Resumed(v, n)
<1>1. /\ v.link \in Clean /\ Hint(v.link, v.firstFree) /\ Alone(v.link, R) /\ v.pos \in Position
      /\ v.traps \subseteq MoveTraps
  BY DEF Sane, Transfers
<1>2. Begins(b, v.link, v.firstFree, v.pos, n, R)
  BY <1>1, TransferIs
<1>3. t = [b EXCEPT !.traps = v.traps]
  BY DEF Resumed
<1> HIDE DEF b, t
<1>4. /\ b \in Transfers(n) /\ b.link = v.link /\ b.firstFree = v.firstFree /\ b.pos = v.pos
      /\ b.remain = n /\ b.places = <<>> /\ b.ok = TRUE /\ b.aborted = FALSE
  BY <1>2 DEF Begins, Sane
<1>5. /\ t \in Transfers(n) /\ t.link = v.link /\ t.firstFree = v.firstFree /\ t.pos = v.pos
      /\ t.remain = n /\ t.places = <<>> /\ t.ok = TRUE /\ t.aborted = FALSE /\ t.traps = v.traps
  BY <1>1, <1>3, <1>4 DEF Transfers
<1>6. t \in Sane(n, R)
  BY <1>1, <1>5 DEF Sane
<1> QED BY <1>5, <1>6 DEF t, GoesOn

\* Ending with them.
LEMMA StoppedIs ==
    ASSUME NEW z, NEW R, NEW v \in Sane(z, R), NEW n \in Nat
    PROVE  GoesOn(Stopped(v, n), v, n, R) /\ (Stopped(v, n).ok <=> v.ok) /\ Stopped(v, n).aborted
<1> DEFINE t == Stopped(v, n)
<1>1. v \in Transfers(z) /\ n \in 0 .. n /\ TRUE \in BOOLEAN /\ <<>> \in Seq(Nat)
  BY DEF Sane
<1>2. t = [v EXCEPT !.remain = n, !.places = <<>>, !.aborted = TRUE]
  BY DEF Stopped
<1> HIDE DEF t
<1>3. /\ t.link = v.link /\ t.firstFree = v.firstFree /\ t.pos = v.pos /\ t.remain = n
      /\ t.places = <<>> /\ t.ok = v.ok /\ t.aborted = TRUE /\ t.traps = v.traps
  BY <1>1, <1>2 DEF Transfers
<1>4. t \in Transfers(n)
  BY <1>1, <1>2 DEF Transfers
<1>5. t \in Sane(n, R)
  BY <1>3, <1>4 DEF Sane
<1> QED BY <1>3, <1>5 DEF t, GoesOn

\* Where a write begins that does not begin with zeroes.
Where == IF h.append THEN h.app ELSE h.rw

\* A write is an extension and a run, or a run.
LEMMA WrittenIs ==
    \A n : Written(n) = IF Extends THEN Behind(Extended, n)
                        ELSE Run(Transfer(link, firstFree, Where, n), MoveWrite)
BY DEF Written, Where

\* How a write ends, whatever the state of the file.
Ends(t, n) ==
    /\ t.aborted => ~t.ok /\ t.remain = n /\ t.places = <<>> /\ Extends
    /\ t.ok => t.remain = 0 /\ (n > 0 => t.pos.off > 0)

\* A write keeps the table, whatever the state of the file.
LEMMA WrittenSane ==
    ASSUME link \in Clean, Hint(link, firstFree), NEW R, Alone(link, R), h \in Handle,
           h.start \in Clusters => h.start \in R, NEW n \in Nat
    PROVE  Written(n) \in Sane(n, R) /\ Ends(Written(n), n)
<1> DEFINE t == Written(n)
<1>1. CASE ~Extends
  <2> DEFINE b == Transfer(link, firstFree, Where, n)
             u == Run(b, MoveWrite)
  <2>1. Where \in Position
    BY HandleIs DEF Where
  <2>2. Begins(b, link, firstFree, Where, n, R)
    BY <2>1, TransferIs
  <2>3. t = u
    BY <1>1, WrittenIs
  <2> HIDE DEF b, t
  <2>4. b \in Sane(n, R) /\ b.ok /\ b.aborted = FALSE /\ b.remain = n
    BY <2>2 DEF Begins
  <2>5. u \in Sane(n, R) /\ u.aborted = b.aborted /\ (u.ok => u.remain = 0) /\ (u.ok /\ b.remain > 0 => u.pos.off > 0)
    BY <2>4, RunEnds
  <2> HIDE DEF u
  <2> QED BY <2>3, <2>4, <2>5 DEF Ends, t
<1>2. CASE Extends
  <2> DEFINE v == Extended
             z == h.cur - h.size
  <2>1. v \in Sane(z, R)
    BY <1>2, ExtendedSane DEF Extends
  <2>2. t = IF v.ok THEN Run(Resumed(v, n), MoveWrite) ELSE Stopped(v, n)
    BY <1>2, WrittenIs, BehindIs
  <2> HIDE DEF t, v, z
  <2>3. CASE v.ok
    <3> DEFINE b == Resumed(v, n)
               u == Run(b, MoveWrite)
    <3>5. GoesOn(b, v, n, R) /\ b.ok /\ ~b.aborted
      BY <2>1, ResumedIs
    <3> HIDE DEF b
    <3>1. b \in Sane(n, R) /\ ~b.aborted /\ b.remain = n
      BY <3>5 DEF GoesOn
    <3>2. b.ok
      BY <3>5
    <3>3. u \in Sane(n, R) /\ u.aborted = b.aborted /\ (u.ok => u.remain = 0) /\ (u.ok /\ b.remain > 0 => u.pos.off > 0)
      BY <3>1, <3>2, RunEnds
    <3>4. t = u
      BY <2>2, <2>3 DEF b
    <3> HIDE DEF u
    <3> QED BY <3>1, <3>3, <3>4 DEF Ends, t
  <2>4. CASE ~v.ok
    <3> DEFINE b == Stopped(v, n)
    <3>3. GoesOn(b, v, n, R) /\ (b.ok <=> v.ok)
      BY <2>1, StoppedIs
    <3>1. b \in Sane(n, R) /\ b.remain = n /\ b.places = <<>> /\ (b.ok <=> v.ok)
      BY <3>3 DEF GoesOn
    <3>2. t = b
      BY <2>2, <2>4
    <3> HIDE DEF b
    <3> QED BY <1>2, <2>4, <3>1, <3>2 DEF Ends, t
  <2> QED BY <2>3, <2>4
<1> QED BY <1>1, <1>2

\* Size and position after a write are numbers.
LEMMA SizeAfterType ==
    ASSUME h \in Handle, NEW n \in Nat, NEW R, NEW t \in Sane(n, R)
    PROVE  SizeAfter(t, n) \in Nat /\ h.cur + n - t.remain \in Nat
<1>1. t.remain \in 0 .. n
  BY DEF Sane, Transfers
<1>2. h.cur \in Nat /\ h.size \in Nat
  BY HandleIs
<1> QED BY <1>1, <1>2 DEF SizeAfter

\* A file that can be written: its chain is as long as its size asks for, and
\* the positions that writes begin at are where they say they are.
Ready(R) ==
    /\ link \in Clean /\ Hint(link, firstFree) /\ Alone(link, R) /\ Inside(link)
    /\ h \in Handle /\ h.start \in R
    /\ Path(link, h.start, Needed(h.size))
    /\ h.append => Stands(link, h.start, h.app, h.size)
    /\ ~h.append /\ h.cur <= h.size => Stands(link, h.start, h.rw, h.cur)

\* The byte that a write begins at.
From == IF h.append THEN h.size ELSE h.cur

\* What it means to be ready, read off.
LEMMA ReadyIs ==
    ASSUME NEW R, Ready(R)
    PROVE  /\ h.start \in Clusters /\ h.start \in Cells /\ link \in Links
           /\ Needed(h.size) \in Nat /\ Needed(h.size) >= 1 /\ h.size <= Offset(Needed(h.size), 0)
           /\ From \in Nat /\ h.size \in Nat /\ h.cur \in Nat
           /\ LastOf(link, h.start) = Nth(link, h.start, Needed(h.size) - 1)
           /\ Needed(h.size) <= LastCluster - 1
<1>1. h.start \in Clusters /\ h.start \in Cells /\ link \in Links
  BY CleanIs, Numbers DEF Ready, Alone, Cells
<1>2. h.size \in Nat /\ h.cur \in Nat /\ From \in Nat
  BY HandleIs DEF Ready, From
<1> DEFINE m == Needed(h.size)
<1>3. Fits(m, h.size)
  BY <1>2, NeededFits
<1>4. m \in Nat /\ m >= 1 /\ h.size <= Offset(m, 0)
  BY <1>3 DEF Fits
<1> HIDE DEF m
<1>5. Path(link, h.start, m) /\ Alone(link, R) /\ h.start \in R
  BY DEF Ready, m
<1>6. m <= LastCluster - 1
  BY <1>1, <1>5, PathIsChain
<1>7. m <= LastCluster
  BY <1>4, <1>6, Numbers
<1>8. LastOf(link, h.start) = Nth(link, h.start, m - 1)
  BY <1>1, <1>5, <1>7, LastOfPath
<1> QED BY <1>1, <1>2, <1>4, <1>6, <1>8 DEF m

\* An extension without a trap brings the file up to the position sought.
LEMMA ExtendedReady ==
    ASSUME NEW R, Ready(R), h.cur > h.size
    PROVE  /\ OnCard(Extended)
           /\ Extended.traps = {} =>
                Aligned(Extended, h.start, link, Needed(h.size), h.size, h.cur - h.size)
<1> DEFINE z == h.cur - h.size
           m == Needed(h.size)
           pos == At(LastOf(link, h.start), EndOff(h.size))
           t == Transfer(link, firstFree, pos, z)
           u == Run(t, MoveWrite)
<1>1. /\ h.start \in Clusters /\ h.start \in R /\ link \in Clean /\ Hint(link, firstFree) /\ Alone(link, R)
      /\ Inside(link) /\ Path(link, h.start, m) /\ h \in Handle
  BY ReadyIs DEF Ready
<1>2. /\ m \in Nat /\ m >= 1 /\ h.size <= Offset(m, 0) /\ h.size \in Nat /\ h.cur \in Nat
      /\ LastOf(link, h.start) = Nth(link, h.start, m - 1)
  BY ReadyIs
<1>3. z \in Nat
  BY <1>2
<1>4. EndOff(h.size) \in 0 .. ClusterSize /\ h.size = Offset(m - 1, EndOff(h.size))
  BY <1>2, EndOffIs
<1>5. LastOf(link, h.start) \in Entries
  BY <1>1, HandleIs, LastOfType
<1>6. pos \in Position /\ pos.cluster = LastOf(link, h.start) /\ pos.off = EndOff(h.size)
  BY <1>4, <1>5, PositionAt DEF At
<1>7. Extended = Finished(u)
  BY DEF Extended, Zeroed
<1> HIDE DEF m, z, pos
<1>8. m - 1 \in Nat
  BY <1>2
<1>9. Stands(link, h.start, pos, h.size)
  <2>1. StandsIn(link, h.start, pos, m - 1, h.size)
    BY <1>2, <1>4, <1>6 DEF StandsIn
  <2> QED BY <1>8, <2>1 DEF Stands
<1>10. OnCard(u) /\ (u.traps = {} => Aligned(u, h.start, link, m, h.size, z))
  BY <1>1, <1>2, <1>3, <1>6, <1>9, WriteFrom
<1>11. Begins(t, link, firstFree, pos, z, R)
  BY <1>1, <1>3, <1>6, TransferIs
<1> HIDE DEF t
<1>12. t \in Sane(z, R) /\ t.ok
  BY <1>11 DEF Begins
<1>13. u \in Sane(z, R)
  BY <1>3, <1>12, RunEnds
<1> HIDE DEF u
<1>14. CASE ~u.ok
  BY <1>7, <1>10, <1>14, FinishedIs DEF m, z
<1>15. CASE u.ok
  <2> DEFINE v == MoveWrite(u)
  <2>1. Extended = v
    BY <1>7, <1>15, FinishedIs
  <2>2. OnCard(v) /\ u.traps \subseteq v.traps
    BY <1>10, <1>13, <1>15, MoveWriteSane
  <2>3. v.traps = {} => Aligned(v, h.start, link, m, h.size, z)
    BY <1>1, <1>2, <1>3, <1>10, <1>13, <1>15, <2>2, MoveAligned
  <2> HIDE DEF v
  <2> QED BY <2>1, <2>2, <2>3 DEF m, z
<1> QED BY <1>14, <1>15

\* Aligned goes over to the transfer that goes on.
LEMMA ResumedAligned ==
    ASSUME NEW z \in Nat, NEW R, NEW v \in Sane(z, R), v.ok, v.remain = 0, NEW s, NEW lk0, NEW m0, NEW p \in Nat,
           Aligned(v, s, lk0, m0, p, z), NEW n \in Nat
    PROVE  Aligned(Resumed(v, n), s, lk0, m0, p + z, n)
<1> DEFINE t == Resumed(v, n)
<1>7. GoesOn(t, v, n, R)
  BY ResumedIs
<1> HIDE DEF t
<1>1. /\ t.link = v.link /\ t.pos = v.pos /\ t.remain = n /\ t.places = <<>>
  BY <1>7 DEF GoesOn
<1>2. PICK m \in Nat, i \in Nat : In(v, s, lk0, m0, p, z, m, i)
  BY DEF Aligned
<1>3. n - t.remain = 0 /\ Len(t.places) = 0
  BY <1>1
<1>8. t.ok
  BY ResumedIs DEF t
<1>4. (p + z) + (n - t.remain) = Offset(i, t.pos.off)
  <2>1. p + (z - v.remain) = Offset(i, v.pos.off)
    BY <1>2 DEF In
  <2>2. p + (z - 0) = (p + z) + 0
    OBVIOUS
  <2> QED BY <1>1, <1>3, <2>1, <2>2
<1>5. \A k \in 1 .. n - t.remain : t.places[k] = PlaceIn(t.link, s, (p + z) + k - 1)
  BY <1>3
<1>6. In(t, s, lk0, m0, p + z, n, m, i)
  BY <1>1, <1>2, <1>3, <1>4, <1>5, <1>8 DEF In
<1> QED BY <1>6 DEF Aligned, t

\* A write to such a file: it stops short only when the card is full, and
\* without a trap it stays with the file.
LEMMA WrittenReady ==
    ASSUME NEW R, Ready(R), NEW n \in Nat
    PROVE  LET t == Written(n) IN
           /\ OnCard(t)
           /\ t.traps = {} /\ ~t.aborted => Aligned(t, h.start, link, Needed(h.size), From, n)
<1> DEFINE t == Written(n)
           m == Needed(h.size)
<1>1. /\ h.start \in Clusters /\ h.start \in R /\ link \in Clean /\ Hint(link, firstFree) /\ Alone(link, R)
      /\ Inside(link) /\ Path(link, h.start, m) /\ h \in Handle
  BY ReadyIs DEF Ready
<1>2. /\ m \in Nat /\ m >= 1 /\ h.size <= Offset(m, 0) /\ h.size \in Nat /\ h.cur \in Nat /\ From \in Nat
  BY ReadyIs
<1> HIDE DEF m
<1>3. CASE ~Extends
  <2>1. Where \in Position
    BY <1>1, HandleIs DEF Where
  <2>2. From <= h.size /\ Stands(link, h.start, Where, From)
    <3>1. CASE h.append
      BY <1>2, <3>1 DEF Ready, Where, From
    <3>2. CASE ~h.append
      <4>1. h.cur <= h.size
        BY <1>2, <1>3, <3>2 DEF Extends
      <4> QED BY <3>2, <4>1 DEF Ready, Where, From
    <3> QED BY <3>1, <3>2
  <2>3. From <= Offset(m, 0)
    <3>1. Offset(m, 0) \in Nat
      BY <1>2, OffsetIs
    <3> QED BY <1>2, <2>2, <3>1
  <2> DEFINE u == Run(Transfer(link, firstFree, Where, n), MoveWrite)
  <2>4. (u.traps = {} => Aligned(u, h.start, link, m, From, n)) /\ OnCard(u)
    BY <1>1, <1>2, <2>1, <2>2, <2>3, WriteFrom
  <2>5. t = u
    BY <1>3, WrittenIs
  <2> HIDE DEF u, t
  <2> QED BY <2>4, <2>5 DEF t, m
<1>4. CASE Extends
  <2> DEFINE v == Extended
             z == h.cur - h.size
  <2>1. h.cur > h.size /\ ~h.append /\ z \in Nat /\ h.size + z = From
    BY <1>2, <1>4 DEF Extends, From
  <2>2. v \in Sane(z, R) /\ (v.ok => v.remain = 0)
    BY <1>1, <2>1, ExtendedSane
  <2>3. OnCard(v) /\ (v.traps = {} => Aligned(v, h.start, link, m, h.size, z))
    BY <2>1, ExtendedReady DEF m
  <2>4. t = IF v.ok THEN Run(Resumed(v, n), MoveWrite) ELSE Stopped(v, n)
    BY <1>4, WrittenIs, BehindIs
  <2> HIDE DEF v, z, t
  <2>5. CASE v.ok
    <3> DEFINE b == Resumed(v, n)
               u == Run(b, MoveWrite)
    <3>9. GoesOn(b, v, n, R) /\ b.ok
      BY <2>2, ResumedIs
    <3>1. b \in Sane(n, R) /\ b.link = v.link /\ b.pos = v.pos /\ b.traps = v.traps
      BY <3>9 DEF GoesOn
    <3>2. v.traps = {} => Aligned(b, h.start, link, m, h.size + z, n)
      BY <1>2, <2>1, <2>2, <2>3, <2>5, ResumedAligned
    <3>3. t = u
      BY <2>4, <2>5
    <3> HIDE DEF b
    <3>4. b.ok
      BY <3>9
    <3>5. OnCard(b)
      BY <2>3, <3>1, <3>4 DEF OnCard
    <3>6. OnCard(u)
      BY <3>1, <3>4, <3>5, RunOnCard
    <3>7. b.traps \subseteq u.traps
      BY <3>1, <3>4, RunEnds
    <3>8. u.traps = {} => Aligned(u, h.start, link, m, h.size + z, n)
      <4> SUFFICES ASSUME u.traps = {} PROVE Aligned(u, h.start, link, m, h.size + z, n)
        OBVIOUS
      <4> HIDE DEF u
      <4>1. b.traps = {}
        BY <3>7
      <4>2. Aligned(b, h.start, link, m, h.size + z, n)
        BY <3>1, <3>2, <4>1
      <4> DEFINE q == h.size + z
      <4>3. q \in Nat
        BY <1>2, <2>1
      <4> HIDE DEF q
      <4>4. Run(b, MoveWrite).traps = {} => Aligned(Run(b, MoveWrite), h.start, link, m, q, n)
        BY <1>1, <1>2, <3>1, <3>4, <4>2, <4>3, RunAligned DEF q
      <4> QED BY <4>4 DEF u, q
    <3> HIDE DEF u
    <3> QED BY <2>1, <3>3, <3>6, <3>8 DEF t, m
  <2>6. CASE ~v.ok
    <3> DEFINE b == Stopped(v, n)
    <3>4. GoesOn(b, v, n, R) /\ b.aborted /\ (b.ok <=> v.ok)
      BY <2>2, StoppedIs
    <3>1. b.aborted /\ b.link = v.link /\ b.pos = v.pos /\ (b.ok <=> v.ok)
      BY <3>4 DEF GoesOn
    <3>2. t = b
      BY <2>4, <2>6
    <3> HIDE DEF b
    <3>3. OnCard(b)
      BY <2>3, <2>6, <3>1 DEF OnCard
    <3> QED BY <3>1, <3>2, <3>3 DEF t
  <2> QED BY <2>5, <2>6
<1> QED BY <1>3, <1>4

-----------------------------------------------------------------------------
(* Clusters that are taken for a new chain                                 *)

\* A cluster that ends at once is a path.
LEMMA PathOne ==
    ASSUME NEW lk \in Links, NEW c \in Clusters, lk[c] = EOF
    PROVE  Path(lk, c, 1) /\ LastOf(lk, c) = c /\ Nth(lk, c, 0) = c
<1>1. c \in Cells /\ c \in Entries /\ 1 \in Nat /\ 1 - 1 = 0 /\ 1 <= LastCluster
  BY Numbers DEF Cells
<1>2. Nth(lk, c, 0) = c
  BY <1>1, NthIs
<1>3. NextOf(lk, c) = EOF
  BY <1>1 DEF NextOf
<1>4. Path(lk, c, 1)
  BY <1>1, <1>2, <1>3 DEF Path
<1>5. LastOf(lk, c) = Nth(lk, c, 1 - 1)
  BY <1>1, <1>4, LastOfPath
<1> QED BY <1>1, <1>2, <1>4, <1>5

\* n was free and is now a chain of its own.
Fresh(lk, lk2, n) ==
    /\ n \in Clusters /\ lk[n] = FREE /\ lk2[n] = EOF
    /\ \A d \in Clusters : d # n => lk2[d] = lk[d]

\* What linkFreeCluster comes to when no chain is to be made longer.
LEMMA FreshIs ==
    ASSUME NEW lk \in Clean, NEW ff, Hint(lk, ff), NEW R, Alone(lk, R)
    PROVE  LET res == LinkFree(lk, ff, FREE) IN
           /\ res.link \in Clean /\ Hint(res.link, res.firstFree)
           /\ Inside(lk) => Inside(res.link)
           /\ \/ Fresh(lk, res.link, res.cluster) /\ Alone(res.link, R \cup {res.cluster})
              \/ res.cluster \in {FREE, LastCluster + 1} /\ res.link = lk
<1> DEFINE res == LinkFree(lk, ff, FREE)
<1>1. /\ FREE \in Entries /\ FREE \notin Clusters /\ lk \in Links /\ lk[FREE] \notin Clusters
      /\ LastCluster + 1 \notin Clusters /\ FREE < LastCluster
  BY CleanIs, Numbers DEF Tables
<1>2. res.link \in Clean /\ Hint(res.link, res.firstFree)
  BY <1>1, LinkFreeKeeps
<1>3. \A l, f, c : Result(l, f, c).link = l /\ Result(l, f, c).cluster = c
  BY DEF Result
<1>4. Linked(lk, FREE, LastCluster + 1) = lk
  BY <1>1 DEF Linked, Put
<1>5. \/ \E n \in Clusters : lk[n] = FREE /\ res.link = Linked(lk, FREE, n) /\ res.cluster = n
      \/ res.cluster \in {FREE, LastCluster + 1} /\ res.link = lk
  BY <1>1, <1>3, <1>4, LinkFreeCases
<1> HIDE DEF res
<1>6. ASSUME NEW n \in Clusters, lk[n] = FREE, res.link = Linked(lk, FREE, n), res.cluster = n
      PROVE  /\ Fresh(lk, res.link, res.cluster) /\ Alone(res.link, R \cup {res.cluster})
             /\ Inside(lk) => Inside(res.link)
  <2>1. \A d \in Clusters : res.link[d] = IF d = n THEN EOF
                                         ELSE IF d = FREE /\ FREE < LastCluster THEN n ELSE lk[d]
    BY <1>1, <1>6, GrownIs
  <2>2. Fresh(lk, res.link, n)
    BY <1>1, <1>6, <2>1 DEF Fresh
  <2>3. Alone(res.link, R \cup {n})
    BY <1>1, <1>6, AloneLinked
  <2>4. Inside(lk) => Inside(res.link)
    BY <2>2, Numbers DEF Inside, Fresh
  <2> QED BY <1>6, <2>2, <2>3, <2>4
<1> QED BY <1>2, <1>5, <1>6 DEF res

-----------------------------------------------------------------------------
(* The invariant                                                           *)

\* Where the file begins and how long it is, open or closed.
Root == IF h # Closed THEN h.start ELSE entry.start
Size == IF h # Closed THEN h.size ELSE entry.size

\* The clusters that chains begin with.
Roots == others \cup ({Root} \cap Clusters)

\* Every cluster belongs to one chain at most, and the search for a free one
\* is led right.
Owned ==
    /\ link \in Clean /\ Hint(link, firstFree)
    /\ Alone(link, Roots) /\ Root \notin others

\* A handle that does not write leaves the directory entry as it was opened.
Kept ==
    h # Closed /\ ~h.write =>
        entry.start = FREE \/ (entry.start = h.start /\ entry.size = h.size)

\* The chain is as long as the size asks for.
Fitted ==
    /\ Inside(link)
    /\ h # Closed => h.start \in Clusters
    /\ h = Closed => entry.start \in Clusters \cup {FREE}
    /\ Root \in Clusters => Path(link, Root, Needed(Size))

\* rwPosition is in use: a read or a write would begin there.
Used == h # Closed /\ (h.cur < h.size \/ (h.cur = h.size /\ h.write))

\* The positions stand where the file's bytes are.
Placed ==
    /\ h # Closed /\ h.append => Stands(link, h.start, h.app, h.size)
    /\ Used /\ (h.append => "stale" \notin upset) => Stands(link, h.start, h.rw, h.cur)

FileInv ==
    /\ FileTypeOK /\ Owned /\ Kept
    /\ upset \subseteq {"stale"} => Fitted /\ Placed

\* A position in a path stands there in every table that has the path.
LEMMA StandsFrame ==
    ASSUME NEW lk \in Links, NEW s \in Cells, NEW m, Path(lk, s, m), NEW pos \in Position,
           NEW p \in Nat, p <= Offset(m, 0), Stands(lk, s, pos, p),
           NEW lk2, \A i \in 0 .. m - 1 : Nth(lk2, s, i) = Nth(lk, s, i)
    PROVE  Stands(lk2, s, pos, p)
<1>1. PICK i \in 0 .. m - 1 : StandsIn(lk, s, pos, i, p)
  BY StandsInside
<1>2. StandsIn(lk2, s, pos, i, p)
  BY <1>1 DEF StandsIn
<1>3. i \in Nat
  BY DEF Path
<1> QED BY <1>2, <1>3 DEF Stands

\* The clusters that a file needs cover it.
LEMMA Covers ==
    ASSUME NEW size \in Nat
    PROVE  /\ Needed(size) \in Nat /\ Needed(size) >= 1
           /\ size <= Offset(Needed(size), 0) /\ Offset(Needed(size), 0) \in Nat
<1> DEFINE m == Needed(size)
<1>1. Fits(m, size)
  BY NeededFits
<1> HIDE DEF m
<1>2. m \in Nat /\ m >= 1 /\ size <= Offset(m, 0)
  BY <1>1 DEF Fits
<1> QED BY <1>2, OffsetIs DEF m

\* What the types say of the file.
LEMMA FileTypes ==
    ASSUME FileTypeOK
    PROVE  /\ entry.start \in Entries /\ entry.size \in Nat
           /\ Root \in Entries /\ Size \in Nat
           /\ h # Closed => h \in Handle
BY HandleIs DEF FileTypeOK, Root, Size

\* A step on the table that leaves the file and its clusters alone.
LEMMA ElsewhereKeeps ==
    ASSUME FileInv, UNCHANGED <<entry, h, upset>>, link' \in Clean, Inside(link) => Inside(link'),
           Root \in Clusters => \A m : Path(link, Root, m) =>
               \A d \in Track(link, Root, m) : link'[d] = link[d]
    PROVE  /\ Root' = Root /\ Size' = Size /\ Kept'
           /\ upset' \subseteq {"stale"} => (Fitted /\ Placed)'
<1>1. Root' = Root /\ Size' = Size /\ Used' = Used
  BY DEF Root, Size, Used
<1>2. Kept'
  BY DEF Kept, FileInv
<1>3. ASSUME upset' \subseteq {"stale"} PROVE (Fitted /\ Placed)'
  <2>1. Fitted /\ Placed
    BY <1>3 DEF FileInv
  <2>2. link \in Links /\ link' \in Links /\ Root \in Entries /\ Root \in Cells /\ Size \in Nat
    BY CleanIs, FileTypes DEF FileInv, Owned, Cells
  <2> DEFINE m == Needed(Size)
  <2>3. m \in Nat /\ m >= 1 /\ Size <= Offset(m, 0) /\ Offset(m, 0) \in Nat
    BY <2>2, Covers
  <2> HIDE DEF m
  <2>4. ASSUME Root \in Clusters
        PROVE  Path(link, Root, m) /\ Path(link', Root, m) /\ \A i \in 0 .. m - 1 : Nth(link', Root, i) = Nth(link, Root, i)
    <3>1. Path(link, Root, m)
      BY <2>1, <2>4 DEF Fitted, m
    <3>2. \A d \in Track(link, Root, m) : link'[d] = link[d]
      BY <2>4, <3>1
    <3> QED BY <2>2, <3>1, <3>2, PathFrame
  <2>5. Fitted'
    BY <1>1, <2>1, <2>4 DEF Fitted, m
  <2>6. ASSUME h # Closed
        PROVE  /\ h.start = Root /\ h.size = Size /\ h.app \in Position /\ h.rw \in Position
               /\ h.cur \in Nat /\ Root \in Clusters
    BY <2>1, <2>6, FileTypes, HandleIs DEF FileInv, Root, Size, Fitted
  <2>7. ASSUME h # Closed, h.append PROVE Stands(link', h.start, h.app, h.size)
    <3>1. Stands(link, Root, h.app, Size)
      BY <2>1, <2>6, <2>7 DEF Placed
    <3> QED BY <2>2, <2>3, <2>4, <2>6, <2>7, <3>1, StandsFrame
  <2>8. ASSUME Used, h.append => "stale" \notin upset PROVE Stands(link', h.start, h.rw, h.cur)
    <3>1. Stands(link, Root, h.rw, h.cur) /\ h # Closed
      BY <2>1, <2>6, <2>8 DEF Placed, Used
    <3>2. h.cur <= Size
      BY <2>2, <2>6, <2>8 DEF Used
    <3>3. h.cur <= Offset(m, 0)
      BY <2>2, <2>3, <2>6, <3>1, <3>2
    <3> QED BY <2>2, <2>3, <2>4, <2>6, <3>1, <3>3, StandsFrame
  <2>9. Placed'
    BY <1>1, <2>7, <2>8 DEF Placed
  <2> QED BY <2>5, <2>9
<1> QED BY <1>1, <1>2, <1>3
-----------------------------------------------------------------------------
(* Every action keeps it                                                   *)

\* The card begins empty, the file without a cluster.
LEMMA FileInitKeeps == FileInit => FileInv
<1> SUFFICES ASSUME FileInit PROVE FileInv
  OBVIOUS
<1>1. /\ link = EmptyTable /\ firstFree = 2 /\ others = {} /\ h = Closed /\ upset = {}
      /\ entry = [start |-> FREE, size |-> 0]
  BY Numbers DEF FileInit
<1>2. link \in Clean /\ \A c \in Clusters : link[c] = FREE
  BY <1>1, Numbers DEF EmptyTable, Clean, Tables, Links
<1>3. FileTypeOK
  BY <1>1, <1>2, CleanIs, Numbers DEF FileTypeOK, Links
<1>4. Root = FREE /\ Size = 0 /\ Roots = {}
  BY <1>1, Numbers DEF Root, Size, Roots
<1>5. Owned
  <2>1. Hint(link, firstFree)
    BY <1>1, <1>2, Numbers DEF Hint
  <2>2. Alone(link, {})
    BY <1>2, Numbers DEF Alone
  <2> QED BY <1>1, <1>2, <1>4, <2>1, <2>2 DEF Owned
<1>6. Inside(link)
  BY <1>2, Numbers DEF Inside
<1> QED BY <1>1, <1>3, <1>4, <1>5, <1>6, Numbers DEF FileInv, Kept, Fitted, Placed, Used

\* A path goes over clusters in use.
LEMMA PathTracks ==
    ASSUME NEW lk \in Links, NEW c \in Cells, NEW m, Path(lk, c, m), NEW d \in Track(lk, c, m)
    PROVE  d \in Clusters /\ lk[d] # FREE
<1>1. PICK i \in 0 .. m - 1 : d = Nth(lk, c, i)
  BY DEF Track
<1>2. /\ m \in Nat /\ \A j \in 0 .. m - 1 : Nth(lk, c, j) \in Clusters
      /\ i + 1 <= m - 1 => lk[Nth(lk, c, i)] = Nth(lk, c, i + 1)
      /\ lk[Nth(lk, c, m - 1)] = EOF
  BY PathStep
<1>3. CASE i + 1 <= m - 1
  <2>1. i + 1 \in 0 .. m - 1
    BY <1>2, <1>3
  <2> QED BY <1>1, <1>2, <1>3, <2>1, Numbers
<1>4. CASE ~(i + 1 <= m - 1)
  <2>1. i = m - 1
    BY <1>2, <1>4
  <2> QED BY <1>1, <1>2, <2>1, Numbers
<1> QED BY <1>3, <1>4

\* Another file takes a free cluster, which is none of this file's.
LEMMA OtherTakesKeeps == FileInv /\ OtherTakes => FileInv'
<1> SUFFICES ASSUME FileInv, OtherTakes PROVE FileInv'
  OBVIOUS
<1> DEFINE new == LinkFree(link, firstFree, FREE)
           n == new.cluster
<1>1. /\ n \in Clusters /\ link' = new.link /\ firstFree' = new.firstFree
      /\ others' = others \cup {n} /\ UNCHANGED <<entry, h, upset>>
  BY DEF OtherTakes
<1>2. /\ FileTypeOK /\ link \in Clean /\ link \in Links /\ Hint(link, firstFree)
      /\ Alone(link, Roots) /\ Root \notin others
  BY CleanIs DEF FileInv, Owned
<1>3. /\ link' \in Clean /\ Hint(link', firstFree')
      /\ Inside(link) => Inside(link')
      /\ Fresh(link, link', n) /\ Alone(link', Roots \cup {n})
  <2>1. /\ new.link \in Clean /\ Hint(new.link, new.firstFree)
        /\ Inside(link) => Inside(new.link)
        /\ \/ Fresh(link, new.link, new.cluster) /\ Alone(new.link, Roots \cup {new.cluster})
           \/ new.cluster \in {FREE, LastCluster + 1} /\ new.link = link
    BY <1>2, FreshIs
  <2> HIDE DEF new
  <2> QED BY <1>1, <2>1, Numbers
<1> HIDE DEF n
<1>4. \A c \in Roots : link[c] # FREE
  BY <1>2 DEF Alone
<1>5. Root \in Clusters => \A m : Path(link, Root, m) =>
               \A d \in Track(link, Root, m) : link'[d] = link[d]
  <2> SUFFICES ASSUME Root \in Clusters, NEW m, Path(link, Root, m), NEW d \in Track(link, Root, m)
               PROVE  link'[d] = link[d]
    OBVIOUS
  <2>1. d \in Clusters /\ link[d] # FREE
    <3>1. Root \in Cells
      BY Numbers DEF Cells
    <3> QED BY <1>2, <3>1, PathTracks
  <2> QED BY <1>3, <2>1 DEF Fresh
<1>6. Root' = Root /\ Kept' /\ (upset' \subseteq {"stale"} => (Fitted /\ Placed)')
  BY <1>1, <1>3, <1>5, ElsewhereKeeps
<1>7. Root # n
  BY <1>3, <1>4 DEF Roots, Fresh
<1>8. Roots' = Roots \cup {n}
  BY <1>1, <1>6 DEF Roots
<1>9. Owned'
  BY <1>1, <1>2, <1>3, <1>6, <1>7, <1>8 DEF Owned
<1>10. FileTypeOK'
  BY <1>1, <1>2, <1>3, CleanIs DEF FileTypeOK, Hint, Links
<1> QED BY <1>6, <1>9, <1>10 DEF FileInv

\* It frees a chain of its own.
LEMMA OtherGivesBackKeeps ==
    ASSUME FileInv, NEW c \in others, OtherGivesBack(c)
    PROVE  FileInv'
<1> DEFINE cut == ClearLinks(link, firstFree, c)
<1>1. /\ link' = cut.link /\ firstFree' = cut.firstFree /\ others' = others \ {c}
      /\ UNCHANGED <<entry, h, upset>>
  BY DEF OtherGivesBack
<1>2. /\ FileTypeOK /\ link \in Clean /\ link \in Links /\ Hint(link, firstFree)
      /\ Alone(link, Roots) /\ Root \notin others
  BY CleanIs DEF FileInv, Owned
<1>3. c \in Roots /\ c \in Clusters /\ c \in Entries /\ c # Root
  BY <1>2, Numbers DEF Roots, FileTypeOK
<1>4. link' \in Clean /\ Hint(link', firstFree')
  BY <1>1, <1>2, <1>3, ClearLinksKeeps
<1>5. /\ Alone(link', Roots \ {c})
      /\ Freed(link, link', c)
  <2>1. /\ Alone(cut.link, Roots \ {c})
        /\ Freed(link, cut.link, c)
    BY <1>2, <1>3, AloneCut
  <2> HIDE DEF cut
  <2> QED BY <1>1, <2>1
<1>6. Inside(link) => Inside(link')
  BY <1>5, Numbers DEF Inside, Freed
<1>7. Root \in Clusters => \A m : Path(link, Root, m) =>
               \A d \in Track(link, Root, m) : link'[d] = link[d]
  <2> SUFFICES ASSUME Root \in Clusters, NEW m, Path(link, Root, m), NEW d \in Track(link, Root, m)
               PROVE  link'[d] = link[d]
    OBVIOUS
  <2>1. d \in Clusters
    <3>1. Root \in Cells
      BY Numbers DEF Cells
    <3> QED BY <1>2, <3>1, PathTracks
  <2>2. Root \in Roots
    BY DEF Roots
  <2>3. Chain(link, c) \cap Track(link, Root, m) = {}
    BY <1>2, <1>3, <2>2, PathIsApart
  <2> QED BY <1>5, <2>1, <2>3 DEF Freed
<1>8. Root' = Root /\ Kept' /\ (upset' \subseteq {"stale"} => (Fitted /\ Placed)')
  BY <1>1, <1>4, <1>6, <1>7, ElsewhereKeeps
<1>9. Roots' = Roots \ {c}
  BY <1>1, <1>3, <1>8 DEF Roots
<1>10. Owned'
  BY <1>1, <1>2, <1>4, <1>5, <1>8, <1>9 DEF Owned
<1>11. FileTypeOK'
  BY <1>1, <1>2, <1>4, CleanIs DEF FileTypeOK, Hint, Links
<1> QED BY <1>8, <1>10, <1>11 DEF FileInv

\* Close writes start and size to the entry.
LEMMA CloseKeeps == FileInv /\ Close => FileInv'
<1> SUFFICES ASSUME FileInv, Close PROVE FileInv'
  OBVIOUS
<1>1. /\ h # Closed /\ h' = Closed /\ UNCHANGED <<link, firstFree, others, upset>>
      /\ entry' = IF h.write THEN [start |-> h.start, size |-> h.size] ELSE entry
  BY DEF Close
<1>2. /\ FileTypeOK /\ Kept /\ link \in Clean /\ Hint(link, firstFree)
      /\ Alone(link, Roots) /\ Root \notin others /\ h \in Handle
  BY <1>1, FileTypes DEF FileInv, Owned
<1>3. FileTypeOK'
  BY <1>1, <1>2, HandleIs DEF FileTypeOK
<1>4. Kept' /\ ~Used'
  BY <1>1 DEF Kept, Used
<1>5. \/ Root' = Root /\ Size' = Size
      \/ Root' = FREE
  BY <1>1, <1>2 DEF Root, Size, Kept
<1>6. CASE Root' = Root /\ Size' = Size
  <2>1. Roots' = Roots
    BY <1>1, <1>6 DEF Roots
  <2>2. Owned'
    BY <1>1, <1>2, <1>6, <2>1 DEF Owned
  <2>3. upset' \subseteq {"stale"} => Fitted'
    BY <1>1, <1>6 DEF FileInv, Fitted, Root
  <2> QED BY <1>1, <1>3, <1>4, <2>2, <2>3 DEF FileInv, Placed
<1>7. CASE Root' = FREE
  <2>1. Roots' = others /\ others \in SUBSET Roots
    BY <1>1, <1>7, Numbers DEF Roots
  <2>2. Alone(link, others)
    BY <1>2, <2>1, AloneLess
  <2>3. FREE \notin others
    BY <1>2, Numbers DEF FileTypeOK
  <2>4. Owned'
    BY <1>1, <1>2, <1>7, <2>1, <2>2, <2>3 DEF Owned
  <2>5. upset' \subseteq {"stale"} => Fitted'
    BY <1>1, <1>7, Numbers DEF FileInv, Fitted, Root
  <2> QED BY <1>1, <1>3, <1>4, <2>4, <2>5 DEF FileInv, Placed
<1> QED BY <1>5, <1>6, <1>7
\* What open goes on with: the chain of the file, or a table on which others
\* alone have chains and a cluster that is asked of it.
LEMMA OpenStartIs ==
    ASSUME FileInv, h = Closed, NEW m \in Modes
    PROVE  \/ /\ ~m.trunc /\ entry.start # FREE
              /\ OpenStart(m) = Result(link, firstFree, entry.start)
           \/ /\ m.trunc \/ entry.start = FREE
              /\ \E lk \in Clean : \E ff :
                    /\ Hint(lk, ff) /\ Alone(lk, others) /\ (Inside(link) => Inside(lk))
                    /\ OpenStart(m) = LinkFree(lk, ff, FREE)
<1> DEFINE s == entry.start
<1>1. /\ link \in Clean /\ Hint(link, firstFree) /\ Alone(link, Roots) /\ s \notin others
      /\ s \in Entries /\ Roots = others \cup ({s} \cap Clusters)
  BY FileTypes DEF FileInv, Owned, Roots, Root
<1>2. OpenStart(m) =
        IF s = FREE THEN LinkFree(link, firstFree, FREE)
        ELSE IF ~m.trunc THEN Result(link, firstFree, s)
        ELSE LinkFree(ClearLinks(link, firstFree, s).link, ClearLinks(link, firstFree, s).firstFree, FREE)
  BY DEF OpenStart
<1> HIDE DEF s
<1>3. Alone(link, others)
  BY <1>1, AloneLess
<1>4. CASE s = FREE
  BY <1>1, <1>2, <1>3, <1>4 DEF s
<1>5. CASE s # FREE /\ ~m.trunc
  BY <1>2, <1>5 DEF s
<1>6. CASE s # FREE /\ m.trunc
  <2> DEFINE cut == ClearLinks(link, firstFree, s)
  <2>1. cut.link \in Clean /\ Hint(cut.link, cut.firstFree)
    BY <1>1, ClearLinksKeeps
  <2>2. Alone(cut.link, others) /\ (Inside(link) => Inside(cut.link))
    <3>1. CASE s \in Clusters
      <4>1. Alone(cut.link, Roots \ {s}) /\ Freed(link, cut.link, s)
        BY <1>1, <3>1, AloneCut
      <4>2. Roots \ {s} = others
        BY <1>1, <3>1
      <4> HIDE DEF cut
      <4>3. Inside(link) => Inside(cut.link)
        BY <4>1, Numbers DEF Inside, Freed
      <4> QED BY <4>1, <4>2, <4>3
    <3>2. CASE s \notin Clusters
      <4>1. cut = Result(link, firstFree, s)
        BY <1>1, <3>2, ClearLinksKeeps
      <4> QED BY <1>3, <4>1 DEF Result
    <3> QED BY <3>1, <3>2
  <2>3. OpenStart(m) = LinkFree(cut.link, cut.firstFree, FREE)
    BY <1>2, <1>6
  <2> HIDE DEF cut
  <2> QED BY <1>6, <2>1, <2>2, <2>3
<1> QED BY <1>4, <1>5, <1>6

\* The modes of fopen: one that truncates writes.
LEMMA ModesAre ==
    ASSUME NEW m \in Modes
    PROVE  /\ m.read \in BOOLEAN /\ m.write \in BOOLEAN /\ m.append \in BOOLEAN
           /\ m.trunc => m.write
<1>1. PICK r \in BOOLEAN, w \in BOOLEAN, a \in BOOLEAN, t \in BOOLEAN : m = Mode(r, w, a, t) /\ (t => w)
  BY DEF Modes
<1> QED BY <1>1 DEF Mode

\* The handle that open makes.
Opened(m, lk, c, size) ==
    [read |-> m.read, write |-> m.write, append |-> m.append, start |-> c, size |-> size, cur |-> 0,
     rw |-> At(c, 0), app |-> At(LastOf(lk, c), EndOff(size))]

\* The two positions that open sets are the first byte and the end.
LEMMA OpenedIs ==
    ASSUME NEW m \in Modes, NEW lk \in Clean, NEW R, Alone(lk, R), NEW c \in Entries,
           c \in Clusters => c \in R, NEW size \in Nat
    PROVE  /\ Opened(m, lk, c, size) \in Handle /\ Opened(m, lk, c, size) # Closed
           /\ Path(lk, c, Needed(size)) =>
                 /\ Stands(lk, c, At(c, 0), 0)
                 /\ Stands(lk, c, At(LastOf(lk, c), EndOff(size)), size)
<1>1. m.read \in BOOLEAN /\ m.write \in BOOLEAN /\ m.append \in BOOLEAN
  BY ModesAre
<1>2. LastOf(lk, c) \in Entries
  BY LastOfType
<1>3. EndOff(size) \in 0 .. ClusterSize /\ size = Offset(Needed(size) - 1, EndOff(size))
  BY EndOffIs
<1>4. At(c, 0) \in Position /\ At(LastOf(lk, c), EndOff(size)) \in Position
  BY <1>2, <1>3, SizeIs, PositionAt
<1>5. Opened(m, lk, c, size) \in Handle
  BY <1>1, <1>4 DEF Opened, Handle
<1>6. Opened(m, lk, c, size) # Closed
  BY <1>5, FileAssumption
<1> DEFINE k == Needed(size)
<1>7. k \in Nat /\ k >= 1
  BY Covers
<1> HIDE DEF k
<1>8. ASSUME Path(lk, c, k)
      PROVE  Stands(lk, c, At(c, 0), 0) /\ Stands(lk, c, At(LastOf(lk, c), EndOff(size)), size)
  <2>1. lk \in Links /\ c \in Cells
    BY CleanIs DEF Cells
  <2>2. Nth(lk, c, 0) = c /\ c \in Clusters
    <3>1. 0 \in 0 .. k - 1
      BY <1>7
    <3>2. Nth(lk, c, 0) = c
      BY <2>1, NthIs
    <3> QED BY <1>8, <3>1, <3>2 DEF Path
  <2>3. Offset(0, 0) = 0
    BY SizeIs DEF Offset
  <2>4. StandsIn(lk, c, At(c, 0), 0, 0)
    BY <2>2, <2>3 DEF StandsIn, At
  <2>5. k <= LastCluster - 1
    BY <1>8, <2>1, <2>2, PathIsChain
  <2>6. k <= LastCluster
    BY <1>7, <2>5, Numbers
  <2>7. LastOf(lk, c) = Nth(lk, c, k - 1)
    BY <1>8, <2>1, <2>6, LastOfPath
  <2>8. StandsIn(lk, c, At(LastOf(lk, c), EndOff(size)), k - 1, size)
    BY <1>3, <2>7 DEF StandsIn, At, k
  <2>9. 0 \in Nat /\ k - 1 \in Nat
    BY <1>7
  <2> QED BY <2>4, <2>8, <2>9 DEF Stands
<1> QED BY <1>5, <1>6, <1>8 DEF k

\* Open, with truncation and a first cluster as the mode asks for.
LEMMA OpenKeeps ==
    ASSUME FileInv, NEW m \in Modes, Open(m)
    PROVE  FileInv'
<1> DEFINE got == OpenStart(m)
           new == m.trunc \/ entry.start = FREE
           size == IF new THEN 0 ELSE entry.size
           c == got.cluster
<1>1. /\ h = Closed /\ link' = got.link /\ firstFree' = got.firstFree
      /\ h' = Opened(m, got.link, c, size)
      /\ upset' = upset \cup (IF new THEN Traps(FREE, got) ELSE {})
                        \cup (IF c = FREE THEN {"empty"} ELSE {})
      /\ UNCHANGED <<others, entry>>
  BY DEF Open, Opened
<1>2. /\ FileTypeOK /\ link \in Clean /\ Hint(link, firstFree) /\ Alone(link, Roots)
      /\ entry.start \notin others /\ entry.start \in Entries /\ entry.size \in Nat
      /\ others \subseteq Clusters /\ Root = entry.start /\ Size = entry.size
  BY <1>1, FileTypes DEF FileInv, Owned, Root, Size, FileTypeOK
<1>3. size \in Nat
  BY <1>2
<1>4. /\ link' \in Clean /\ Hint(link', firstFree') /\ c \in Entries
      /\ Alone(link', others \cup ({c} \cap Clusters)) /\ c \notin others
      /\ (upset' \subseteq {"stale"} /\ Inside(link) /\ (~new => entry.start \in Clusters /\ Path(link, entry.start, Needed(entry.size))))
            => (Inside(link') /\ c \in Clusters /\ Path(link', c, Needed(size)))
      /\ ~new => c = entry.start
  <2>1. CASE ~new /\ got = Result(link, firstFree, entry.start)
    <3>1. got.link = link /\ got.firstFree = firstFree /\ c = entry.start /\ size = entry.size
      BY <2>1 DEF Result
    <3> HIDE DEF got, new, size, c
    <3> QED BY <1>1, <1>2, <2>1, <3>1 DEF Roots
  <2>2. ASSUME new, NEW lk \in Clean, NEW ff, Hint(lk, ff), Alone(lk, others),
               Inside(link) => Inside(lk), got = LinkFree(lk, ff, FREE)
        PROVE  <1>4!:
    <3>1. /\ got.link \in Clean /\ Hint(got.link, got.firstFree)
          /\ Inside(lk) => Inside(got.link)
          /\ \/ Fresh(lk, got.link, c) /\ Alone(got.link, others \cup {c})
             \/ c \in {FREE, LastCluster + 1} /\ got.link = lk
      BY <2>2, FreshIs
    <3>2. CASE Fresh(lk, got.link, c) /\ Alone(got.link, others \cup {c})
      <4>1. c \in Clusters /\ got.link[c] = EOF /\ lk[c] = FREE
        BY <3>2 DEF Fresh
      <4>2. c \notin others
        BY <2>2, <4>1 DEF Alone
      <4>3. size = 0 /\ Needed(0) = 1
        BY <2>2 DEF Needed
      <4>4. Path(got.link, c, Needed(size))
        BY <3>1, <4>1, <4>3, PathOne, CleanIs
      <4>5. {c} \cap Clusters = {c} /\ c \in Entries
        BY <4>1, Numbers
      <4> HIDE DEF got, new, size, c
      <4> QED BY <1>1, <2>2, <3>1, <3>2, <4>1, <4>2, <4>4, <4>5
    <3>3. CASE c \in {FREE, LastCluster + 1} /\ got.link = lk
      <4>1. c \in Entries /\ {c} \cap Clusters = {} /\ c \notin others
        BY <1>2, <3>3, Numbers
      <4>2. c = FREE \/ c > LastCluster
        BY <3>3, Numbers
      <4>3. "empty" \in upset' \/ "beyond" \in upset'
        BY <1>1, <2>2, <4>2 DEF Traps
      <4> HIDE DEF got, new, size, c
      <4> QED BY <1>1, <2>2, <3>1, <3>3, <4>1, <4>3
    <3> QED BY <3>1, <3>2, <3>3
  <2> HIDE DEF got, c
  <2> QED BY <1>1, <2>1, <2>2, OpenStartIs DEF got
<1> DEFINE R == others \cup ({c} \cap Clusters)
           o == Opened(m, link', c, size)
<1>5. /\ h' = o /\ o \in Handle /\ o # Closed
      /\ Path(link', c, Needed(size)) =>
            /\ Stands(link', c, At(c, 0), 0)
            /\ Stands(link', c, At(LastOf(link', c), EndOff(size)), size)
  <2>1. c \in Clusters => c \in R
    OBVIOUS
  <2>2. h' = o
    BY <1>1
  <2> HIDE DEF got, c, size, R, o
  <2>3. link' \in Clean /\ Alone(link', R) /\ c \in Entries
    BY <1>4 DEF R
  <2> QED BY <1>3, <2>1, <2>2, <2>3, OpenedIs DEF o
<1>6. /\ o.start = c /\ o.size = size /\ o.cur = 0 /\ o.write = m.write /\ o.rw = At(c, 0)
      /\ o.app = At(LastOf(link', c), EndOff(size))
  BY DEF Opened
<1> HIDE DEF o
<1>7. Root' = c /\ Size' = size /\ Roots' = R
  BY <1>1, <1>5, <1>6 DEF Root, Size, Roots
<1>8. Owned'
  BY <1>1, <1>4, <1>7 DEF Owned
<1>9. Kept'
  <2> SUFFICES ASSUME ~m.write PROVE entry.start = FREE \/ (entry.start = c /\ entry.size = size)
    BY <1>1, <1>5, <1>6 DEF Kept
  <2>1. ~m.trunc
    BY ModesAre
  <2> QED BY <1>4, <2>1
<1>10. upset \subseteq upset' /\ upset' \subseteq Trap
  <2>1. Traps(FREE, got) \subseteq Trap
    BY TrapsType DEF MoveTraps, Trap
  <2>2. upset \subseteq Trap /\ "empty" \in Trap
    BY <1>2 DEF FileTypeOK, Trap
  <2> QED BY <1>1, <2>1, <2>2
<1>11. FileTypeOK'
  BY <1>1, <1>2, <1>4, <1>5, <1>10, CleanIs DEF FileTypeOK, Hint, Links
<1>12. ASSUME upset' \subseteq {"stale"} PROVE Fitted' /\ Placed'
  <2>1. Inside(link) /\ (entry.start # FREE => entry.start \in Clusters /\ Path(link, entry.start, Needed(entry.size)))
    BY <1>1, <1>2, <1>10, <1>12 DEF FileInv, Fitted
  <2>2. Inside(link') /\ c \in Clusters /\ Path(link', c, Needed(size))
    BY <1>4, <1>12, <2>1
  <2>3. Fitted'
    BY <1>5, <1>6, <1>7, <2>2 DEF Fitted
  <2>4. Placed'
    BY <1>5, <1>6, <2>2 DEF Placed
  <2> QED BY <2>3, <2>4
<1> QED BY <1>8, <1>9, <1>11, <1>12 DEF FileInv
\* What the invariant says of an open file.
LEMMA OpenFile ==
    ASSUME FileInv, h # Closed
    PROVE  /\ link \in Clean /\ link \in Links /\ Hint(link, firstFree) /\ Alone(link, Roots)
           /\ h \in Handle /\ (h.start \in Clusters => h.start \in Roots) /\ h.start \in Entries
           /\ h.start \in Cells /\ h.start \notin others
           /\ h.size \in Nat /\ h.cur \in Nat /\ h.rw \in Position /\ h.app \in Position
           /\ upset \subseteq {"stale"} =>
                 /\ Inside(link) /\ h.start \in Roots /\ h.start \in Clusters
                 /\ Path(link, h.start, Needed(h.size)) /\ Placed
<1>1. FileTypeOK /\ h \in Handle /\ Root = h.start /\ Size = h.size
  BY FileTypes DEF FileInv, Root, Size
<1>2. link \in Clean /\ link \in Links /\ Hint(link, firstFree) /\ Alone(link, Roots) /\ Root \notin others
  BY CleanIs DEF FileInv, Owned
<1>3. h.start \in Clusters => h.start \in Roots
  BY <1>1 DEF Roots
<1>4. h.start \in Entries /\ h.start \in Cells /\ h.size \in Nat /\ h.cur \in Nat
      /\ h.rw \in Position /\ h.app \in Position
  BY <1>1, HandleIs DEF Cells
<1>5. ASSUME upset \subseteq {"stale"}
      PROVE  /\ Inside(link) /\ h.start \in Roots /\ h.start \in Clusters
             /\ Path(link, h.start, Needed(h.size)) /\ Placed
  BY <1>1, <1>3, <1>5 DEF FileInv, Fitted
<1> QED BY <1>1, <1>2, <1>3, <1>4, <1>5

\* A read keeps the table, whatever the state of the file.
LEMMA ReadOfSane ==
    ASSUME link \in Clean, Hint(link, firstFree), NEW R, Alone(link, R), h \in Handle, NEW n \in Nat
    PROVE  ReadOf(n) \in Sane(n, R)
<1> DEFINE t == Transfer(link, firstFree, h.rw, n)
           u == Run(t, MoveRead)
<1>1. Begins(t, link, firstFree, h.rw, n, R)
  BY HandleIs, TransferIs
<1> HIDE DEF t
<1>2. u \in Sane(n, R)
  BY <1>1, ReadSane DEF Begins
<1>3. ReadOf(n) = u \/ ReadOf(n) = MoveRead(u)
  BY DEF ReadOf, ReadAhead, t
<1> HIDE DEF u
<1>4. MoveRead(u) \in Sane(n, R)
  BY <1>2, MoveReadSane
<1> QED BY <1>2, <1>3, <1>4

\* A read within the file meets no trap and stays with it.
LEMMA ReadWithin ==
    ASSUME link \in Clean, Hint(link, firstFree), NEW R, Alone(link, R), Inside(link), h \in Handle,
           h.start \in R, Path(link, h.start, Needed(h.size)), Stands(link, h.start, h.rw, h.cur),
           NEW n \in Nat, n > 0, h.cur + n <= h.size
    PROVE  /\ ReadOf(n).ok /\ ReadOf(n).remain = 0 /\ ReadOf(n).link = link
           /\ Aligned(ReadOf(n), h.start, link, Needed(h.size), h.cur, n)
<1> DEFINE t == Transfer(link, firstFree, h.rw, n)
           u == Run(t, MoveRead)
           w == Run(t, MoveWrite)
           m == Needed(h.size)
           v == ReadOf(n)
           s == h.start
           p == h.cur
<1>1. /\ h.size \in Nat /\ p \in Nat /\ h.rw \in Position
      /\ s \in Clusters /\ s \in Cells /\ s \in R /\ link \in Links
  BY HandleIs, CleanIs, Numbers DEF Alone, Cells
<1>2. m \in Nat /\ m >= 1 /\ h.size <= Offset(m, 0) /\ Offset(m, 0) \in Nat
  BY <1>1, Covers
<1>3. p <= Offset(m, 0) /\ p + n <= Offset(m, 0)
  BY <1>1, <1>2
<1>4. Begins(t, link, firstFree, h.rw, n, R)
  BY <1>1, TransferIs
<1> HIDE DEF m, p
<1>5. Path(link, s, m) /\ Stands(link, s, h.rw, p)
  BY DEF m, p
<1>6. Within(t, link, s, m, p, n)
  BY <1>1, <1>3, <1>5, WriteFrom
<1> HIDE DEF t
<1>7. t \in Sane(n, R) /\ t.ok /\ t.remain = n
  BY <1>4 DEF Begins
<1>8. u = w /\ Within(u, link, s, m, p, n)
  BY <1>1, <1>2, <1>3, <1>6, <1>7, RunWithin
<1>9. w \in Sane(n, R) /\ (w.ok => w.remain = 0)
  BY <1>7, RunEnds
<1>10. v = ReadAhead(u, n)
  BY DEF ReadOf, t
<1> HIDE DEF u, w, v, s
<1>11. /\ u \in Sane(n, R) /\ u.ok /\ u.remain = 0 /\ u.link = link /\ u.traps = {}
       /\ Aligned(u, s, link, m, p, n)
  BY <1>8, <1>9 DEF Within
<1>12. CASE v = u
  BY <1>11, <1>12 DEF m, p, v, s
<1>13. CASE v = MoveRead(u) /\ u.pos.off = ClusterSize /\ NextOf(link, u.pos.cluster) # EOF
  <2>1. PICK k \in Nat, i \in Nat : In(u, s, link, m, p, n, k, i)
    BY <1>11 DEF Aligned
  <2>2. Path(link, s, k) /\ i <= k - 1 /\ u.pos.cluster = Nth(link, s, i)
    BY <1>11, <2>1 DEF In
  <2>3. /\ k - 1 \in 0 .. k - 1 /\ Nth(link, s, i + 1) = NextOf(link, Nth(link, s, i))
        /\ \A j \in 0 .. k - 1 : Nth(link, s, j) \in Clusters
        /\ NextOf(link, Nth(link, s, k - 1)) = EOF
    <3>1. Nth(link, s, i + 1) = NextOf(link, Nth(link, s, i))
      BY <1>1, NthIs
    <3> QED BY <2>2, <3>1 DEF Path
  <2>4. Next(u) = Nth(link, s, i + 1) /\ i # k - 1
    BY <1>11, <1>13, <2>2, <2>3 DEF Next
  <2>5. i + 1 \in 0 .. k - 1
    BY <2>2, <2>3, <2>4
  <2>6. Next(u) \in Clusters
    BY <2>3, <2>4, <2>5
  <2>7. Next(u) \notin {FREE, EOF}
    BY <2>6, Numbers
  <2>8. u \in Transfers(n)
    BY <1>11 DEF Sane
  <2>9. ~(u.pos.off < ClusterSize)
    BY <1>13, SizeIs
  <2>10. v = MoveWrite(u) /\ MoveWrite(u) = Moved(u)
    BY <1>13, <2>7, <2>8, <2>9, MoveWriteIs, MoveReadIs
  <2>11. Moved(u).link = u.link /\ Moved(u).remain = u.remain /\ Moved(u).traps = u.traps
    BY <2>7, <2>8, MovedFields
  <2>12. Moved(u).ok
    BY <1>11, <2>7, <2>8, MovedFields
  <2>13. Aligned(MoveWrite(u), s, link, m, p, n)
    BY <1>1, <1>2, <1>11, <2>10, <2>11, MoveAligned
  <2> QED BY <1>11, <2>10, <2>11, <2>12, <2>13 DEF m, p, v, s
<1> QED BY <1>10, <1>12, <1>13 DEF ReadAhead

\* Where a transfer that stays with the file ends.
LEMMA AlignedStands ==
    ASSUME NEW u, u.ok, NEW s, NEW lk0, NEW m0, NEW p \in Nat, NEW n \in Nat, u.remain \in 0 .. n,
           Aligned(u, s, lk0, m0, p, n)
    PROVE  Stands(u.link, s, u.pos, p + (n - u.remain))
<1>1. PICK k \in Nat, i \in Nat : In(u, s, lk0, m0, p, n, k, i)
  BY DEF Aligned
<1>2. StandsIn(u.link, s, u.pos, i, p + (n - u.remain))
  BY <1>1 DEF In, StandsIn
<1> QED BY <1>2 DEF Stands

\* A handle that only moves.
LEMMA MoveOnKeeps ==
    ASSUME FileInv, h # Closed, NEW rw \in Position, NEW cur \in Nat,
           h' = [h EXCEPT !.rw = rw, !.cur = cur], UNCHANGED <<link, firstFree, others, entry, upset>>,
           upset \subseteq {"stale"} /\ (h.append => "stale" \notin upset)
               /\ (cur < h.size \/ (cur = h.size /\ h.write)) => Stands(link, h.start, rw, cur)
    PROVE  FileInv'
<1>1. /\ h \in Handle /\ FileTypeOK /\ Owned /\ Kept
      /\ (upset \subseteq {"stale"} => Fitted /\ Placed)
  BY OpenFile DEF FileInv
<1>2. h' \in Handle /\ h'.rw = rw /\ h'.cur = cur
  BY <1>1 DEF Handle
<1>3. /\ h'.start = h.start /\ h'.size = h.size /\ h'.app = h.app
      /\ h'.write = h.write /\ h'.append = h.append
  BY <1>1 DEF Handle
<1>4. h' # Closed
  BY <1>2, FileAssumption
<1>5. Root' = Root /\ Size' = Size /\ Roots' = Roots
  BY <1>3, <1>4 DEF Root, Size, Roots
<1>6. FileTypeOK' /\ Owned' /\ Kept'
  BY <1>1, <1>2, <1>3, <1>4, <1>5 DEF FileTypeOK, Owned, Kept
<1>7. ASSUME upset' \subseteq {"stale"} PROVE Fitted' /\ Placed'
  <2>1. Fitted'
    BY <1>1, <1>3, <1>4, <1>5, <1>7 DEF Fitted
  <2>2. Placed'
    BY <1>1, <1>2, <1>3, <1>7 DEF Placed, Used
  <2> QED BY <2>1, <2>2
<1> QED BY <1>6, <1>7 DEF FileInv

\* A read links nothing and moves as far as it read.
LEMMA ReadKeeps ==
    ASSUME FileInv, NEW n \in Nat, n > 0, Read(n)
    PROVE  FileInv'
<1> DEFINE c == Clipped(n)
           t == ReadOf(c)
<1>1. /\ h # Closed /\ h.cur < h.size /\ UNCHANGED <<link, firstFree, others, entry>>
      /\ IF t.ok THEN h' = [h EXCEPT !.rw = t.pos, !.cur = @ + c] /\ UNCHANGED upset
         ELSE h' = h /\ upset' = upset \cup t.traps
  BY DEF Read
<1>2. /\ link \in Clean /\ Hint(link, firstFree) /\ Alone(link, Roots) /\ h \in Handle
      /\ h.size \in Nat /\ h.cur \in Nat
      /\ upset \subseteq {"stale"} =>
                 /\ Inside(link) /\ h.start \in Roots /\ h.start \in Clusters
                 /\ Path(link, h.start, Needed(h.size)) /\ Placed
  BY <1>1, OpenFile
<1>3. c \in Nat /\ c > 0 /\ h.cur + c <= h.size
  BY <1>1, <1>2 DEF Clipped
<1>4. t \in Sane(c, Roots)
  BY <1>2, <1>3, ReadOfSane
<1> HIDE DEF c
<1>5. t.pos \in Position /\ t.traps \subseteq MoveTraps /\ t.remain \in 0 .. c
  BY <1>4 DEF Sane, Transfers
<1>6. CASE t.ok
  <2>1. h' = [h EXCEPT !.rw = t.pos, !.cur = h.cur + c] /\ UNCHANGED upset
    BY <1>1, <1>6
  <2>2. ASSUME upset \subseteq {"stale"}, h.append => "stale" \notin upset
        PROVE  Stands(link, h.start, t.pos, h.cur + c)
    <3>1. Stands(link, h.start, h.rw, h.cur)
      BY <1>1, <1>2, <2>2 DEF Placed, Used
    <3>2. t.remain = 0 /\ t.link = link /\ Aligned(t, h.start, link, Needed(h.size), h.cur, c)
      BY <1>2, <1>3, <2>2, <3>1, ReadWithin
    <3> HIDE DEF t
    <3>3. Stands(t.link, h.start, t.pos, h.cur + (c - t.remain))
      BY <1>2, <1>3, <1>5, <1>6, <3>2, AlignedStands
    <3>4. c - t.remain = c
      BY <1>3, <3>2
    <3> QED BY <3>2, <3>3, <3>4
  <2>3. h.cur + c \in Nat
    BY <1>2, <1>3
  <2> DEFINE cur == h.cur + c
             rw == t.pos
  <2> HIDE DEF t, cur, rw
  <2>4. h' = [h EXCEPT !.rw = rw, !.cur = cur] /\ rw \in Position /\ cur \in Nat
    BY <1>5, <2>1, <2>3 DEF cur, rw
  <2>5. upset \subseteq {"stale"} /\ (h.append => "stale" \notin upset)
               /\ (cur < h.size \/ (cur = h.size /\ h.write)) => Stands(link, h.start, rw, cur)
    BY <2>2 DEF cur, rw
  <2> QED BY <1>1, <2>1, <2>4, <2>5, MoveOnKeeps
<1>7. CASE ~t.ok
  <2>1. h' = h /\ upset \subseteq upset' /\ upset' \subseteq upset \cup MoveTraps
    BY <1>1, <1>5, <1>7
  <2> HIDE DEF t
  <2>2. FileTypeOK'
    BY <1>1, <2>1 DEF FileInv, FileTypeOK, MoveTraps, Trap
  <2>3. Root' = Root /\ Size' = Size /\ Roots' = Roots /\ Used' = Used
    BY <1>1, <2>1 DEF Root, Size, Roots, Used
  <2>4. Owned' /\ Kept'
    BY <1>1, <2>1, <2>3 DEF FileInv, Owned, Kept
  <2>5. ASSUME upset' \subseteq {"stale"} PROVE Fitted' /\ Placed'
    <3>1. Fitted /\ Placed
      BY <2>1, <2>5 DEF FileInv
    <3> QED BY <1>1, <2>1, <2>3, <3>1 DEF Fitted, Placed
  <2> QED BY <2>2, <2>4, <2>5 DEF FileInv
<1> QED BY <1>6, <1>7
\* Seeking goes as many clusters on as lie between the two positions.
LEMMA StepsIs ==
    ASSUME h \in Handle, NEW p \in Nat
    PROVE  /\ Steps(p) \in Nat
           /\ p < h.cur => Steps(p) = p \div ClusterSize
           /\ \A i \in Nat : p >= h.cur /\ h.cur = Offset(i, h.rw.off) => i + Steps(p) = p \div ClusterSize
<1> DEFINE C == ClusterSize
           q == p \div C
           d == h.cur \div C
           o == h.rw.off
<1>1. h.cur \in Nat /\ o \in 0 .. C /\ C \in Nat /\ C >= 1
  BY HandleIs, SizeIs DEF Position
<1>2. q \in Nat /\ p % C \in 0 .. C - 1 /\ p = Offset(q, p % C)
  BY OffsetOf
<1>3. d \in Nat /\ h.cur % C \in 0 .. C - 1 /\ h.cur = Offset(d, h.cur % C)
  BY <1>1, OffsetOf
<1>4. Steps(p) = IF p >= h.cur THEN q - d + (IF o >= C THEN 1 ELSE 0) ELSE q
  BY DEF Steps
<1> DEFINE r == p % C
           e == h.cur % C
<1> HIDE DEF q, d, o, r, e
<1>5. p >= h.cur => d <= q
  <2>1. r \in 0 .. C /\ e \in 0 .. C /\ r < C
    BY <1>1, <1>2, <1>3 DEF r, e
  <2>2. q < d /\ r < C => Offset(q, r) < Offset(d, e)
    BY <1>2, <1>3, <2>1, OffsetOrder
  <2>3. p = Offset(q, r) /\ h.cur = Offset(d, e)
    BY <1>2, <1>3 DEF r, e
  <2> QED BY <1>1, <1>2, <1>3, <2>1, <2>2, <2>3
<1>6. Steps(p) \in Nat
  BY <1>2, <1>3, <1>4, <1>5
<1>7. ASSUME NEW i \in Nat, p >= h.cur, h.cur = Offset(i, o)
      PROVE  i + Steps(p) = q
  <2>1. CASE o < C
    <3>1. o \in Nat
      BY <1>1
    <3>2. Offset(i, o) \div C = i
      BY <2>1, <3>1, OffsetIs
    <3>3. d = i
      BY <1>7, <3>2 DEF d
    <3> QED BY <1>1, <1>2, <1>4, <1>7, <2>1, <3>3
  <2>2. CASE o = C
    <3>1. Offset(i, C) = Offset(i + 1, 0) /\ i + 1 \in Nat
      BY <1>1, OffsetIs
    <3>2. Offset(i + 1, 0) \div C = i + 1
      BY <1>1, <3>1, OffsetIs
    <3>3. d = i + 1
      BY <1>7, <2>2, <3>1, <3>2 DEF d
    <3> QED BY <1>1, <1>2, <1>4, <1>7, <2>2, <3>3
  <2> QED BY <1>1, <2>1, <2>2
<1>8. p < h.cur => Steps(p) = q
  BY <1>1, <1>4
<1> QED BY <1>6, <1>7, <1>8 DEF q, o

\* The position that is sought, within the file.
Sought(p) ==
    LET w == Walked(IF p >= h.cur THEN h.rw.cluster ELSE h.start, Steps(p))
    IN  At(w.cluster, IF w.left > 0 /\ h.write THEN ClusterSize ELSE p % ClusterSize)

\* Wherever seek goes is a position.
LEMMA SoughtType ==
    ASSUME link \in Links, h \in Handle, NEW p \in Nat
    PROVE  Sought(p) \in Position
<1> DEFINE c == IF p >= h.cur THEN h.rw.cluster ELSE h.start
           w == Walked(c, Steps(p))
           o == IF w.left > 0 /\ h.write THEN ClusterSize ELSE p % ClusterSize
<1>1. c \in Entries
  BY HandleIs DEF Position
<1> HIDE DEF c
<1>2. w.cluster \in Entries
  BY <1>1, StepsIs, WalkType
<1> HIDE DEF w
<1>3. o \in 0 .. ClusterSize
  BY SizeIs, OffsetOf
<1>4. Sought(p) = At(w.cluster, o)
  BY DEF Sought, w, c
<1> HIDE DEF o
<1> QED BY <1>2, <1>3, <1>4, PositionAt

\* Within the file it stands where it says.
LEMMA SoughtStands ==
    ASSUME link \in Links, h \in Handle, NEW p \in Nat, p <= h.size,
           h.start \in Cells, Path(link, h.start, Needed(h.size)),
           p >= h.cur => Stands(link, h.start, h.rw, h.cur),
           p < h.size \/ h.write
    PROVE  Stands(link, h.start, Sought(p), p)
<1> DEFINE s == h.start
           m == Needed(h.size)
           c == IF p >= h.cur THEN h.rw.cluster ELSE s
           k == Steps(p)
           w == Walked(c, k)
           q == p \div ClusterSize
           r == p % ClusterSize
<1>1. /\ h.size \in Nat /\ h.cur \in Nat /\ h.rw \in Position /\ h.rw.cluster \in Entries
      /\ s \in Entries /\ h.rw.off \in 0 .. ClusterSize
  BY HandleIs DEF Position
<1>2. m \in Nat /\ m >= 1 /\ h.size <= Offset(m, 0) /\ Offset(m, 0) \in Nat
  BY <1>1, Covers
<1>3. q \in Nat /\ r \in 0 .. ClusterSize - 1 /\ p = Offset(q, r)
  BY OffsetOf
<1>4. /\ k \in Nat
      /\ p < h.cur => k = q
      /\ \A i \in Nat : p >= h.cur /\ h.cur = Offset(i, h.rw.off) => i + k = q
  BY StepsIs
<1> HIDE DEF m, k, q, r
<1>5. Path(link, s, m)
  BY DEF m
<1>6. \E j \in 0 .. m - 1 : c = Nth(link, s, j) /\ j + k = q
  <2>1. CASE p >= h.cur
    <3>1. h.cur <= Offset(m, 0)
      BY <1>1, <1>2, <2>1
    <3>2. PICK i \in 0 .. m - 1 : StandsIn(link, s, h.rw, i, h.cur)
      BY <1>1, <1>5, <2>1, <3>1, StandsInside
    <3>3. i \in Nat
      OBVIOUS
    <3> QED BY <1>4, <2>1, <3>2, <3>3 DEF StandsIn
  <2>2. CASE p < h.cur
    <3>1. Nth(link, s, 0) = s /\ 0 \in 0 .. m - 1
      BY <1>2, NthIs
    <3>2. c = s /\ 0 + k = q
      BY <1>1, <1>4, <2>2
    <3> QED BY <3>1, <3>2
  <2> QED BY <1>1, <2>1, <2>2
<1>7. PICK j \in 0 .. m - 1 : c = Nth(link, s, j) /\ j + k = q
  BY <1>6
<1>8. c \in Entries
  BY <1>1
<1>13. Sought(p) = At(w.cluster, IF w.left > 0 /\ h.write THEN ClusterSize ELSE r)
  BY DEF Sought, k, r
<1> HIDE DEF c, s
<1>14. s \in Cells
  BY DEF s
<1>9. /\ j + k <= m - 1 => w.cluster = Nth(link, s, j + k) /\ w.left = 0
      /\ j + k > m - 1 => w.cluster = Nth(link, s, m - 1) /\ w.left > 0
  BY <1>4, <1>5, <1>7, <1>8, <1>14, WalkPath
<1> HIDE DEF w
<1>10. CASE q <= m - 1
  <2>1. w.cluster = Nth(link, s, q) /\ ~(w.left > 0)
    BY <1>7, <1>9, <1>10
  <2>2. StandsIn(link, s, Sought(p), q, p)
    BY <1>3, <1>13, <2>1 DEF StandsIn, At
  <2> QED BY <1>3, <2>2 DEF Stands, s
<1>11. CASE q > m - 1
  <2>1. w.cluster = Nth(link, s, m - 1) /\ w.left > 0
    BY <1>7, <1>9, <1>11
  <2>2. Offset(m, 0) <= Offset(q, 0) /\ Offset(q, r) = Offset(q, 0) + r /\ Offset(q, 0) \in Nat
    BY <1>2, <1>3, <1>11, OffsetGrows, OffsetIs
  <2>3. p = Offset(m, 0) /\ h.write
    BY <1>1, <1>2, <1>3, <2>2
  <2>4. m - 1 \in Nat /\ ClusterSize \in Nat /\ (m - 1) + 1 = m
    BY <1>2, SizeIs
  <2>5. Offset(m - 1, ClusterSize) = Offset(m, 0)
    BY <2>4, OffsetIs
  <2>6. StandsIn(link, s, Sought(p), m - 1, p)
    BY <1>13, <2>1, <2>3, <2>5 DEF StandsIn, At
  <2> QED BY <2>4, <2>6 DEF Stands, s
<1>12. q \in Nat /\ m - 1 \in Nat
  BY <1>2, <1>3
<1> QED BY <1>10, <1>11, <1>12

\* A seek changes the handle's position only.
LEMMA SeekKeeps ==
    ASSUME FileInv, NEW p \in Nat, Seek(p)
    PROVE  FileInv'
<1>1. /\ h # Closed /\ UNCHANGED <<link, firstFree, others, entry, upset>>
      /\ h' = IF p > h.size THEN [h EXCEPT !.cur = p] ELSE [h EXCEPT !.cur = p, !.rw = Sought(p)]
  BY DEF Seek, Sought
<1>2. /\ link \in Links /\ h \in Handle /\ h.size \in Nat /\ h.cur \in Nat /\ h.rw \in Position
      /\ h.start \in Cells
      /\ upset \subseteq {"stale"} => Path(link, h.start, Needed(h.size)) /\ Placed
  BY <1>1, OpenFile
<1>3. CASE p > h.size
  <2> DEFINE rw == h.rw
  <2>1. h' = [h EXCEPT !.rw = rw, !.cur = p]
    BY <1>1, <1>2, <1>3 DEF Handle
  <2>2. ~(p < h.size \/ (p = h.size /\ h.write))
    BY <1>2, <1>3
  <2>3. rw \in Position
    BY <1>2
  <2> HIDE DEF rw
  <2> QED BY <1>1, <2>1, <2>2, <2>3, MoveOnKeeps
<1>4. CASE ~(p > h.size)
  <2> DEFINE rw == Sought(p)
  <2>1. h' = [h EXCEPT !.rw = rw, !.cur = p]
    BY <1>1, <1>2, <1>4
  <2>2. rw \in Position
    BY <1>2, SoughtType
  <2>3. ASSUME upset \subseteq {"stale"}, h.append => "stale" \notin upset,
               p < h.size \/ (p = h.size /\ h.write)
        PROVE  Stands(link, h.start, rw, p)
    <3>1. Used /\ p >= h.cur => Stands(link, h.start, h.rw, h.cur)
      BY <1>2, <2>3 DEF Placed
    <3>2. p >= h.cur => Used
      BY <1>1, <1>2, <2>3 DEF Used
    <3>3. p <= h.size /\ (p < h.size \/ h.write)
      BY <1>2, <1>4, <2>3
    <3> QED BY <1>2, <2>3, <3>1, <3>2, <3>3, SoughtStands
  <2> HIDE DEF rw
  <2> QED BY <1>1, <2>1, <2>2, <2>3, MoveOnKeeps
<1> QED BY <1>3, <1>4
\* A write that ends well, or that stops on a full card, leaves a file whose
\* chain is as long as its new size asks for.
Wrote(t, n) ==
    /\ Path(t.link, h.start, Needed(SizeAfter(t, n))) /\ Inside(t.link)
    /\ Stands(t.link, h.start, t.pos, From + n)
    /\ \A j \in 0 .. Needed(h.size) - 1 : Nth(t.link, h.start, j) = Nth(link, h.start, j)

\* A write to the end makes the file as long as it reached, if it was shorter.
LEMMA NewSize ==
    ASSUME h \in Handle, NEW n \in Nat, NEW t, t.remain = 0, ~t.aborted
    PROVE  /\ SizeAfter(t, n) \in Nat /\ SizeAfter(t, n) >= h.size /\ SizeAfter(t, n) >= From + n
           /\ SizeAfter(t, n) = h.size \/ SizeAfter(t, n) = From + n
           /\ From \in Nat
<1>1. h.cur \in Nat /\ h.size \in Nat
  BY HandleIs
<1>2. h.cur + n - t.remain = h.cur + n /\ h.size + n - t.remain = h.size + n
  BY <1>1
<1> QED BY <1>1, <1>2 DEF SizeAfter, From, Extends

\* Such is every write without a trap that ends well.
LEMMA WroteIs ==
    ASSUME NEW R, Ready(R), NEW n \in Nat, NEW t, t = Written(n), t.traps = {}, t.ok, ~t.aborted,
           n = 0 => t.link = link
    PROVE  Wrote(t, n)
<1> DEFINE s == h.start
           m0 == Needed(h.size)
           S == SizeAfter(t, n)
           p == From
<1>1. /\ s \in R /\ link \in Clean /\ Hint(link, firstFree) /\ Alone(link, R)
      /\ Path(link, s, m0) /\ h \in Handle
  BY DEF Ready
<1>2. /\ s \in Clusters /\ s \in Cells /\ link \in Links /\ h.size \in Nat /\ p \in Nat
      /\ m0 \in Nat /\ m0 >= 1 /\ h.size <= Offset(m0, 0)
  BY ReadyIs
<1>3. t \in Sane(n, R) /\ Ends(t, n)
  BY <1>1, WrittenSane
<1>4. Aligned(t, s, link, m0, p, n)
  BY WrittenReady
<1> HIDE DEF m0, p, s, S
<1>5. PICK m \in Nat, i \in Nat : In(t, s, link, m0, p, n, m, i)
  BY <1>4 DEF Aligned
<1>6. t.remain = 0 /\ (n > 0 => t.pos.off > 0) /\ t.pos.off \in 0 .. ClusterSize /\ t.link \in Links
  BY <1>3, CleanIs DEF Ends, Sane, Transfers, Position
<1>7. /\ Path(t.link, s, m) /\ i <= m - 1 /\ m0 <= m /\ (m = m0 \/ m = i + 1) /\ Inside(t.link)
      /\ p + n = Offset(i, t.pos.off)
      /\ \A j \in 0 .. m0 - 1 : Nth(t.link, s, j) = Nth(link, s, j)
  <2>1. n - t.remain = n
    BY <1>6
  <2> QED BY <1>5, <2>1 DEF In
<1>8. S \in Nat /\ S >= h.size /\ S >= p + n /\ (S = h.size \/ S = p + n)
  BY <1>1, <1>6, NewSize DEF S, p
<1> DEFINE o == t.pos.off
           E == p + n
<1>9. E \in Nat /\ E = Offset(i, o) /\ o \in 0 .. ClusterSize /\ S \in Nat /\ S >= h.size /\ S >= E
      /\ (S = h.size \/ S = E)
  BY <1>2, <1>6, <1>7, <1>8
<1> HIDE DEF o, E
<1>10. E <= Offset(m, 0)
  <2>1. i < m => Offset(i, o) <= Offset(m, 0)
    <3>1. 0 \in 0 .. ClusterSize
      BY SizeIs
    <3> QED BY <1>9, <3>1, OffsetOrder
  <2> QED BY <1>7, <1>9, <2>1
<1>11. Fits(m, S)
  <2>1. m \in Nat /\ m >= 1 /\ Offset(m, 0) \in Nat
    BY <1>2, <1>7, OffsetIs
  <2>2. Offset(m0, 0) <= Offset(m, 0) /\ Offset(m0, 0) \in Nat
    BY <1>2, <1>7, OffsetGrows, OffsetIs
  <2>3. S <= Offset(m, 0)
    BY <1>2, <1>9, <1>10, <2>1, <2>2
  <2>4. m = 1 \/ S > Offset(m - 1, 0)
    <3>1. CASE m = m0
      <4>1. Fits(m0, h.size)
        BY <1>2, NeededFits DEF m0
      <4>2. m = 1 \/ (m - 1 \in Nat /\ h.size > Offset(m - 1, 0))
        BY <1>2, <3>1, <4>1 DEF Fits
      <4>3. m - 1 \in Nat => Offset(m - 1, 0) \in Nat
        BY OffsetIs
      <4> QED BY <1>2, <1>9, <4>2, <4>3
    <3>2. CASE m # m0 /\ m = i + 1
      <4>1. n > 0
        <5> SUFFICES ASSUME n = 0 PROVE FALSE
          OBVIOUS
        <5>1. Path(link, s, m)
          BY <1>7
        <5> QED BY <1>1, <1>2, <3>2, <5>1, PathIsUnique DEF s, m0
      <4>2. o > 0
        BY <1>6, <4>1 DEF o
      <4>3. Offset(i, o) = Offset(i, 0) + o /\ Offset(i, 0) \in Nat
        BY <1>9, OffsetIs
      <4>4. Offset(m - 1, 0) < E
        BY <1>9, <3>2, <4>2, <4>3
      <4> QED BY <1>9, <3>2, <4>3, <4>4
    <3> QED BY <1>7, <3>1, <3>2
  <2> QED BY <2>1, <2>3, <2>4 DEF Fits
<1>12. m = Needed(S)
  BY <1>9, <1>11, FitsIsNeeded
<1>13. Stands(t.link, s, t.pos, p + n)
  <2>1. StandsIn(t.link, s, t.pos, i, p + n)
    BY <1>5, <1>7 DEF In, StandsIn
  <2> QED BY <2>1 DEF Stands
<1> QED BY <1>7, <1>12, <1>13 DEF Wrote, s, m0, S, p

\* The file that a write leaves.
LEMMA WriteKeeps ==
    ASSUME FileInv, NEW n \in Nat, Write(n)
    PROVE  FileInv'
<1> DEFINE t == Written(n)
           S == SizeAfter(t, n)
           cur == h.cur + n - t.remain
           pos == t.pos
<1>1. /\ h # Closed /\ h.write /\ link' = t.link /\ firstFree' = t.firstFree
      /\ h' = IF t.aborted THEN h
              ELSE IF h.append THEN [h EXCEPT !.app = pos, !.size = S]
              ELSE [h EXCEPT !.rw = pos, !.cur = cur, !.size = S]
      /\ upset' = upset \cup t.traps
                      \cup (IF ~t.ok /\ ~t.aborted THEN {"full"} ELSE {})
                      \cup (IF t.aborted /\ t.link # link THEN {"longer"} ELSE {})
                      \cup (IF n = 0 /\ t.link # link THEN {"zero"} ELSE {})
                      \cup (IF h.append /\ h.cur > h.size /\ h.cur <= S THEN {"stale"} ELSE {})
      /\ UNCHANGED <<others, entry>>
  BY DEF Write
<1>2. /\ link \in Clean /\ link \in Links /\ Hint(link, firstFree) /\ Alone(link, Roots) /\ h \in Handle
      /\ h.size \in Nat /\ h.cur \in Nat /\ h.rw \in Position
      /\ (h.start \in Clusters => h.start \in Roots) /\ h.start \in Cells
      /\ upset \subseteq {"stale"} =>
                 /\ Inside(link) /\ h.start \in Roots /\ h.start \in Clusters
                 /\ Path(link, h.start, Needed(h.size)) /\ Placed
  BY <1>1, OpenFile
<1>3. t \in Sane(n, Roots) /\ Ends(t, n)
  BY <1>2, WrittenSane
<1> HIDE DEF t
<1>4. S \in Nat /\ cur \in Nat
  BY <1>2, <1>3, SizeAfterType
<1>5. /\ t.link \in Clean /\ Hint(t.link, t.firstFree) /\ Alone(t.link, Roots)
      /\ pos \in Position /\ t.traps \subseteq MoveTraps
  BY <1>3 DEF Sane, Transfers
<1> HIDE DEF S, cur, pos
<1>6. h' \in Handle
  BY <1>1, <1>2, <1>4, <1>5 DEF Handle
<1>7. /\ h'.start = h.start /\ h'.write = h.write /\ h'.append = h.append
      /\ t.aborted => h' = h
      /\ ~t.aborted /\ h.append => h'.app = pos /\ h'.size = S /\ h'.rw = h.rw /\ h'.cur = h.cur
      /\ ~t.aborted /\ ~h.append => h'.rw = pos /\ h'.size = S /\ h'.cur = cur
  BY <1>1, <1>2 DEF Handle
<1>8. h' # Closed
  BY <1>6, FileAssumption
<1>9. upset \subseteq upset' /\ upset' \subseteq Trap
  <2>1. t.traps \subseteq Trap /\ {"full", "longer", "zero", "stale"} \subseteq Trap
    BY <1>5 DEF MoveTraps, Trap
  <2>2. upset \subseteq Trap
    BY DEF FileInv, FileTypeOK
  <2> QED BY <1>1, <2>1, <2>2
<1>10. Root' = Root /\ Root = h.start /\ Roots' = Roots
  BY <1>1, <1>7, <1>8 DEF Root, Roots
<1>11. FileTypeOK'
  BY <1>1, <1>5, <1>6, <1>9, CleanIs DEF FileInv, FileTypeOK, Hint, Links
<1>12. Owned'
  BY <1>1, <1>5, <1>10 DEF FileInv, Owned
<1>13. Kept'
  BY <1>1, <1>7 DEF Kept
<1>14. ASSUME upset' \subseteq {"stale"} PROVE Fitted' /\ Placed'
  <2>1. /\ Inside(link) /\ h.start \in Roots /\ h.start \in Clusters
        /\ Path(link, h.start, Needed(h.size)) /\ Placed /\ Fitted
    BY <1>2, <1>9, <1>14 DEF FileInv
  <2>2. /\ t.traps = {} /\ (t.ok \/ t.aborted) /\ (t.aborted => t.link = link)
        /\ (n = 0 => t.link = link)
        /\ h.append /\ h.cur > h.size /\ h.cur <= S => "stale" \in upset'
    <3>1. t.traps \subseteq {"stale"} \cap MoveTraps
      BY <1>1, <1>5, <1>14
    <3>2. "stale" \notin MoveTraps
      BY DEF MoveTraps
    <3> QED BY <1>1, <1>14, <3>1, <3>2
  <2>3. CASE t.aborted
    <3>1. h' = h /\ link' = link /\ Size' = Size /\ Used' = Used /\ ~h.append
      BY <1>1, <1>3, <1>7, <1>8, <2>2, <2>3 DEF Size, Used, Ends, Extends
    <3>2. Fitted'
      BY <1>1, <1>10, <2>1, <3>1 DEF Fitted
    <3>3. Used => Stands(link, h.start, h.rw, h.cur)
      BY <2>1, <3>1 DEF Placed
    <3>4. ~h'.append
      BY <3>1
    <3>5. Placed'
      BY <3>1, <3>3, <3>4 DEF Placed
    <3> QED BY <3>2, <3>5
  <2>4. CASE ~t.aborted
    <3>1. Ready(Roots)
      BY <1>1, <1>2, <2>1 DEF Ready, Placed, Used
    <3>2. t.ok /\ t.remain = 0
      BY <1>3, <2>2, <2>4 DEF Ends
    <3>3. Wrote(t, n)
      BY <2>2, <2>4, <3>1, <3>2, WroteIs DEF t
    <3>4. /\ Path(link', h.start, Needed(S)) /\ Inside(link')
          /\ Stands(link', h.start, pos, From + n)
          /\ \A j \in 0 .. Needed(h.size) - 1 : Nth(link', h.start, j) = Nth(link, h.start, j)
      BY <1>1, <3>3 DEF Wrote, S, pos
    <3>5. (h.append => S = h.size + n) /\ cur = h.cur + n
      <4>1. h.cur + n - t.remain = h.cur + n /\ h.size + n - t.remain = h.size + n
        BY <1>2, <3>2
      <4> QED BY <2>4, <4>1 DEF S, cur, SizeAfter
    <3>6. h'.size = S
      BY <1>7, <2>4
    <3>7. Fitted'
      BY <1>7, <1>8, <1>10, <2>1, <3>4, <3>6 DEF Fitted, Size
    <3>8. CASE ~h.append
      BY <1>7, <2>4, <3>4, <3>5, <3>7, <3>8 DEF Placed, From
    <3>9. CASE h.append
      <4>1. Stands(link', h'.start, h'.app, h'.size)
        BY <1>7, <2>4, <3>4, <3>5, <3>9 DEF From
      <4>2. ASSUME Used', "stale" \notin upset' PROVE Stands(link', h.start, h.rw, h.cur)
        <5>1. h.cur <= S
          BY <1>2, <1>4, <1>7, <2>4, <3>9, <4>2 DEF Used
        <5>2. h.cur <= h.size
          BY <1>2, <2>2, <3>9, <4>2, <5>1
        <5>3. Used /\ "stale" \notin upset
          BY <1>1, <1>2, <1>9, <4>2, <5>2 DEF Used
        <5>4. Stands(link, h.start, h.rw, h.cur)
          BY <2>1, <5>3 DEF Placed
        <5>5. h.cur <= Offset(Needed(h.size), 0)
          BY <1>2, <5>2, Covers
        <5> QED BY <1>2, <2>1, <3>4, <5>4, <5>5, StandsFrame
      <4> QED BY <1>7, <2>4, <3>7, <3>9, <4>1, <4>2 DEF Placed
    <3> QED BY <3>7, <3>8, <3>9
  <2> QED BY <2>3, <2>4
<1> QED BY <1>11, <1>12, <1>13, <1>14 DEF FileInv
-----------------------------------------------------------------------------
(* The theorems                                                            *)

\* Every step keeps the invariant.
LEMMA FileStep == FileInv /\ [FileNext]_fileVars => FileInv'
<1> SUFFICES ASSUME FileInv, [FileNext]_fileVars PROVE FileInv'
  OBVIOUS
<1>1. ASSUME NEW m \in Modes, Open(m) PROVE FileInv'
  BY <1>1, OpenKeeps
<1>2. CASE Close
  BY <1>2, CloseKeeps
<1>3. ASSUME NEW n \in Lens \ {0}, Read(n) PROVE FileInv'
  <2>1. n \in Nat /\ n > 0
    BY FileAssumption
  <2> QED BY <1>3, <2>1, ReadKeeps
<1>4. ASSUME NEW n \in Lens, Write(n) PROVE FileInv'
  <2>1. n \in Nat
    BY FileAssumption
  <2> QED BY <1>4, <2>1, WriteKeeps
<1>5. ASSUME NEW p \in Seeks, Seek(p) PROVE FileInv'
  <2>1. p \in Nat
    BY FileAssumption
  <2> QED BY <1>5, <2>1, SeekKeeps
<1>6. CASE OtherTakes
  BY <1>6, OtherTakesKeeps
<1>7. ASSUME NEW c \in others, OtherGivesBack(c) PROVE FileInv'
  BY <1>7, OtherGivesBackKeeps
<1>8. CASE UNCHANGED fileVars
  BY <1>8 DEF fileVars, FileInv, FileTypeOK, Owned, Kept, Fitted, Placed, Used, Root, Size, Roots
<1> QED BY <1>1, <1>2, <1>3, <1>4, <1>5, <1>6, <1>7, <1>8 DEF FileNext

\* The invariant holds of one file from its first open on: whatever open,
\* read, write, seek, append, truncation, close and the clusters that others take
\* and give back (fatfile.c) come after each other.
THEOREM FileInvariant == FileSpec => []FileInv
<1>1. FileInit => FileInv
  BY FileInitKeeps
<1>2. FileInv /\ [FileNext]_fileVars => FileInv'
  BY FileStep
<1> QED BY <1>1, <1>2, PTL DEF FileSpec

\* Table, entry, handle and both positions keep their types, traps included:
\* a position never has an offset past its cluster, a link never leads past the
\* table's one surplus entry.
THEOREM FileTypeCorrect == FileSpec => []FileTypeOK
<1>1. FileInv => FileTypeOK
  BY DEF FileInv
<1> QED BY <1>1, FileInvariant, PTL

\* Positions that stand in the chain denote their bytes.
LEMMA FileInvMeets == FileInv => PositionsMeet
<1> SUFFICES ASSUME FileInv, h # Closed, upset = {}
             PROVE  /\ (h.cur < h.size \/ (h.cur = h.size /\ h.write)) => Denotes(h.rw, h.cur)
                    /\ h.append => Denotes(h.app, h.size)
  BY DEF PositionsMeet
<1>1. /\ Placed /\ h.rw \in Position /\ h.app \in Position /\ h.cur \in Nat /\ h.size \in Nat
  BY OpenFile
<1>2. (h.cur < h.size \/ (h.cur = h.size /\ h.write)) => Stands(link, h.start, h.rw, h.cur)
  BY <1>1 DEF Placed, Used
<1>3. h.append => Stands(link, h.start, h.app, h.size)
  BY <1>1 DEF Placed
<1> QED BY <1>1, <1>2, <1>3, DenotesIs

\* The position on the card, which read, write and seek move cluster by
\* cluster, is that of the byte the handle's current position names, and the
\* append position that of the file's end (fatfile.c: rwPosition,
\* appendPosition), as long as no trap was met.
THEOREM FilePositionsMeet == FileSpec => []PositionsMeet
BY FileInvMeets, FileInvariant, PTL

\* A path of m clusters is a chain of m clusters.
LEMMA FileInvFits == FileInv => ChainFitsSize
<1> SUFFICES ASSUME FileInv, upset \subseteq {"stale"}, Root # FREE
             PROVE  Cardinality(Chain(link, Root)) = Needed(Size)
  BY DEF ChainFitsSize, Root, Size
<1>1. Fitted /\ link \in Links /\ Alone(link, Roots)
  BY CleanIs DEF FileInv, Owned
<1>2. Root \in Clusters
  BY <1>1 DEF Fitted, Root
<1>3. Root \in Roots /\ Path(link, Root, Needed(Size))
  BY <1>1, <1>2 DEF Fitted, Roots
<1> QED BY <1>1, <1>3, PathIsChain

\* The file's chain has as many clusters as its size needs, open or closed:
\* no cluster too few is read past, and none too many is kept by the writes, the
\* extension and the truncation of fatfile.c, short of the traps.
THEOREM FileChainFits == FileSpec => []ChainFitsSize
BY FileInvFits, FileInvariant, PTL

\* An open file that writes is ready for it, and one that reads for that.
LEMMA OpenReady ==
    ASSUME FileInv, h # Closed, upset = {}
    PROVE  /\ h.write => Ready(Roots)
           /\ h.cur < h.size => Stands(link, h.start, h.rw, h.cur)
<1>1. /\ link \in Clean /\ Hint(link, firstFree) /\ Alone(link, Roots)
      /\ h \in Handle /\ h.size \in Nat /\ h.cur \in Nat
      /\ Inside(link) /\ h.start \in Roots
      /\ Path(link, h.start, Needed(h.size)) /\ Placed
  BY OpenFile
<1>2. h.append => Stands(link, h.start, h.app, h.size)
  BY <1>1 DEF Placed
<1>3. h.cur < h.size => Stands(link, h.start, h.rw, h.cur)
  BY <1>1 DEF Placed, Used
<1>4. h.write /\ h.cur <= h.size => Stands(link, h.start, h.rw, h.cur)
  BY <1>1 DEF Placed, Used
<1> QED BY <1>1, <1>2, <1>3, <1>4 DEF Ready

\* The clusters that a file's bytes lie in after a write are not another's.
LEMMA OwnClusters ==
    ASSUME FileInv, h # Closed, NEW lk \in Links, Alone(lk, Roots), NEW m, Path(lk, h.start, m),
           NEW i \in 0 .. m - 1
    PROVE  Nth(lk, h.start, i) \in Clusters /\ Nth(lk, h.start, i) \notin others
<1>1. h.start \in Cells /\ h.start \notin others
  BY OpenFile
<1>2. /\ m \in Nat /\ \A j \in 0 .. m - 1 : Nth(lk, h.start, j) \in Clusters
      /\ \A j \in 0 .. m - 1 : j + 1 <= m - 1 => lk[Nth(lk, h.start, j)] = Nth(lk, h.start, j + 1)
  BY <1>1, PathStep
<1>3. CASE i = 0
  BY <1>1, <1>2, <1>3, NthIs
<1>4. CASE i # 0
  <2>1. i - 1 \in 0 .. m - 1 /\ (i - 1) + 1 = i /\ i <= m - 1
    BY <1>2, <1>4
  <2>2. lk[Nth(lk, h.start, i - 1)] = Nth(lk, h.start, i) /\ Nth(lk, h.start, i - 1) \in Clusters
    BY <1>2, <2>1
  <2>3. others \subseteq Roots
    BY DEF Roots
  <2> QED BY <1>2, <2>2, <2>3 DEF Alone
<1> QED BY <1>3, <1>4

\* The k-th place of a transfer from byte p on is one of m clusters.
Lies(t, s, p, k, m) ==
    /\ (p + k - 1) \div ClusterSize \in 0 .. m - 1
    /\ t.places[k] = PlaceIn(t.link, s, p + k - 1)

\* A transfer stays within the clusters of the file.
LEMMA AlignedPlaces ==
    ASSUME NEW n \in Nat, NEW R, NEW t \in Sane(n, R), NEW s, NEW lk0, NEW m0, NEW p \in Nat,
           NEW m \in Nat, NEW i \in Nat, In(t, s, lk0, m0, p, n, m, i), NEW k \in 1 .. n - t.remain
    PROVE  Lies(t, s, p, k, m)
<1> DEFINE o == IF t.ok THEN t.pos.off ELSE ClusterSize
           q == p + k - 1
<1>1. t.remain \in 0 .. n /\ o \in 0 .. ClusterSize
  BY SizeIs DEF Sane, Transfers, Position
<1>2. p + (n - t.remain) = Offset(i, o) /\ i <= m - 1 /\ t.places[k] = PlaceIn(t.link, s, p + k - 1)
  BY DEF In
<1> HIDE DEF o
<1>3. q \in Nat /\ q < Offset(i, o)
  BY <1>1, <1>2
<1> HIDE DEF q
<1>4. q \div ClusterSize \in 0 .. i
  BY <1>1, <1>3, ClusterOf
<1>5. q \div ClusterSize \in 0 .. m - 1
  BY <1>2, <1>4
<1> QED BY <1>2, <1>5 DEF q, Lies

\* A place gives away its cluster.
LEMMA PlaceIsIn ==
    ASSUME NEW c \in Nat, NEW o \in 0 .. ClusterSize - 1
    PROVE  Place(c, o) \div ClusterSize = c /\ Place(c, o) % ClusterSize = o
<1>1. Place(c, o) = ClusterSize * c + o
  BY SizeIs DEF Place
<1>2. ClusterSize \in Nat /\ ClusterSize > 0
  BY SizeIs
<1> DEFINE C == ClusterSize
           x == Place(c, o)
<1> HIDE DEF C, x
<1>3. C \in Nat /\ C > 0 /\ o \in 0 .. C - 1 /\ x = C * c + o
  BY <1>1, <1>2 DEF C, x
<1>4. (C * c + o) \div C = c /\ (C * c + o) % C = o
  BY <1>3, DivModUnique
<1> QED BY <1>3, <1>4 DEF C, x

\* A write that ends short was not led past a free cluster.
LEMMA FileInvShort == FileInv => ShortOnlyWhenFull
<1> SUFFICES ASSUME FileInv, h # Closed, h.write, upset = {}, NEW n \in Lens
             PROVE  /\ Written(n).remain > 0 => Full(Written(n).link)
                    /\ Written(n).traps = {} => \A k \in DOMAIN Written(n).places :
                          Written(n).places[k] \div ClusterSize \notin others
  BY DEF ShortOnlyWhenFull, Full
<1> DEFINE t == Written(n)
<1>1. n \in Nat
  BY FileAssumption
<1>2. /\ link \in Clean /\ Hint(link, firstFree) /\ Alone(link, Roots) /\ h \in Handle
      /\ h.start \in Roots
  BY OpenFile
<1>3. Ready(Roots)
  BY OpenReady
<1>4. t \in Sane(n, Roots) /\ Ends(t, n)
  BY <1>1, <1>2, WrittenSane
<1>5. /\ OnCard(t)
      /\ t.traps = {} /\ ~t.aborted => Aligned(t, h.start, link, Needed(h.size), From, n)
  BY <1>1, <1>3, WrittenReady
<1>6. From \in Nat
  BY <1>3, ReadyIs
<1> HIDE DEF t
<1>7. t.remain > 0 => Full(t.link)
  BY <1>4, <1>5 DEF Ends, OnCard
<1>8. ASSUME t.traps = {}, NEW k \in DOMAIN t.places PROVE t.places[k] \div ClusterSize \notin others
  <2>1. CASE t.aborted
    BY <1>4, <1>8, <2>1 DEF Ends
  <2>2. CASE ~t.aborted
    <3> DEFINE p == From
               m0 == Needed(h.size)
    <3> HIDE DEF p, m0
    <3>1. PICK m \in Nat, i \in Nat : In(t, h.start, link, m0, p, n, m, i)
      BY <1>5, <1>8, <2>2 DEF Aligned, p, m0
    <3>2. Len(t.places) = n - t.remain /\ Path(t.link, h.start, m)
      BY <3>1 DEF In
    <3>3. t.places \in Seq(Nat) /\ t.link \in Links /\ Alone(t.link, Roots) /\ t.remain \in 0 .. n
      BY <1>4, CleanIs DEF Sane, Transfers
    <3>4. k \in 1 .. n - t.remain
      BY <1>8, <3>2, <3>3
    <3>5. p \in Nat
      BY <1>6 DEF p
    <3> DEFINE q == p + k - 1
               j == q \div ClusterSize
               o == q % ClusterSize
    <3>6. j \in 0 .. m - 1 /\ t.places[k] = PlaceIn(t.link, h.start, q)
      <4>1. Lies(t, h.start, p, k, m)
        BY <1>1, <1>4, <3>1, <3>4, <3>5, AlignedPlaces
      <4> QED BY <4>1 DEF Lies
    <3>7. q \in Nat
      BY <3>4, <3>5
    <3> HIDE DEF q
    <3>8. o \in 0 .. ClusterSize - 1
      BY <3>7, OffsetOf
    <3>9. t.places[k] = Place(Nth(t.link, h.start, j), o)
      BY <3>6 DEF PlaceIn
    <3> HIDE DEF j, o
    <3>10. Nth(t.link, h.start, j) \in Clusters /\ Nth(t.link, h.start, j) \notin others
      BY <3>2, <3>3, <3>6, OwnClusters
    <3>11. Nth(t.link, h.start, j) \in Nat
      BY <3>10, Numbers
    <3> QED BY <3>8, <3>9, <3>10, <3>11, PlaceIsIn
  <2> QED BY <2>1, <2>2
<1> QED BY <1>7, <1>8 DEF t

\* Short of the traps, a write ends short only when no cluster of the card is
\* free (_FAT_write_r,
\* file_extend_r), and no write without a trap touches a cluster of another file.
THEOREM FileShortOnlyWhenFull == FileSpec => []ShortOnlyWhenFull
BY FileInvShort, FileInvariant, PTL

\* The places of a transfer that stays with its file are those it should touch.
LEMMA PlacesAre ==
    ASSUME NEW n \in Nat, NEW R, NEW t \in Sane(n, R), NEW lk0, NEW m0, NEW p \in Nat,
           Aligned(t, h.start, lk0, m0, p, n)
    PROVE  t.places = PlacesOf(t.link, p, n - t.remain)
<1> DEFINE N == n - t.remain
           f == PlacesOf(t.link, p, N)
<1>1. PICK m \in Nat, i \in Nat : In(t, h.start, lk0, m0, p, n, m, i)
  BY DEF Aligned
<1>2. Len(t.places) = N /\ \A k \in 1 .. N : t.places[k] = PlaceIn(t.link, h.start, p + k - 1)
  BY <1>1 DEF In
<1>3. t.places \in Seq(Nat)
  BY DEF Sane, Transfers
<1> HIDE DEF N
<1>4. t.places \in [1 .. N -> Nat]
  BY <1>2, <1>3, LenProperties
<1>5. f = [k \in 1 .. N |-> PlaceIn(t.link, h.start, p + k - 1)]
  BY DEF PlacesOf, PlaceOf, PlaceIn
<1>6. t.places = f
  BY <1>2, <1>4, <1>5
<1> QED BY <1>6 DEF N

\* A transfer of no bytes touches none.
LEMMA NoPlaces == \A lk, p : PlacesOf(lk, p, 0) = <<>>
<1> SUFFICES ASSUME NEW lk, NEW p PROVE PlacesOf(lk, p, 0) = <<>>
  OBVIOUS
<1>1. <<>> \in Seq(Nat) /\ Len(<<>>) = 0
  OBVIOUS
<1>2. <<>> \in [1 .. 0 -> Nat]
  BY <1>1, LenProperties
<1>3. PlacesOf(lk, p, 0) = [k \in 1 .. 0 |-> PlaceOf(lk, p + k - 1)]
  BY DEF PlacesOf
<1> QED BY <1>2, <1>3

\* A cluster is a number of sectors.
LEMMA WholeSectors == ClusterSize % SectorSize = 0 /\ 0 % SectorSize = 0
<1> DEFINE b == SectorSize
           q == Sectors
<1>1. b \in Nat /\ b > 0 /\ q \in Nat /\ 0 \in 0 .. b - 1 /\ ClusterSize = b * q + 0 /\ 0 = b * 0 + 0
  BY FileAssumption DEF ClusterSize
<1> HIDE DEF b, q
<1>2. (b * q + 0) % b = 0 /\ (b * 0 + 0) % b = 0
  BY <1>1, DivModUnique
<1> QED BY <1>1, <1>2 DEF b

\* What a write that ends well zeroes lies behind the end of the file.
LEMMA WipedBehind ==
    ASSUME NEW R, Alone(link, R), h \in Handle, h.start \in R,
           NEW n \in Nat, NEW t \in Sane(n, R), t.ok, t.remain = 0, ~t.aborted, NEW m0,
           Aligned(t, h.start, link, m0, From, n)
    PROVE  Wiped(t, n) \cap {PlaceOf(t.link, b) : b \in 0 .. SizeAfter(t, n) - 1} = {}
<1> SUFFICES ASSUME NEW x \in Wiped(t, n), NEW b \in 0 .. SizeAfter(t, n) - 1, x = PlaceOf(t.link, b)
             PROVE  FALSE
  OBVIOUS
<1> DEFINE s == h.start
           C == ClusterSize
           off == t.pos.off
           lk == t.link
           S == SizeAfter(t, n)
<1>1. (h.append \/ n + h.cur > h.size) /\ off % SectorSize > 0 /\ x \in RestOfSector(t.pos)
  BY DEF Wiped
<1>2. /\ From \in Nat /\ S \in Nat /\ h.size \in Nat /\ h.cur \in Nat
      /\ C \in Nat /\ C >= 1 /\ off \in 0 .. C
      /\ lk \in Links /\ Alone(lk, R) /\ s \in R /\ s \in Clusters /\ s \in Cells
  BY NewSize, HandleIs, SizeIs, CleanIs, Numbers DEF Sane, Transfers, Position, Alone, Cells
<1>3. S = From + n
  <2>1. h.cur + n - t.remain = h.cur + n /\ h.size + n - t.remain = h.size + n
    BY <1>2
  <2> QED BY <1>1, <1>2, <2>1 DEF SizeAfter, From, Extends
<1>4. PICK m \in Nat, i \in Nat : In(t, s, link, m0, From, n, m, i)
  BY DEF Aligned
<1>5. Path(lk, s, m) /\ i <= m - 1 /\ t.pos.cluster = Nth(lk, s, i) /\ From + n = Offset(i, off)
  <2>1. n - t.remain = n
    OBVIOUS
  <2> QED BY <1>4, <2>1 DEF In
<1>6. off < C
  BY <1>1, <1>2, WholeSectors
<1>7. PICK o \in off .. C - 1 : x = Place(t.pos.cluster, o)
  BY <1>1 DEF RestOfSector
<1> DEFINE j == b \div C
           r == b % C
<1>8. b \in Nat /\ b < Offset(i, off)
  BY <1>2, <1>3, <1>5
<1>9. j \in 0 .. i
  BY <1>2, <1>8, ClusterOf
<1>10. r \in 0 .. C - 1 /\ b = Offset(j, r)
  BY <1>8, OffsetOf
<1>11. x = Place(Nth(lk, s, j), r)
  BY DEF PlaceOf
<1> HIDE DEF j, r, s, lk, S, off
<1>12. i \in 0 .. m - 1 /\ j \in 0 .. m - 1
  BY <1>5, <1>9
<1>13. Nth(lk, s, i) \in Clusters /\ Nth(lk, s, j) \in Clusters
  BY <1>5, <1>12 DEF Path
<1>14. Nth(lk, s, i) \in Nat /\ Nth(lk, s, j) \in Nat
  BY <1>13, Numbers
<1>15. o \in 0 .. C - 1
  BY <1>2, <1>7
<1>16. Place(Nth(lk, s, i), o) = Place(Nth(lk, s, j), r)
  BY <1>5, <1>7, <1>11
<1> DEFINE c == Nth(lk, s, i)
           d == Nth(lk, s, j)
<1> HIDE DEF c, d
<1>17. /\ Place(c, o) \div C = c /\ Place(c, o) % C = o
       /\ Place(d, r) \div C = d /\ Place(d, r) % C = r
  BY <1>10, <1>14, <1>15, PlaceIsIn DEF c, d
<1>18. c = d /\ o = r
  BY <1>16, <1>17 DEF c, d
<1>19. i = j
  BY <1>2, <1>5, <1>12, <1>18, PathIsChain DEF c, d
<1>20. /\ Offset(i, o) = Offset(i, 0) + o /\ Offset(i, off) = Offset(i, 0) + off
       /\ Offset(i, 0) \in Nat /\ o \in Nat /\ off \in Nat
  <2>1. o \in Nat /\ off \in Nat
    BY <1>2, <1>15
  <2>2. Offset(i, 0) \in Nat
    <3>1. 0 \in Nat
      OBVIOUS
    <3> QED BY <3>1, OffsetIs, Zenon
  <2>3. Offset(i, o) = Offset(i, 0) + o
    BY <2>1, OffsetIs
  <2>4. Offset(i, off) = Offset(i, 0) + off
    BY <2>1, OffsetIs
  <2> QED BY <2>1, <2>2, <2>3, <2>4
<1>21. Offset(i, o) < Offset(i, off)
  BY <1>8, <1>10, <1>18, <1>19
<1> QED BY <1>7, <1>20, <1>21

\* Reads and writes begin where the file's byte is, and stay with the file.
LEMMA FileInvTransfers == FileInv => TransfersMeetFile
<1> SUFFICES ASSUME FileInv, h # Closed, upset = {}, NEW n \in Lens \ {0}
             PROVE  /\ (h.read /\ h.cur < h.size) =>
                          ReadOf(Clipped(n)).places = PlacesOf(link, h.cur, Clipped(n))
                    /\ h.write /\ Written(n).traps = {} =>
                          /\ Written(n).places =
                                PlacesOf(Written(n).link, IF h.append THEN h.size ELSE h.cur, n - Written(n).remain)
                          /\ Wiped(Written(n), n)
                                \cap {PlaceOf(Written(n).link, i) : i \in 0 .. SizeAfter(Written(n), n) - 1} = {}
  BY DEF TransfersMeetFile
<1>1. /\ link \in Clean /\ Hint(link, firstFree) /\ Alone(link, Roots) /\ h \in Handle
      /\ h.start \in Roots /\ Inside(link) /\ Path(link, h.start, Needed(h.size))
      /\ h.size \in Nat /\ h.cur \in Nat
  BY OpenFile
<1>2. n \in Nat /\ n > 0
  BY FileAssumption
<1>3. ASSUME h.cur < h.size
      PROVE  ReadOf(Clipped(n)).places = PlacesOf(link, h.cur, Clipped(n))
  <2> DEFINE c == Clipped(n)
             t == ReadOf(c)
  <2>1. c \in Nat /\ c > 0 /\ h.cur + c <= h.size
    BY <1>1, <1>2, <1>3 DEF Clipped
  <2> HIDE DEF c
  <2>2. Stands(link, h.start, h.rw, h.cur)
    BY <1>3, OpenReady
  <2>3. t \in Sane(c, Roots)
    BY <1>1, <2>1, ReadOfSane
  <2>4. t.remain = 0 /\ t.link = link /\ Aligned(t, h.start, link, Needed(h.size), h.cur, c)
    BY <1>1, <2>1, <2>2, ReadWithin
  <2> HIDE DEF t
  <2>5. t.places = PlacesOf(t.link, h.cur, c - t.remain)
    BY <1>1, <2>1, <2>3, <2>4, PlacesAre
  <2>6. c - t.remain = c
    BY <2>1, <2>4
  <2> QED BY <2>4, <2>5, <2>6 DEF c, t
<1>4. ASSUME h.write, Written(n).traps = {}
      PROVE  /\ Written(n).places = PlacesOf(Written(n).link, From, n - Written(n).remain)
             /\ Wiped(Written(n), n)
                   \cap {PlaceOf(Written(n).link, i) : i \in 0 .. SizeAfter(Written(n), n) - 1} = {}
  <2> DEFINE t == Written(n)
  <2>1. Ready(Roots)
    BY <1>4, OpenReady
  <2>2. t \in Sane(n, Roots) /\ Ends(t, n)
    BY <1>1, <1>2, WrittenSane
  <2>3. /\ OnCard(t)
        /\ t.traps = {} /\ ~t.aborted => Aligned(t, h.start, link, Needed(h.size), From, n)
    BY <1>2, <2>1, WrittenReady
  <2>4. From \in Nat /\ t.traps = {}
    BY <1>4, <2>1, ReadyIs
  <2> HIDE DEF t
  <2>5. t.places = PlacesOf(t.link, From, n - t.remain)
    <3>1. CASE t.aborted
      <4>1. t.places = <<>> /\ t.remain = n
        BY <2>2, <3>1 DEF Ends
      <4>2. n - t.remain = 0
        BY <1>2, <4>1
      <4> QED BY <4>1, <4>2, NoPlaces
    <3>2. CASE ~t.aborted
      BY <1>2, <2>2, <2>3, <2>4, <3>2, PlacesAre
    <3> QED BY <3>1, <3>2
  <2>6. Wiped(t, n) \cap {PlaceOf(t.link, i) : i \in 0 .. SizeAfter(t, n) - 1} = {}
    <3>1. CASE t.ok
      <4>1. ~t.aborted /\ t.remain = 0
        BY <2>2, <3>1 DEF Ends
      <4>2. Aligned(t, h.start, link, Needed(h.size), From, n)
        BY <2>3, <2>4, <4>1
      <4> QED BY <1>1, <1>2, <2>2, <3>1, <4>1, <4>2, WipedBehind
    <3>2. CASE ~t.ok
      <4>1. t.pos.off = 0
        BY <2>3, <3>2 DEF OnCard
      <4>2. ~(t.pos.off % SectorSize > 0)
        BY <4>1, WholeSectors
      <4>3. Wiped(t, n) = {}
        BY <4>2 DEF Wiped
      <4> QED BY <4>3
    <3> QED BY <3>1, <3>2
  <2> QED BY <2>5, <2>6 DEF t
<1> QED BY <1>3, <1>4 DEF From

\* A read or a write touches the places of the bytes it was asked for, in
\* their order, and nothing else; what a write zeroes on top falls on none of the
\* file's bytes (fatfile.c:723-737), short of the traps.
THEOREM FileTransfersMeet == FileSpec => []TransfersMeetFile
BY FileInvTransfers, FileInvariant, PTL
=============================================================================
