----------------------------- MODULE Heap_proofs -----------------------------
(***************************************************************************)
(* Proofs about the heap, for every arena, header, unit and word: the      *)
(* chain of blocks is sound, free blocks are merged, what the program      *)
(* holds is reserved, a refusal means that there is no room, and a realloc *)
(* that moves takes the contents along.                                    *)
(***************************************************************************)
EXTENDS Heap, FiniteSetTheorems, WellFoundedInduction, TLAPS

-----------------------------------------------------------------------------
(* Numbers                                                                 *)

LEMMA DivMod ==
    ASSUME NEW x \in Int, NEW u \in Nat \ {0}
    PROVE  /\ (x \div u) * u = x - (x % u)
           /\ x % u \in 0 .. u - 1
           /\ x \div u \in Int
  OBVIOUS

\* Dividing a by n gives q and leaves s.
Divided(a, n, q, s) ==
    /\ n \in Nat \ {0} /\ a \in Int /\ q \in Int /\ s \in 0 .. n - 1
    /\ a = n * q + s

LEMMA ModIs ==
    ASSUME NEW n, NEW a, NEW q, NEW s, Divided(a, n, q, s)
    PROVE  a % n = s
<1>0. /\ n \in Nat \ {0} /\ a \in Int /\ q \in Int /\ s \in 0 .. n - 1
      /\ a = n * q + s
  BY DEF Divided
<1>1. /\ a = n * (a \div n) + (a % n)
      /\ a % n \in 0 .. n - 1
      /\ a \div n \in Int
  BY <1>0
<1> DEFINE z == q - (a \div n)
<1>2. z \in Int /\ n * z = (a % n) - s
  BY <1>0, <1>1
<1>3. z >= 1 => n * z >= n
  BY <1>0, <1>2
<1>4. z <= -1 => n * z <= -n
  BY <1>0, <1>2
<1>5. z = 0
  BY <1>0, <1>1, <1>2, <1>3, <1>4
<1> QED BY <1>0, <1>1, <1>5

LEMMA Division ==
    ASSUME NEW n \in Nat \ {0}, NEW a \in Int
    PROVE  Divided(a, n, a \div n, a % n)
BY DEF Divided

LEMMA ModAdd ==
    ASSUME NEW n \in Nat \ {0}, NEW x \in Int, NEW y \in Int
    PROVE  (x + y) % n = ((x % n) + y) % n
<1> DEFINE r == x % n
           z == r + y
           s == z % n
           p == x \div n
           q == z \div n
<1>1. Divided(x, n, p, r)
  BY Division
<1>2. r \in Int /\ z \in Int
  BY <1>1 DEF Divided
<1> HIDE DEF z
<1>3. Divided(z, n, q, s)
  BY <1>2, Division
<1> HIDE DEF p, q, r, s
<1>4. z = r + y
  BY DEF z
<1>5. /\ p \in Int /\ q \in Int /\ s \in 0 .. n - 1
      /\ x = n * p + r /\ z = n * q + s
  BY <1>1, <1>3 DEF Divided
<1>6. n * p + n * q = n * (p + q)
  BY <1>5
<1>7. x + y = n * (p + q) + s
  BY <1>2, <1>4, <1>5, <1>6
<1>8. Divided(x + y, n, p + q, s)
  BY <1>5, <1>7 DEF Divided
<1>9. (x + y) % n = s
  BY <1>8, ModIs
<1> QED BY <1>9 DEF s, z, r

\* Multiples of u that are less than u apart are equal.
LEMMA MultiplesApart ==
    ASSUME NEW u \in Nat \ {0}, NEW x \in Int, NEW y \in Int, x % u = 0, y % u = 0, x < y
    PROVE  x + u <= y
<1>1. x = u * (x \div u) /\ y = u * (y \div u) /\ x \div u \in Int /\ y \div u \in Int
  BY DivMod
<1> DEFINE z == (y \div u) - (x \div u)
<1>2. z \in Int /\ u * z = y - x
  BY <1>1
<1>3. z <= 0 => u * z <= 0
  BY <1>2
<1>4. z >= 1 => u * z >= u
  BY <1>2
<1> QED BY <1>2, <1>3, <1>4

LEMMA Params ==
    /\ Word \in Nat \ {0} /\ Unit \in Nat \ {0} /\ Header \in Nat \ {0}
    /\ Start \in Nat \ {0} /\ End \in Nat /\ Start + Header + Unit < End /\ End < Word
    /\ Requests \subseteq 0 .. Word - 1
BY HeapAssumption

\* What is less than a word is itself.
LEMMA WordIs ==
    ASSUME NEW x \in 0 .. Word - 1
    PROVE  Word32(x) = x
<1>1. Divided(x, Word, 0, x)
  BY Params DEF Divided
<1> QED BY <1>1, ModIs DEF Word32

\* What wraps once, up or down.
LEMMA WordWraps ==
    ASSUME NEW x \in Int
    PROVE  /\ Word32(x) \in 0 .. Word - 1
           /\ x \in 0 .. Word - 1 => Word32(x) = x
           /\ x \in Word .. 2 * Word - 1 => Word32(x) = x - Word
           /\ x \in -Word .. -1 => Word32(x) = x + Word
<1>1. Word32(x) \in 0 .. Word - 1
  BY Params, DivMod DEF Word32
<1>2. ASSUME x \in Word .. 2 * Word - 1 PROVE Word32(x) = x - Word
  <2>1. Divided(x, Word, 1, x - Word)
    BY <1>2, Params DEF Divided
  <2> QED BY <2>1, ModIs DEF Word32
<1>3. ASSUME x \in -Word .. -1 PROVE Word32(x) = x + Word
  <2>1. Divided(x, Word, -1, x + Word)
    BY <1>3, Params DEF Divided
  <2> QED BY <2>1, ModIs DEF Word32
<1> QED BY <1>1, <1>2, <1>3, WordIs

LEMMA RoundUpIs ==
    ASSUME NEW n \in Nat
    PROVE  /\ RoundUp(n) \in 0 .. Word - 1
           /\ n + Unit - 1 < Word => RoundUp(n) \in n .. n + Unit - 1 /\ RoundUp(n) % Unit = 0
           /\ RoundUp(n) = RoundUp(Word32(n))
<1> DEFINE x == Word32(n + Unit - 1)
<1>1. x \in 0 .. Word - 1 /\ (n + Unit - 1 < Word => x = n + Unit - 1)
  BY WordWraps, Params
<1> HIDE DEF x
<1>2. /\ (x \div Unit) * Unit = x - (x % Unit)
      /\ x % Unit \in 0 .. Unit - 1 /\ x \div Unit \in Int
  BY <1>1, DivMod, Params
<1>3. RoundUp(n) = (x \div Unit) * Unit
  BY DEF RoundUp, x
<1>4. x \div Unit >= 0
  BY <1>1, Params
<1>5. (x \div Unit) * Unit \in 0 .. Word - 1
  <2>1. (x \div Unit) * Unit >= 0
    BY <1>4, <1>2, Params
  <2> QED BY <1>1, <1>2, <2>1, Params
<1>6. ((x \div Unit) * Unit) % Unit = 0
  <2>1. Divided((x \div Unit) * Unit, Unit, x \div Unit, 0)
    BY <1>2, <1>5, Params DEF Divided
  <2> QED BY <2>1, ModIs
<1>7. Word32(n + Unit - 1) = Word32(Word32(n) + Unit - 1)
  <2> DEFINE y == Unit - 1
  <2>0. y \in Int /\ n \in Int /\ Word \in Nat \ {0}
    BY Params
  <2> HIDE DEF y
  <2>1. (n + y) % Word = ((n % Word) + y) % Word
    BY <2>0, ModAdd
  <2>2. n % Word \in Int
    BY DivMod, Params
  <2>3. n + Unit - 1 = n + y /\ (n % Word) + Unit - 1 = (n % Word) + y
    BY <2>2, Params DEF y
  <2> QED BY <2>1, <2>3 DEF Word32
<1>8. RoundUp(Word32(n)) = RoundUp(n)
  BY <1>7 DEF RoundUp
<1> QED BY <1>1, <1>2, <1>3, <1>5, <1>6, <1>8, Params

\* The arena.
LEMMA Arena ==
    /\ first \in Addr /\ first >= Unit
    /\ endOfHeap \in Nat /\ endOfHeap < Word
    /\ 0 \notin Addr /\ Addr \subseteq Nat
    /\ \A a \in Addr : first <= a /\ a + Header <= endOfHeap
    /\ IsFiniteSet(Addr)
<1>1. first \in Start .. Start + Unit - 1 /\ first % Unit = 0
  BY Params, RoundUpIs DEF first
<1>2. 0 % Unit = 0
  <2>1. Divided(0, Unit, 0, 0)
    BY Params DEF Divided
  <2> QED BY <2>1, ModIs
<1>3. first >= Unit
  BY <1>1, <1>2, MultiplesApart, Params
<1>4. /\ endOfHeap = End - (End % Unit) /\ End % Unit \in 0 .. Unit - 1
      /\ endOfHeap \in Nat /\ endOfHeap < Word /\ End - Unit < endOfHeap
  BY Params, DivMod DEF endOfHeap
<1>5. first + Header <= endOfHeap
  <2>1. first + Header \in Int /\ (first + Header) % Unit = 0
    <3>1. (first + Header) % Unit = ((first % Unit) + Header) % Unit
      <4>1. first \in Int /\ Header \in Int /\ Unit \in Nat \ {0}
        BY <1>1, Params
      <4> QED BY <4>1, ModAdd
    <3>2. (0 + Header) % Unit = Header % Unit
      BY Params
    <3> QED BY <3>1, <3>2, <1>1, HeapAssumption
  <2>2. endOfHeap % Unit = 0
    <3> DEFINE q == End \div Unit
    <3>1. End \in Int /\ Unit \in Nat \ {0}
      BY Params
    <3>2. q * Unit = endOfHeap /\ q \in Int
      BY <3>1, <1>4, DivMod
    <3> HIDE DEF q
    <3>3. Divided(endOfHeap, Unit, q, 0)
      BY <3>1, <3>2, <1>4 DEF Divided
    <3> QED BY <3>3, ModIs
  <2>3. endOfHeap < first + Header => endOfHeap + Unit <= first + Header
    BY <2>1, <2>2, <1>4, Params, MultiplesApart
  <2> QED BY <2>1, <2>3, <1>1, <1>4, Params
<1>6. first \in Addr
  BY <1>1, <1>4, <1>5, Params DEF Addr
<1>7. /\ 0 \notin Addr /\ Addr \subseteq Nat
      /\ \A a \in Addr : first <= a /\ a + Header <= endOfHeap
  BY <1>1, <1>3, <1>4, Params DEF Addr
<1>8. IsFiniteSet(Addr)
  <2>1. IsFiniteSet(0 .. endOfHeap)
    BY <1>4, FS_Interval
  <2>2. Addr \subseteq 0 .. endOfHeap
    BY <1>7, <1>4, Params
  <2> QED BY <2>1, <2>2, FS_Subset
<1> QED BY <1>3, <1>4, <1>6, <1>7, <1>8

-----------------------------------------------------------------------------
(* Induction over the naturals, and what is built step by step             *)

Less == {ss \in Nat \X Nat : ss[1] < ss[2]}

LEMMA LessIsWellFounded == IsWellFoundedOn(Less, Nat)
  BY NatLessThanWellFounded DEF OpToRel, Less

LEMMA LessIs == \A x, y \in Nat : x < y => <<x, y>> \in Less
  BY DEF Less

LEMMA LeastOf ==
    ASSUME NEW T \in SUBSET Nat, T # {}
    PROVE  \E x \in T : \A y \in T : x <= y
<1>1. \E x \in T : \A y \in T : ~(<<y, x>> \in Less)
  BY LessIsWellFounded, WFMin
<1>2. PICK x \in T : \A y \in T : ~(<<y, x>> \in Less)
  BY <1>1
<1>3. ASSUME NEW y \in T PROVE x <= y
  <2>1. x \in Nat /\ y \in Nat
    OBVIOUS
  <2>2. ~(y < x)
    BY <1>2, <2>1, LessIs
  <2> QED BY <2>1, <2>2
<1> QED BY <1>3

LEMMA SetInduction ==
    ASSUME NEW S, 0 \in S, \A n \in Nat : n \in S => n + 1 \in S
    PROVE  \A n \in Nat : n \in S
<1> SUFFICES ASSUME NEW m \in Nat, m \notin S PROVE FALSE
  OBVIOUS
<1> DEFINE T == {n \in Nat : n \notin S}
<1>1. PICK x \in T : \A y \in T : x <= y
  BY LeastOf
<1>2. x # 0 /\ x \in Nat /\ x \notin S
  BY <1>1
<1>3. x - 1 \in Nat /\ x - 1 \notin T
  BY <1>1, <1>2
<1> QED BY <1>2, <1>3

\* A function that is iterated has the values one expects.
LEMMA Iterates ==
    ASSUME NEW T, NEW x0 \in T, NEW f \in [T -> T], NEW N \in Nat
    PROVE  \E g \in [0 .. N -> T] : g = [k \in 0 .. N |-> IF k = 0 THEN x0 ELSE f[g[k - 1]]]
<1> DEFINE Is(n, g) == g \in [0 .. n -> T] /\ g = [k \in 0 .. n |-> IF k = 0 THEN x0 ELSE f[g[k - 1]]]
           S == {n \in Nat : \E g : Is(n, g)}
<1>1. 0 \in S
  <2> DEFINE g == [k \in 0 .. 0 |-> x0]
  <2>1. Is(0, g)
    OBVIOUS
  <2> HIDE DEF g, Is
  <2> QED BY <2>1
<1>2. ASSUME NEW n \in Nat, n \in S PROVE n + 1 \in S
  <2>1. PICK g : Is(n, g)
    BY <1>2
  <2> DEFINE e == [k \in 0 .. n + 1 |-> IF k = n + 1 THEN f[g[n]] ELSE g[k]]
  <2>2. e \in [0 .. n + 1 -> T]
    BY <2>1
  <2>3. ASSUME NEW k \in 0 .. n + 1 PROVE e[k] = IF k = 0 THEN x0 ELSE f[e[k - 1]]
    <3>1. CASE k = n + 1
      BY <3>1
    <3>2. CASE k # n + 1
      <4>1. k \in 0 .. n /\ e[k] = g[k] /\ (k # 0 => k - 1 \in 0 .. n /\ e[k - 1] = g[k - 1])
        BY <3>2
      <4>2. g[k] = IF k = 0 THEN x0 ELSE f[g[k - 1]]
        BY <2>1, <4>1
      <4> QED BY <4>1, <4>2
    <3> QED BY <3>1, <3>2
  <2>4. e = [k \in 0 .. n + 1 |-> IF k = 0 THEN x0 ELSE f[e[k - 1]]]
    <3> HIDE DEF e
    <3> QED BY <2>2, <2>3
  <2>5. Is(n + 1, e)
    <3> HIDE DEF e
    <3> QED BY <2>2, <2>4
  <2> HIDE DEF e, Is
  <2> QED BY <2>5
<1> HIDE DEF S
<1>3. N \in S
  BY <1>1, <1>2, SetInduction
<1> QED BY <1>3 DEF S

-----------------------------------------------------------------------------
(* The chain as the least set that links to the right do not leave         *)

Hdrs == [Addr -> [prev : Addr \cup {0}, next : Addr \cup {0}, free : BOOLEAN]]

\* One more round of links.
Wider(h) == [X \in SUBSET Addr |-> UNION {{b} \cup ({h[b].next} \cap Addr) : b \in X}]

Closed(h, X) == \A b \in X : h[b].next # 0 => h[b].next \in X

LEMMA WiderIs ==
    ASSUME NEW h \in Hdrs, NEW X \in SUBSET Addr
    PROVE  /\ Wider(h)[X] \in SUBSET Addr
           /\ X \subseteq Wider(h)[X]
           /\ \A b \in X : h[b].next # 0 => h[b].next \in Wider(h)[X]
           /\ \A Y \in SUBSET Addr : X \subseteq Y /\ Closed(h, Y) => Wider(h)[X] \subseteq Y
           /\ Wider(h)[X] \subseteq X => Closed(h, X)
<1>1. /\ Wider(h)[X] \in SUBSET Addr
      /\ X \subseteq Wider(h)[X]
  BY DEF Wider
<1>2. \A b \in X : h[b].next # 0 => h[b].next \in Wider(h)[X]
  <2> SUFFICES ASSUME NEW b \in X, h[b].next # 0 PROVE h[b].next \in Wider(h)[X]
    OBVIOUS
  <2>1. h[b].next \in Addr
    BY DEF Hdrs
  <2> QED BY <2>1 DEF Wider
<1>3. \A Y \in SUBSET Addr : X \subseteq Y /\ Closed(h, Y) => Wider(h)[X] \subseteq Y
  <2> SUFFICES ASSUME NEW Y \in SUBSET Addr, X \subseteq Y, Closed(h, Y), NEW y \in Wider(h)[X]
               PROVE  y \in Y
    OBVIOUS
  <2>1. PICK b \in X : y = b \/ (y = h[b].next /\ y \in Addr)
    BY DEF Wider
  <2>2. 0 \notin Addr
    BY Arena
  <2> QED BY <2>1, <2>2 DEF Closed
<1>4. Wider(h)[X] \subseteq X => Closed(h, X)
  BY <1>2 DEF Closed
<1> QED BY <1>1, <1>2, <1>3, <1>4

Count == Cardinality(Addr)

\* What Heads is built from.
LEMMA HeadsRun ==
    ASSUME NEW h \in Hdrs
    PROVE  \E g \in [0 .. Count -> SUBSET Addr] :
              /\ g[0] = {first}
              /\ \A k \in 1 .. Count : g[k] = Wider(h)[g[k - 1]]
              /\ Heads(h) = g[Count]
<1> DEFINE upTo[k \in 0 .. Cardinality(Addr)] ==
               IF k = 0 THEN {first}
               ELSE UNION {{b} \cup ({h[b].next} \cap Addr) : b \in upTo[k - 1]}
<1>1. Heads(h) = upTo[Cardinality(Addr)]
  BY DEF Heads
<1>2. Count \in Nat /\ {first} \in SUBSET Addr /\ Wider(h) \in [SUBSET Addr -> SUBSET Addr]
  <2>1. Count \in Nat
    BY Arena, FS_CardinalityType DEF Count
  <2>2. Wider(h) \in [SUBSET Addr -> SUBSET Addr]
    <3>1. \A X \in SUBSET Addr : Wider(h)[X] \in SUBSET Addr
      BY WiderIs
    <3> QED BY <3>1 DEF Wider
  <2> QED BY <2>1, <2>2, Arena
<1>3. PICK g \in [0 .. Count -> SUBSET Addr] :
          g = [k \in 0 .. Count |-> IF k = 0 THEN {first} ELSE Wider(h)[g[k - 1]]]
  <2> DEFINE T == SUBSET Addr
             x0 == {first}
             f == Wider(h)
  <2>1. Count \in Nat /\ x0 \in T /\ f \in [T -> T]
    BY <1>2
  <2> HIDE DEF T, x0, f
  <2>2. \E g \in [0 .. Count -> T] : g = [k \in 0 .. Count |-> IF k = 0 THEN x0 ELSE f[g[k - 1]]]
    BY <2>1, Iterates
  <2> QED BY <2>2 DEF T, x0, f
<1>4. g = [k \in 0 .. Count |-> IF k = 0 THEN {first}
                               ELSE UNION {{b} \cup ({h[b].next} \cap Addr) : b \in g[k - 1]}]
  <2>1. \A k \in 0 .. Count : k # 0 =>
           Wider(h)[g[k - 1]] = UNION {{b} \cup ({h[b].next} \cap Addr) : b \in g[k - 1]}
    <3> SUFFICES ASSUME NEW k \in 0 .. Count, k # 0
                 PROVE  Wider(h)[g[k - 1]] = UNION {{b} \cup ({h[b].next} \cap Addr) : b \in g[k - 1]}
      OBVIOUS
    <3>1. g[k - 1] \in SUBSET Addr
      BY <1>2
    <3> QED BY <3>1 DEF Wider
  <2> QED BY <1>3, <2>1
<1>5. upTo = [k \in 0 .. Count |-> IF k = 0 THEN {first}
                               ELSE UNION {{b} \cup ({h[b].next} \cap Addr) : b \in upTo[k - 1]}]
  BY <1>4 DEF Count
<1> HIDE DEF upTo
<1>6. \A k \in 0 .. Count : upTo[k] = IF k = 0 THEN {first}
                               ELSE UNION {{b} \cup ({h[b].next} \cap Addr) : b \in upTo[k - 1]}
  BY <1>5
<1> DEFINE S == {n \in Nat : n <= Count => upTo[n] \in SUBSET Addr}
<1>7. 0 \in S
  <2>1. 0 \in 0 .. Count
    BY <1>2
  <2>2. upTo[0] = {first}
    BY <2>1, <1>6, Zenon
  <2> QED BY <1>2, <2>2
<1>8. ASSUME NEW n \in Nat, n \in S PROVE n + 1 \in S
  <2> SUFFICES ASSUME n + 1 <= Count PROVE upTo[n + 1] \in SUBSET Addr
    OBVIOUS
  <2>1. upTo[n] \in SUBSET Addr
    BY <1>8, <1>2
  <2>2. upTo[n + 1] = UNION {{b} \cup ({h[b].next} \cap Addr) : b \in upTo[n]}
    <3>1. n + 1 \in 0 .. Count /\ n + 1 # 0 /\ (n + 1) - 1 = n
      BY <1>2
    <3> QED BY <1>6, <3>1
  <2> QED BY <2>1, <2>2
<1> HIDE DEF S
<1>9. \A n \in Nat : n \in S
  BY <1>7, <1>8, SetInduction
<1>10. \A k \in 0 .. Count : upTo[k] \in SUBSET Addr
  BY <1>2, <1>9 DEF S
<1>11. upTo \in [0 .. Count -> SUBSET Addr]
  BY <1>5, <1>10
<1>12. upTo[0] = {first}
  <2>1. 0 \in 0 .. Count
    BY <1>2
  <2> QED BY <2>1, <1>6, Zenon
<1>13. ASSUME NEW k \in 1 .. Count PROVE upTo[k] = Wider(h)[upTo[k - 1]]
  <2>1. k \in 0 .. Count /\ k # 0 /\ k - 1 \in 0 .. Count
    BY <1>2
  <2>2. upTo[k - 1] \in SUBSET Addr
    BY <1>10, <2>1
  <2> QED BY <1>6, <2>1, <2>2 DEF Wider
<1>14. Heads(h) = upTo[Count]
  BY <1>1 DEF Count
<1> QED BY <1>11, <1>12, <1>13, <1>14

\* The chain ends before the addresses do, so that Heads does not stop short.
LEMMA HeadsLeast ==
    ASSUME NEW h \in Hdrs
    PROVE  /\ Heads(h) \in SUBSET Addr
           /\ first \in Heads(h)
           /\ Closed(h, Heads(h))
           /\ \A Y \in SUBSET Addr : first \in Y /\ Closed(h, Y) => Heads(h) \subseteq Y
<1>1. PICK g \in [0 .. Count -> SUBSET Addr] :
              /\ g[0] = {first}
              /\ \A k \in 1 .. Count : g[k] = Wider(h)[g[k - 1]]
              /\ Heads(h) = g[Count]
  BY HeadsRun
<1>2. Count \in Nat /\ IsFiniteSet(Addr)
  BY Arena, FS_CardinalityType DEF Count
<1>3. ASSUME NEW n \in Nat, n + 1 <= Count
      PROVE  /\ g[n] \in SUBSET Addr /\ g[n + 1] \in SUBSET Addr
             /\ g[n + 1] = Wider(h)[g[n]] /\ g[n] \subseteq g[n + 1]
  <2>1. n \in 0 .. Count /\ n + 1 \in 1 .. Count /\ n + 1 \in 0 .. Count /\ (n + 1) - 1 = n
    BY <1>2, <1>3
  <2>2. g[n] \in SUBSET Addr /\ g[n + 1] \in SUBSET Addr /\ g[n + 1] = Wider(h)[g[n]]
    BY <1>1, <2>1
  <2> QED BY <2>2, WiderIs
<1>4. ASSUME NEW Y \in SUBSET Addr, first \in Y, Closed(h, Y)
      PROVE  Heads(h) \subseteq Y
  <2> DEFINE S == {n \in Nat : n <= Count => g[n] \subseteq Y}
  <2>1. 0 \in S
    BY <1>1, <1>4
  <2>2. ASSUME NEW n \in Nat, n \in S PROVE n + 1 \in S
    <3> SUFFICES ASSUME n + 1 <= Count PROVE g[n + 1] \subseteq Y
      OBVIOUS
    <3>1. g[n] \subseteq Y
      BY <1>2, <2>2
    <3> QED BY <1>3, <1>4, <3>1, WiderIs
  <2> HIDE DEF S
  <2>3. \A n \in Nat : n \in S
    BY <2>1, <2>2, SetInduction
  <2> QED BY <1>1, <1>2, <2>3 DEF S
<1>5. Closed(h, g[Count])
  <2> DEFINE Grown(n) == Closed(h, g[n]) \/ Cardinality(g[n]) >= n + 1
             S == {n \in Nat : n <= Count => first \in g[n] /\ Grown(n)}
  <2>1. 0 \in S
    <3>1. Cardinality({first}) = 1
      BY FS_Singleton
    <3>2. g[0] = {first}
      BY <1>1
    <3>3. first \in g[0] /\ Cardinality(g[0]) >= 0 + 1
      BY <3>1, <3>2
    <3> QED BY <3>3
  <2>2. ASSUME NEW n \in Nat, n \in S PROVE n + 1 \in S
    <3> SUFFICES ASSUME n + 1 <= Count PROVE first \in g[n + 1] /\ Grown(n + 1)
      OBVIOUS
    <3>1. /\ g[n] \in SUBSET Addr /\ g[n + 1] \in SUBSET Addr
          /\ g[n + 1] = Wider(h)[g[n]] /\ g[n] \subseteq g[n + 1]
      BY <1>3
    <3>2. first \in g[n] /\ Grown(n)
      BY <1>2, <2>2
    <3>3. CASE Closed(h, g[n])
      <4>1. g[n + 1] = g[n]
        BY <3>1, <3>3, WiderIs
      <4> QED BY <3>2, <3>3, <4>1
    <3>4. CASE ~Closed(h, g[n])
      <4>1. g[n + 1] # g[n]
        BY <3>1, <3>4, WiderIs
      <4>2. IsFiniteSet(g[n]) /\ IsFiniteSet(g[n + 1])
        BY <1>2, <3>1, FS_Subset
      <4>3. Cardinality(g[n]) < Cardinality(g[n + 1])
        <5>1. g[n] \in SUBSET g[n + 1]
          BY <3>1
        <5>2. /\ Cardinality(g[n]) <= Cardinality(g[n + 1])
              /\ Cardinality(g[n + 1]) = Cardinality(g[n]) => g[n + 1] = g[n]
          BY <4>2, <5>1, FS_Subset
        <5>3. Cardinality(g[n]) \in Nat /\ Cardinality(g[n + 1]) \in Nat
          BY <4>2, FS_CardinalityType
        <5> QED BY <4>1, <5>2, <5>3
      <4>4. Cardinality(g[n]) \in Nat /\ Cardinality(g[n + 1]) \in Nat
        BY <4>2, FS_CardinalityType
      <4>5. Cardinality(g[n]) >= n + 1
        BY <3>2, <3>4
      <4>6. Cardinality(g[n + 1]) >= (n + 1) + 1
        BY <4>3, <4>4, <4>5
      <4> QED BY <3>1, <3>2, <4>6
    <3> QED BY <3>3, <3>4
  <2> HIDE DEF S
  <2>3. \A n \in Nat : n \in S
    BY <2>1, <2>2, SetInduction
  <2>4. first \in g[Count] /\ Grown(Count)
    BY <1>2, <2>3 DEF S
  <2>5. g[Count] \in SUBSET Addr
    BY <1>1, <1>2
  <2>6. Cardinality(g[Count]) <= Count
    BY <1>2, <2>5, FS_Subset DEF Count
  <2>7. Cardinality(g[Count]) \in Nat
    BY <1>2, <2>5, FS_Subset, FS_CardinalityType
  <2> QED BY <1>2, <2>4, <2>6, <2>7
<1>6. first \in g[Count]
  <2> DEFINE S == {n \in Nat : n <= Count => first \in g[n]}
  <2>1. 0 \in S
    BY <1>1
  <2>2. ASSUME NEW n \in Nat, n \in S PROVE n + 1 \in S
    BY <1>2, <1>3, <2>2
  <2> HIDE DEF S
  <2>3. \A n \in Nat : n \in S
    BY <2>1, <2>2, SetInduction
  <2> QED BY <1>2, <2>3 DEF S
<1>7. g[Count] \in SUBSET Addr
  BY <1>1, <1>2
<1> QED BY <1>1, <1>4, <1>5, <1>6, <1>7

\* To know the blocks of a heap it is enough to know a closed set that every
\* other one includes.
LEMMA HeadsAre ==
    ASSUME NEW h \in Hdrs, NEW X \in SUBSET Addr, first \in X, Closed(h, X),
           \A Y \in SUBSET Addr : first \in Y /\ Closed(h, Y) => X \subseteq Y
    PROVE  Heads(h) = X
BY HeadsLeast

LEMMA Address ==
    ASSUME NEW a \in Addr
    PROVE  /\ a \in Nat /\ a # 0 /\ first <= a /\ Unit <= a
           /\ a + Header <= endOfHeap /\ a < endOfHeap /\ a < Word
<1>1. a \in Nat /\ a # 0 /\ first <= a /\ a + Header <= endOfHeap
  BY Arena
<1>2. endOfHeap \in Nat /\ endOfHeap < Word /\ Unit <= first /\ first \in Nat
  BY Arena
<1> QED BY <1>1, <1>2, Params

LEMMA GreatestOf ==
    ASSUME NEW T \in SUBSET Addr, T # {}
    PROVE  \E x \in T : \A y \in T : y <= x
<1> DEFINE R == {endOfHeap - y : y \in T}
<1>1. R \in SUBSET Nat /\ R # {}
  <2>1. \A y \in T : y \in Nat /\ y < endOfHeap
    BY Address
  <2>2. endOfHeap \in Nat
    BY Arena
  <2> QED BY <2>1, <2>2
<1>2. PICK m \in R : \A n \in R : m <= n
  BY <1>1, LeastOf
<1>3. PICK x \in T : m = endOfHeap - x
  BY <1>2
<1>4. ASSUME NEW y \in T PROVE y <= x
  <2>1. endOfHeap - y \in R
    OBVIOUS
  <2>2. endOfHeap - x <= endOfHeap - y
    BY <1>2, <1>3, <2>1
  <2>3. x \in Nat /\ y \in Nat /\ endOfHeap \in Nat
    BY Arena
  <2> QED BY <2>2, <2>3
<1> QED BY <1>4

-----------------------------------------------------------------------------
(* What a sound chain looks like                                           *)

BlockEnd(h, b) == IF h[b].next = 0 THEN endOfHeap ELSE h[b].next

Sound(h) ==
    \A b \in Heads(h) :
        /\ b + Header <= BlockEnd(h, b)
        /\ h[b].prev = 0 <=> b = first
        /\ h[b].next # 0 => h[h[b].next].prev = b

\* A block in numbers.
LEMMA Block ==
    ASSUME NEW h \in Hdrs, Sound(h), NEW b \in Heads(h)
    PROVE  /\ b \in Addr /\ b \in Nat /\ b # 0 /\ first <= b
           /\ b + Header <= BlockEnd(h, b) /\ BlockEnd(h, b) <= endOfHeap
           /\ BlockEnd(h, b) \in Nat
           /\ h[b].next \in Addr \cup {0} /\ h[b].prev \in Addr \cup {0} /\ h[b].free \in BOOLEAN
           /\ h[b].next # 0 => /\ h[b].next \in Heads(h) /\ BlockEnd(h, b) = h[b].next
                               /\ b < h[b].next /\ h[h[b].next].prev = b
           /\ h[b].next = 0 => BlockEnd(h, b) = endOfHeap
           /\ h[b].prev = 0 <=> b = first
<1>1. b \in Addr
  BY HeadsLeast
<1>2. h[b].next \in Addr \cup {0} /\ h[b].prev \in Addr \cup {0} /\ h[b].free \in BOOLEAN
  BY <1>1 DEF Hdrs
<1>3. h[b].next # 0 => h[b].next \in Heads(h)
  BY HeadsLeast DEF Closed
<1>4. /\ b + Header <= BlockEnd(h, b)
      /\ h[b].prev = 0 <=> b = first
      /\ h[b].next # 0 => h[h[b].next].prev = b
  BY DEF Sound
<1>5. b \in Nat /\ b # 0 /\ first <= b
  BY <1>1, Arena
<1>6. BlockEnd(h, b) \in Nat /\ BlockEnd(h, b) <= endOfHeap
  <2>1. h[b].next # 0 => h[b].next \in Nat /\ h[b].next < endOfHeap
    BY <1>2, Address
  <2>2. endOfHeap \in Nat
    BY Arena
  <2> QED BY <2>1, <2>2 DEF BlockEnd
<1>7. /\ h[b].next # 0 => BlockEnd(h, b) = h[b].next
      /\ h[b].next = 0 => BlockEnd(h, b) = endOfHeap
  BY DEF BlockEnd
<1>8. h[b].next # 0 => b < h[b].next
  BY <1>4, <1>5, <1>6, <1>7, Params
<1> QED BY <1>1, <1>2, <1>3, <1>4, <1>5, <1>6, <1>7, <1>8

\* The left neighbour of a block is a block, and links to it.
LEMMA LeftNeighbour ==
    ASSUME NEW h \in Hdrs, Sound(h), NEW b \in Heads(h), b # first
    PROVE  h[b].prev \in Heads(h) /\ h[h[b].prev].next = b
<1> DEFINE Y == {c \in Heads(h) : c = first \/ (h[c].prev \in Heads(h) /\ h[h[c].prev].next = c)}
<1>1. Y \in SUBSET Addr /\ first \in Y
  BY HeadsLeast
<1>2. Closed(h, Y)
  <2> SUFFICES ASSUME NEW c \in Y, h[c].next # 0 PROVE h[c].next \in Y
    BY DEF Closed
  <2>1. h[c].next \in Heads(h) /\ h[h[c].next].prev = c
    BY Block
  <2> QED BY <2>1
<1>3. Heads(h) \subseteq Y
  BY <1>1, <1>2, HeadsLeast
<1> QED BY <1>3

\* Blocks do not overlap.
LEMMA Apart ==
    ASSUME NEW h \in Hdrs, Sound(h), NEW b \in Heads(h), NEW c \in Heads(h), c < b
    PROVE  BlockEnd(h, c) <= b
<1> DEFINE Clear(x) == \A y \in Heads(h) : y < x => BlockEnd(h, y) <= x
           Y == {x \in Heads(h) : Clear(x)}
<1>1. Y \in SUBSET Addr
  BY HeadsLeast
<1>2. first \in Y
  <2>1. \A y \in Heads(h) : first <= y /\ y \in Nat
    BY Block
  <2>2. first \in Nat /\ first \in Heads(h)
    BY Arena, HeadsLeast
  <2> QED BY <2>1, <2>2
<1>3. ASSUME NEW x \in Y, h[x].next # 0 PROVE h[x].next \in Y
  <2> DEFINE d == h[x].next
             T == {y \in Heads(h) : x < y /\ y < d}
  <2>1. d \in Heads(h) /\ x \in Heads(h) /\ d \in Nat /\ x \in Nat /\ BlockEnd(h, x) = d /\ x < d
    <3>1. d \in Heads(h)
      BY <1>3, Block
    <3> QED BY <1>3, <3>1, Block
  <2>2. T = {}
    <3> SUFFICES ASSUME T # {} PROVE FALSE
      OBVIOUS
    <3>1. T \in SUBSET Nat
      BY Block
    <3>2. PICK y \in T : \A z \in T : y <= z
      BY <3>1, LeastOf
    <3>3. y \in Heads(h) /\ x < y /\ y < d /\ y \in Nat
      BY <3>1
    <3>4. y # first
      BY <2>1, <3>3, Block
    <3> DEFINE p == h[y].prev
    <3>5. p \in Heads(h) /\ h[p].next = y
      BY <3>3, <3>4, LeftNeighbour
    <3>6. p \in Nat /\ p < y /\ BlockEnd(h, p) = y
      BY <3>3, <3>5, Block
    <3> HIDE DEF p
    <3>7. p # x
      BY <3>3, <3>5
    <3>8. ~(p < x)
      <4>1. p < x => BlockEnd(h, p) <= x
        BY <3>5
      <4> QED BY <2>1, <3>3, <3>6, <4>1
    <3>9. p \in T
      BY <2>1, <3>3, <3>5, <3>6, <3>7, <3>8
    <3> QED BY <3>2, <3>3, <3>6, <3>9
  <2>3. ASSUME NEW y \in Heads(h), y < d PROVE BlockEnd(h, y) <= d
    <3>1. y \in Nat /\ y \notin T /\ BlockEnd(h, y) \in Nat
      BY <2>2, Block
    <3>2. y < x => BlockEnd(h, y) <= x
      BY <1>3
    <3>3. y < x \/ y = x
      BY <2>1, <2>3, <3>1
    <3> QED BY <2>1, <3>1, <3>2, <3>3
  <2> QED BY <2>1, <2>3
<1>4. Closed(h, Y)
  BY <1>3 DEF Closed
<1>5. Heads(h) \subseteq Y
  BY <1>1, <1>2, <1>4, HeadsLeast
<1> QED BY <1>5

\* Every address of the arena is in a block.
LEMMA Covered ==
    ASSUME NEW h \in Hdrs, Sound(h), NEW x \in Addr
    PROVE  \E b \in Heads(h) : b <= x /\ x < BlockEnd(h, b)
<1> DEFINE T == {b \in Heads(h) : b <= x}
<1>1. T \in SUBSET Addr /\ T # {}
  BY HeadsLeast, Arena
<1>2. PICK b \in T : \A y \in T : y <= b
  BY <1>1, GreatestOf
<1>3. b \in Heads(h) /\ b <= x /\ x \in Nat /\ b \in Nat
  BY <1>1, <1>2, Arena
<1>4. CASE h[b].next = 0
  BY <1>3, <1>4, Block, Arena, Params
<1>5. CASE h[b].next # 0
  <2>1. /\ h[b].next \in Heads(h) /\ b < h[b].next /\ BlockEnd(h, b) = h[b].next
        /\ h[b].next \in Nat
    BY <1>3, <1>5, Block
  <2>2. ~(h[b].next <= x)
    <3>1. h[b].next <= x => h[b].next <= b
      BY <1>2, <2>1
    <3> QED BY <1>3, <2>1, <3>1
  <2> QED BY <1>3, <2>1, <2>2
<1> QED BY <1>3, <1>4, <1>5

-----------------------------------------------------------------------------
(* The three things that are done to a chain: a block is marked, joined to *)
(* its right neighbour, or divided                                         *)

Tight(h) ==
    \A b \in Heads(h) : (h[b].free /\ h[b].next # 0) => ~h[h[b].next].free

Taken(h) == {b \in Heads(h) : ~h[b].free}

Mark(h, i, f) == [h EXCEPT ![i].free = f]

Join(h, l) == Merged(h, l, {h[l].next}, h[h[l].next].next)

Divide(h, i, j) ==
    LeftOf([h EXCEPT ![i].next = j, ![i].free = FALSE,
                     ![j] = [prev |-> i, next |-> h[i].next, free |-> TRUE]],
           j, h[i].next)

LEMMA Marks ==
    ASSUME NEW h \in Hdrs, NEW i \in Heads(h), NEW f \in BOOLEAN, Sound(h)
    PROVE  /\ Mark(h, i, f) \in Hdrs
           /\ Heads(Mark(h, i, f)) = Heads(h)
           /\ Sound(Mark(h, i, f))
           /\ \A b \in Heads(h) : /\ Mark(h, i, f)[b].next = h[b].next
                                  /\ BlockEnd(Mark(h, i, f), b) = BlockEnd(h, b)
                                  /\ Mark(h, i, f)[b].free = (IF b = i THEN f ELSE h[b].free)
<1> DEFINE g == Mark(h, i, f)
<1>1. i \in Addr
  BY HeadsLeast
<1>2. g \in Hdrs
  BY <1>1 DEF Mark, Hdrs
<1>3. \A b \in Addr : /\ g[b].next = h[b].next /\ g[b].prev = h[b].prev
                      /\ g[b].free = (IF b = i THEN f ELSE h[b].free)
  BY <1>1 DEF Mark, Hdrs
<1> HIDE DEF g
<1>4. Heads(g) = Heads(h)
  <2>1. \A Y \in SUBSET Addr : Closed(g, Y) <=> Closed(h, Y)
    BY <1>3 DEF Closed
  <2> QED BY <1>2, <2>1, HeadsAre, HeadsLeast
<1>5. \A b \in Addr : BlockEnd(g, b) = BlockEnd(h, b)
  BY <1>3 DEF BlockEnd
<1>6. Sound(g)
  <2> SUFFICES ASSUME NEW b \in Heads(h)
               PROVE  /\ b + Header <= BlockEnd(g, b)
                      /\ g[b].prev = 0 <=> b = first
                      /\ g[b].next # 0 => g[g[b].next].prev = b
    BY <1>4 DEF Sound
  <2>1. b \in Addr /\ h[b].next \in Addr \cup {0}
    BY Block
  <2> QED BY <1>3, <1>5, <2>1, Block
<1> QED BY <1>2, <1>3, <1>4, <1>5, <1>6, HeadsLeast DEF g

\* The block l takes over the one on its right, m.
LEMMA Joins ==
    ASSUME NEW h \in Hdrs, NEW l \in Heads(h), Sound(h), h[l].next # 0
    PROVE  LET g == Join(h, l)  m == h[l].next IN
           /\ g \in Hdrs
           /\ Heads(g) = Heads(h) \ {m}
           /\ Sound(g)
           /\ g[l].free /\ g[l].next = h[m].next
           /\ \A b \in Heads(g) \ {l} : /\ g[b].next = h[b].next /\ g[b].free = h[b].free
                                        /\ BlockEnd(g, b) = BlockEnd(h, b)
           /\ BlockEnd(g, l) = BlockEnd(h, m)
           /\ g[l].prev = h[l].prev
<1> DEFINE g == Join(h, l)
           m == h[l].next
           r == h[m].next
<1>1. /\ l \in Addr /\ m \in Heads(h) /\ m \in Addr /\ l # m /\ m # first /\ h[m].prev = l
      /\ r \in Addr \cup {0} /\ r # l /\ r # m /\ l < m /\ l \in Nat /\ m \in Nat
      /\ BlockEnd(h, l) = m
      /\ r # 0 => r \in Heads(h) /\ h[r].prev = m
  <2>1. m \in Heads(h) /\ l \in Addr /\ h[m].prev = l /\ l < m /\ l \in Nat /\ l # 0 /\ BlockEnd(h, l) = m
    BY Block
  <2>2. /\ m \in Addr /\ m \in Nat /\ r \in Addr \cup {0} /\ m # first
        /\ r # 0 => r \in Heads(h) /\ h[r].prev = m /\ m < r /\ r \in Nat
    BY <2>1, Block
  <2> QED BY <2>1, <2>2
<1>2. g \in Hdrs
  <2>1. h[l].prev \in Addr \cup {0}
    BY <1>1 DEF Hdrs
  <2>2. NoBlock \in [prev : Addr \cup {0}, next : Addr \cup {0}, free : BOOLEAN]
    BY DEF NoBlock
  <2> DEFINE e == [a \in Addr |-> IF a \in {m} THEN NoBlock
                           ELSE IF a = l THEN [prev |-> h[l].prev, next |-> r, free |-> TRUE]
                           ELSE h[a]]
  <2>3. e \in Hdrs
    BY <1>1, <2>1, <2>2 DEF Hdrs
  <2>4. g = LeftOf(e, l, r)
    BY DEF Join, Merged
  <2> HIDE DEF e
  <2> QED BY <1>1, <2>3, <2>4 DEF LeftOf, Hdrs
<1>3. \A a \in Addr \ {m} :
         /\ g[a].next = (IF a = l THEN r ELSE h[a].next)
         /\ g[a].free = (IF a = l THEN TRUE ELSE h[a].free)
         /\ g[a].prev = (IF a = r THEN l ELSE h[a].prev)
  <2> DEFINE e == [a \in Addr |-> IF a \in {m} THEN NoBlock
                           ELSE IF a = l THEN [prev |-> h[l].prev, next |-> r, free |-> TRUE]
                           ELSE h[a]]
  <2>1. g = LeftOf(e, l, r)
    BY DEF Join, Merged
  <2>2. \A a \in Addr \ {m} :
         /\ e[a].next = (IF a = l THEN r ELSE h[a].next)
         /\ e[a].free = (IF a = l THEN TRUE ELSE h[a].free)
         /\ e[a].prev = h[a].prev
    OBVIOUS
  <2>3. e \in [Addr -> {e[a] : a \in Addr}] /\ DOMAIN e = Addr
    OBVIOUS
  <2>4. r # 0 => e[r] = h[r] /\ h[r] \in [prev : Addr \cup {0}, next : Addr \cup {0}, free : BOOLEAN]
    BY <1>1 DEF Hdrs
  <2> DEFINE w == [h[r] EXCEPT !.prev = l]
  <2> HIDE DEF e, g, m, r
  <2>5. r = 0 => g = e
    BY <2>1 DEF LeftOf
  <2>6. r # 0 => g = [e EXCEPT ![r] = w]
    BY <2>1, <2>4 DEF LeftOf
  <2>7. r # 0 => w.prev = l /\ w.next = h[r].next /\ w.free = h[r].free
    BY <2>4
  <2> HIDE DEF w
  <2>8. r # 0 => \A a \in Addr : g[a] = IF a = r THEN w ELSE e[a]
    BY <1>1, <2>3, <2>6
  <2>9. 0 \notin Addr
    BY Arena
  <2>10. CASE r = 0
    BY <2>2, <2>5, <2>9, <2>10
  <2>11. CASE r # 0
    BY <1>1, <2>2, <2>7, <2>8, <2>11
  <2> QED BY <2>10, <2>11
<1> HIDE DEF g, m, r
<1> DEFINE X == Heads(h) \ {m}
<1>4. Heads(g) = X
  <2>1. X \in SUBSET Addr /\ first \in X
    BY <1>1, HeadsLeast
  <2>2. Closed(g, X)
    <3> SUFFICES ASSUME NEW b \in X, g[b].next # 0 PROVE g[b].next \in X
      BY DEF Closed
    <3>1. b \in Addr \ {m} /\ b \in Heads(h)
      BY HeadsLeast
    <3>2. CASE b = l
      BY <1>1, <1>3, <3>1, <3>2
    <3>3. CASE b # l
      <4>1. g[b].next = h[b].next /\ h[b].next # 0
        BY <1>3, <3>1, <3>3
      <4>2. h[b].next \in Heads(h) /\ h[h[b].next].prev = b
        BY <3>1, <4>1, Block
      <4> QED BY <1>1, <3>3, <4>1, <4>2
    <3> QED BY <3>2, <3>3
  <2>3. ASSUME NEW Y \in SUBSET Addr, first \in Y, Closed(g, Y) PROVE X \subseteq Y
    <3> DEFINE U == {b \in Heads(h) : (b # m /\ b \in Y) \/ (b = m /\ l \in Y)}
    <3>1. U \in SUBSET Addr /\ first \in U
      BY <1>1, <2>3, HeadsLeast
    <3>2. Closed(h, U)
      <4> SUFFICES ASSUME NEW b \in U, h[b].next # 0 PROVE h[b].next \in U
        BY DEF Closed
      <4>1. b \in Heads(h) /\ h[b].next \in Heads(h) /\ b \in Addr /\ h[h[b].next].prev = b
        BY Block
      <4>2. CASE b = m
        <5>1. l \in Y /\ h[b].next = r
          BY <4>2 DEF r
        <5>2. g[l].next = r /\ r # 0
          BY <1>1, <1>3, <4>2, <5>1
        <5>3. r \in Y /\ r # m
          BY <1>1, <2>3, <5>1, <5>2 DEF Closed
        <5> QED BY <4>1, <5>1, <5>3
      <4>3. CASE b = l
        <5>1. l \in Y /\ h[b].next = m
          BY <1>1, <4>3 DEF m
        <5> QED BY <1>1, <5>1
      <4>4. CASE b # l /\ b # m
        <5>1. b \in Y /\ g[b].next = h[b].next
          BY <1>3, <4>1, <4>4
        <5>2. h[b].next # m
          BY <1>1, <4>1, <4>4
        <5> QED BY <2>3, <4>1, <5>1, <5>2 DEF Closed
      <4> QED BY <4>2, <4>3, <4>4
    <3>3. Heads(h) \subseteq U
      BY <3>1, <3>2, HeadsLeast
    <3> QED BY <3>3
  <2> HIDE DEF X
  <2> QED BY <1>2, <2>1, <2>2, <2>3, HeadsAre
<1>5. /\ \A b \in Heads(g) \ {l} : /\ g[b].next = h[b].next /\ g[b].free = h[b].free
                                   /\ BlockEnd(g, b) = BlockEnd(h, b)
      /\ BlockEnd(g, l) = BlockEnd(h, m)
      /\ g[l].free /\ g[l].next = r /\ g[l].prev = h[l].prev
  BY <1>1, <1>3, <1>4, HeadsLeast DEF BlockEnd, r
<1>6. Sound(g)
  <2> SUFFICES ASSUME NEW b \in X
               PROVE  /\ b + Header <= BlockEnd(g, b)
                      /\ g[b].prev = 0 <=> b = first
                      /\ g[b].next # 0 => g[g[b].next].prev = b
    BY <1>4 DEF Sound
  <2>1. /\ b \in Addr \ {m} /\ b \in Heads(h) /\ b # m /\ b \in Nat
        /\ b + Header <= BlockEnd(h, b)
        /\ h[b].prev = 0 <=> b = first
        /\ h[b].next # 0 => h[h[b].next].prev = b /\ h[b].next \in Heads(h)
    BY Block
  <2>2. b + Header <= BlockEnd(g, b)
    <3>1. CASE b = l
      <4>1. m + Header <= BlockEnd(h, m) /\ BlockEnd(h, m) \in Nat
        BY <1>1, Block
      <4> QED BY <1>1, <1>5, <3>1, <4>1, Params
    <3>2. CASE b # l
      BY <1>4, <1>5, <2>1, <3>2
    <3> QED BY <3>1, <3>2
  <2>3. g[b].prev = 0 <=> b = first
    <3>1. CASE b = r
      <4>1. b # first
        BY <1>1, <2>1, <3>1, Arena
      <4>2. g[b].prev = l /\ l # 0
        BY <1>1, <1>3, <2>1, <3>1, Arena
      <4> QED BY <4>1, <4>2
    <3>2. CASE b # r
      BY <1>3, <2>1, <3>2
    <3> QED BY <3>1, <3>2
  <2>4. ASSUME g[b].next # 0 PROVE g[g[b].next].prev = b
    <3>1. CASE b = l
      BY <1>1, <1>3, <2>4, <3>1, <1>5
    <3>2. CASE b # l
      <4>1. g[b].next = h[b].next /\ h[b].next \in Heads(h) /\ h[h[b].next].prev = b
        BY <1>4, <1>5, <2>1, <2>4, <3>2
      <4>2. h[b].next # m
        BY <1>1, <3>2, <4>1
      <4>3. h[b].next # r
        BY <1>1, <2>1, <2>4, <4>1
      <4>4. h[b].next \in Addr
        BY <4>1, HeadsLeast
      <4> QED BY <1>3, <4>1, <4>2, <4>3, <4>4
    <3> QED BY <3>1, <3>2
  <2> QED BY <2>2, <2>3, <2>4
<1> QED BY <1>2, <1>4, <1>5, <1>6 DEF g, m, r

\* The block i ends at j from now on, where a free one begins.
LEMMA Divides ==
    ASSUME NEW h \in Hdrs, NEW i \in Heads(h), NEW j \in Addr, Sound(h),
           i + Header <= j, j + Header <= BlockEnd(h, i)
    PROVE  LET g == Divide(h, i, j) IN
           /\ g \in Hdrs
           /\ j \notin Heads(h)
           /\ Heads(g) = Heads(h) \cup {j}
           /\ Sound(g)
           /\ g[i].next = j /\ ~g[i].free /\ g[j].next = h[i].next /\ g[j].free
           /\ \A b \in Heads(h) \ {i} : /\ g[b].next = h[b].next /\ g[b].free = h[b].free
                                        /\ BlockEnd(g, b) = BlockEnd(h, b)
           /\ BlockEnd(g, i) = j
<1> DEFINE g == Divide(h, i, j)
           r == h[i].next
           e == [h EXCEPT ![i].next = j, ![i].free = FALSE,
                          ![j] = [prev |-> i, next |-> r, free |-> TRUE]]
<1>1. /\ i \in Addr /\ i \in Nat /\ j \in Nat /\ i < j /\ j < BlockEnd(h, i) /\ j # 0
      /\ r \in Addr \cup {0} /\ r # i /\ BlockEnd(h, i) \in Nat
      /\ r # 0 => r \in Heads(h) /\ h[r].prev = i /\ BlockEnd(h, i) = r
      /\ r = 0 => BlockEnd(h, i) = endOfHeap
  <2>1. j \in Nat /\ j # 0
    BY Address
  <2>2. /\ i \in Addr /\ i \in Nat /\ BlockEnd(h, i) \in Nat /\ r \in Addr \cup {0}
        /\ r # 0 => r \in Heads(h) /\ h[r].prev = i /\ BlockEnd(h, i) = r /\ i < r
        /\ r = 0 => BlockEnd(h, i) = endOfHeap
        /\ i # 0
    BY Block
  <2> QED BY <2>1, <2>2, Params
<1>2. j \notin Heads(h)
  <2> SUFFICES ASSUME j \in Heads(h) PROVE FALSE
    OBVIOUS
  <2>1. BlockEnd(h, i) <= j
    BY <1>1, Apart
  <2> QED BY <1>1, <2>1
<1>3. /\ j # i /\ j # r
      /\ h[i] \in [prev : Addr \cup {0}, next : Addr \cup {0}, free : BOOLEAN]
  BY <1>1, <1>2 DEF Hdrs
<1>4. e \in Hdrs
  BY <1>1, <1>3 DEF Hdrs
<1>5. \A a \in Addr :
         /\ e[a].next = (IF a = i THEN j ELSE IF a = j THEN r ELSE h[a].next)
         /\ e[a].free = (IF a = i THEN FALSE ELSE IF a = j THEN TRUE ELSE h[a].free)
         /\ e[a].prev = (IF a = j THEN i ELSE h[a].prev)
  BY <1>1, <1>3 DEF Hdrs
<1>6. g = LeftOf(e, j, r)
  BY DEF Divide
<1> HIDE DEF e, g
<1>7. g \in Hdrs
  BY <1>1, <1>4, <1>6 DEF LeftOf, Hdrs
<1>8. \A a \in Addr :
         /\ g[a].next = (IF a = i THEN j ELSE IF a = j THEN r ELSE h[a].next)
         /\ g[a].free = (IF a = i THEN FALSE ELSE IF a = j THEN TRUE ELSE h[a].free)
         /\ g[a].prev = (IF a = j THEN i ELSE IF a = r THEN j ELSE h[a].prev)
  <2> DEFINE w == [e[r] EXCEPT !.prev = j]
  <2>1. DOMAIN e = Addr
    BY <1>4 DEF Hdrs
  <2>2. r # 0 => e[r] \in [prev : Addr \cup {0}, next : Addr \cup {0}, free : BOOLEAN]
    BY <1>1, <1>4 DEF Hdrs
  <2>3. r # 0 => w.prev = j /\ w.next = e[r].next /\ w.free = e[r].free
    BY <2>2
  <2>4. r # 0 => g = [e EXCEPT ![r] = w]
    BY <1>6 DEF LeftOf
  <2> HIDE DEF w
  <2>5. r # 0 => \A a \in Addr : g[a] = IF a = r THEN w ELSE e[a]
    BY <1>1, <2>1, <2>4
  <2>6. r = 0 => g = e
    BY <1>6 DEF LeftOf
  <2>7. 0 \notin Addr
    BY Arena
  <2> HIDE DEF r
  <2>8. ASSUME NEW a \in Addr, r = 0 \/ a # r
        PROVE  g[a] = e[a] /\ a # r
    BY <2>5, <2>6, <2>7, <2>8
  <2>9. ASSUME NEW a \in Addr, r # 0, a = r
        PROVE  /\ g[a].next = e[a].next /\ g[a].free = e[a].free /\ g[a].prev = j
               /\ a # j
    BY <1>3, <2>3, <2>5, <2>9
  <2> SUFFICES ASSUME NEW a \in Addr
               PROVE  /\ g[a].next = (IF a = i THEN j ELSE IF a = j THEN r ELSE h[a].next)
                      /\ g[a].free = (IF a = i THEN FALSE ELSE IF a = j THEN TRUE ELSE h[a].free)
                      /\ g[a].prev = (IF a = j THEN i ELSE IF a = r THEN j ELSE h[a].prev)
    OBVIOUS
  <2>10. /\ e[a].next = (IF a = i THEN j ELSE IF a = j THEN r ELSE h[a].next)
         /\ e[a].free = (IF a = i THEN FALSE ELSE IF a = j THEN TRUE ELSE h[a].free)
         /\ e[a].prev = (IF a = j THEN i ELSE h[a].prev)
    BY <1>5
  <2>11. CASE r = 0 \/ a # r
    <3>1. g[a] = e[a] /\ a # r
      BY <2>8, <2>11
    <3> QED BY <2>10, <3>1
  <2>12. CASE r # 0 /\ a = r
    <3>1. /\ g[a].next = e[a].next /\ g[a].free = e[a].free /\ g[a].prev = j
          /\ a # j
      BY <2>9, <2>12
    <3> QED BY <2>10, <2>12, <3>1
  <2> QED BY <2>11, <2>12
<1> HIDE DEF r
<1> DEFINE X == Heads(h) \cup {j}
<1>9. Heads(g) = X
  <2>1. X \in SUBSET Addr /\ first \in X
    BY HeadsLeast
  <2>2. Closed(g, X)
    <3> SUFFICES ASSUME NEW b \in X, g[b].next # 0 PROVE g[b].next \in X
      BY DEF Closed
    <3>1. b \in Addr
      BY <2>1
    <3>2. CASE b = i
      BY <1>8, <3>1, <3>2
    <3>3. CASE b = j
      <4>1. g[b].next = r
        BY <1>3, <1>8, <3>1, <3>3
      <4> QED BY <1>1, <4>1
    <3>4. CASE b # i /\ b # j
      <4>1. g[b].next = h[b].next /\ b \in Heads(h)
        BY <1>8, <3>1, <3>4
      <4> QED BY <4>1, Block
    <3> QED BY <3>2, <3>3, <3>4
  <2>3. ASSUME NEW Y \in SUBSET Addr, first \in Y, Closed(g, Y) PROVE X \subseteq Y
    <3>1. Heads(h) \cap Y \in SUBSET Addr /\ first \in Heads(h) \cap Y
      BY <2>3, HeadsLeast
    <3>2. i \in Y => j \in Y
      <4>1. g[i].next = j
        BY <1>1, <1>8
      <4> QED BY <1>1, <2>3, <4>1 DEF Closed
    <3>3. Closed(h, Heads(h) \cap Y)
      <4> SUFFICES ASSUME NEW b \in Heads(h) \cap Y, h[b].next # 0 PROVE h[b].next \in Heads(h) \cap Y
        BY DEF Closed
      <4>1. b \in Addr /\ b # j /\ h[b].next \in Heads(h)
        BY <1>2, Block
      <4>2. CASE b = i
        <5>1. j \in Y /\ g[j].next = r /\ r = h[b].next
          BY <1>3, <1>8, <3>2, <4>2 DEF r
        <5> QED BY <2>3, <4>1, <5>1 DEF Closed
      <4>3. CASE b # i
        <5>1. g[b].next = h[b].next
          BY <1>8, <4>1, <4>3
        <5> QED BY <2>3, <4>1, <5>1 DEF Closed
      <4> QED BY <4>2, <4>3
    <3>4. Heads(h) \subseteq Heads(h) \cap Y
      BY <3>1, <3>3, HeadsLeast
    <3>5. i \in Y
      BY <3>4
    <3> QED BY <3>2, <3>4, <3>5
  <2> HIDE DEF X
  <2> QED BY <1>7, <2>1, <2>2, <2>3, HeadsAre
<1>10. /\ g[i].next = j /\ ~g[i].free /\ g[j].next = r /\ g[j].free
       /\ \A b \in Heads(h) \ {i} : /\ g[b].next = h[b].next /\ g[b].free = h[b].free
                                    /\ BlockEnd(g, b) = BlockEnd(h, b)
       /\ BlockEnd(g, i) = j
       /\ BlockEnd(g, j) = BlockEnd(h, i)
  BY <1>1, <1>2, <1>3, <1>8, HeadsLeast DEF BlockEnd, r
<1>11. Sound(g)
  <2> SUFFICES ASSUME NEW b \in X
               PROVE  /\ b + Header <= BlockEnd(g, b)
                      /\ g[b].prev = 0 <=> b = first
                      /\ g[b].next # 0 => g[g[b].next].prev = b
    BY <1>9 DEF Sound
  <2>1. b \in Addr
    BY HeadsLeast
  <2>2. CASE b = j
    <3>1. j # first /\ i # 0
      BY <1>1, <1>2, HeadsLeast, Arena
    <3>2. r # 0 => g[r].prev = j
      BY <1>1, <1>3, <1>8
    <3>3. g[j].prev = i
      BY <1>8
    <3> QED BY <1>10, <2>2, <3>1, <3>2, <3>3
  <2>3. CASE b = i
    <3>1. g[b].prev = h[b].prev
      BY <1>1, <1>3, <1>8, <2>3
    <3>2. h[b].prev = 0 <=> b = first
      BY <2>3, Block
    <3>3. g[j].prev = i
      BY <1>8
    <3> QED BY <1>10, <2>3, <3>1, <3>2, <3>3
  <2>4. CASE b # i /\ b # j
    <3>1. /\ b \in Heads(h)
          /\ b + Header <= BlockEnd(h, b)
          /\ h[b].prev = 0 <=> b = first
          /\ h[b].next # 0 => h[h[b].next].prev = b /\ h[b].next \in Heads(h)
      BY <2>4, Block
    <3>2. g[b].next = h[b].next /\ BlockEnd(g, b) = BlockEnd(h, b)
      BY <1>10, <2>4, <3>1
    <3>3. g[b].prev = 0 <=> b = first
      <4>1. CASE b = r
        <5>1. r # 0 /\ b # first
          <6>1. r # 0
            BY <2>1, <4>1, Arena
          <6> QED BY <1>1, <3>1, <4>1, <6>1, Arena
        <5> QED BY <1>1, <1>8, <2>1, <2>4, <4>1, <5>1
      <4>2. CASE b # r
        BY <1>8, <2>1, <2>4, <3>1, <4>2
      <4> QED BY <4>1, <4>2
    <3>4. ASSUME h[b].next # 0 PROVE g[h[b].next].prev = b
      <4>1. h[b].next # j
        BY <1>2, <3>1, <3>4
      <4>2. h[b].next # r
        BY <1>1, <2>4, <3>1, <3>4
      <4>3. h[b].next \in Addr
        BY <3>1, <3>4, HeadsLeast
      <4> QED BY <1>8, <3>1, <3>4, <4>1, <4>2, <4>3
    <3> QED BY <3>1, <3>2, <3>3, <3>4
  <2> QED BY <2>2, <2>3, <2>4
<1> QED BY <1>2, <1>7, <1>9, <1>10, <1>11 DEF g, r

-----------------------------------------------------------------------------
(* What freeing and allocating do to a chain                               *)

Good(h) == h \in Hdrs /\ Sound(h) /\ Tight(h)

\* The blocks that are taken, but for those in less and with those in more,
\* are those of h, and they keep their places.
LEMMA FreedIs ==
    ASSUME NEW h, Good(h), NEW b \in Taken(h)
    PROVE  /\ Good(Freed(h, b))
           /\ Taken(Freed(h, b)) = Taken(h) \ {b}
           /\ \A c \in Taken(h) \ {b} : BlockEnd(Freed(h, b), c) = BlockEnd(h, c)
<1> DEFINE l == h[b].prev
           r == h[b].next
           g == Freed(h, b)
<1>1. h \in Hdrs /\ Sound(h) /\ Tight(h)
  BY DEF Good
<1>2. b \in Heads(h) /\ ~h[b].free
  BY DEF Taken
<1>3. /\ b # 0 /\ r # b
      /\ r # 0 => r \in Heads(h) /\ h[r].prev = b
      /\ l # 0 <=> b # first
  BY <1>1, <1>2, Block
<1>4. l # 0 => l \in Heads(h) /\ h[l].next = b /\ l # b
  BY <1>1, <1>2, <1>3, LeftNeighbour, Block
<1>5. \A c \in Heads(h) : h[c].next = b => c = l
  BY <1>1, <1>2, <1>3, Block
<1>6. \A c \in Heads(h) : /\ h[c].next # 0 => h[c].next \in Heads(h) /\ h[h[c].next].prev = c
                          /\ h[c].free \in BOOLEAN
                          /\ (h[c].free /\ h[c].next # 0) => ~h[h[c].next].free
                          /\ c # 0
  BY <1>1, Block DEF Tight
<1>7. CASE IsFree(h, l)
  <2> DEFINE g1 == Join(h, l)
  <2>1. l # 0 /\ h[l].free
    BY <1>7 DEF IsFree
  <2>2. /\ g1 \in Hdrs /\ Sound(g1) /\ Heads(g1) = Heads(h) \ {b}
        /\ g1[l].free /\ g1[l].next = r
        /\ \A c \in Heads(g1) \ {l} : /\ g1[c].next = h[c].next /\ g1[c].free = h[c].free
                                      /\ BlockEnd(g1, c) = BlockEnd(h, c)
    <3>1. l \in Heads(h) /\ h[l].next # 0 /\ h[l].next = b
      BY <1>3, <1>4, <2>1
    <3> QED BY <1>1, <3>1, Joins
  <2>3. g1 = Merged(h, l, {b}, r)
    BY <1>4, <2>1 DEF Join
  <2>4. l \in Heads(g1)
    BY <1>4, <2>1, <2>2
  <2>5. CASE IsFree(h, r)
    <3> DEFINE g2 == Join(g1, l)
    <3>1. r # 0 /\ h[r].free /\ r \in Heads(h) /\ r # l
      <4>1. r # 0 /\ h[r].free /\ r \in Heads(h) /\ h[r].prev = b
        BY <1>3, <2>5 DEF IsFree
      <4>2. r # l
        \* b is between them
        <5>1. l < b /\ b < r /\ l \in Nat /\ b \in Nat /\ r \in Nat
          BY <1>1, <1>2, <1>3, <1>4, <2>1, <4>1, Block
        <5> QED BY <5>1
      <4> QED BY <4>1, <4>2
    <3>2. /\ g2 \in Hdrs /\ Sound(g2) /\ Heads(g2) = Heads(g1) \ {r}
          /\ g2[l].free /\ g2[l].next = g1[r].next
          /\ \A c \in Heads(g2) \ {l} : /\ g2[c].next = g1[c].next /\ g2[c].free = g1[c].free
                                        /\ BlockEnd(g2, c) = BlockEnd(g1, c)
      <4>1. g1[l].next # 0 /\ g1[l].next = r
        BY <2>2, <3>1
      <4> QED BY <2>2, <2>4, <4>1, Joins
    <3>3. g = g2
      <4>1. g = Merged(h, l, {b, r}, h[r].next)
        BY <1>7, <2>5 DEF Freed
      <4>2. g2 = Merged(g1, l, {r}, g1[r].next)
        BY <2>2 DEF Join
      <4>3. r \in Heads(g1) \ {l} /\ g1[r].next = h[r].next
        BY <1>3, <2>2, <3>1
      <4> DEFINE z == h[r].next
                 w == [prev |-> h[l].prev, next |-> z, free |-> TRUE]
                 e1 == [a \in Addr |-> IF a \in {b, r} THEN NoBlock ELSE IF a = l THEN w ELSE h[a]]
                 e2 == [a \in Addr |-> IF a \in {r} THEN NoBlock
                           ELSE IF a = l THEN [prev |-> g1[l].prev, next |-> z, free |-> TRUE]
                           ELSE g1[a]]
                 e0 == [a \in Addr |-> IF a \in {b} THEN NoBlock
                           ELSE IF a = l THEN [prev |-> h[l].prev, next |-> r, free |-> TRUE]
                           ELSE h[a]]
      <4>4. /\ g = LeftOf(e1, l, z)
            /\ g2 = LeftOf(e2, l, z)
            /\ g1 = LeftOf(e0, l, r)
        <5>1. g = LeftOf(e1, l, z)
          BY <4>1 DEF Merged
        <5>2. g2 = LeftOf(e2, l, z)
          BY <4>2, <4>3 DEF Merged
        <5>3. g1 = LeftOf(e0, l, r)
          BY <2>3 DEF Merged
        <5> QED BY <5>1, <5>2, <5>3
      <4>5. \A a \in Addr : a # r => g1[a] = e0[a]
        <5>1. DOMAIN e0 = Addr
          OBVIOUS
        <5> HIDE DEF e0, g1, r
        <5>2. g1 = [e0 EXCEPT ![r].prev = l]
          BY <3>1, <4>4 DEF LeftOf
        <5> QED BY <5>1, <5>2
      <4>6. g1[l].prev = h[l].prev
        <5>1. l \in Addr /\ l # b /\ l # r
          BY <1>1, <1>4, <2>1, <3>1, HeadsLeast
        <5>2. g1[l] = e0[l]
          BY <4>5, <5>1
        <5> QED BY <5>1, <5>2
      <4>7. ASSUME NEW a \in Addr PROVE e1[a] = e2[a]
        <5> HIDE DEF g1
        <5>1. CASE a = r
          BY <5>1
        <5>2. CASE a = l
          BY <1>4, <2>1, <3>1, <4>6, <5>2
        <5>3. CASE a # r /\ a # l
          <6>1. e2[a] = e0[a]
            BY <4>5, <5>3
          <6> QED BY <5>3, <6>1
        <5> QED BY <5>1, <5>2, <5>3
      <4>8. e1 = e2
        <5> HIDE DEF g1
        <5> QED BY <4>7
      <4> QED BY <4>4, <4>8
    <3>4. Heads(g) = Heads(h) \ {b, r}
      BY <2>2, <3>2, <3>3
    <3>5. g1[r].next = h[r].next /\ (h[r].next # 0 => ~h[h[r].next].free)
      BY <1>3, <1>6, <2>2, <3>1
    <3>6. \A c \in Heads(g) \ {l} : /\ g[c].next = h[c].next /\ g[c].free = h[c].free
                                    /\ BlockEnd(g, c) = BlockEnd(h, c)
      BY <2>2, <3>2, <3>3
    <3>7. Tight(g)
      <4> SUFFICES ASSUME NEW c \in Heads(g), g[c].free, g[c].next # 0
                   PROVE  ~g[g[c].next].free
        BY DEF Tight
      <4>0. g[c].next \in Heads(g)
        BY <3>2, <3>3, Block
      <4>1. CASE c = l
        <5>1. g[c].next = h[r].next /\ h[r].next # 0 /\ ~h[h[r].next].free
          BY <3>2, <3>3, <3>5, <4>1
        <5>2. g[c].next # l
          BY <2>1, <5>1
        <5> QED BY <3>6, <4>0, <5>1, <5>2
      <4>2. CASE c # l
        <5>1. g[c].next = h[c].next /\ h[c].free /\ h[c].next # 0 /\ c \in Heads(h)
          BY <3>4, <3>6, <4>2
        <5>2. ~h[h[c].next].free
          BY <1>6, <5>1
        <5>3. h[c].next # l
          BY <2>1, <5>2
        <5> QED BY <3>6, <4>0, <5>1, <5>2, <5>3
      <4> QED BY <4>1, <4>2
    <3>8. Taken(g) = Taken(h) \ {b}
      BY <2>1, <3>1, <3>2, <3>3, <3>4, <3>6 DEF Taken
    <3>9. \A c \in Taken(h) \ {b} : BlockEnd(g, c) = BlockEnd(h, c)
      BY <2>1, <3>1, <3>4, <3>6 DEF Taken
    <3> QED BY <3>2, <3>3, <3>7, <3>8, <3>9 DEF Good
  <2>6. CASE ~IsFree(h, r)
    <3>1. g = g1
      BY <1>7, <2>3, <2>6 DEF Freed
    <3>2. r # 0 => ~h[r].free
      BY <2>6 DEF IsFree
    <3>3. Tight(g)
      <4> SUFFICES ASSUME NEW c \in Heads(g), g[c].free, g[c].next # 0
                   PROVE  ~g[g[c].next].free
        BY DEF Tight
      <4>0. g[c].next \in Heads(g)
        BY <2>2, <3>1, Block
      <4>1. CASE c = l
        <5>1. g[c].next = r /\ r # 0 /\ ~h[r].free
          BY <2>2, <3>1, <3>2, <4>1
        <5>2. g[c].next # l
          BY <2>1, <5>1
        <5> QED BY <2>2, <3>1, <4>0, <5>1, <5>2
      <4>2. CASE c # l
        <5>1. g[c].next = h[c].next /\ h[c].free /\ h[c].next # 0 /\ c \in Heads(h)
          BY <2>2, <3>1, <4>2
        <5>2. ~h[h[c].next].free
          BY <1>6, <5>1
        <5>3. h[c].next # l
          BY <2>1, <5>2
        <5> QED BY <2>2, <3>1, <4>0, <5>1, <5>2, <5>3
      <4> QED BY <4>1, <4>2
    <3>4. Taken(g) = Taken(h) \ {b}
      BY <2>1, <2>2, <3>1 DEF Taken
    <3>5. \A c \in Taken(h) \ {b} : BlockEnd(g, c) = BlockEnd(h, c)
      BY <2>1, <2>2, <3>1 DEF Taken
    <3> QED BY <2>2, <3>1, <3>3, <3>4, <3>5 DEF Good
  <2> QED BY <2>5, <2>6
<1>8. CASE ~IsFree(h, l)
  <2>0. l # 0 => ~h[l].free
    BY <1>8 DEF IsFree
  <2>1. CASE IsFree(h, r)
    <3>1. r # 0 /\ h[r].free /\ r \in Heads(h)
      BY <1>3, <2>1 DEF IsFree
    <3>2. g = Join(h, b)
      BY <1>8, <2>1 DEF Freed, Join
    <3>3. /\ g \in Hdrs /\ Sound(g) /\ Heads(g) = Heads(h) \ {r}
          /\ g[b].free /\ g[b].next = h[r].next
          /\ \A c \in Heads(g) \ {b} : /\ g[c].next = h[c].next /\ g[c].free = h[c].free
                                       /\ BlockEnd(g, c) = BlockEnd(h, c)
      BY <1>1, <1>2, <3>1, <3>2, Joins
    <3>4. Tight(g)
      <4> SUFFICES ASSUME NEW c \in Heads(g), g[c].free, g[c].next # 0
                   PROVE  ~g[g[c].next].free
        BY DEF Tight
      <4>0. g[c].next \in Heads(g)
        BY <3>3, Block
      <4>1. CASE c = b
        <5>1. g[c].next = h[r].next /\ h[r].next # 0 /\ ~h[h[r].next].free /\ h[h[r].next].prev = r
          BY <1>6, <3>1, <3>3, <4>1
        <5>2. g[c].next # b
          <6>1. b < r /\ r < h[r].next /\ b \in Nat /\ r \in Nat /\ h[r].next \in Nat
            BY <1>1, <1>2, <3>1, <5>1, Block
          <6> QED BY <5>1, <6>1
        <5> QED BY <3>3, <4>0, <5>1, <5>2
      <4>2. CASE c # b
        <5>1. g[c].next = h[c].next /\ h[c].free /\ h[c].next # 0 /\ c \in Heads(h)
          BY <3>3, <4>2
        <5>2. ~h[h[c].next].free
          BY <1>6, <5>1
        <5>3. h[c].next # b
          BY <1>5, <1>6, <2>0, <5>1
        <5> QED BY <3>3, <4>0, <5>1, <5>2, <5>3
      <4> QED BY <4>1, <4>2
    <3>5. Taken(g) = Taken(h) \ {b}
      BY <1>3, <3>1, <3>3 DEF Taken
    <3>6. \A c \in Taken(h) \ {b} : BlockEnd(g, c) = BlockEnd(h, c)
      BY <3>1, <3>3 DEF Taken
    <3> QED BY <3>3, <3>4, <3>5, <3>6 DEF Good
  <2>2. CASE ~IsFree(h, r)
    <3>1. g = Mark(h, b, TRUE)
      BY <1>8, <2>2 DEF Freed, Mark
    <3>2. r # 0 => ~h[r].free
      BY <2>2 DEF IsFree
    <3>3. /\ g \in Hdrs /\ Sound(g) /\ Heads(g) = Heads(h)
          /\ \A c \in Heads(h) : /\ g[c].next = h[c].next /\ BlockEnd(g, c) = BlockEnd(h, c)
                                 /\ g[c].free = (IF c = b THEN TRUE ELSE h[c].free)
      <4>1. PICK f \in BOOLEAN : f = TRUE
        OBVIOUS
      <4>2. LET m == Mark(h, b, f) IN
            /\ m \in Hdrs /\ Sound(m) /\ Heads(m) = Heads(h)
            /\ \A c \in Heads(h) : /\ m[c].next = h[c].next /\ BlockEnd(m, c) = BlockEnd(h, c)
                                   /\ m[c].free = (IF c = b THEN f ELSE h[c].free)
        BY <1>1, <1>2, Marks
      <4>3. g = Mark(h, b, f)
        BY <3>1, <4>1
      <4> QED BY <4>1, <4>2, <4>3
    <3>4. Tight(g)
      <4> SUFFICES ASSUME NEW c \in Heads(h), g[c].free, g[c].next # 0
                   PROVE  ~g[g[c].next].free
        BY <3>3 DEF Tight
      <4>1. g[c].next = h[c].next /\ h[c].next \in Heads(h)
        BY <1>6, <3>3
      <4>2. CASE c = b
        <5>1. h[c].next = r /\ r # 0 /\ r # b
          BY <1>3, <4>1, <4>2
        <5> QED BY <3>2, <3>3, <4>1, <5>1
      <4>3. CASE c # b
        <5>1. h[c].free /\ ~h[h[c].next].free
          BY <1>6, <3>3, <4>1, <4>3
        <5>2. h[c].next # b
          BY <1>5, <1>6, <2>0, <5>1
        <5> QED BY <3>3, <4>1, <5>1, <5>2
      <4> QED BY <4>2, <4>3
    <3>5. Taken(g) = Taken(h) \ {b}
      BY <3>3 DEF Taken
    <3>6. \A c \in Taken(h) \ {b} : BlockEnd(g, c) = BlockEnd(h, c)
      BY <3>3 DEF Taken
    <3> QED BY <3>3, <3>4, <3>5, <3>6 DEF Good
  <2> QED BY <2>1, <2>2
<1> QED BY <1>7, <1>8

LEMMA MergedType ==
    ASSUME NEW h \in Hdrs, NEW l \in Addr, NEW gone, NEW r \in Addr \cup {0}
    PROVE  Merged(h, l, gone, r) \in Hdrs
<1> DEFINE own == [prev |-> h[l].prev, next |-> r, free |-> TRUE]
           e == [a \in Addr |-> IF a \in gone THEN NoBlock ELSE IF a = l THEN own ELSE h[a]]
<1>1. own \in [prev : Addr \cup {0}, next : Addr \cup {0}, free : BOOLEAN]
  BY DEF Hdrs
<1>2. NoBlock \in [prev : Addr \cup {0}, next : Addr \cup {0}, free : BOOLEAN]
  BY DEF NoBlock
<1>3. e \in Hdrs
  <2> HIDE DEF own
  <2> QED BY <1>1, <1>2 DEF Hdrs
<1>4. Merged(h, l, gone, r) = LeftOf(e, l, r)
  BY DEF Merged
<1> HIDE DEF e
<1> QED BY <1>3, <1>4 DEF LeftOf, Hdrs

\* Freeing is safe for the types whatever the chain looks like.
LEMMA FreedType ==
    ASSUME NEW h \in Hdrs, NEW b \in Addr
    PROVE  Freed(h, b) \in Hdrs
<1> DEFINE l == h[b].prev
           r == h[b].next
<1>1. l \in Addr \cup {0} /\ r \in Addr \cup {0}
  BY DEF Hdrs
<1>2. IsFree(h, l) => l \in Addr
  BY <1>1 DEF IsFree
<1>3. IsFree(h, r) => r \in Addr /\ h[r].next \in Addr \cup {0}
  BY <1>1 DEF IsFree, Hdrs
<1>4. [h EXCEPT ![b].free = TRUE] \in Hdrs
  BY DEF Hdrs
<1> HIDE DEF l, r
<1>5. Freed(h, b) = IF IsFree(h, l) /\ IsFree(h, r) THEN Merged(h, l, {b, r}, h[r].next)
                    ELSE IF IsFree(h, l) THEN Merged(h, l, {b}, r)
                    ELSE IF IsFree(h, r) THEN Merged(h, b, {r}, h[r].next)
                    ELSE [h EXCEPT ![b].free = TRUE]
  BY DEF Freed, l, r
<1>6. CASE IsFree(h, l) /\ IsFree(h, r)
  BY <1>2, <1>3, <1>5, <1>6, MergedType
<1>7. CASE IsFree(h, l) /\ ~IsFree(h, r)
  BY <1>1, <1>2, <1>5, <1>7, MergedType
<1>8. CASE ~IsFree(h, l) /\ IsFree(h, r)
  BY <1>3, <1>5, <1>8, MergedType
<1>9. CASE ~IsFree(h, l) /\ ~IsFree(h, r)
  BY <1>4, <1>5, <1>9
<1> QED BY <1>6, <1>7, <1>8, <1>9

\* The sizes the code computes, in numbers.
LEMMA Sizes ==
    ASSUME NEW h \in Hdrs, NEW i \in Heads(h), Sound(h)
    PROVE  /\ FreeSize(h, i) = BlockEnd(h, i) - i - Header
           /\ FreeSize(h, i) \in 0 .. Word - 1
           /\ Size(h, i) \in 0 .. Word - 1
           /\ h[i].next # 0 => Size(h, i) = BlockEnd(h, i) - i - Header
           /\ h[i].next = 0 => Size(h, i) = Word - i - Header
           /\ Size(h, i) >= BlockEnd(h, i) - i - Header
<1>1. /\ i \in Nat /\ i + Header <= BlockEnd(h, i) /\ BlockEnd(h, i) <= endOfHeap
      /\ BlockEnd(h, i) \in Nat /\ endOfHeap \in Nat /\ endOfHeap < Word /\ i # 0
      /\ h[i].next # 0 => BlockEnd(h, i) = h[i].next
      /\ h[i].next = 0 => BlockEnd(h, i) = endOfHeap
  BY Block, Arena
<1> DEFINE x == BlockEnd(h, i) - i - Header
<1>2. x \in 0 .. Word - 1
  BY <1>1, Params
<1>3. Word32(x) = x
  BY <1>2, WordWraps
<1>4. FreeSize(h, i) = x
  BY <1>1, <1>3 DEF FreeSize, Size
<1>5. CASE h[i].next # 0
  <2>1. Size(h, i) = x
    BY <1>1, <1>3, <1>5 DEF Size
  <2> QED BY <1>2, <1>4, <1>5, <2>1
<1>6. CASE h[i].next = 0
  <2>1. 0 - i - Header \in -Word .. -1
    BY <1>1, Params
  <2>2. Word32(0 - i - Header) = 0 - i - Header + Word
    BY <2>1, WordWraps
  <2>3. Size(h, i) = Word - i - Header
    BY <1>1, <1>6, <2>2, Params DEF Size
  <2> QED BY <1>1, <1>2, <1>4, <1>6, <2>3, Params
<1> QED BY <1>5, <1>6

\* A free block that has room for m bytes is given to the caller.
Given(h, i, m, o) ==
    /\ o.hdr \in Hdrs /\ o.res = i + Header
    /\ o.traps \subseteq {"past"}
    /\ o.traps = {} =>
          /\ Good(o.hdr)
          /\ Taken(o.hdr) = Taken(h) \cup {i}
          /\ \A c \in Taken(h) : BlockEnd(o.hdr, c) = BlockEnd(h, c)
          /\ i + Header + m <= BlockEnd(o.hdr, i)

LEMMA CurrentNodeAllocIs ==
    ASSUME NEW h, Good(h), NEW i \in Heads(h), h[i].free, NEW m \in 0 .. Word - 1, Fits(h, i, m)
    PROVE  Given(h, i, m, CurrentNodeAlloc(h, i, m))
<1>1. h \in Hdrs /\ Sound(h) /\ Tight(h)
  BY DEF Good
<1>2. /\ i \in Addr /\ i \in Nat /\ i + Header <= BlockEnd(h, i) /\ BlockEnd(h, i) <= endOfHeap
      /\ BlockEnd(h, i) \in Nat /\ endOfHeap < Word /\ endOfHeap \in Nat /\ Unit <= i
  BY <1>1, Block, Arena, Address
<1>3. FreeSize(h, i) = BlockEnd(h, i) - i - Header
  BY <1>1, Sizes
<1>4. \A c \in Heads(h) : /\ h[c].next # 0 => h[c].next \in Heads(h)
                          /\ h[c].free \in BOOLEAN
                          /\ (h[c].free /\ h[c].next # 0) => ~h[h[c].next].free
  BY <1>1, Block DEF Tight
<1>5. CASE Splits(h, i, m)
  <2> DEFINE j == Word32(i + Header + m)
             g == Divide(h, i, j)
  <2>1. CurrentNodeAlloc(h, i, m) = Cut(h, i, m, j)
    BY <1>5 DEF CurrentNodeAlloc
  <2>2. CASE ~Proper(i, j)
    <3>1. CurrentNodeAlloc(h, i, m) = [hdr |-> h, res |-> i + Header, traps |-> {"past"}]
      BY <2>1, <2>2 DEF Cut, Outcome
    <3> QED BY <1>1, <3>1 DEF Given
  <2>3. CASE Proper(i, j)
    <3>1. CurrentNodeAlloc(h, i, m) = [hdr |-> g, res |-> i + Header, traps |-> {}]
      BY <2>1, <2>3 DEF Cut, Outcome, Divide
    <3>2. j \in Addr /\ i + Header <= j /\ j \in Nat
      BY <2>3, Address DEF Proper
    <3>3. m + Header + Unit < Word
      <4> SUFFICES ASSUME m + Header + Unit >= Word PROVE FALSE
        BY Params
      <4>1. i + Header + m \in Word .. 2 * Word - 1
        BY <1>2, Params
      <4>2. j = i + Header + m - Word
        <5> DEFINE x == i + Header + m
        <5>1. x \in Int
          BY <1>2, Params
        <5> HIDE DEF x
        <5>2. Word32(x) = x - Word
          BY <4>1, <5>1, WordWraps DEF x
        <5> QED BY <1>2, <5>2, Params DEF x
      <4> QED BY <1>2, <3>2, <4>2, Params
    <3>4. BlockEnd(h, i) - i - Header >= m + Header + Unit
      <4>1. m + Header + Unit \in 0 .. Word - 1
        BY <3>3, Params
      <4>2. Word32(m + Header + Unit) = m + Header + Unit
        BY <4>1, WordWraps
      <4> QED BY <1>3, <1>5, <4>2 DEF Splits
    <3>5. j = i + Header + m
      <4>1. i + Header + m \in 0 .. Word - 1
        BY <1>2, <3>4, Params
      <4> QED BY <4>1, WordWraps
    <3> HIDE DEF j
    <3>6. j + Header <= BlockEnd(h, i)
      BY <1>2, <3>4, <3>5, Params
    <3>7. /\ g \in Hdrs /\ j \notin Heads(h)
          /\ Heads(g) = Heads(h) \cup {j}
          /\ Sound(g)
          /\ g[i].next = j /\ ~g[i].free /\ g[j].next = h[i].next /\ g[j].free
          /\ \A b \in Heads(h) \ {i} : /\ g[b].next = h[b].next /\ g[b].free = h[b].free
                                       /\ BlockEnd(g, b) = BlockEnd(h, b)
          /\ BlockEnd(g, i) = j
      BY <1>1, <3>2, <3>6, Divides
    <3> HIDE DEF g
    <3>8. Tight(g)
      <4> SUFFICES ASSUME NEW c \in Heads(h) \cup {j}, g[c].free, g[c].next # 0
                   PROVE  ~g[g[c].next].free
        BY <3>7 DEF Tight
      <4>1. c # i
        BY <3>7
      <4>2. CASE c = j
        <5>1. g[c].next = h[i].next /\ ~h[h[i].next].free /\ h[i].next \in Heads(h)
          BY <1>4, <3>7, <4>2
        <5> QED BY <3>7, <5>1
      <4>3. CASE c # j
        <5>1. g[c].next = h[c].next /\ ~h[h[c].next].free /\ h[c].next \in Heads(h)
          BY <1>4, <3>7, <4>1, <4>3
        <5> QED BY <3>7, <5>1
      <4> QED BY <4>2, <4>3
    <3>9. Taken(g) = Taken(h) \cup {i}
      BY <3>7 DEF Taken
    <3>10. \A c \in Taken(h) : BlockEnd(g, c) = BlockEnd(h, c)
      BY <3>7 DEF Taken
    <3>11. i + Header + m <= BlockEnd(g, i)
      BY <3>5, <3>7, <1>2, Params
    <3> QED BY <3>1, <3>7, <3>8, <3>9, <3>10, <3>11 DEF Given, Good
  <2> QED BY <2>2, <2>3
<1>6. CASE ~Splits(h, i, m)
  <2> DEFINE g == [h EXCEPT ![i].free = FALSE]
  <2>1. CurrentNodeAlloc(h, i, m) = [hdr |-> g, res |-> i + Header, traps |-> {}]
    BY <1>6 DEF CurrentNodeAlloc, Outcome
  <2>2. /\ g \in Hdrs /\ Sound(g) /\ Heads(g) = Heads(h)
        /\ \A c \in Heads(h) : /\ g[c].next = h[c].next /\ BlockEnd(g, c) = BlockEnd(h, c)
                               /\ g[c].free = (IF c = i THEN FALSE ELSE h[c].free)
    <3>1. PICK f \in BOOLEAN : f = FALSE
      OBVIOUS
    <3>2. LET k == Mark(h, i, f) IN
          /\ k \in Hdrs /\ Sound(k) /\ Heads(k) = Heads(h)
          /\ \A c \in Heads(h) : /\ k[c].next = h[c].next /\ BlockEnd(k, c) = BlockEnd(h, c)
                                 /\ k[c].free = (IF c = i THEN f ELSE h[c].free)
      BY <1>1, Marks
    <3>3. g = Mark(h, i, f)
      BY <3>1 DEF Mark
    <3> QED BY <3>1, <3>2, <3>3
  <2> HIDE DEF g
  <2>3. Tight(g)
    BY <1>4, <2>2 DEF Tight
  <2>4. Taken(g) = Taken(h) \cup {i} /\ \A c \in Taken(h) : BlockEnd(g, c) = BlockEnd(h, c)
    BY <2>2 DEF Taken
  <2>5. i + Header + m <= BlockEnd(g, i)
    <3>1. FreeSize(h, i) >= m
      BY <1>6 DEF Fits
    <3>2. BlockEnd(g, i) = BlockEnd(h, i)
      BY <2>2
    <3> QED BY <1>2, <1>3, <3>1, <3>2, Params
  <2> QED BY <2>1, <2>2, <2>3, <2>4, <2>5 DEF Given, Good
<1> QED BY <1>5, <1>6

LEMMA LocAllocIs ==
    ASSUME NEW h, Good(h), NEW m \in 0 .. Word - 1
    PROVE  \/ /\ LocAlloc(h, m) = [hdr |-> h, res |-> 0, traps |-> {}]
              /\ \A i \in Heads(h) : h[i].free => FreeSize(h, i) < m
           \/ \E i \in Heads(h) : h[i].free /\ Given(h, i, m, LocAlloc(h, m))
<1> DEFINE fitting == {i \in Heads(h) : h[i].free /\ Fits(h, i, m)}
<1>1. h \in Hdrs /\ Sound(h)
  BY DEF Good
<1>2. CASE fitting = {}
  <2>1. LocAlloc(h, m) = [hdr |-> h, res |-> 0, traps |-> {}]
    BY <1>2 DEF LocAlloc, Outcome
  <2>2. ASSUME NEW i \in Heads(h), h[i].free PROVE FreeSize(h, i) < m
    <3>1. ~(FreeSize(h, i) >= m)
      BY <1>2, <2>2 DEF Fits
    <3>2. FreeSize(h, i) \in 0 .. Word - 1
      BY <1>1, Sizes
    <3> QED BY <3>1, <3>2, Params
  <2> QED BY <2>1, <2>2
<1>3. CASE fitting # {}
  <2> DEFINE i == CHOOSE i \in fitting : \A k \in fitting : i <= k
  <2>1. fitting \in SUBSET Nat
    BY <1>1, Block
  <2>2. \E k \in fitting : \A x \in fitting : k <= x
    BY <1>3, <2>1, LeastOf
  <2>3. i \in fitting
    BY <2>2
  <2>4. LocAlloc(h, m) = CurrentNodeAlloc(h, i, m)
    BY <1>3 DEF LocAlloc
  <2> HIDE DEF i
  <2>5. i \in Heads(h) /\ h[i].free /\ Fits(h, i, m)
    BY <2>3
  <2>6. Given(h, i, m, CurrentNodeAlloc(h, i, m))
    BY <2>5, CurrentNodeAllocIs
  <2> QED BY <2>4, <2>5, <2>6
<1> QED BY <1>2, <1>3

-----------------------------------------------------------------------------
(* The invariant                                                           *)

\* The program holds what is taken.
Reserved(h, hd) ==
    /\ {b + Header : b \in Taken(h)} = DOMAIN hd
    /\ \A a \in DOMAIN hd : a + hd[a] <= BlockEnd(h, a - Header)

\* While nothing was upset, the chain is sound, free neighbours are merged,
\* and what the program holds is taken.
HeapInv ==
    /\ HeapTypeOK
    /\ Whole => Sound(hdr) /\ Tight(hdr) /\ Reserved(hdr, held)

\* What the history says of the last call.
LastCall == RefusedOnlyWhenFull /\ ReallocKeepsContents

LEMMA HeldIs ==
    ASSUME HeapInv, Whole
    PROVE  /\ Good(hdr)
           /\ \A a \in DOMAIN held : /\ a - Header \in Taken(hdr) /\ a - Header \in Heads(hdr)
                                     /\ ~hdr[a - Header].free
                                     /\ a \in Nat /\ a < Word /\ a # 0
                                     /\ a = (a - Header) + Header
                                     /\ held[a] \in 0 .. 2 * Word
                                     /\ a + held[a] <= BlockEnd(hdr, a - Header)
           /\ \A b \in Taken(hdr) : b + Header \in DOMAIN held
           /\ last.copied \in 0 .. 2 * Word
<1>1. Good(hdr)
  BY DEF HeapInv, HeapTypeOK, Hdrs, Good
<1>2. ASSUME NEW a \in DOMAIN held
      PROVE  /\ a - Header \in Taken(hdr) /\ a - Header \in Heads(hdr)
             /\ ~hdr[a - Header].free
             /\ a \in Nat /\ a < Word /\ a # 0
             /\ a = (a - Header) + Header
             /\ held[a] \in 0 .. 2 * Word
             /\ a + held[a] <= BlockEnd(hdr, a - Header)
  <2>1. PICK b \in Taken(hdr) : a = b + Header
    BY DEF HeapInv, Reserved
  <2>2. b \in Heads(hdr) /\ ~hdr[b].free
    BY DEF Taken
  <2>3. b \in Addr
    BY <1>1, <2>2, HeadsLeast DEF Good
  <2>4. b \in Nat /\ b + Header < Word /\ b # 0
    BY <2>3, Address, Arena, Params
  <2>5. a \in Nat /\ a < Word /\ a # 0 /\ a - Header = b /\ a = (a - Header) + Header
    BY <2>1, <2>4, Params
  <2>6. held[a] \in 0 .. 2 * Word
    BY DEF HeapInv, HeapTypeOK
  <2>7. a + held[a] <= BlockEnd(hdr, a - Header)
    BY DEF HeapInv, Reserved
  <2> QED BY <2>2, <2>5, <2>6, <2>7
<1>3. \A b \in Taken(hdr) : b + Header \in DOMAIN held
  BY DEF HeapInv, Reserved
<1>4. last.copied \in 0 .. 2 * Word
  BY DEF HeapInv, HeapTypeOK
<1> QED BY <1>1, <1>2, <1>3, <1>4

\* The chain at the start: one free block, the whole arena.
LEMMA HeapInitInv == HeapInit => HeapInv /\ LastCall
<1> SUFFICES ASSUME HeapInit PROVE HeapInv /\ LastCall
  OBVIOUS
<1>1. /\ hdr = [a \in Addr |-> [NoBlock EXCEPT !.free = (a = first)]]
      /\ held = << >> /\ last = NoCall /\ upset = {}
  BY DEF HeapInit
<1>2. hdr \in Hdrs
  BY <1>1 DEF Hdrs, NoBlock
<1>3. DOMAIN held = {}
  BY <1>1
<1>4. /\ last.copied = 0 /\ last.size = 0 /\ last.res = 0
  BY <1>1 DEF NoCall
<1>5. HeapTypeOK
  BY <1>1, <1>2, <1>3, <1>4, Params DEF HeapTypeOK, Hdrs
<1>6. \A a \in Addr : hdr[a].next = 0 /\ hdr[a].prev = 0
  BY <1>1 DEF NoBlock
<1>7. first \in Addr /\ hdr[first].free
  BY <1>1, Arena DEF NoBlock
<1>8. Heads(hdr) = {first}
  <2>1. {first} \in SUBSET Addr /\ first \in {first} /\ Closed(hdr, {first})
    BY <1>6, <1>7 DEF Closed
  <2> QED BY <1>2, <2>1, HeadsAre
<1>9. Sound(hdr) /\ Tight(hdr)
  BY <1>6, <1>7, <1>8, Arena DEF Sound, Tight, BlockEnd
<1>10. Reserved(hdr, held)
  BY <1>3, <1>7, <1>8 DEF Reserved, Taken
<1>11. LastCall
  BY <1>4 DEF LastCall, RefusedOnlyWhenFull, ReallocKeepsContents
<1> QED BY <1>5, <1>9, <1>10, <1>11 DEF HeapInv

-----------------------------------------------------------------------------
(* The calls                                                               *)

LEMMA WithoutIs ==
    ASSUME NEW a
    PROVE  /\ DOMAIN Without(a) = DOMAIN held \ {a}
           /\ \A x \in DOMAIN held \ {a} : Without(a)[x] = held[x]
BY DEF Without

LEMMA WrappedIs ==
    ASSUME NEW n \in Nat
    PROVE  /\ Wrapped(n, RoundUp(n)) \subseteq {"wrap"}
           /\ Wrapped(n, RoundUp(n)) = {} => n <= RoundUp(n)
           /\ RoundUp(n) \in 0 .. Word - 1
<1>1. RoundUp(n) \in 0 .. Word - 1
  BY RoundUpIs
<1> QED BY <1>1, Params DEF Wrapped

\* A refusal: what is free is merged, and too small; what is not is held.
LEMMA RefusalIsTrue ==
    ASSUME HeapInv, Whole, NEW m \in 0 .. Word - 1,
           \A i \in Heads(hdr) : hdr[i].free => FreeSize(hdr, i) < m,
           NEW x \in Addr, x + Header + m <= endOfHeap
    PROVE  \E a \in DOMAIN held : a - Header < x + Header + m /\ x < EndOf(a - Header)
<1>1. hdr \in Hdrs /\ Sound(hdr) /\ Tight(hdr)
  BY HeldIs DEF Good
<1>2. PICK b \in Heads(hdr) : b <= x /\ x < BlockEnd(hdr, b)
  BY <1>1, Covered
<1>3. x \in Nat /\ b \in Nat /\ BlockEnd(hdr, b) \in Nat /\ m \in Nat /\ b \in Addr
  BY <1>1, Block, Address, Params
<1>4. \A c \in Heads(hdr) : /\ BlockEnd(hdr, c) = EndOf(c) /\ c \in Nat
                            /\ ~hdr[c].free => /\ c + Header \in DOMAIN held
                                               /\ (c + Header) - Header = c
  <2> SUFFICES ASSUME NEW c \in Heads(hdr)
               PROVE  /\ BlockEnd(hdr, c) = EndOf(c) /\ c \in Nat
                      /\ ~hdr[c].free => /\ c + Header \in DOMAIN held
                                         /\ (c + Header) - Header = c
    OBVIOUS
  <2>1. c \in Nat
    BY <1>1, Block
  <2>2. ~hdr[c].free => c + Header \in DOMAIN held
    BY HeldIs DEF Taken
  <2> QED BY <2>1, <2>2, Params DEF BlockEnd, EndOf
<1>5. CASE ~hdr[b].free
  <2>1. b + Header \in DOMAIN held /\ (b + Header) - Header = b /\ x < EndOf(b)
    BY <1>2, <1>4, <1>5
  <2>2. b < x + Header + m
    BY <1>2, <1>3, Params
  <2> QED BY <2>1, <2>2
<1>6. CASE hdr[b].free
  <2>1. FreeSize(hdr, b) < m /\ FreeSize(hdr, b) = BlockEnd(hdr, b) - b - Header
    BY <1>1, <1>6, Sizes
  <2>2. BlockEnd(hdr, b) < x + Header + m
    BY <1>2, <1>3, <2>1, Params
  <2> DEFINE c == hdr[b].next
  <2>3. c # 0
    <3>1. BlockEnd(hdr, b) # endOfHeap
      BY <1>3, <2>2, Arena, Params
    <3> QED BY <1>1, <3>1, Block
  <2>4. c \in Heads(hdr) /\ ~hdr[c].free /\ BlockEnd(hdr, b) = c
    BY <1>1, <1>6, <2>3, Block DEF Tight
  <2>5. c + Header \in DOMAIN held /\ (c + Header) - Header = c /\ EndOf(c) = BlockEnd(hdr, c)
    BY <1>4, <2>4
  <2>6. c < BlockEnd(hdr, c) /\ c \in Nat /\ BlockEnd(hdr, c) \in Nat
    BY <1>1, <2>4, Block, Params
  <2>7. x < EndOf(c) /\ c < x + Header + m
    BY <1>2, <1>3, <2>2, <2>4, <2>5, <2>6
  <2> QED BY <2>5, <2>7
<1>7. hdr[b].free \in BOOLEAN
  BY <1>1, Block
<1> QED BY <1>5, <1>6, <1>7

\* Drv_alloc and Drv_calloc: n bytes are asked for, and the block is handed
\* out or the request refused.
Obtain(n, extra) ==
    \E o \in {LocAlloc(hdr, RoundUp(n))} :
        /\ hdr' = o.hdr
        /\ held' = IF o.res = 0 THEN held ELSE With(held, o.res, n)
        /\ last' = Refused(n, o.res)
        /\ upset' = upset \cup o.traps \cup Wrapped(n, RoundUp(n)) \cup extra

LEMMA Obtaining ==
    ASSUME HeapInv, Whole, NEW n \in 0 .. 2 * Word, NEW extra \in SUBSET Trap, Obtain(n, extra)
    PROVE  HeapInv' /\ LastCall'
<1> DEFINE m == RoundUp(n)
           o == LocAlloc(hdr, m)
<1>1. /\ hdr' = o.hdr
      /\ held' = IF o.res = 0 THEN held ELSE With(held, o.res, n)
      /\ last' = Refused(n, o.res)
      /\ upset' = upset \cup o.traps \cup Wrapped(n, m) \cup extra
  BY DEF Obtain
<1>2. /\ n \in Nat /\ m \in 0 .. Word - 1 /\ Wrapped(n, m) \subseteq {"wrap"}
      /\ Wrapped(n, m) = {} => n <= m
  BY WrappedIs, Params
<1>3. Good(hdr) /\ upset = {}
  BY HeldIs DEF Whole
<1>4. last'.copied = 0
  BY <1>1 DEF Refused, NoCall
<1> HIDE DEF m
<1>7. \/ /\ o = [hdr |-> hdr, res |-> 0, traps |-> {}]
         /\ \A i \in Heads(hdr) : hdr[i].free => FreeSize(hdr, i) < m
      \/ \E i \in Heads(hdr) : hdr[i].free /\ Given(hdr, i, m, o)
  BY <1>2, <1>3, LocAllocIs
<1> HIDE DEF o
<1>5. CASE /\ o = [hdr |-> hdr, res |-> 0, traps |-> {}]
           /\ \A i \in Heads(hdr) : hdr[i].free => FreeSize(hdr, i) < m
  <2>1. hdr' = hdr /\ held' = held /\ last' = [NoCall EXCEPT !.size = n]
    BY <1>1, <1>5 DEF Refused
  <2>2. upset' \subseteq Trap
    BY <1>1, <1>2, <1>3, <1>5 DEF Trap
  <2>3. HeapInv'
    <3>1. HeapTypeOK'
      BY <1>4, <2>1, <2>2, Params DEF HeapInv, HeapTypeOK
    <3>2. Sound(hdr) /\ Tight(hdr) /\ Reserved(hdr, held)
      BY DEF HeapInv
    <3> QED BY <2>1, <3>1, <3>2 DEF HeapInv
  <2>4. last'.size = n /\ last'.res = 0
    BY <2>1 DEF NoCall
  <2>5. RefusedOnlyWhenFull'
    <3> SUFFICES ASSUME NEW x \in Addr, ~(x + Header + m > endOfHeap)
                 PROVE  \E a \in DOMAIN held : a - Header < x + Header + m /\ x < EndOf(a - Header)
      BY <2>1, <2>4 DEF RefusedOnlyWhenFull, m, EndOf
    <3>1. x + Header + m <= endOfHeap
      BY <1>2, Address, Arena, Params
    <3> QED BY <1>2, <1>5, <3>1, RefusalIsTrue
  <2>6. ReallocKeepsContents'
    BY <2>4 DEF ReallocKeepsContents
  <2> QED BY <2>3, <2>5, <2>6 DEF LastCall
<1>6. CASE \E i \in Heads(hdr) : hdr[i].free /\ Given(hdr, i, m, o)
  <2>1. PICK i \in Heads(hdr) : hdr[i].free /\ Given(hdr, i, m, o)
    BY <1>6
  <2>2. i \in Addr /\ i \in Nat /\ i # 0 /\ i + Header # 0 /\ (i + Header) - Header = i
    BY <1>3, Block, Params DEF Good
  <2>3. /\ hdr' \in Hdrs /\ o.res = i + Header /\ o.traps \subseteq {"past"}
    BY <1>1, <2>1 DEF Given
  <2>4. held' = With(held, i + Header, n) /\ last' = NoCall
    BY <1>1, <2>2, <2>3 DEF Refused
  <2>5. i \notin Taken(hdr)
    BY <2>1 DEF Taken
  <2>6. /\ DOMAIN held' = {i + Header} \cup DOMAIN held
        /\ held'[i + Header] = n
        /\ \A x \in DOMAIN held \ {i + Header} : held'[x] = held[x]
    BY <2>4 DEF With
  <2>7. i + Header \notin DOMAIN held
    BY <2>2, <2>5, HeldIs
  <2>8. upset' \subseteq Trap
    BY <1>1, <1>2, <1>3, <2>3 DEF Trap
  <2>9. HeapTypeOK'
    <3>1. \A a \in DOMAIN held' : a - Header \in Addr /\ held'[a] \in 0 .. 2 * Word
      BY <2>2, <2>6, <2>7 DEF HeapInv, HeapTypeOK
    <3> QED BY <1>4, <2>3, <2>8, <3>1, Params DEF HeapTypeOK, Hdrs
  <2>10. ASSUME Whole' PROVE Sound(hdr') /\ Tight(hdr') /\ Reserved(hdr', held')
    <3>1. o.traps = {} /\ Wrapped(n, m) = {}
      BY <1>1, <2>10 DEF Whole
    <3>2. /\ Good(hdr')
          /\ Taken(hdr') = Taken(hdr) \cup {i}
          /\ \A c \in Taken(hdr) : BlockEnd(hdr', c) = BlockEnd(hdr, c)
          /\ i + Header + m <= BlockEnd(hdr', i)
      BY <1>1, <2>1, <3>1 DEF Given
    <3>3. {b + Header : b \in Taken(hdr')} = DOMAIN held'
      BY <2>6, <3>2 DEF HeapInv, Reserved
    <3>4. ASSUME NEW a \in DOMAIN held' PROVE a + held'[a] <= BlockEnd(hdr', a - Header)
      <4>1. CASE a = i + Header
        <5>1. n <= m /\ a - Header = i /\ held'[a] = n
          BY <1>2, <2>2, <2>6, <3>1, <4>1
        <5>2. BlockEnd(hdr', i) \in Nat
          <6>1. i \in Heads(hdr') /\ hdr' \in Hdrs /\ Sound(hdr')
            BY <3>2 DEF Taken, Good
          <6> QED BY <6>1, Block
        <5> QED BY <1>2, <2>2, <3>2, <4>1, <5>1, <5>2, Params
      <4>2. CASE a # i + Header
        <5>1. a \in DOMAIN held /\ held'[a] = held[a]
          BY <2>6, <4>2
        <5>2. a - Header \in Taken(hdr) /\ a + held[a] <= BlockEnd(hdr, a - Header)
          BY <5>1, HeldIs
        <5> QED BY <3>2, <5>1, <5>2
      <4> QED BY <4>1, <4>2
    <3> QED BY <3>2, <3>3, <3>4 DEF Good, Reserved
  <2>11. last'.size = 0 /\ last'.res = 0
    BY <2>4 DEF NoCall
  <2>12. LastCall'
    BY <2>11 DEF LastCall, RefusedOnlyWhenFull, ReallocKeepsContents
  <2> QED BY <2>9, <2>10, <2>12 DEF HeapInv
<1> QED BY <1>5, <1>6, <1>7

LEMMA NoCallIs ==
    ASSUME last' = NoCall
    PROVE  last'.copied \in 0 .. 2 * Word /\ LastCall'
<1>1. last'.copied = 0 /\ last'.size = 0 /\ last'.res = 0
  BY DEF NoCall
<1> QED BY <1>1, Params DEF LastCall, RefusedOnlyWhenFull, ReallocKeepsContents

LEMMA Releasing ==
    ASSUME HeapInv, NEW a \in DOMAIN held \cup {0}, NEW traps \in SUBSET Trap, Release(a, traps)
    PROVE  HeapInv' /\ LastCall'
<1>1. /\ Whole
      /\ IF a = 0 THEN UNCHANGED <<hdr, held>> ELSE hdr' = Freed(hdr, a - Header) /\ held' = Without(a)
      /\ last' = NoCall
      /\ upset' = traps \cup (IF a = 0 THEN {"null"} ELSE {})
  BY DEF Release
<1>2. Good(hdr) /\ Reserved(hdr, held)
  BY <1>1, HeldIs DEF HeapInv
<1>3. last'.copied \in 0 .. 2 * Word /\ LastCall'
  BY <1>1, NoCallIs
<1>4. upset' \subseteq Trap
  BY <1>1 DEF Trap
<1>5. \A p \in DOMAIN held : p - Header \in Addr /\ held[p] \in 0 .. 2 * Word
  BY DEF HeapInv, HeapTypeOK
<1>6. CASE a = 0
  <2>1. hdr' = hdr /\ held' = held
    BY <1>1, <1>6
  <2>2. HeapTypeOK'
    BY <1>2, <1>3, <1>4, <1>5, <2>1 DEF HeapTypeOK, Good, Hdrs
  <2> QED BY <1>2, <1>3, <2>1, <2>2 DEF HeapInv, Good
<1>7. CASE a # 0
  <2> DEFINE b == a - Header
  <2>1. hdr' = Freed(hdr, b) /\ held' = Without(a) /\ a \in DOMAIN held
    BY <1>1, <1>7
  <2>2. b \in Taken(hdr) /\ a = b + Header
    BY <1>1, <2>1, HeldIs
  <2>3. /\ Good(hdr')
        /\ Taken(hdr') = Taken(hdr) \ {b}
        /\ \A c \in Taken(hdr) \ {b} : BlockEnd(hdr', c) = BlockEnd(hdr, c)
    BY <1>2, <2>1, <2>2, FreedIs
  <2> HIDE DEF b
  <2>4. /\ DOMAIN held' = DOMAIN held \ {a}
        /\ \A x \in DOMAIN held \ {a} : held'[x] = held[x]
    BY <2>1, WithoutIs
  <2>5. \A c \in Taken(hdr) : c + Header = a <=> c = b
    <3>1. \A c \in Taken(hdr) : c \in Nat
      BY <1>2, Block DEF Taken, Good
    <3> QED BY <2>2, <3>1, Params
  <2>6. {c + Header : c \in Taken(hdr')} = DOMAIN held'
    BY <1>2, <2>3, <2>4, <2>5 DEF Reserved
  <2>7. ASSUME NEW x \in DOMAIN held' PROVE x + held'[x] <= BlockEnd(hdr', x - Header)
    <3>1. x \in DOMAIN held /\ held'[x] = held[x] /\ x # a
      BY <2>4
    <3>2. x - Header \in Taken(hdr) /\ x = (x - Header) + Header /\ x + held[x] <= BlockEnd(hdr, x - Header)
      BY <1>1, <3>1, HeldIs
    <3>3. x - Header # b
      BY <2>2, <3>1, <3>2
    <3> QED BY <2>3, <3>1, <3>2, <3>3
  <2>8. HeapTypeOK'
    BY <1>3, <1>4, <1>5, <2>3, <2>4 DEF HeapTypeOK, Good, Hdrs
  <2> QED BY <1>3, <2>3, <2>6, <2>7, <2>8 DEF HeapInv, Good, Reserved
<1> QED BY <1>6, <1>7

LEMMA Staying ==
    ASSUME HeapInv, Whole, NEW a \in DOMAIN held, NEW n \in 0 .. Word - 1,
           Stay(a, n, FreeSize(hdr, a - Header))
    PROVE  HeapInv' /\ LastCall'
<1> DEFINE b == a - Header
           m == RoundUp(n)
           extra == IF m > FreeSize(hdr, b) THEN {"fits"} ELSE {}
<1>1. /\ hdr' = hdr /\ held' = [held EXCEPT ![a] = n] /\ last' = NoCall
      /\ upset' = upset \cup extra \cup Wrapped(n, m)
  BY DEF Stay
<1>2. /\ n \in Nat /\ m \in 0 .. Word - 1 /\ Wrapped(n, m) \subseteq {"wrap"}
      /\ Wrapped(n, m) = {} => n <= m
  BY WrappedIs, Params
<1>3. Good(hdr) /\ Reserved(hdr, held) /\ upset = {}
  BY HeldIs DEF HeapInv, Whole
<1>4. last'.copied \in 0 .. 2 * Word /\ LastCall'
  BY <1>1, NoCallIs
<1>5. upset' \subseteq Trap
  BY <1>1, <1>2, <1>3 DEF Trap
<1>6. /\ DOMAIN held' = DOMAIN held
      /\ held'[a] = n
      /\ \A x \in DOMAIN held \ {a} : held'[x] = held[x]
  BY <1>1
<1>7. \A p \in DOMAIN held : p - Header \in Addr /\ held[p] \in 0 .. 2 * Word
  BY DEF HeapInv, HeapTypeOK
<1>8. n \in 0 .. 2 * Word
  BY <1>2, Params
<1>9. HeapTypeOK'
  BY <1>1, <1>3, <1>4, <1>5, <1>6, <1>7, <1>8 DEF HeapTypeOK, Good, Hdrs
<1>10. ASSUME Whole' PROVE Reserved(hdr', held')
  <2>1. n <= m /\ ~(m > FreeSize(hdr, b))
    BY <1>1, <1>2, <1>10 DEF Whole
  <2>2. b \in Heads(hdr) /\ a = b + Header /\ a \in Nat
    BY HeldIs
  <2>3. FreeSize(hdr, b) = BlockEnd(hdr, b) - b - Header /\ BlockEnd(hdr, b) \in Nat /\ b \in Nat
    BY <1>3, <2>2, Sizes, Block DEF Good
  <2> HIDE DEF m
  <2>4. a + n <= BlockEnd(hdr, b)
    BY <1>2, <2>1, <2>2, <2>3, Params
  <2> QED BY <1>1, <1>3, <1>6, <2>4 DEF Reserved
<1> QED BY <1>1, <1>3, <1>4, <1>9, <1>10 DEF HeapInv, Good

\* bsize: the neighbour only adds to what the block has.
LEMMA ReachIs ==
    ASSUME HeapInv, Whole, NEW b \in Heads(hdr)
    PROVE  Reach(b) \in 0 .. Word - 1 /\ Reach(b) >= Size(hdr, b)
<1>1. hdr \in Hdrs /\ Sound(hdr)
  BY HeldIs DEF Good
<1>2. Size(hdr, b) \in 0 .. Word - 1
  BY <1>1, Sizes
<1>3. CASE ~GrowsInto(b)
  BY <1>2, <1>3, Params DEF Reach
<1>4. CASE GrowsInto(b)
  <2> DEFINE c == hdr[b].next
             x == Size(hdr, b)
             y == Size(hdr, c)
  <2>1. /\ c # 0 /\ c \in Heads(hdr) /\ BlockEnd(hdr, b) = c
        /\ b \in Nat /\ c \in Nat /\ b + Header <= c /\ b # 0
    <3>1. c # 0 /\ c \in Heads(hdr)
      BY <1>1, <1>4, Block DEF GrowsInto
    <3> QED BY <1>1, <3>1, Block
  <2>2. /\ x = c - b - Header
        /\ y \in 0 .. Word - 1
        /\ hdr[c].next # 0 => y = BlockEnd(hdr, c) - c - Header
        /\ hdr[c].next = 0 => y = Word - c - Header
    BY <1>1, <2>1, Sizes
  <2>3. /\ c + Header <= BlockEnd(hdr, c) /\ BlockEnd(hdr, c) \in Nat
        /\ BlockEnd(hdr, c) < Word
    <3>1. /\ c + Header <= BlockEnd(hdr, c) /\ BlockEnd(hdr, c) \in Nat
          /\ BlockEnd(hdr, c) <= endOfHeap
      BY <1>1, <2>1, Block
    <3>2. endOfHeap \in Nat /\ endOfHeap < Word
      BY Arena
    <3> QED BY <3>1, <3>2, Params
  <2> HIDE DEF c, x, y
  <2>4. x + y \in 0 .. Word - 1 /\ y >= 0
    BY <2>1, <2>2, <2>3, Params
  <2>5. Word32(x + y) = x + y
    BY <2>4, WordIs
  <2>6. Reach(b) = x + y
    BY <1>4, <2>5 DEF Reach, x, y, c
  <2>7. x \in 0 .. Word - 1
    BY <1>2 DEF x
  <2> QED BY <2>2, <2>4, <2>6, <2>7, Params DEF x
<1> QED BY <1>3, <1>4

\* Growing into the last block is joining it and dividing the whole again.
LEMMA GrowsAtEnd ==
    ASSUME NEW h \in Hdrs, Sound(h), NEW b \in Taken(h), h[b].next # 0,
           h[h[b].next].next = 0, NEW j \in Addr, b + Header <= j
    PROVE  [h EXCEPT ![b].next = j, ![h[b].next] = NoBlock,
                     ![j] = [prev |-> b, next |-> 0, free |-> TRUE]]
             = Divide(Join(h, b), b, j)
<1> DEFINE c == h[b].next
           new == [prev |-> b, next |-> 0, free |-> TRUE]
           M == Join(h, b)
           g == Divide(M, b, j)
           f == [h EXCEPT ![b].next = j, ![c] = NoBlock, ![j] = new]
<1>1. /\ b \in Heads(h) /\ ~h[b].free /\ b \in Addr /\ c \in Addr /\ c # b /\ j # b
      /\ h[b] \in [prev : Addr \cup {0}, next : Addr \cup {0}, free : BOOLEAN]
  <2>1. b \in Heads(h) /\ ~h[b].free
    BY DEF Taken
  <2>2. b \in Addr /\ c \in Heads(h) /\ b < c /\ b \in Nat /\ b + Header <= j /\ j \in Nat
    BY <2>1, Block, Address
  <2>3. c \in Addr
    BY <2>2, Block
  <2> QED BY <2>1, <2>2, <2>3, Params DEF Hdrs
<1>2. M = [a \in Addr |-> IF a \in {c} THEN NoBlock
                          ELSE IF a = b THEN [prev |-> h[b].prev, next |-> 0, free |-> TRUE]
                          ELSE h[a]]
  BY DEF Join, Merged, LeftOf
<1> HIDE DEF M, c
<1>3. M[b] = [prev |-> h[b].prev, next |-> 0, free |-> TRUE]
  BY <1>1, <1>2
<1>4. g = [M EXCEPT ![b].next = j, ![b].free = FALSE, ![j] = new]
  BY <1>3 DEF Divide, LeftOf
<1> DEFINE own == [prev |-> h[b].prev, next |-> j, free |-> FALSE]
<1>5. \A a \in Addr : g[a] = IF a = j THEN new ELSE IF a = b THEN own ELSE M[a]
  <2>1. DOMAIN M = Addr
    BY <1>2
  <2> HIDE DEF new
  <2> QED BY <1>1, <1>3, <1>4, <2>1
<1>6. [h[b] EXCEPT !.next = j] = own
  <2>1. h[b].free \in BOOLEAN /\ ~h[b].free
    BY <1>1
  <2>2. h[b].free = FALSE
    BY <2>1
  <2>3. h[b] = [prev |-> h[b].prev, next |-> h[b].next, free |-> h[b].free]
    BY <1>1
  <2>4. [h[b] EXCEPT !.next = j] = [prev |-> h[b].prev, next |-> j, free |-> h[b].free]
    BY <2>3
  <2> QED BY <2>2, <2>4
<1>7. \A a \in Addr : f[a] = IF a = j THEN new ELSE IF a = c THEN NoBlock ELSE IF a = b THEN own ELSE h[a]
  <2>1. DOMAIN h = Addr
    BY DEF Hdrs
  <2> HIDE DEF new, own
  <2>2. f = [h EXCEPT ![b] = own, ![c] = NoBlock, ![j] = new]
    BY <1>6
  <2> HIDE DEF f
  <2> QED BY <1>1, <2>1, <2>2
<1>8. \A a \in Addr : f[a] = g[a]
  <2> HIDE DEF f, g, new, own
  <2> QED BY <1>1, <1>2, <1>5, <1>7
<1>9. f = [a \in Addr |-> f[a]] /\ g = [a \in Addr |-> g[a]]
  <2>1. f \in [Addr -> {f[a] : a \in Addr}] /\ DOMAIN f = Addr
    BY DEF Hdrs
  <2>2. g \in [Addr -> {g[a] : a \in Addr}] /\ DOMAIN g = Addr
    BY <1>2, <1>4
  <2> HIDE DEF f, g
  <2> QED BY <2>1, <2>2
<1>10. f = g
  <2> HIDE DEF f, g
  <2> QED BY <1>8, <1>9
<1> QED BY <1>10 DEF M, c

LEMMA Growing ==
    ASSUME HeapInv, Whole, NEW a \in DOMAIN held, NEW n \in 0 .. Word - 1,
           GrowsInto(a - Header), Grow(a, n, Word32(a + RoundUp(n)))
    PROVE  HeapInv' /\ LastCall'
<1> DEFINE b == a - Header
           m == RoundUp(n)
           j == Word32(a + m)
           c == hdr[b].next
           behind == hdr[c].next
<1>1. /\ hdr' = IF Proper(b, j)
                THEN [hdr EXCEPT ![b].next = j, ![c] = NoBlock,
                                 ![j] = [prev |-> b, next |-> behind, free |-> TRUE]]
                ELSE hdr
      /\ held' = [held EXCEPT ![a] = n]
      /\ last' = NoCall
      /\ upset' = upset \cup Wrapped(n, m)
           \cup (IF Proper(b, j) THEN {} ELSE {"past"})
           \cup (IF behind = 0 THEN {} ELSE {"prev"})
  BY DEF Grow
<1>2. /\ n \in Nat /\ m \in 0 .. Word - 1 /\ Wrapped(n, m) \subseteq {"wrap"}
      /\ Wrapped(n, m) = {} => n <= m
  BY WrappedIs, Params
<1>3. Good(hdr) /\ hdr \in Hdrs /\ Sound(hdr) /\ Tight(hdr) /\ Reserved(hdr, held) /\ upset = {}
  BY HeldIs DEF HeapInv, Whole, Good
<1>4. last'.copied \in 0 .. 2 * Word /\ LastCall'
  BY <1>1, NoCallIs
<1>5. upset' \subseteq Trap
  BY <1>1, <1>2, <1>3 DEF Trap
<1>6. /\ DOMAIN held' = DOMAIN held
      /\ held'[a] = n
      /\ \A x \in DOMAIN held \ {a} : held'[x] = held[x]
  BY <1>1
<1>7. \A p \in DOMAIN held : p - Header \in Addr /\ held[p] \in 0 .. 2 * Word
  BY DEF HeapInv, HeapTypeOK
<1>8. n \in 0 .. 2 * Word
  BY <1>2, Params
<1>9. /\ b \in Taken(hdr) /\ b \in Heads(hdr) /\ ~hdr[b].free /\ a = b + Header
      /\ a \in Nat /\ a < Word
  BY HeldIs
<1>10. /\ c # 0 /\ hdr[c].free /\ c \in Heads(hdr) /\ c \in Addr /\ b \in Addr /\ c # b /\ b \in Nat
       /\ behind \in Addr \cup {0}
  <2>1. c # 0 /\ hdr[c].free
    BY DEF GrowsInto
  <2>2. c \in Heads(hdr) /\ b \in Addr /\ b < c /\ b \in Nat
    BY <1>3, <1>9, <2>1, Block
  <2>3. c \in Addr /\ c \in Nat /\ behind \in Addr \cup {0}
    BY <1>3, <2>2, Block
  <2> QED BY <2>1, <2>2, <2>3
<1>11. hdr' \in Hdrs
  <2>1. CASE ~Proper(b, j)
    BY <1>1, <1>3, <2>1
  <2>2. CASE Proper(b, j)
    <3>1. j \in Addr
      BY <2>2 DEF Proper
    <3> DEFINE new == [prev |-> b, next |-> behind, free |-> TRUE]
               own == [hdr[b] EXCEPT !.next = j]
    <3>2. /\ NoBlock \in [prev : Addr \cup {0}, next : Addr \cup {0}, free : BOOLEAN]
          /\ new \in [prev : Addr \cup {0}, next : Addr \cup {0}, free : BOOLEAN]
      BY <1>10 DEF NoBlock
    <3>3. own \in [prev : Addr \cup {0}, next : Addr \cup {0}, free : BOOLEAN]
      BY <1>3, <1>10, <3>1 DEF Hdrs
    <3>4. hdr' = [hdr EXCEPT ![b] = own, ![c] = NoBlock, ![j] = new]
      BY <1>1, <2>2
    <3> HIDE DEF own, new
    <3> QED BY <1>3, <1>10, <3>1, <3>2, <3>3, <3>4 DEF Hdrs
  <2> QED BY <2>1, <2>2
<1>12. HeapTypeOK'
  BY <1>4, <1>5, <1>6, <1>7, <1>8, <1>11 DEF HeapTypeOK, Hdrs
<1>13. ASSUME Whole' PROVE Good(hdr') /\ Reserved(hdr', held')
  <2>1. Wrapped(n, m) = {} /\ Proper(b, j) /\ behind = 0
    BY <1>1, <1>13 DEF Whole
  <2>2. j \in Addr /\ b + Header <= j /\ j \in Nat /\ j + Header <= endOfHeap
    BY <2>1, Address DEF Proper
  <2>3. j = a + m
    <3>1. a + m \in Word .. 2 * Word - 1 => j = a + m - Word
      <4> DEFINE x == a + m
      <4>1. x \in Int
        BY <1>2, <1>9, Params
      <4> HIDE DEF x
      <4>2. x \in Word .. 2 * Word - 1 => Word32(x) = x - Word
        BY <4>1, WordWraps
      <4> QED BY <1>2, <1>9, <4>2, Params DEF x
    <3>2. a + m \in 0 .. Word - 1 => j = a + m
      BY <1>2, <1>9, Params, WordIs
    <3> HIDE DEF j, m
    <3> QED BY <1>2, <1>9, <2>2, <3>1, <3>2, Params
  <2> DEFINE M == Join(hdr, b)
  <2>4. hdr' = Divide(M, b, j)
    <3>1. hdr' = [hdr EXCEPT ![b].next = j, ![c] = NoBlock,
                             ![j] = [prev |-> b, next |-> 0, free |-> TRUE]]
      BY <1>1, <2>1
    <3>2. c = hdr[b].next /\ behind = hdr[hdr[b].next].next
      OBVIOUS
    <3> HIDE DEF j, b, c, behind
    <3>3. hdr[b].next # 0 /\ hdr[hdr[b].next].next = 0
      BY <1>10, <2>1, <3>2
    <3>4. hdr' = [hdr EXCEPT ![b].next = j, ![hdr[b].next] = NoBlock,
                             ![j] = [prev |-> b, next |-> 0, free |-> TRUE]]
      BY <3>1, <3>2
    <3> QED BY <1>3, <1>9, <2>2, <3>3, <3>4, GrowsAtEnd
  <2>5. /\ M \in Hdrs /\ Sound(M) /\ Heads(M) = Heads(hdr) \ {c}
        /\ M[b].free /\ M[b].next = 0
        /\ \A x \in Heads(M) \ {b} : /\ M[x].next = hdr[x].next /\ M[x].free = hdr[x].free
                                     /\ BlockEnd(M, x) = BlockEnd(hdr, x)
    BY <1>3, <1>9, <1>10, <2>1, Joins
  <2>6. b \in Heads(M) /\ BlockEnd(M, b) = endOfHeap
    BY <1>9, <1>10, <2>5 DEF BlockEnd
  <2>7. LET g == Divide(M, b, j) IN
        /\ g \in Hdrs
        /\ j \notin Heads(M)
        /\ Heads(g) = Heads(M) \cup {j}
        /\ Sound(g)
        /\ g[b].next = j /\ ~g[b].free /\ g[j].next = M[b].next /\ g[j].free
        /\ \A x \in Heads(M) \ {b} : /\ g[x].next = M[x].next /\ g[x].free = M[x].free
                                     /\ BlockEnd(g, x) = BlockEnd(M, x)
        /\ BlockEnd(g, b) = j
    <3> HIDE DEF M, j
    <3> QED BY <2>2, <2>5, <2>6, Divides
  <2> HIDE DEF M, j, m, b, c
  <2>8. /\ hdr' \in Hdrs /\ Sound(hdr') /\ Heads(hdr') = (Heads(hdr) \ {c}) \cup {j}
        /\ hdr'[b].next = j /\ ~hdr'[b].free /\ hdr'[j].next = 0 /\ hdr'[j].free
        /\ \A x \in Heads(hdr) \ {b, c} : /\ hdr'[x].next = hdr[x].next /\ hdr'[x].free = hdr[x].free
                                          /\ BlockEnd(hdr', x) = BlockEnd(hdr, x)
        /\ BlockEnd(hdr', b) = j
        /\ j \notin Heads(hdr) \ {c}
    BY <2>4, <2>5, <2>7
  <2>9. Tight(hdr')
    <3> SUFFICES ASSUME NEW x \in Heads(hdr'), hdr'[x].free, hdr'[x].next # 0
                 PROVE  ~hdr'[hdr'[x].next].free
      BY DEF Tight
    <3>1. x # j /\ x # b /\ x \in Heads(hdr) \ {b, c}
      BY <2>8
    <3>2. hdr'[x].next = hdr[x].next /\ hdr[x].free /\ hdr[x].next # 0
      BY <2>8, <3>1
    <3>3. hdr[x].next \in Heads(hdr) /\ ~hdr[hdr[x].next].free
      BY <1>3, <3>1, <3>2, Block DEF Tight
    <3>4. hdr[x].next # c
      BY <1>10, <3>3
    <3> QED BY <2>8, <3>2, <3>3, <3>4
  <2>10. Taken(hdr') = Taken(hdr)
    BY <1>9, <1>10, <2>8 DEF Taken
  <2>11. ASSUME NEW x \in DOMAIN held' PROVE x + held'[x] <= BlockEnd(hdr', x - Header)
    <3>1. CASE x = a
      <4>1. x - Header = b
        BY <3>1 DEF b
      <4> QED BY <1>2, <1>6, <1>9, <2>1, <2>3, <2>8, <3>1, <4>1, Params
    <3>2. CASE x # a
      <4>1. x \in DOMAIN held /\ held'[x] = held[x]
        BY <1>6, <3>2
      <4>2. /\ x - Header \in Taken(hdr) /\ x = (x - Header) + Header
            /\ x + held[x] <= BlockEnd(hdr, x - Header)
        BY <4>1, HeldIs
      <4>3. x - Header # b
        BY <1>9, <3>2, <4>2
      <4>4. x - Header \in Heads(hdr) \ {b, c}
        BY <1>10, <4>2, <4>3 DEF Taken
      <4> QED BY <2>8, <4>1, <4>2, <4>4
    <3> QED BY <3>1, <3>2
  <2> QED BY <1>3, <1>6, <2>8, <2>9, <2>10, <2>11 DEF Good, Reserved
<1> QED BY <1>4, <1>12, <1>13 DEF HeapInv, Good

\* Drv_realloc moves the block: had bytes are in it, copied are copied.
LEMMA Moving ==
    ASSUME HeapInv, Whole, NEW a \in DOMAIN held, NEW n \in 0 .. Word - 1,
           NEW copied \in 0 .. Word - 1, copied < RoundUp(n), Size(hdr, a - Header) <= copied,
           Move(a, n, copied)
    PROVE  HeapInv' /\ LastCall'
<1> DEFINE b == a - Header
           m == RoundUp(n)
           o == LocAlloc(hdr, m)
<1>1. /\ hdr' = IF o.res = 0 THEN o.hdr ELSE Freed(o.hdr, b)
      /\ held' = IF o.res = 0 THEN held ELSE With(Without(a), o.res, n)
      /\ last' = IF o.res = 0 THEN Refused(n, 0)
                 ELSE [size |-> n, res |-> o.res, had |-> held[a], copied |-> copied]
      /\ upset' = upset \cup o.traps \cup Wrapped(n, m)
  BY DEF Move
<1>2. /\ n \in Nat /\ n \in 0 .. 2 * Word
      /\ m \in 0 .. Word - 1 /\ Wrapped(n, m) \subseteq {"wrap"}
      /\ Wrapped(n, m) = {} => n <= m
  BY WrappedIs, Params
<1>3. Good(hdr) /\ hdr \in Hdrs /\ Sound(hdr) /\ Reserved(hdr, held) /\ upset = {}
  BY HeldIs DEF HeapInv, Whole, Good
<1>4. /\ b \in Taken(hdr) /\ b \in Heads(hdr) /\ ~hdr[b].free /\ a = b + Header
      /\ a \in Nat /\ held[a] \in 0 .. 2 * Word /\ a + held[a] <= BlockEnd(hdr, b)
      /\ \A p \in DOMAIN held : p - Header \in Addr /\ held[p] \in 0 .. 2 * Word
  BY HeldIs DEF HeapInv, HeapTypeOK
<1>5. held[a] <= copied
  <2>1. Size(hdr, b) >= BlockEnd(hdr, b) - b - Header /\ Size(hdr, b) \in 0 .. Word - 1
    BY <1>3, <1>4, Sizes
  <2>2. BlockEnd(hdr, b) \in Nat /\ b \in Nat
    BY <1>3, <1>4, Block
  <2>3. Size(hdr, b) <= copied
    OBVIOUS
  <2> HIDE DEF b
  <2> QED BY <1>4, <2>1, <2>2, <2>3, Params
<1> HIDE DEF m
<1>6. \/ /\ o = [hdr |-> hdr, res |-> 0, traps |-> {}]
         /\ \A i \in Heads(hdr) : hdr[i].free => FreeSize(hdr, i) < m
      \/ \E i \in Heads(hdr) : hdr[i].free /\ Given(hdr, i, m, o)
  BY <1>2, <1>3, LocAllocIs
<1> HIDE DEF o, b
<1>7. CASE /\ o = [hdr |-> hdr, res |-> 0, traps |-> {}]
           /\ \A i \in Heads(hdr) : hdr[i].free => FreeSize(hdr, i) < m
  <2>1. Obtain(n, {})
    <3>1. \E w \in {LocAlloc(hdr, RoundUp(n))} :
            /\ hdr' = w.hdr
            /\ held' = IF w.res = 0 THEN held ELSE With(held, w.res, n)
            /\ last' = Refused(n, w.res)
            /\ upset' = upset \cup w.traps \cup Wrapped(n, RoundUp(n)) \cup {}
      BY <1>1, <1>7 DEF o, m
    <3> QED BY <3>1 DEF Obtain
  <2> QED BY <1>2, <2>1, Obtaining
<1>8. CASE \E i \in Heads(hdr) : hdr[i].free /\ Given(hdr, i, m, o)
  <2>1. PICK i \in Heads(hdr) : hdr[i].free /\ Given(hdr, i, m, o)
    BY <1>8
  <2>2. i \in Addr /\ i \in Nat /\ i # 0 /\ i + Header # 0 /\ (i + Header) - Header = i /\ i # b
    BY <1>3, <1>4, <2>1, Block, Params
  <2>3. o.hdr \in Hdrs /\ o.res = i + Header /\ o.traps \subseteq {"past"}
    BY <2>1 DEF Given
  <2>4. /\ hdr' = Freed(o.hdr, b)
        /\ held' = With(Without(a), i + Header, n)
        /\ last' = [size |-> n, res |-> i + Header, had |-> held[a], copied |-> copied]
    BY <1>1, <2>2, <2>3
  <2>5. i \notin Taken(hdr) /\ i + Header \notin DOMAIN held /\ i + Header # a
    <3>1. i \notin Taken(hdr)
      BY <2>1 DEF Taken
    <3>2. i + Header \notin DOMAIN held
      BY <2>2, <3>1, HeldIs
    <3> QED BY <3>1, <3>2
  <2>6. /\ DOMAIN held' = (DOMAIN held \ {a}) \cup {i + Header}
        /\ held'[i + Header] = n
        /\ \A x \in DOMAIN held \ {a} : held'[x] = held[x]
    BY <2>4, <2>5, WithoutIs DEF With
  <2>7. last'.copied = copied /\ last'.res = i + Header /\ last'.had = held[a]
    BY <2>4
  <2>8. RefusedOnlyWhenFull'
    BY <2>2, <2>7 DEF RefusedOnlyWhenFull
  <2>9. upset' \subseteq Trap
    BY <1>1, <1>2, <1>3, <2>3 DEF Trap
  <2>10. hdr' \in Hdrs
    <3>1. b \in Addr /\ b # 0
      BY <1>3, <1>4, Block
    <3> QED BY <2>3, <2>4, <3>1, FreedType
  <2>11. HeapTypeOK'
    <3>1. \A p \in DOMAIN held' : p - Header \in Addr /\ held'[p] \in 0 .. 2 * Word
      BY <1>2, <1>4, <2>2, <2>6
    <3>2. last'.copied \in 0 .. 2 * Word
      BY <2>7, Params
    <3> QED BY <2>9, <2>10, <3>1, <3>2 DEF HeapTypeOK, Hdrs
  <2>12. ASSUME Whole'
         PROVE  /\ Good(hdr') /\ Reserved(hdr', held')
                /\ i + Header + m <= BlockEnd(hdr', i) /\ BlockEnd(hdr', i) \in Nat
    <3>1. o.traps = {} /\ Wrapped(n, m) = {}
      BY <1>1, <2>12 DEF Whole
    <3>2. /\ Good(o.hdr)
          /\ Taken(o.hdr) = Taken(hdr) \cup {i}
          /\ \A c \in Taken(hdr) : BlockEnd(o.hdr, c) = BlockEnd(hdr, c)
          /\ i + Header + m <= BlockEnd(o.hdr, i)
      BY <2>1, <3>1 DEF Given
    <3>3. /\ Good(hdr')
          /\ Taken(hdr') = Taken(o.hdr) \ {b}
          /\ \A c \in Taken(o.hdr) \ {b} : BlockEnd(hdr', c) = BlockEnd(o.hdr, c)
      BY <1>4, <2>4, <3>2, FreedIs
    <3>4. Taken(hdr') = (Taken(hdr) \ {b}) \cup {i}
      BY <2>2, <3>2, <3>3
    <3>5. /\ BlockEnd(hdr', i) = BlockEnd(o.hdr, i)
          /\ \A c \in Taken(hdr) \ {b} : BlockEnd(hdr', c) = BlockEnd(hdr, c)
      BY <2>2, <3>2, <3>3
    <3>6. BlockEnd(hdr', i) \in Nat
      <4>1. i \in Heads(hdr')
        BY <3>4 DEF Taken
      <4> QED BY <3>3, <4>1, Block DEF Good
    <3>7. \A c \in Taken(hdr) : c + Header = a <=> c = b
      <4>1. \A c \in Taken(hdr) : c \in Nat
        BY <1>3, Block DEF Taken
      <4> QED BY <1>4, <4>1, Params
    <3>8. {c + Header : c \in Taken(hdr')} = DOMAIN held'
      BY <1>3, <2>6, <3>4, <3>7 DEF Reserved
    <3>9. ASSUME NEW x \in DOMAIN held' PROVE x + held'[x] <= BlockEnd(hdr', x - Header)
      <4>1. CASE x = i + Header
        <5>1. n <= m /\ x - Header = i /\ held'[x] = n
          BY <1>2, <2>2, <2>6, <3>1, <4>1
        <5> QED BY <1>2, <2>2, <3>2, <3>5, <3>6, <4>1, <5>1, Params
      <4>2. CASE x # i + Header
        <5>1. x \in DOMAIN held /\ held'[x] = held[x] /\ x # a
          BY <2>6, <4>2
        <5>2. /\ x - Header \in Taken(hdr) /\ x = (x - Header) + Header
              /\ x + held[x] <= BlockEnd(hdr, x - Header)
          BY <5>1, HeldIs
        <5>3. x - Header # b
          BY <1>4, <5>1, <5>2
        <5> QED BY <3>5, <5>1, <5>2, <5>3
      <4> QED BY <4>1, <4>2
    <3> QED BY <3>2, <3>3, <3>5, <3>6, <3>8, <3>9 DEF Reserved
  <2>13. ReallocKeepsContents'
    <3> SUFFICES ASSUME Whole'
                 PROVE  /\ last'.copied >= last'.had
                        /\ last'.res + last'.copied <= BlockEnd(hdr', last'.res - Header)
      BY DEF ReallocKeepsContents, EndOf, BlockEnd
    <3>1. i + Header + m <= BlockEnd(hdr', i) /\ BlockEnd(hdr', i) \in Nat
      BY <2>12
    <3>2. copied < m
      BY DEF m
    <3> QED BY <1>2, <1>4, <1>5, <2>2, <2>7, <3>1, <3>2, Params
  <2> QED BY <2>8, <2>11, <2>12, <2>13 DEF HeapInv, LastCall, Good
<1> QED BY <1>6, <1>7, <1>8

LEMMA Asking ==
    ASSUME HeapInv, NEW n \in 0 .. Word - 1, Alloc(n)
    PROVE  HeapInv' /\ LastCall'
<1>1. Whole /\ Obtain(n, {})
  BY DEF Alloc, Obtain
<1>2. n \in 0 .. 2 * Word
  BY Params
<1> QED BY <1>1, <1>2, Obtaining

LEMMA AskingCleared ==
    ASSUME HeapInv, NEW n \in 0 .. Word - 1, NEW k \in {1, 2}, Calloc(k, n)
    PROVE  HeapInv' /\ LastCall'
<1> DEFINE q == k * n
           extra == IF LocAlloc(hdr, RoundUp(q)).res = 0 THEN {"null"} ELSE {}
<1>1. q \in 0 .. 2 * Word
  <2>1. q = n \/ q = 2 * n
    OBVIOUS
  <2> QED BY <2>1, Params
<1>2. RoundUp(Word32(q)) = RoundUp(q)
  BY <1>1, RoundUpIs, Params
<1>3. Whole /\ \E o \in {LocAlloc(hdr, RoundUp(Word32(q)))} :
        /\ hdr' = o.hdr
        /\ held' = IF o.res = 0 THEN held ELSE With(held, o.res, q)
        /\ last' = Refused(q, o.res)
        /\ upset' = upset \cup o.traps \cup Wrapped(q, RoundUp(Word32(q)))
                          \cup (IF o.res = 0 THEN {"null"} ELSE {})
  BY DEF Calloc
<1> HIDE DEF q
<1>4. Obtain(q, extra)
  BY <1>2, <1>3 DEF Obtain
<1>5. extra \in SUBSET Trap
  BY DEF Trap
<1> HIDE DEF extra
<1> QED BY <1>1, <1>3, <1>4, <1>5, Obtaining

LEMMA Reallocating ==
    ASSUME HeapInv, NEW a \in DOMAIN held \cup {0}, NEW n \in 0 .. Word - 1, Realloc(a, n)
    PROVE  HeapInv' /\ LastCall'
<1>1. CASE RoundUp(n) = 0
  <2>1. Release(a, Wrapped(n, 0))
    BY <1>1 DEF Realloc
  <2>2. Wrapped(n, 0) \in SUBSET Trap
    BY DEF Wrapped, Trap
  <2> QED BY <2>1, <2>2, Releasing
<1>2. CASE RoundUp(n) # 0 /\ a = 0
  <2>1. Alloc(n)
    BY <1>2 DEF Realloc
  <2> QED BY <2>1, Asking
<1>3. CASE RoundUp(n) # 0 /\ a # 0
  <2> DEFINE b == a - Header
             m == RoundUp(n)
  <2>1. /\ Whole
        /\ \/ m <= Size(hdr, b) /\ Stay(a, n, FreeSize(hdr, b))
           \/ GrowsInto(b) /\ Grow(a, n, Word32(a + m))
           \/ ~(m <= Size(hdr, b)) /\ ~(GrowsInto(b) /\ Reach(b) >= m) /\ Move(a, n, Reach(b))
    BY <1>3 DEF Realloc
  <2>2. a \in DOMAIN held
    BY <1>3
  <2>3. CASE m <= Size(hdr, b) /\ Stay(a, n, FreeSize(hdr, b))
    BY <2>1, <2>2, <2>3, Staying
  <2>4. CASE GrowsInto(b) /\ Grow(a, n, Word32(a + m))
    BY <2>1, <2>2, <2>4, Growing
  <2>5. CASE ~(m <= Size(hdr, b)) /\ ~(GrowsInto(b) /\ Reach(b) >= m) /\ Move(a, n, Reach(b))
    <3>1. b \in Heads(hdr) /\ Good(hdr)
      BY <2>1, <2>2, HeldIs
    <3>2. Reach(b) \in 0 .. Word - 1 /\ Reach(b) >= Size(hdr, b)
      BY <2>1, <3>1, ReachIs
    <3>3. Size(hdr, b) \in 0 .. Word - 1
      BY <3>1, Sizes DEF Good
    <3>4. m \in 0 .. Word - 1
      BY RoundUpIs, Params
    <3>5. ~GrowsInto(b) => Reach(b) = Size(hdr, b)
      BY DEF Reach
    <3> HIDE DEF b
    <3>6. Reach(b) < m /\ Size(hdr, b) <= Reach(b)
      <4> HIDE DEF m
      <4> QED BY <2>5, <3>2, <3>3, <3>4, <3>5, Params
    <3>7. Move(a, n, Reach(b))
      BY <2>5
    <3> QED BY <2>1, <2>2, <3>2, <3>6, <3>7, Moving DEF b
  <2> QED BY <2>1, <2>3, <2>4, <2>5
<1> QED BY <1>1, <1>2, <1>3

\* A step of the program establishes the invariant again, and what the last
\* call came to is told by the history.
LEMMA HeapStep ==
    ASSUME HeapInv, LastCall, [HeapNext]_heapVars
    PROVE  HeapInv' /\ LastCall'
<1>1. ASSUME NEW n \in Requests, Alloc(n) PROVE HeapInv' /\ LastCall'
  BY <1>1, Asking, Params
<1>2. ASSUME NEW k \in {1, 2}, NEW n \in Requests, Calloc(k, n) PROVE HeapInv' /\ LastCall'
  BY <1>2, AskingCleared, Params
<1>3. ASSUME NEW a \in DOMAIN held \cup {0}, Free(a) PROVE HeapInv' /\ LastCall'
  BY <1>3, {} \in SUBSET Trap, Releasing DEF Free
<1>4. ASSUME NEW a \in DOMAIN held \cup {0}, NEW n \in Requests, Realloc(a, n)
      PROVE  HeapInv' /\ LastCall'
  BY <1>4, Reallocating, Params
<1>5. CASE UNCHANGED heapVars
  <2>1. hdr' = hdr /\ held' = held /\ last' = last /\ upset' = upset
    BY <1>5 DEF heapVars
  <2>2. HeapInv'
    BY <2>1 DEF HeapInv, HeapTypeOK, Whole
  <2>3. RefusedOnlyWhenFull'
    BY <2>1 DEF LastCall, RefusedOnlyWhenFull, EndOf
  <2>4. ReallocKeepsContents'
    BY <2>1 DEF LastCall, ReallocKeepsContents, Whole, EndOf
  <2> QED BY <2>2, <2>3, <2>4 DEF LastCall
<1> QED BY <1>1, <1>2, <1>3, <1>4, <1>5 DEF HeapNext

LEMMA HeapInvariant == HeapSpec => [](HeapInv /\ LastCall)
<1>1. HeapInv /\ LastCall /\ [HeapNext]_heapVars => (HeapInv /\ LastCall)'
  BY HeapStep
<1> QED BY HeapInitInv, <1>1, PTL DEF HeapSpec

-----------------------------------------------------------------------------
(* The theorems                                                            *)

\* Links are addresses or NULL and held payloads lie in the heap, whatever was
\* allocated, freed, moved or refused, and after a trap as well.
THEOREM HeapTypeCorrect == HeapSpec => []HeapTypeOK
<1>1. HeapInv /\ LastCall => HeapTypeOK
  BY DEF HeapInv
<1> QED BY HeapInvariant, <1>1, PTL

\* Whatever is allocated, freed, moved or refused, the blocks follow each
\* other from the first address to the end of the arena and know each other.
THEOREM ChainsAreSound == HeapSpec => []ChainSound
<1>1. HeapInv /\ LastCall => ChainSound
  BY DEF HeapInv, ChainSound, Sound, BlockEnd, EndOf
<1> QED BY HeapInvariant, <1>1, PTL

\* No two free blocks are neighbours, in whatever order they were freed.
THEOREM FreeBlocksAreMerged == HeapSpec => []FreeIsMerged
<1>1. HeapInv /\ LastCall => FreeIsMerged
  BY DEF HeapInv, FreeIsMerged, Tight
<1> QED BY HeapInvariant, <1>1, PTL

\* The reserved blocks are those the program holds, each with the bytes that
\* were asked for.
THEOREM HeldBlocksAreReserved == HeapSpec => []HeldIsReserved
<1>1. HeapInv /\ LastCall => HeldIsReserved
  BY DEF HeapInv, HeldIsReserved, Reserved, Taken, BlockEnd, EndOf
<1> QED BY HeapInvariant, <1>1, PTL

\* A request that is refused had no room between the blocks that are held.
THEOREM RefusalsAreTrue == HeapSpec => []RefusedOnlyWhenFull
<1>1. HeapInv /\ LastCall => RefusedOnlyWhenFull
  BY DEF LastCall
<1> QED BY HeapInvariant, <1>1, PTL

\* A realloc that moves a block takes along what is in it and stays within
\* the new one.
THEOREM ReallocsKeepContents == HeapSpec => []ReallocKeepsContents
<1>1. HeapInv /\ LastCall => ReallocKeepsContents
  BY DEF LastCall
<1> QED BY HeapInvariant, <1>1, PTL
=============================================================================
