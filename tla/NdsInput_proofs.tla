--------------------------- MODULE NdsInput_proofs ---------------------------
(***************************************************************************)
(* Proofs about the key ring and the key filter, for every ring size and   *)
(* every width of the counters: the ring is well formed, no sample is torn *)
(* while it is copied, a read returns a fresh sample, and the events of    *)
(* getKey1 tell which keys are pressed.                                    *)
(***************************************************************************)
EXTENDS NdsInput, TLAPS

-----------------------------------------------------------------------------
(* Counters that wrap                                                      *)

LEMMA ModIs ==
    ASSUME NEW n \in Nat \ {0}, NEW a \in Int, NEW q \in Int, NEW s \in 0 .. n - 1, a = n * q + s
    PROVE  a % n = s
<1>1. /\ a = n * (a \div n) + (a % n)
      /\ a % n \in 0 .. n - 1
      /\ a \div n \in Int
  OBVIOUS
<1> DEFINE z == q - (a \div n)
<1>2. z \in Int /\ n * z = (a % n) - s
  BY <1>1
<1>3. z >= 1 => n * z >= n
  BY <1>2
<1>4. z <= -1 => n * z <= -n
  BY <1>2
<1>5. z = 0
  BY <1>1, <1>2, <1>3, <1>4
<1> QED BY <1>1, <1>5

\* What the modulus of a counter comes to within one turn.
LEMMA Turn ==
    ASSUME NEW n \in Nat \ {0}, NEW a \in -n .. 2 * n - 1
    PROVE  a % n = IF a < 0 THEN a + n ELSE IF a < n THEN a ELSE a - n
<1>1. CASE a < 0
  BY <1>1, ModIs, a = n * (-1) + (a + n)
<1>2. CASE a >= 0 /\ a < n
  BY <1>2, ModIs, a = n * 0 + a
<1>3. CASE a >= n
  BY <1>3, ModIs, a = n * 1 + (a - n)
<1> QED BY <1>1, <1>2, <1>3

LEMMA Params ==
    /\ Ring \in Nat /\ Ring >= 2
    /\ Word \in Nat /\ Word > 2 * Ring
BY InputAssumption

\* How far counter x is ahead of counter y.
Ahead(x, y) == (x - y) % Word

LEMMA AheadIs ==
    ASSUME NEW x \in 0 .. Word - 1, NEW y \in 0 .. Word - 1
    PROVE  /\ Ahead(x, y) = IF x < y THEN x - y + Word ELSE x - y
           /\ Ahead(x, y) \in 0 .. Word - 1
<1>1. Word \in Nat \ {0} /\ x - y \in -Word .. 2 * Word - 1
  BY Params
<1>2. Ahead(x, y) = IF x - y < 0 THEN x - y + Word ELSE IF x - y < Word THEN x - y ELSE x - y - Word
  BY <1>1, Turn DEF Ahead
<1> QED BY <1>2, Params

\* The counters before and after counter x.
LEMMA Before ==
    ASSUME NEW x \in 0 .. Word - 1
    PROVE  /\ (x - 1) % Word = IF x = 0 THEN Word - 1 ELSE x - 1
           /\ (x - 1) % Word \in 0 .. Word - 1
<1>1. Word \in Nat \ {0} /\ x - 1 \in -Word .. 2 * Word - 1
  BY Params
<1>2. (x - 1) % Word = IF x - 1 < 0 THEN x - 1 + Word ELSE IF x - 1 < Word THEN x - 1 ELSE x - 1 - Word
  BY <1>1, Turn
<1> QED BY <1>2, Params

LEMMA After ==
    ASSUME NEW x \in 0 .. Word - 1
    PROVE  /\ (x + 1) % Word = IF x = Word - 1 THEN 0 ELSE x + 1
           /\ (x + 1) % Word \in 0 .. Word - 1
<1> DEFINE a == x + 1
<1>1. Word \in Nat \ {0} /\ a \in -Word .. 2 * Word - 1
  BY Params
<1> HIDE DEF a
<1>2. a % Word = IF a < 0 THEN a + Word ELSE IF a < Word THEN a ELSE a - Word
  BY <1>1, Turn
<1> QED BY <1>2, Params DEF a

\* Counters that are not a number of turns of the ring apart have different slots.
LEMMA SlotsApart ==
    ASSUME NEW x \in 0 .. Word - 1, NEW y \in 0 .. Word - 1, Ahead(x, y) % Ring # 0
    PROVE  x % Ring # y % Ring
<1> SUFFICES ASSUME x % Ring = y % Ring PROVE FALSE
  OBVIOUS
<1> DEFINE a == x \div Ring
           b == y \div Ring
           m == Word \div Ring
           s == x % Ring
<1>1. /\ a \in Int /\ x = Ring * a + s
      /\ b \in Int /\ y = Ring * b + s
      /\ s \in Int
  BY Params
<1>2. m \in Int /\ Word = Ring * m
  BY InputAssumption
<1> HIDE DEF a, b, m, s
<1>3. PICK z \in Int : Ahead(x, y) = Ring * z
  <2>1. CASE x >= y
    <3>1. Ahead(x, y) = x - y
      BY <2>1, AheadIs
    <3>2. Ahead(x, y) = Ring * (a - b)
      BY <3>1, <1>1, Params
    <3> QED BY <3>2, <1>1
  <2>2. CASE x < y
    <3>1. Ahead(x, y) = x - y + Word
      BY <2>2, AheadIs
    <3>2. Ahead(x, y) = Ring * (a - b + m)
      BY <3>1, <1>1, <1>2, Params
    <3> QED BY <3>2, <1>1, <1>2
  <2> QED BY <2>1, <2>2, Params
<1>4. Ahead(x, y) \in Int /\ Ring \in Nat \ {0} /\ 0 \in 0 .. Ring - 1
      /\ Ahead(x, y) = Ring * z + 0
  BY <1>3, AheadIs, Params
<1>5. Ahead(x, y) % Ring = 0
  BY <1>4, ModIs
<1> QED BY <1>5

\* Counters that differ are apart, and only those.
LEMMA ApartIs ==
    ASSUME NEW x \in 0 .. Word - 1, NEW y \in 0 .. Word - 1
    PROVE  Ahead(x, y) = 0 <=> x = y
<1>1. Ahead(x, y) = IF x < y THEN x - y + Word ELSE x - y
  BY AheadIs
<1> QED BY <1>1, Params

\* A counter y between z and x, or one ahead of x: how far x is ahead of the one
\* before y.
LEMMA Between ==
    ASSUME NEW x \in 0 .. Word - 1, NEW y \in 0 .. Word - 1, NEW z \in 0 .. Word - 1,
           Ahead(y, z) >= 1, Ahead(y, z) <= Ahead(x, z) + 1
    PROVE  Ahead(x, (y - 1) % Word) = Ahead(x, z) - Ahead(y, z) + 1
<1> DEFINE t == (y - 1) % Word
<1>1. t = (IF y = 0 THEN Word - 1 ELSE y - 1) /\ t \in 0 .. Word - 1
  BY Before
<1> HIDE DEF t
<1>2. Ahead(x, z) = IF x < z THEN x - z + Word ELSE x - z
  BY AheadIs
<1>3. Ahead(y, z) = IF y < z THEN y - z + Word ELSE y - z
  BY AheadIs
<1>4. Ahead(x, t) = IF x < t THEN x - t + Word ELSE x - t
  BY <1>1, AheadIs
<1>5. Ahead(x, t) = Ahead(x, z) - Ahead(y, z) + 1
  <2>1. CASE y = 0
    BY <2>1, <1>1, <1>2, <1>3, <1>4, Params
  <2>2. CASE y # 0 /\ y < z
    BY <2>2, <1>1, <1>2, <1>3, <1>4, Params
  <2>3. CASE y # 0 /\ y >= z
    BY <2>3, <1>1, <1>2, <1>3, <1>4, Params
  <2> QED BY <2>1, <2>2, <2>3
<1> QED BY <1>5 DEF t

-----------------------------------------------------------------------------
(* The ring                                                                *)

Ranges == w \in 0 .. Word - 1 /\ r \in 0 .. Word - 1

LEMMA HeldIs ==
    ASSUME Ranges
    PROVE  Held = Ahead(w, r) /\ Held \in 0 .. Word - 1
BY AheadIs DEF Ranges, Held, Ahead

\* Where a sample goes, and that a reader that is behind is left its slot.
LEMMA WriteAtIs ==
    ASSUME Ranges
    PROVE  /\ WriteAt \in 0 .. Word - 1
           /\ Ahead(WriteAt, r) = IF Held # 0 /\ Held % Ring = 0 THEN Held - 1 ELSE Held
           /\ Held # 0 => WriteAt % Ring # r % Ring
<1> USE Params DEF Ranges
<1>1. Held = Ahead(w, r) /\ Held \in 0 .. Word - 1
  BY HeldIs
<1>2. CASE Held # 0 /\ Held % Ring = 0
  <2> DEFINE x == (w - 1) % Word
             q == Held \div Ring
  <2>1. x = (IF w = 0 THEN Word - 1 ELSE w - 1) /\ x \in 0 .. Word - 1
    BY Before
  <2> HIDE DEF x
  <2>2. Ahead(x, r) = IF x < r THEN x - r + Word ELSE x - r
    BY <2>1, AheadIs
  <2>3. Ahead(w, r) = IF w < r THEN w - r + Word ELSE w - r
    BY AheadIs
  <2>4. Ahead(x, r) = Held - 1
    <3>1. (IF w < r THEN w - r + Word ELSE w - r) = Held /\ Held >= 1
      BY <1>1, <1>2, <2>3
    <3>2. (IF x < r THEN x - r + Word ELSE x - r) = Held - 1
      BY <1>1, <2>1, <3>1
    <3> QED BY <2>2, <3>2
  <2>5. q \in Int /\ Held = Ring * q
    BY <1>1, <1>2
  <2> HIDE DEF q
  <2>6. /\ Held - 1 = Ring * (q - 1) + (Ring - 1)
        /\ Held - 1 \in Int /\ q - 1 \in Int /\ Ring - 1 \in 0 .. Ring - 1
        /\ Ring \in Nat \ {0}
    BY <1>1, <2>5
  <2>7. (Held - 1) % Ring = Ring - 1
    BY <2>6, ModIs
  <2>8. x % Ring # r % Ring
    BY <2>1, <2>4, <2>7, SlotsApart
  <2>9. WriteAt = x
    BY <1>2 DEF WriteAt, x
  <2> QED BY <1>2, <2>1, <2>4, <2>8, <2>9
<1>3. CASE ~(Held # 0 /\ Held % Ring = 0)
  <2>1. WriteAt = w
    BY <1>3 DEF WriteAt
  <2>2. Held # 0 => w % Ring # r % Ring
    BY <1>1, <1>3, SlotsApart
  <2> QED BY <1>1, <1>3, <2>1, <2>2
<1> QED BY <1>2, <1>3

\* A ring that was never overrun is full when a ring is waiting.
LEMMA FullIs ==
    ASSUME Ranges, Held <= Ring
    PROVE  Held # 0 /\ Held % Ring = 0 <=> Held = Ring
<1>1. Held \in 0 .. Ring
  BY HeldIs, Params
<1> DEFINE h == Held
<1>2. h \in -Ring .. 2 * Ring - 1 /\ Ring \in Nat \ {0}
  BY <1>1, Params
<1> HIDE DEF h
<1>3. h % Ring = IF h < 0 THEN h + Ring ELSE IF h < Ring THEN h ELSE h - Ring
  BY <1>2, Turn
<1>4. Held % Ring = IF Held < Ring THEN Held ELSE Held - Ring
  BY <1>1, <1>3, Params DEF h
<1> QED BY <1>1, <1>4, Params

\* The counters after a sample was stored.
LEMMA StoreCounts ==
    ASSUME Ranges
    PROVE  /\ (WriteAt + 1) % Word \in 0 .. Word - 1
           /\ (((WriteAt + 1) % Word) - 1) % Word = WriteAt
           /\ Held <= Ring => Ahead((WriteAt + 1) % Word, r) = IF Held = Ring THEN Ring ELSE Held + 1
<1> USE Params
<1> DEFINE x == WriteAt
           y == (x + 1) % Word
<1>1. x \in 0 .. Word - 1 /\ r \in 0 .. Word - 1
  BY WriteAtIs DEF Ranges
<1>2. Held <= Ring => Ahead(x, r) = IF Held = Ring THEN Ring - 1 ELSE Held
  BY WriteAtIs, FullIs
<1>3. Held \in 0 .. Word - 1
  BY HeldIs
<1> HIDE DEF x
<1>4. y = (IF x = Word - 1 THEN 0 ELSE x + 1) /\ y \in 0 .. Word - 1
  BY <1>1, After
<1> HIDE DEF y
<1>5. (y - 1) % Word = IF y = 0 THEN Word - 1 ELSE y - 1
  BY <1>4, Before
<1>6. (y - 1) % Word = x
  BY <1>1, <1>4, <1>5
<1>7. Ahead(y, r) = IF y < r THEN y - r + Word ELSE y - r
  BY <1>1, <1>4, AheadIs
<1>8. Ahead(x, r) = IF x < r THEN x - r + Word ELSE x - r
  BY <1>1, AheadIs
<1>9. Held <= Ring => Ahead(y, r) = IF Held = Ring THEN Ring ELSE Held + 1
  <2> SUFFICES ASSUME Held <= Ring PROVE Ahead(y, r) = Ahead(x, r) + 1
    BY <1>2, <1>3
  <2>1. Ahead(x, r) <= Ring - 1
    BY <1>2, <1>3
  <2> QED BY <1>1, <1>4, <1>7, <1>8, <2>1
<1> QED BY <1>4, <1>6, <1>9 DEF x, y

\* The newest sample.
Top == (w - 1) % Word

LEMMA TopIs ==
    ASSUME Ranges
    PROVE  Top \in 0 .. Word - 1 /\ (Held = 1 => r = Top)
<1> USE Params DEF Ranges
<1>1. Top = (IF w = 0 THEN Word - 1 ELSE w - 1) /\ Top \in 0 .. Word - 1
  BY Before DEF Top
<1>2. Held = IF w < r THEN w - r + Word ELSE w - r
  BY HeldIs, AheadIs
<1>3. Held = 1 => r = Top
  BY <1>1, <1>2
<1> QED BY <1>1, <1>3

\* An index into the ring.
LEMMA SlotIs ==
    ASSUME NEW x \in 0 .. Word - 1
    PROVE  x % Ring \in 0 .. Ring - 1
BY Params

-----------------------------------------------------------------------------
(* Type correctness                                                        *)

\* How far the write count that a context loaded is ahead of the reader.
Gap(c) == Ahead(seen[c], r)

Steps == {"idle", "loaded", "looked", "moved", "copying", "copied"}

RingTypes ==
    /\ Ranges
    /\ slot \in [0 .. Ring - 1 -> Pads]
    /\ lock \in BOOLEAN
    /\ pc \in [Ctx -> Steps]
    /\ seen \in [Ctx -> 0 .. Word - 1]
    /\ many \in [Ctx -> BOOLEAN]
    /\ at \in [Ctx -> 0 .. Ring - 1]
    /\ got \in [Ctx -> Pads]
    /\ fresh \in [Ctx -> SUBSET Pads]
    /\ latest \in Pads /\ last \in Pads
    /\ upset \subseteq Trap
    /\ pc["esc"] # "idle" => lock

\* A write count that a context relies on is at most one ahead of the writer,
\* which gives up one sample at a time, and no more than a ring ahead of the
\* reader; when the reader is about to move to it, a sample waits.
CountsInv ==
    "stale" \notin upset =>
        /\ Held <= Ring
        /\ \A c \in Ctx : Relies(c) =>
            /\ Gap(c) <= Ring /\ Gap(c) <= Held + 1
            /\ pc[c] = "looked" => Gap(c) >= 1 /\ Held >= 1

RingInv == RingTypes /\ CountsInv

LEMMA RingInit == InputInit => RingInv
<1> SUFFICES ASSUME InputInit PROVE RingInv
  OBVIOUS
<1>1. w = 0 /\ r = 0
  BY DEF InputInit
<1>2. Held = 0
  BY <1>1, Params, Turn DEF Held
<1>3. {} \in Pads
  BY InputAssumption
<1>4. RingTypes
  <2>1. 0 \in 0 .. Word - 1 /\ 0 \in 0 .. Ring - 1
    BY Params
  <2>2. at \in [Ctx -> 0 .. Ring - 1] /\ seen \in [Ctx -> 0 .. Word - 1]
    BY <2>1 DEF InputInit
  <2>3. slot \in [0 .. Ring - 1 -> Pads] /\ got \in [Ctx -> Pads]
    BY <1>3 DEF InputInit
  <2>4. pc \in [Ctx -> Steps] /\ many \in [Ctx -> BOOLEAN] /\ fresh \in [Ctx -> SUBSET Pads]
    BY DEF InputInit, Steps
  <2>5. latest \in Pads /\ last \in Pads /\ upset \subseteq Trap /\ lock \in BOOLEAN
    BY <1>3 DEF InputInit
  <2>6. pc["esc"] = "idle"
    BY DEF InputInit, Ctx
  <2>7. Ranges
    BY <1>1, <2>1 DEF Ranges
  <2> QED BY <2>2, <2>3, <2>4, <2>5, <2>6, <2>7 DEF RingTypes
<1>5. CountsInv
  BY <1>2, Params DEF InputInit, CountsInv, Relies, Ctx
<1> QED BY <1>4, <1>5 DEF RingInv

LEMMA UpsetGrows == [InputNext]_inputVars => upset \subseteq upset'
<1> SUFFICES ASSUME [InputNext]_inputVars PROVE upset \subseteq upset'
  OBVIOUS
<1>1. ASSUME NEW sample \in Pads \cup {Esc}, KeyCommand(sample) PROVE upset \subseteq upset'
  BY <1>1 DEF KeyCommand, Store, Escape
<1>2. ASSUME NEW c \in Ctx,
             Load(c) \/ Look(c) \/ Reload(c) \/ Advance(c) \/ LookUp(c) \/ Copy(c) \/ GetKey(c)
      PROVE  upset \subseteq upset'
  BY <1>2 DEF Load, Look, Reload, Advance, LookUp, Copy, GetKey
<1>3. ASSUME NEW again, GetKey1(again) PROVE upset \subseteq upset'
  BY <1>3 DEF GetKey1
<1>4. CASE EscapeReturns \/ UNCHANGED inputVars
  BY <1>4 DEF EscapeReturns, inputVars
<1> QED BY <1>1, <1>2, <1>3, <1>4 DEF InputNext

LEMMA FollowTypes ==
    ASSUME RingTypes, NEW x \in Pads, NEW f \in [Ctx -> SUBSET Pads], Follow(x, f)
    PROVE  latest' \in Pads /\ fresh' \in [Ctx -> SUBSET Pads]
BY InputAssumption DEF Follow

LEMMA RingTypesStep == RingTypes /\ [InputNext]_inputVars => RingTypes'
<1> SUFFICES ASSUME RingTypes, [InputNext]_inputVars PROVE RingTypes'
  OBVIOUS
<1> USE DEF Ctx, Trap, Steps
<1>1. 0 \in 0 .. Word - 1 /\ 0 \in 0 .. Ring - 1
  BY Params
<1>2. latest \in Pads /\ fresh \in [Ctx -> SUBSET Pads]
  BY DEF RingTypes
<1>3. ASSUME NEW sample \in Pads \cup {Esc}, KeyCommand(sample) PROVE RingTypes'
  <2> USE <1>3 DEF KeyCommand, filterVars, readVars
  <2>1. CASE sample = Esc
    <3>1. Escape
      BY <2>1
    <3>2. w' \in 0 .. Word - 1
      BY <3>1, WriteAtIs DEF Escape, RingTypes
    <3>3. latest' \in Pads /\ fresh' \in [Ctx -> SUBSET Pads]
      BY <3>1, <1>2, FollowTypes DEF Escape
    <3> QED BY <3>1, <3>2, <3>3 DEF Escape, RingTypes, Ranges
  <2>2. CASE sample # Esc
    <3>1. Store(sample) /\ sample \in Pads
      BY <2>2
    <3>2. slot' \in [0 .. Ring - 1 -> Pads]
      BY <3>1 DEF Store, RingTypes
    <3>3. w' \in 0 .. Word - 1
      BY <3>1, StoreCounts DEF Store, RingTypes
    <3> DEFINE f == [c \in Ctx |-> IF pc[c] = "idle" THEN fresh[c] ELSE fresh[c] \cup {sample}]
    <3>4. f \in [Ctx -> SUBSET Pads] /\ Follow(sample, f)
      BY <3>1 DEF Store, RingTypes
    <3> HIDE DEF f
    <3>5. latest' \in Pads /\ fresh' \in [Ctx -> SUBSET Pads]
      BY <3>1, <3>4, FollowTypes
    <3> QED BY <3>1, <3>2, <3>3, <3>5 DEF Store, RingTypes, Ranges
  <2> QED BY <2>1, <2>2
<1>4. CASE EscapeReturns
  BY <1>4 DEF EscapeReturns, RingTypes, Ranges, filterVars, readVars
<1>5. ASSUME NEW c \in Ctx, Load(c) PROVE RingTypes'
  <2> USE <1>5 DEF Load, Goes, filterVars
  <2>1. seen' \in [Ctx -> 0 .. Word - 1]
    BY DEF RingTypes, Ranges
  <2> DEFINE f == [fresh EXCEPT ![c] = {latest}]
  <2>2. f \in [Ctx -> SUBSET Pads] /\ Follow(latest, f)
    BY <1>2
  <2> HIDE DEF f
  <2>3. latest' \in Pads /\ fresh' \in [Ctx -> SUBSET Pads]
    BY <2>2, <1>2, FollowTypes
  <2> QED BY <2>1, <2>3 DEF RingTypes, Ranges, Runs
<1>6. ASSUME NEW c \in Ctx, Look(c) PROVE RingTypes'
  <2> USE <1>6 DEF Look, Goes, filterVars, ringVars
  <2>1. seen' \in [Ctx -> 0 .. Word - 1]
    BY DEF RingTypes, Ranges
  <2>2. many' \in [Ctx -> BOOLEAN]
    <3>1. Several((seen[c] - r) % Word) \in BOOLEAN
      BY DEF Several
    <3> QED BY <3>1 DEF RingTypes
  <2> QED BY <2>1, <2>2 DEF RingTypes, Ranges, Runs
<1>7. ASSUME NEW c \in Ctx, Reload(c) PROVE RingTypes'
  BY <1>7 DEF Reload, filterVars, ringVars, RingTypes, Ranges
<1>8. ASSUME NEW c \in Ctx, Advance(c) PROVE RingTypes'
  <2> USE <1>8 DEF Advance, Goes, filterVars
  <2>1. r' \in 0 .. Word - 1
    <3>1. Newest(c) \in 0 .. Word - 1
      BY Before DEF Newest, RingTypes
    <3> QED BY <3>1 DEF RingTypes, Ranges
  <2>2. latest' \in Pads /\ fresh' \in [Ctx -> SUBSET Pads]
    BY <1>2, FollowTypes
  <2>3. upset' \subseteq Trap
    BY DEF Overtaken, RingTypes
  <2>4. seen' \in [Ctx -> 0 .. Word - 1]
    BY <2>1 DEF RingTypes
  <2> QED BY <2>1, <2>2, <2>3, <2>4 DEF RingTypes, Ranges, Runs
<1>9. ASSUME NEW c \in Ctx, Copy(c) PROVE RingTypes'
  <2> USE <1>9 DEF Copy, Goes, filterVars, ringVars
  <2>1. at' \in [Ctx -> 0 .. Ring - 1]
    BY <1>1 DEF RingTypes
  <2>2. got' \in [Ctx -> Pads]
    BY DEF RingTypes
  <2> QED BY <2>1, <2>2 DEF RingTypes, Ranges, Runs
<1>10. ASSUME NEW c \in Ctx, Filter(c), last' \in {last, got[c]}, upset' \subseteq Trap
       PROVE  RingTypes'
  <2> USE <1>10 DEF Filter, Goes
  <2>1. got' \in [Ctx -> Pads] /\ fresh' \in [Ctx -> SUBSET Pads]
    BY InputAssumption DEF RingTypes
  <2>2. last' \in Pads
    BY DEF RingTypes
  <2> QED BY <2>1, <2>2 DEF RingTypes, Ranges, Runs
<1>11. ASSUME NEW c \in Ctx, GetKey(c) PROVE RingTypes'
  BY <1>10, <1>11 DEF GetKey, RingTypes
<1>12. ASSUME NEW again, GetKey1(again) PROVE RingTypes'
  BY <1>10, <1>12 DEF GetKey1, RingTypes, Remembered
<1>13. ASSUME NEW c \in Ctx, LookUp(c) PROVE RingTypes'
  <2> USE <1>13 DEF LookUp, Goes, filterVars
  <2>1. PICK count \in {r, seen[c]} : at' = [at EXCEPT ![c] = count % Ring]
    OBVIOUS
  <2>2. count % Ring \in 0 .. Ring - 1
    BY SlotIs DEF RingTypes, Ranges
  <2>3. at' \in [Ctx -> 0 .. Ring - 1]
    BY <2>1, <2>2 DEF RingTypes
  <2>4. latest' \in Pads /\ fresh' \in [Ctx -> SUBSET Pads]
    BY <1>2, FollowTypes
  <2>5. upset' \subseteq Trap
    BY DEF RingTypes
  <2>6. seen' \in [Ctx -> 0 .. Word - 1]
    BY <1>1 DEF RingTypes
  <2> QED BY <2>3, <2>4, <2>5, <2>6 DEF RingTypes, Ranges, Runs
<1>14. CASE UNCHANGED inputVars
  BY <1>14 DEF inputVars, ringVars, readVars, filterVars, RingTypes, Ranges
<1> QED BY <1>3, <1>4, <1>5, <1>6, <1>7, <1>8, <1>9, <1>11, <1>12, <1>13, <1>14 DEF InputNext

\* What a context loaded is a counter, and so is where it moves the reader.
LEMMA GapIs ==
    ASSUME RingTypes, NEW c \in Ctx
    PROVE  /\ seen[c] \in 0 .. Word - 1 /\ Newest(c) \in 0 .. Word - 1
           /\ Gap(c) \in 0 .. Word - 1 /\ Gap(c) = (seen[c] - r) % Word
           /\ Held \in 0 .. Word - 1 /\ Held = Ahead(w, r)
BY HeldIs, AheadIs, Before DEF RingTypes, Ranges, Gap, Ahead, Newest

\* Moving the reader to a write count it relied on.
LEMMA MovedCounts ==
    ASSUME RingTypes, CountsInv, "stale" \notin upset, NEW c \in Ctx, pc[c] = "looked", many[c]
    PROVE  /\ Ahead(w, Newest(c)) = Held - Gap(c) + 1
           /\ Ahead(w, Newest(c)) \in 0 .. Held
<1>1. Relies(c) /\ Gap(c) >= 1 /\ Gap(c) <= Held + 1
  BY DEF Relies, CountsInv
<1>2. Ahead(w, Newest(c)) = Held - Gap(c) + 1
  BY <1>1, GapIs, Between DEF Gap, Newest, RingTypes, Ranges
<1> QED BY <1>1, <1>2, GapIs, Params

\* The reader moves under nobody who relies on it, but for the trap.
LEMMA MovesAlone ==
    ASSUME RingTypes, NEW c \in Ctx, Advance(c), "stale" \notin upset', NEW d \in Ctx, d # c,
           Relies(d)
    PROVE  r' = r
<1>1. CASE c = "main"
  BY <1>1 DEF Advance, Goes, Runs, Relies, RingTypes, Ctx
<1>2. CASE c = "esc"
  <2>1. d = "main" /\ Overtaken(c) \subseteq upset'
    BY <1>2 DEF Ctx, Advance
  <2> QED BY <1>2, <2>1 DEF Overtaken
<1> QED BY <1>1, <1>2 DEF Ctx

LEMMA CountsStep == RingInv /\ [InputNext]_inputVars => CountsInv'
<1> SUFFICES ASSUME RingTypes, CountsInv, [InputNext]_inputVars, "stale" \notin upset'
             PROVE  /\ Held' <= Ring
                    /\ \A c \in Ctx : Relies(c)' =>
                        /\ Gap(c)' <= Ring /\ Gap(c)' <= Held' + 1
                        /\ pc'[c] = "looked" => Gap(c)' >= 1 /\ Held' >= 1
  BY DEF RingInv, CountsInv
<1> USE Params
<1>1. "stale" \notin upset
  BY UpsetGrows
<1>2. Held <= Ring /\ Held \in 0 .. Word - 1 /\ Ranges
  BY <1>1, HeldIs DEF CountsInv, RingTypes
<1>3. \A c \in Ctx : Relies(c) =>
        /\ Gap(c) <= Ring /\ Gap(c) <= Held + 1
        /\ pc[c] = "looked" => Gap(c) >= 1 /\ Held >= 1
  BY <1>1 DEF CountsInv
<1>4. \A c \in Ctx : Gap(c) \in 0 .. Word - 1 /\ seen[c] \in 0 .. Word - 1
  BY GapIs
<1>5. Held' = Ahead(w', r') /\ \A c \in Ctx : Gap(c)' = Ahead(seen'[c], r')
  BY DEF Held, Ahead, Gap
<1>6. CASE UNCHANGED <<w, r>> /\ \A c \in Ctx : Relies(c)' => Relies(c) /\ pc'[c] = pc[c] /\ seen'[c] = seen[c]
  <2>1. Held' = Held
    BY <1>6 DEF Held
  <2>2. \A c \in Ctx : Relies(c)' => Gap(c)' = Gap(c)
    BY <1>6 DEF Gap
  <2> QED BY <1>2, <1>3, <1>6, <2>1, <2>2
<1>7. ASSUME NEW sample \in Pads \cup {Esc}, KeyCommand(sample)
      PROVE  /\ Held' <= Ring
             /\ \A c \in Ctx : Relies(c)' =>
                 /\ Gap(c)' <= Ring /\ Gap(c)' <= Held' + 1
                 /\ pc'[c] = "looked" => Gap(c)' >= 1 /\ Held' >= 1
  <2>1. r' = r /\ UNCHANGED <<pc, seen, many>>
    BY <1>7 DEF KeyCommand, readVars
  <2>2. \A c \in Ctx : Gap(c)' = Gap(c) /\ Relies(c)' = Relies(c) /\ pc'[c] = pc[c]
    BY <2>1 DEF Gap, Relies
  <2>3. CASE Store(sample)
    <3>1. w' = (WriteAt + 1) % Word
      BY <2>3 DEF Store
    <3>2. Held' = IF Held = Ring THEN Ring ELSE Held + 1
      BY <1>2, <1>5, <2>1, <3>1, StoreCounts
    <3> QED BY <1>2, <1>3, <1>4, <2>2, <3>2
  <2>4. CASE Escape
    <3>1. w' = WriteAt
      BY <2>4 DEF Escape
    <3>2. Held' = IF Held = Ring THEN Held - 1 ELSE Held
      BY <1>2, <1>5, <2>1, <3>1, WriteAtIs, FullIs
    <3> QED BY <1>2, <1>3, <1>4, <2>2, <3>2
  <2> QED BY <1>7, <2>3, <2>4 DEF KeyCommand
<1>8. ASSUME NEW d \in Ctx, Load(d) \/ Look(d) \/ Reload(d)
      PROVE  /\ Held' <= Ring
             /\ \A c \in Ctx : Relies(c)' =>
                 /\ Gap(c)' <= Ring /\ Gap(c)' <= Held' + 1
                 /\ pc'[c] = "looked" => Gap(c)' >= 1 /\ Held' >= 1
  <2>1. UNCHANGED <<w, r>>
    BY <1>8 DEF Load, Look, Reload, ringVars
  <2>2. Held' = Held
    BY <2>1 DEF Held
  <2> SUFFICES ASSUME NEW c \in Ctx, Relies(c)'
               PROVE  /\ Gap(c)' <= Ring /\ Gap(c)' <= Held' + 1
                      /\ pc'[c] = "looked" => Gap(c)' >= 1 /\ Held' >= 1
    BY <1>2, <2>2
  <2>3. CASE c # d
    <3>1. Relies(c) /\ pc'[c] = pc[c] /\ seen'[c] = seen[c]
      BY <1>8, <2>3 DEF Load, Look, Reload, Goes, Relies, RingTypes
    <3>2. Gap(c)' = Gap(c)
      BY <2>1, <3>1 DEF Gap
    <3> QED BY <1>3, <2>2, <3>1, <3>2
  <2>4. CASE c = d /\ Load(d)
    <3>1. seen'[c] = w /\ pc'[c] = "loaded"
      BY <2>4 DEF Load, Goes, RingTypes
    <3>2. Gap(c)' = Held
      BY <1>5, <2>1, <2>2, <3>1
    <3> QED BY <1>2, <2>2, <3>1, <3>2
  <2>5. CASE c = d /\ Look(d)
    <3>1. pc[c] = "loaded" /\ pc'[c] = "looked" /\ many'[c] = Several((seen[c] - r) % Word)
      BY <2>5 DEF Look, Goes, RingTypes
    <3>2. many'[c] /\ Relies(c)
      BY <3>1 DEF Relies
    <3>3. seen'[c] = seen[c]
      BY <2>5, <3>2 DEF Look, RingTypes
    <3>4. Gap(c)' = Gap(c) /\ Gap(c) > 1
      BY <2>1, <3>1, <3>2, <3>3, GapIs DEF Gap, Several
    <3> QED BY <1>2, <1>3, <1>4, <2>2, <3>2, <3>4
  <2>6. CASE c = d /\ Reload(d)
    <3>1. seen'[c] = w /\ pc[c] = "looked" /\ Relies(c)
      BY <2>6 DEF Reload, Relies, RingTypes
    <3>2. Gap(c)' = Held
      BY <1>5, <2>1, <2>2, <3>1
    <3> QED BY <1>2, <1>3, <2>2, <3>1, <3>2
  <2> QED BY <1>8, <2>3, <2>4, <2>5, <2>6
<1>9. ASSUME NEW d \in Ctx, Advance(d)
      PROVE  /\ Held' <= Ring
             /\ \A c \in Ctx : Relies(c)' =>
                 /\ Gap(c)' <= Ring /\ Gap(c)' <= Held' + 1
                 /\ pc'[c] = "looked" => Gap(c)' >= 1 /\ Held' >= 1
  <2>1. w' = w /\ pc[d] = "looked" /\ ~Relies(d)' /\ r' \in {r, Newest(d)}
    BY <1>9 DEF Advance, Goes, Relies, RingTypes
  <2>2. \A c \in Ctx : Relies(c)' => c # d /\ Relies(c) /\ pc'[c] = pc[c] /\ seen'[c] = seen[c]
    BY <1>9, <2>1 DEF Advance, Goes, Relies, RingTypes
  <2>3. CASE r' = r
    BY <1>6, <2>1, <2>2, <2>3
  <2>4. CASE r' # r
    <3>1. many[d] /\ r' = Newest(d)
      BY <1>9, <2>4 DEF Advance
    <3>2. Held' \in 0 .. Held
      BY <1>1, <1>5, <2>1, <3>1, MovedCounts
    <3>3. \A c \in Ctx : ~Relies(c)'
      BY <1>9, <2>2, <2>4, MovesAlone
    <3> QED BY <1>2, <3>2, <3>3
  <2> QED BY <2>3, <2>4
<1>10. ASSUME NEW d \in Ctx, LookUp(d) \/ Copy(d) \/ Filter(d)
       PROVE  UNCHANGED <<w, r>> /\ \A c \in Ctx : Relies(c)' => Relies(c) /\ pc'[c] = pc[c] /\ seen'[c] = seen[c]
  BY <1>10 DEF LookUp, Copy, Filter, Goes, ringVars, Relies, RingTypes
<1>11. CASE EscapeReturns \/ UNCHANGED inputVars
  <2>1. UNCHANGED <<w, r, pc, seen, many>>
    BY <1>11 DEF EscapeReturns, inputVars, ringVars, readVars
  <2>2. UNCHANGED <<w, r>> /\ \A c \in Ctx : Relies(c)' => Relies(c) /\ pc'[c] = pc[c] /\ seen'[c] = seen[c]
    BY <2>1 DEF Relies
  <2> QED BY <1>6, <2>2
<1>12. CASE InputNext
  <2>1. \/ \E sample \in Pads \cup {Esc} : KeyCommand(sample)
        \/ EscapeReturns
        \/ \E d \in Ctx : Load(d) \/ Look(d) \/ Reload(d) \/ Advance(d)
        \/ \E d \in Ctx : LookUp(d) \/ Copy(d) \/ Filter(d)
    BY <1>12 DEF InputNext, GetKey, GetKey1, Ctx
  <2> QED BY <1>6, <1>7, <1>8, <1>9, <1>10, <1>11, <2>1
<1> QED BY <1>11, <1>12

LEMMA RingStep == RingInv /\ [InputNext]_inputVars => RingInv'
BY RingTypesStep, CountsStep DEF RingInv

\* The ring, its readers and the filter keep their types; however the commands
\* and the loads and stores of ds2_getrawInput interleave, the reader is never
\* ahead of the writer nor more than a ring behind it until it is stored from a
\* write count loaded before the escape function read on (test.c:541-544).
THEOREM InputTypeCorrect == InputSpec => []InputTypeOK
<1>1. RingInv => InputTypeOK
  BY DEF RingInv, RingTypes, CountsInv, Ranges, InputTypeOK, Steps
<1> QED BY <1>1, RingInit, RingStep, PTL DEF InputSpec

-----------------------------------------------------------------------------
(* Copies                                                                  *)

\* The slot that is copied is the reader's, and there is a sample in it.
CopyInv ==
    upset \cap {"empty", "overtaken"} = {} =>
        \A c \in Ctx : pc[c] = "copying" => at[c] = r % Ring /\ Held # 0

LEMMA CopyStep == RingInv /\ CopyInv /\ [InputNext]_inputVars => CopyInv'
<1> SUFFICES ASSUME RingTypes, RingTypes', CopyInv, [InputNext]_inputVars,
                    upset' \cap {"empty", "overtaken"} = {},
                    NEW c \in Ctx, pc'[c] = "copying"
             PROVE  at'[c] = r' % Ring /\ Held' # 0
  BY RingTypesStep DEF CopyInv, RingInv
<1>1. upset \cap {"empty", "overtaken"} = {}
  BY UpsetGrows
<1>2. pc[c] = "copying" => at[c] = r % Ring /\ Held # 0
  BY <1>1 DEF CopyInv
<1>3. Held' # 0 <=> w' # r'
  <2>1. Held' = Ahead(w', r')
    BY DEF Held, Ahead
  <2> QED BY <2>1, ApartIs DEF RingTypes, Ranges
<1>4. CASE UNCHANGED <<w, r>> /\ pc[c] = "copying" /\ at'[c] = at[c]
  BY <1>2, <1>4 DEF Held
<1>5. ASSUME NEW sample \in Pads \cup {Esc}, KeyCommand(sample)
      PROVE  at'[c] = r' % Ring /\ Held' # 0
  <2>1. UNCHANGED <<pc, at, r>>
    BY <1>5 DEF KeyCommand, readVars
  <2>2. CASE Store(sample)
    <3>1. w' # r
      BY <2>1, <2>2 DEF Store
    <3> QED BY <1>2, <1>3, <2>1, <3>1
  <2>3. CASE Escape
    <3>1. w' = WriteAt /\ Held # 0
      BY <1>2, <2>1, <2>3 DEF Escape
    <3>2. WriteAt # r
      BY <3>1, WriteAtIs DEF RingTypes
    <3> QED BY <1>2, <1>3, <2>1, <3>1, <3>2
  <2> QED BY <1>5, <2>2, <2>3 DEF KeyCommand
<1>6. ASSUME NEW d \in Ctx, Load(d) \/ Look(d) \/ Reload(d) \/ Copy(d) \/ Filter(d)
      PROVE  UNCHANGED <<w, r>> /\ pc[c] = "copying" /\ at'[c] = at[c]
  BY <1>6 DEF Load, Look, Reload, Copy, Filter, Goes, RingTypes, ringVars
<1>7. ASSUME NEW d \in Ctx, Advance(d) PROVE at'[c] = r' % Ring /\ Held' # 0
  <2>1. d # c /\ pc[c] = "copying" /\ at'[c] = at[c] /\ w' = w
    BY <1>7 DEF Advance, Goes, RingTypes
  <2>2. c = "main" /\ d = "esc"
    BY <1>7, <2>1 DEF Advance, Goes, Runs, RingTypes, Ctx
  <2>3. r' = r
    <3>1. Overtaken("esc") \subseteq upset' /\ ~Relies("main")
      BY <1>7, <2>1, <2>2 DEF Advance, Relies
    <3> QED BY <2>1, <2>2, <3>1 DEF Overtaken
  <2> QED BY <2>1, <2>3, <1>4
<1>8. ASSUME NEW d \in Ctx, LookUp(d) PROVE at'[c] = r' % Ring /\ Held' # 0
  <2>1. CASE d = c
    <3>1. PICK count \in {r, seen[c]} :
              /\ at' = [at EXCEPT ![c] = count % Ring]
              /\ (IF count # r THEN {"overtaken"} ELSE {}) \subseteq upset'
              /\ (IF count = w THEN {"empty"} ELSE {}) \subseteq upset'
      BY <1>8, <2>1 DEF LookUp
    <3>2. count = r /\ count # w /\ UNCHANGED <<w, r>>
      BY <1>8, <3>1 DEF LookUp
    <3> QED BY <3>1, <3>2, <1>3 DEF RingTypes
  <2>2. CASE d # c
    <3>1. UNCHANGED <<w, r>> /\ pc[c] = "copying" /\ at'[c] = at[c]
      BY <1>8, <2>2 DEF LookUp, Goes, RingTypes
    <3> QED BY <3>1, <1>4
  <2> QED BY <2>1, <2>2
<1>9. CASE EscapeReturns \/ UNCHANGED inputVars
  BY <1>4, <1>9 DEF EscapeReturns, inputVars, ringVars, readVars
<1> QED BY <1>4, <1>5, <1>6, <1>7, <1>8, <1>9 DEF InputNext, GetKey, GetKey1, Ctx

\* A command writes another slot than the one that is copied.
LEMMA WholeStep ==
    ASSUME RingInv, CopyInv, [InputNext]_inputVars,
           upset \cap {"empty", "overtaken"} = {}, NEW c \in Ctx, pc[c] = "copying"
    PROVE  slot'[at[c]] = slot[at[c]]
<1>1. at[c] = r % Ring /\ Held # 0
  BY DEF CopyInv
<1>2. ASSUME NEW sample \in Pads \cup {Esc}, KeyCommand(sample)
      PROVE  slot'[at[c]] = slot[at[c]]
  <2>1. CASE Store(sample)
    <3>1. WriteAt % Ring # r % Ring
      BY <1>1, WriteAtIs DEF RingInv, RingTypes
    <3> QED BY <2>1, <3>1, <1>1 DEF Store, RingInv, RingTypes
  <2>2. CASE Escape
    BY <2>2 DEF Escape
  <2> QED BY <1>2, <2>1, <2>2 DEF KeyCommand
<1>3. ASSUME NEW d \in Ctx,
             Load(d) \/ Look(d) \/ Reload(d) \/ Advance(d) \/ LookUp(d) \/ Copy(d) \/ Filter(d)
      PROVE  slot' = slot
  BY <1>3 DEF Load, Look, Reload, Advance, LookUp, Copy, Filter, ringVars
<1>4. CASE EscapeReturns \/ UNCHANGED inputVars
  BY <1>4 DEF EscapeReturns, inputVars, ringVars
<1> QED BY <1>2, <1>3, <1>4 DEF InputNext, GetKey, GetKey1, Ctx

\* No command writes the slot that is being copied, for every ring size and
\* every width of the counters and however old the stored read count, unless
\* there was no key to read or the escape function read on in the meantime.
THEOREM CopiesAreWhole == InputSpec => CopyIsWhole
<1>1. InputInit => CopyInv
  BY DEF InputInit, CopyInv, Ctx
<1>2. RingInv /\ CopyInv /\ [InputNext]_inputVars =>
        [\A c \in Ctx : (pc[c] = "copying" /\ upset \cap {"empty", "overtaken"} = {})
                            => slot'[at[c]] = slot[at[c]]]_inputVars
  BY WholeStep
<1> QED BY <1>1, <1>2, RingInit, RingStep, CopyStep, PTL DEF InputSpec, CopyIsWhole

-----------------------------------------------------------------------------
(* Freshness                                                               *)

Fresh == {"dropped", "overtaken", "stale"}

\* What a context's read has to do with the samples that were the newest during
\* it: where it goes, where it copies, and what it copied.
ReadInv(c) ==
    /\ pc[c] # "idle" => latest \in fresh[c]
    /\ Relies(c) => Gap(c) <= Held /\ (Gap(c) >= 1 => slot[Newest(c) % Ring] \in fresh[c])
    /\ (pc[c] = "loaded" /\ Gap(c) <= 1) => slot[r % Ring] \in fresh[c]
    /\ (pc[c] = "looked" /\ ~many[c]) => slot[r % Ring] \in fresh[c]
    /\ pc[c] = "moved" => slot[r % Ring] \in fresh[c]
    /\ pc[c] = "copying" => at[c] = r % Ring /\ slot[at[c]] \in fresh[c]
    /\ pc[c] = "copied" => got[c] \in fresh[c]

\* The newest sample is where the reader will look for it; a read has seen it
\* come, and the program's has seen all that the escape function's inside it has.
FreshInv ==
    upset \cap Fresh = {} =>
        /\ Held >= 1 => slot[Top % Ring] = latest
        /\ Held = 0 => slot[r % Ring] = latest
        /\ (pc["main"] # "idle" /\ pc["esc"] # "idle") => fresh["esc"] \subseteq fresh["main"]
        /\ \A c \in Ctx : ReadInv(c)

\* The parts of the invariant while nothing is lost.
LEMMA FreshParts ==
    ASSUME RingInv, FreshInv, upset \cap Fresh = {}
    PROVE  /\ "stale" \notin upset /\ Held <= Ring /\ Held \in 0 .. Word - 1
           /\ Held >= 1 => slot[Top % Ring] = latest
           /\ Held = 0 => slot[r % Ring] = latest
           /\ (pc["main"] # "idle" /\ pc["esc"] # "idle") => fresh["esc"] \subseteq fresh["main"]
           /\ \A c \in Ctx : ReadInv(c) /\ Gap(c) \in 0 .. Word - 1
BY HeldIs, GapIs DEF RingInv, RingTypes, CountsInv, FreshInv, Fresh

\* Storing a sample changes no slot but its own.
LEMMA FreshStore ==
    ASSUME RingInv, FreshInv, NEW sample \in Pads, KeyCommand(sample), Store(sample),
           upset' \cap Fresh = {}, upset \cap Fresh = {}
    PROVE  FreshInv'
<1> USE DEF KeyCommand, Store, readVars
<1>1. WriteAt \in 0 .. Word - 1 /\ Held <= Ring /\ Held \in 0 .. Word - 1 /\ Ranges
  BY WriteAtIs, FreshParts DEF RingInv, RingTypes
<1>2. \A x \in 0 .. Word - 1 : slot'[x % Ring] \in {slot[x % Ring], sample}
  BY <1>1, SlotIs DEF RingInv, RingTypes
<1>3. Top' = WriteAt /\ slot'[WriteAt % Ring] = sample
  BY <1>1, StoreCounts, SlotIs DEF Top, RingInv, RingTypes
<1>4. latest' = sample
  BY DEF Follow, Lost, Fresh
<1>5. \A c \in Ctx : fresh'[c] = IF pc[c] = "idle" THEN fresh[c] ELSE fresh[c] \cup {sample}
  BY DEF Follow, Lost, Fresh
<1>6. Held' >= Held /\ Held' >= 1
  <2>1. Held' = Ahead((WriteAt + 1) % Word, r)
    BY DEF Held, Ahead
  <2> QED BY <1>1, <2>1, StoreCounts, Params
<1>7. ASSUME NEW c \in Ctx PROVE ReadInv(c)'
  <2>1. /\ Gap(c)' = Gap(c) /\ Relies(c)' = Relies(c) /\ Newest(c)' = Newest(c) /\ r' = r
        /\ pc' = pc /\ many' = many /\ at' = at /\ got' = got
    BY DEF Gap, Relies, Newest
  <2>2. ReadInv(c) /\ Gap(c) \in 0 .. Word - 1 /\ Newest(c) \in 0 .. Word - 1 /\ r \in 0 .. Word - 1
    BY <1>1, FreshParts, GapIs DEF RingInv, Ranges
  <2>3. pc[c] # "idle" => sample \in fresh'[c] /\ fresh[c] \subseteq fresh'[c]
    BY <1>5
  <2>4. slot'[Newest(c) % Ring] \in {slot[Newest(c) % Ring], sample}
        /\ slot'[r % Ring] \in {slot[r % Ring], sample}
    BY <1>2, <2>2
  <2>5. Relies(c) => pc[c] # "idle"
    BY DEF Relies
  <2>6. Gap(c) <= Held => Gap(c) <= Held'
    <3>1. Held' = Ahead((WriteAt + 1) % Word, r)
      BY DEF Held, Ahead
    <3>2. Held' = IF Held = Ring THEN Ring ELSE Held + 1
      BY <1>1, <3>1, StoreCounts
    <3> QED BY <1>1, <2>2, <3>2, Params
  <2> QED BY <1>4, <2>1, <2>2, <2>3, <2>4, <2>5, <2>6 DEF ReadInv
<1>8. (pc'["main"] # "idle" /\ pc'["esc"] # "idle") => fresh'["esc"] \subseteq fresh'["main"]
  BY <1>5, FreshParts DEF Ctx
<1>9. Held' >= 1 => slot'[Top' % Ring] = latest'
  BY <1>3, <1>4
<1>10. Held' # 0
  BY <1>6
<1> QED BY <1>7, <1>8, <1>9, <1>10 DEF FreshInv

\* A context that begins its read, works out how much there is, or loads again.
LEMMA FreshLook ==
    ASSUME RingInv, FreshInv, NEW d \in Ctx, Load(d) \/ Look(d) \/ Reload(d), upset \cap Fresh = {}
    PROVE  FreshInv'
<1>1. /\ UNCHANGED <<w, r, slot, at, got, upset>> /\ latest' = latest
      /\ pc'["main"] # "idle" /\ pc["main"] = "idle" => d = "main"
  BY DEF Load, Look, Reload, ringVars, Goes, Follow, Lost, Fresh, RingInv, RingTypes, Ctx
<1>2. Held' = Held /\ Top' = Top
  BY <1>1 DEF Held, Top
<1>3. /\ Held <= Ring /\ Held \in 0 .. Word - 1 /\ Ranges
      /\ Held >= 1 => slot[Top % Ring] = latest
      /\ Held = 0 => slot[r % Ring] = latest
      /\ (pc["main"] # "idle" /\ pc["esc"] # "idle") => fresh["esc"] \subseteq fresh["main"]
      /\ \A c \in Ctx : ReadInv(c) /\ Gap(c) \in 0 .. Word - 1
  BY FreshParts DEF RingInv, RingTypes
<1>4. \A c \in Ctx \ {d} : /\ pc'[c] = pc[c] /\ seen'[c] = seen[c] /\ many'[c] = many[c]
                          /\ fresh'[c] = fresh[c]
  BY DEF Load, Look, Reload, Goes, ringVars, Follow, Lost, Fresh, RingInv, RingTypes
<1>5. ASSUME NEW c \in Ctx \ {d} PROVE ReadInv(c)'
  <2>1. Gap(c)' = Gap(c) /\ Relies(c)' = Relies(c) /\ Newest(c)' = Newest(c)
    BY <1>1, <1>4 DEF Gap, Relies, Newest
  <2> QED BY <1>1, <1>2, <1>3, <1>4, <2>1 DEF ReadInv
<1>6. Held = 1 => slot[r % Ring] = latest
  BY <1>3, TopIs
<1>7. CASE Load(d)
  <2>1. /\ pc[d] = "idle" /\ pc'[d] = "loaded" /\ seen'[d] = w /\ fresh'[d] = {latest}
        /\ Runs(d)
    BY <1>1, <1>7 DEF Load, Goes, Follow, Lost, Fresh, RingInv, RingTypes
  <2>2. Gap(d)' = Held /\ Newest(d)' = Top
    BY <1>1, <1>3, <2>1, HeldIs DEF Gap, Newest, Top, Ahead, Held
  <2>3. Held <= 1 => slot[r % Ring] = latest
    BY <1>3, <1>6
  <2>4. ReadInv(d)'
    BY <1>1, <1>2, <1>3, <2>1, <2>2, <2>3 DEF ReadInv
  <2>5. (pc'["main"] # "idle" /\ pc'["esc"] # "idle") => fresh'["esc"] \subseteq fresh'["main"]
    <3>1. CASE d = "main"
      BY <1>4, <2>1, <3>1 DEF Runs, RingInv, RingTypes, Ctx
    <3>2. CASE d = "esc"
      <4>1. pc["main"] # "idle" => latest \in fresh["main"]
        BY <1>3 DEF ReadInv, Ctx
      <4> QED BY <1>4, <2>1, <3>2, <4>1 DEF Ctx
    <3> QED BY <3>1, <3>2 DEF Ctx
  <2> QED BY <1>1, <1>2, <1>3, <1>5, <2>4, <2>5 DEF FreshInv
<1>8. CASE Look(d) \/ Reload(d)
  <2>1. /\ pc[d] # "idle" /\ pc'[d] = "looked" /\ fresh' = fresh
        /\ \A c \in Ctx : pc'[c] = "idle" <=> pc[c] = "idle"
    BY <1>8 DEF Look, Reload, Goes, ringVars, RingInv, RingTypes
  <2>2. latest \in fresh[d] /\ ReadInv(d)
    BY <1>3, <2>1 DEF ReadInv
  <2>3. ReadInv(d)'
    <3>1. CASE Look(d)
      <4>1. /\ pc[d] = "loaded" /\ Relies(d) /\ many'[d] = Several(Gap(d))
            /\ many'[d] => seen'[d] = seen[d]
        BY <3>1, GapIs DEF Look, Goes, Relies, RingInv, RingTypes
      <4>2. many'[d] => Gap(d)' = Gap(d) /\ Newest(d)' = Newest(d)
        BY <1>1, <4>1 DEF Gap, Newest
      <4>3. ~many'[d] => Gap(d) <= 1
        <5>1. Gap(d) <= Held /\ Gap(d) \in 0 .. Word - 1
          BY <1>3, <2>2, <4>1 DEF ReadInv
        <5>2. 2 * Gap(d) < Word
          BY <1>3, <5>1, Params
        <5>3. many'[d] <=> Gap(d) > 1
          BY <4>1, <5>2 DEF Several
        <5> QED BY <5>1, <5>3, Params
      <4>4. Relies(d)' => many'[d]
        BY <2>1 DEF Relies
      <4> QED BY <1>1, <1>2, <2>1, <2>2, <4>1, <4>2, <4>3, <4>4 DEF ReadInv
    <3>2. CASE Reload(d)
      <4>1. pc[d] = "looked" /\ many[d] /\ many'[d] /\ seen'[d] = w
        BY <3>2 DEF Reload, RingInv, RingTypes
      <4>2. Gap(d)' = Held /\ Newest(d)' = Top
        BY <1>1, <1>3, <4>1, HeldIs DEF Gap, Newest, Top, Ahead, Held
      <4> QED BY <1>1, <1>2, <1>3, <2>1, <2>2, <4>1, <4>2 DEF ReadInv
    <3> QED BY <1>8, <3>1, <3>2
  <2>4. (pc'["main"] # "idle" /\ pc'["esc"] # "idle") => fresh'["esc"] \subseteq fresh'["main"]
    BY <1>3, <2>1 DEF Ctx
  <2> QED BY <1>1, <1>2, <1>3, <1>5, <2>3, <2>4 DEF FreshInv
<1> QED BY <1>7, <1>8

\* The reader moves to a sample that was the newest during the read of who moves
\* it, and of whose read that is inside.
LEMMA FreshAdvance ==
    ASSUME RingInv, FreshInv, NEW c \in Ctx, Advance(c), upset' \cap Fresh = {},
           upset \cap Fresh = {}
    PROVE  FreshInv'
<1>1. /\ pc[c] = "looked" /\ pc'[c] = "moved" /\ Runs(c)
      /\ r' = IF many[c] THEN Newest(c) ELSE r
      /\ UNCHANGED <<w, slot, at, got>>
      /\ latest' = latest /\ fresh' = fresh
      /\ \A d \in Ctx \ {c} : pc'[d] = pc[d] /\ seen'[d] = seen[d] /\ many'[d] = many[d]
  BY DEF Advance, Goes, Follow, Lost, Fresh, RingInv, RingTypes
<1>2. /\ "stale" \notin upset /\ "stale" \notin upset' /\ "overtaken" \notin upset'
      /\ Held <= Ring /\ Held \in 0 .. Word - 1 /\ RingTypes
      /\ Held >= 1 => slot[Top % Ring] = latest
      /\ Held = 0 => slot[r % Ring] = latest
      /\ (pc["main"] # "idle" /\ pc["esc"] # "idle") => fresh["esc"] \subseteq fresh["main"]
      /\ \A d \in Ctx : ReadInv(d) /\ Gap(d) \in 0 .. Word - 1
  BY FreshParts DEF RingInv, Fresh
<1>3. Top' = Top
  BY <1>1 DEF Top
<1>4. slot[r' % Ring] \in fresh[c]
  <2>1. CASE many[c]
    <3>1. Relies(c) /\ Gap(c) >= 1
      BY <1>1, <1>2, <2>1 DEF Relies, RingInv, CountsInv
    <3> QED BY <1>1, <1>2, <2>1, <3>1 DEF ReadInv
  <2>2. CASE ~many[c]
    BY <2>2, <1>1, <1>2 DEF ReadInv
  <2> QED BY <2>1, <2>2
<1>5. /\ Held' >= 1 => slot[Top % Ring] = latest
      /\ Held' = 0 => slot[r' % Ring] = latest
  <2>1. CASE many[c]
    <3>1. Held' = Held - Gap(c) + 1 /\ Relies(c)
      BY <1>1, <1>2, <2>1, MovedCounts DEF Held, Ahead, Relies, RingInv
    <3>2. Gap(c) <= Held /\ Gap(c) >= 1
      BY <1>1, <1>2, <2>1, <3>1 DEF ReadInv, RingInv, CountsInv
    <3>3. Held >= 1 /\ Held' >= 1
      BY <1>2, <3>1, <3>2
    <3> QED BY <1>2, <3>3
  <2>2. CASE ~many[c]
    <3>1. Held' = Held
      BY <1>1, <2>2 DEF Held
    <3> QED BY <3>1, <2>2, <1>1, <1>2
  <2> QED BY <2>1, <2>2
<1>6. ReadInv(c)'
  <2>1. ~Relies(c)'
    BY <1>1 DEF Relies
  <2>2. latest \in fresh[c]
    BY <1>1, <1>2 DEF ReadInv
  <2> QED BY <1>1, <1>4, <2>1, <2>2 DEF ReadInv
<1>7. ASSUME NEW d \in Ctx \ {c} PROVE ReadInv(d)'
  <2>1. Relies(d)' = Relies(d) /\ Newest(d)' = Newest(d)
    BY <1>1 DEF Relies, Newest
  <2>2. CASE r' = r
    <3>1. Gap(d)' = Gap(d) /\ Held' = Held
      BY <1>1, <2>2 DEF Gap, Held
    <3> QED BY <1>1, <1>2, <2>1, <2>2, <3>1 DEF ReadInv
  <2>3. CASE r' # r
    <3>1. ~Relies(d)
      BY <1>2, <2>3, MovesAlone
    <3>2. CASE c = "main"
      <4>1. d = "esc" /\ pc[d] = "idle"
        BY <1>1, <1>2, <3>2 DEF Runs, RingTypes, Ctx
      <4> QED BY <1>1, <2>1, <3>1, <4>1 DEF ReadInv
    <3>3. CASE c = "esc"
      <4>1. d = "main" /\ pc[d] # "copying"
        <5>1. d = "main"
          BY <3>3 DEF Ctx
        <5>2. Overtaken(c) \subseteq upset'
          BY DEF Advance
        <5> QED BY <1>2, <2>3, <3>1, <3>3, <5>1, <5>2 DEF Overtaken
      <4>2. pc[d] # "idle" => slot[r' % Ring] \in fresh[d]
        BY <1>1, <1>2, <1>4, <3>3, <4>1
      <4> QED BY <1>1, <1>2, <2>1, <3>1, <4>1, <4>2 DEF ReadInv, Relies
    <3> QED BY <3>2, <3>3 DEF Ctx
  <2> QED BY <2>2, <2>3
<1>8. (pc'["main"] # "idle" /\ pc'["esc"] # "idle") => fresh'["esc"] \subseteq fresh'["main"]
  BY <1>1, <1>2 DEF Ctx
<1> QED BY <1>1, <1>3, <1>5, <1>6, <1>7, <1>8 DEF FreshInv

\* The slot that is looked up is the reader's, but for the trap.
LEMMA FreshLookUp ==
    ASSUME RingInv, FreshInv, NEW c \in Ctx, LookUp(c), upset' \cap Fresh = {},
           upset \cap Fresh = {}
    PROVE  FreshInv'
<1>1. /\ pc[c] = "moved" /\ pc'[c] = "copying"
      /\ UNCHANGED <<w, r, slot, many, got>>
      /\ latest' = latest /\ fresh' = fresh
      /\ \A d \in Ctx \ {c} : pc'[d] = pc[d] /\ seen'[d] = seen[d] /\ at'[d] = at[d]
  BY DEF LookUp, Goes, Follow, Lost, Fresh, RingInv, RingTypes
<1>2. at'[c] = r % Ring
  <2>1. PICK count \in {r, seen[c]} :
            /\ at' = [at EXCEPT ![c] = count % Ring]
            /\ (IF count # r THEN {"overtaken"} ELSE {}) \subseteq upset'
    BY DEF LookUp
  <2>2. count = r
    BY <2>1 DEF Fresh
  <2> QED BY <2>1, <2>2 DEF RingInv, RingTypes
<1>3. Held' = Held /\ Top' = Top
  BY <1>1 DEF Held, Top
<1>4. ReadInv(c)'
  BY <1>1, <1>2, FreshParts DEF ReadInv, Relies
<1>5. ASSUME NEW d \in Ctx \ {c} PROVE ReadInv(d)'
  <2>1. Gap(d)' = Gap(d) /\ Relies(d)' = Relies(d) /\ Newest(d)' = Newest(d)
    BY <1>1 DEF Gap, Relies, Newest
  <2> QED BY <1>1, <1>3, <2>1, FreshParts DEF ReadInv
<1>6. (pc'["main"] # "idle" /\ pc'["esc"] # "idle") => fresh'["esc"] \subseteq fresh'["main"]
  BY <1>1, FreshParts DEF Ctx
<1> QED BY <1>1, <1>3, <1>4, <1>5, <1>6, FreshParts DEF FreshInv

LEMMA FreshStep == RingInv /\ FreshInv /\ [InputNext]_inputVars => FreshInv'
<1> SUFFICES ASSUME RingInv, FreshInv, [InputNext]_inputVars, upset' \cap Fresh = {}
             PROVE  FreshInv'
  BY DEF FreshInv
<1>1. upset \cap Fresh = {}
  BY UpsetGrows
<1>2. CASE UNCHANGED <<w, r, slot, latest, fresh, pc, seen, many, at, got>>
  <2>1. Held' = Held /\ Top' = Top
    BY <1>2 DEF Held, Top
  <2>2. \A c \in Ctx : Gap(c)' = Gap(c) /\ Relies(c)' = Relies(c) /\ Newest(c)' = Newest(c)
    BY <1>2 DEF Gap, Relies, Newest
  <2>3. \A c \in Ctx : ReadInv(c)'
    BY <1>1, <1>2, <2>1, <2>2, FreshParts DEF ReadInv
  <2> QED BY <1>1, <1>2, <2>1, <2>3, FreshParts DEF FreshInv
<1>3. ASSUME NEW sample \in Pads \cup {Esc}, KeyCommand(sample) PROVE FreshInv'
  <2>1. CASE sample = Esc
    <3>1. Escape
      BY <1>3, <2>1 DEF KeyCommand
    <3>2. w' = w
      BY <3>1 DEF Escape, Fresh
    <3>3. latest' = latest /\ fresh' = fresh
      BY <3>1 DEF Escape, Follow, Lost, Fresh
    <3> QED BY <1>2, <1>3, <3>1, <3>2, <3>3 DEF KeyCommand, Escape, readVars
  <2>2. CASE sample # Esc
    BY <1>1, <1>3, <2>2, FreshStore DEF KeyCommand
  <2> QED BY <2>1, <2>2
<1>4. ASSUME NEW c \in Ctx, Load(c) \/ Look(c) \/ Reload(c) PROVE FreshInv'
  BY <1>1, <1>4, FreshLook
<1>5. ASSUME NEW c \in Ctx, Advance(c) PROVE FreshInv'
  BY <1>1, <1>5, FreshAdvance
<1>6. ASSUME NEW c \in Ctx, LookUp(c) PROVE FreshInv'
  BY <1>1, <1>6, FreshLookUp
<1>7. ASSUME NEW c \in Ctx, Copy(c) \/ Filter(c) PROVE FreshInv'
  <2>1. /\ UNCHANGED <<w, r, slot, latest, seen, many>>
        /\ \A d \in Ctx \ {c} : pc'[d] = pc[d] /\ fresh'[d] = fresh[d] /\ at'[d] = at[d] /\ got'[d] = got[d]
        /\ pc[c] \in {"copying", "copied"}
    BY <1>7 DEF Copy, Filter, Goes, RingInv, RingTypes, ringVars
  <2>2. Held' = Held /\ Top' = Top
    BY <2>1 DEF Held, Top
  <2>3. ASSUME NEW d \in Ctx \ {c} PROVE ReadInv(d)'
    <3>1. Gap(d)' = Gap(d) /\ Relies(d)' = Relies(d) /\ Newest(d)' = Newest(d)
      BY <2>1 DEF Gap, Relies, Newest
    <3> QED BY <1>1, <2>1, <2>2, <3>1, FreshParts DEF ReadInv
  <2>4. CASE Copy(c)
    <3>1. pc[c] = "copying" /\ pc'[c] = "copied" /\ got'[c] = slot[at[c]] /\ fresh' = fresh
      BY <2>4 DEF Copy, Goes, RingInv, RingTypes, ringVars
    <3>2. ReadInv(c)'
      BY <1>1, <2>1, <3>1, FreshParts DEF ReadInv, Relies
    <3>3. (pc'["main"] # "idle" /\ pc'["esc"] # "idle") => fresh'["esc"] \subseteq fresh'["main"]
      BY <1>1, <2>1, <3>1, FreshParts DEF Ctx
    <3> QED BY <1>1, <2>1, <2>2, <2>3, <3>2, <3>3, FreshParts DEF FreshInv
  <2>5. CASE Filter(c)
    <3>1. pc'[c] = "idle"
      BY <2>5 DEF Filter, Goes, RingInv, RingTypes
    <3>2. ReadInv(c)'
      BY <3>1 DEF ReadInv, Relies
    <3>3. (pc'["main"] # "idle" /\ pc'["esc"] # "idle") => fresh'["esc"] \subseteq fresh'["main"]
      BY <3>1 DEF Ctx
    <3> QED BY <1>1, <2>1, <2>2, <2>3, <3>2, <3>3, FreshParts DEF FreshInv
  <2> QED BY <1>7, <2>4, <2>5
<1>8. CASE EscapeReturns \/ UNCHANGED inputVars
  BY <1>2, <1>8 DEF EscapeReturns, inputVars, ringVars, readVars
<1> QED BY <1>3, <1>4, <1>5, <1>6, <1>7, <1>8 DEF InputNext, GetKey, GetKey1, Ctx

\* A read returns a sample that was the newest at some time during the read,
\* for every ring size, unless the escape key took a sample out of a full ring
\* or the escape function moved the reader in the middle of a read.
THEOREM ReadsAreFresh == InputSpec => []ReadIsFresh
<1>1. InputInit => FreshInv
  <2> SUFFICES ASSUME InputInit PROVE FreshInv
    OBVIOUS
  <2>1. w = 0 /\ r = 0 /\ 0 % Ring \in 0 .. Ring - 1
    BY SlotIs, Params DEF InputInit
  <2>2. Held = 0
    BY <2>1, Turn, Params DEF Held
  <2> QED BY <2>1, <2>2 DEF InputInit, FreshInv, ReadInv, Relies, Ctx
<1>2. FreshInv => ReadIsFresh
  BY DEF FreshInv, ReadInv, ReadIsFresh, Fresh
<1> QED BY <1>1, <1>2, RingInit, RingStep, FreshStep, PTL DEF InputSpec

-----------------------------------------------------------------------------
(* Events                                                                  *)

\* getKey1: the halves of its result tell a press from a release.
LEMMA HalvesTell ==
    ASSUME NEW again \in Again("main"), Pressed("main") = {} \/ Released("main") = {}
    PROVE  (last \cup (LowHalf(again) \ HighHalf(again))) \ (HighHalf(again) \ LowHalf(again))
             = got["main"]
BY DEF Again, Pressed, Released, LowHalf, HighHalf

LEMMA ViewStep == ViewFollows /\ [InputNext]_inputVars => ViewFollows'
<1> SUFFICES ASSUME ViewFollows, [InputNext]_inputVars, ~Blind(upset') PROVE view' = last'
  BY DEF ViewFollows
<1>1. view = last
  BY UpsetGrows DEF ViewFollows, Blind
<1>2. ASSUME NEW sample, KeyCommand(sample) PROVE view' = last'
  BY <1>1, <1>2 DEF KeyCommand, filterVars
<1>3. ASSUME NEW c \in Ctx,
             Load(c) \/ Look(c) \/ Reload(c) \/ Advance(c) \/ LookUp(c) \/ Copy(c)
      PROVE  view' = last'
  BY <1>1, <1>3 DEF Load, Look, Reload, Advance, LookUp, Copy, filterVars
<1>4. ASSUME NEW c \in Ctx, GetKey(c) PROVE view' = last'
  BY <1>1, <1>4 DEF GetKey, Blind
<1>5. ASSUME NEW again \in Again("main"), GetKey1(again) PROVE view' = last'
  <2>1. Pressed("main") = {} \/ Released("main") = {}
    BY <1>5 DEF GetKey1, Blind
  <2>2. view' = (last \cup (LowHalf(again) \ HighHalf(again))) \ (HighHalf(again) \ LowHalf(again))
    BY <1>1, <1>5 DEF GetKey1
  <2> QED BY <2>1, <2>2, <1>5, HalvesTell DEF GetKey1, Remembered
<1>6. CASE EscapeReturns \/ UNCHANGED inputVars
  BY <1>1, <1>6 DEF EscapeReturns, inputVars, filterVars
<1> QED BY <1>2, <1>3, <1>4, <1>5, <1>6 DEF InputNext

\* Whoever follows the presses and releases of getKey1 knows which keys are
\* pressed, for every set of keys, unless a press and a release came in one
\* sample or getKey changed the keys in between.
THEOREM EventsTell == InputSpec => []ViewFollows
<1>1. InputInit => ViewFollows
  BY DEF InputInit, ViewFollows
<1> QED BY <1>1, ViewStep, PTL DEF InputSpec
=============================================================================
