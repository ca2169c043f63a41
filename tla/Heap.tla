-------------------------------- MODULE Heap --------------------------------
(***************************************************************************)
(* The heap of src/libsrc/base/clib/memory.c: a chain of blocks, each with *)
(* a header in front of its payload, first fit with splitting, merging on  *)
(* free, and a realloc that grows into the block to the right.             *)
(*                                                                         *)
(* All arithmetic is that of an unsigned int, modulo Word.  Where the code *)
(* would go on with a broken chain or a NULL pointer the model stops, and  *)
(* upset tells why.                                                        *)
(***************************************************************************)
EXTENDS Integers, FiniteSets

CONSTANTS
    Word,           \* 2^32
    Header,         \* SIZE_HEADER
    Unit,           \* MIN_FREE_BYTES
    Start, End,     \* the arguments of heapInit
    Requests        \* the sizes that are asked for

ASSUME HeapAssumption ==
    /\ Word \in Nat /\ Unit \in Nat \ {0} /\ Header \in Nat \ {0}
    /\ Word % Unit = 0 /\ Header % Unit = 0
    /\ Start \in Nat \ {0} /\ End \in Nat /\ Start + Header + Unit < End /\ End < Word
    /\ Requests \subseteq 0 .. Word - 1

VARIABLES
    hdr,        \* the headers of the blocks, by address
    held,       \* history: the payloads the program holds, with their sizes
    last,       \* history: what the last call came to
    upset       \* history: which of the code's own traps were stepped into

heapVars == <<hdr, held, last, upset>>

\* past: a header was written outside the arena or over another one.
\* prev: a block was left with a link to a left neighbour that is gone.
\* fits: a block was said to be large enough because its size wrapped.
\* wrap: a request was rounded or multiplied down to a smaller one.
\* null: NULL was freed or cleared.
Trap == {"past", "prev", "fits", "wrap", "null"}

\* Mutant: sizes are computed in a type that does not wrap.
Word32Wide(n) == n

Word32(n) == n % Word
RoundUp(n) == (Word32(n + Unit - 1) \div Unit) * Unit

first == RoundUp(Start)
endOfHeap == End - (End % Unit)
Addr == {a \in first .. endOfHeap - Header : a % Unit = 0}

NoBlock == [prev |-> 0, next |-> 0, free |-> FALSE]
NoCall == [size |-> 0, res |-> 0, had |-> 0, copied |-> 0]

HeapInit ==
    /\ hdr = [a \in Addr |-> [NoBlock EXCEPT !.free = (a = first)]]
    /\ held = << >>
    /\ last = NoCall
    /\ upset = {}

-----------------------------------------------------------------------------
(* The chain                                                               *)

\* The blocks of h from first on: the headers that links to the right reach.
Heads(h) ==
    LET upTo[k \in 0 .. Cardinality(Addr)] ==
            IF k = 0 THEN {first}
            ELSE UNION {{b} \cup ({h[b].next} \cap Addr) : b \in upTo[k - 1]}
    IN  upTo[Cardinality(Addr)]

\* size(i): it wraps for the block that ends the chain.
Size(h, i) == Word32(h[i].next - i - Header)

\* currentNodeAlloc knows the block that ends the chain for what it is.
FreeSize(h, i) == IF h[i].next = 0 THEN Word32(endOfHeap - i - Header) ELSE Size(h, i)

\* Mutant: nobody tells the right neighbour of its new left one.
LeftOfUntold(h, i, j) == h

\* The block to the right of j, if there is one, has i on its left.
LeftOf(h, i, j) == IF j = 0 THEN h ELSE [h EXCEPT ![j].prev = i]

-----------------------------------------------------------------------------
(* Drv_alloc                                                               *)

Splits(h, i, n) == FreeSize(h, i) >= Word32(n + Header + Unit)

\* Mutant: a block must have room for a header behind the payload.
FitsSplit(h, i, n) == Splits(h, i, n)

Fits(h, i, n) == Splits(h, i, n) \/ FreeSize(h, i) >= n

\* A header at j that is in the arena and to the right of i.
Proper(i, j) == j \in Addr /\ j >= i + Header

\* A heap, the payload handed out and the traps on the way.
Outcome(h, res, traps) == [hdr |-> h, res |-> res, traps |-> traps]

\* The first n bytes of i become a block; the rest is free.
Cut(h, i, n, j) ==
    IF ~Proper(i, j) THEN Outcome(h, i + Header, {"past"})
    ELSE Outcome(LeftOf([h EXCEPT ![i].next = j, ![i].free = FALSE,
                                  ![j] = [prev |-> i, next |-> h[i].next, free |-> TRUE]],
                        j, h[i].next),
                 i + Header, {})

CurrentNodeAlloc(h, i, n) ==
    IF Splits(h, i, n) THEN Cut(h, i, n, Word32(i + Header + n))
    ELSE Outcome([h EXCEPT ![i].free = FALSE], i + Header, {})

\* loc_alloc: the chain runs from left to right, so that the first block that
\* fits is the lowest.
LocAlloc(h, n) ==
    LET fitting == {i \in Heads(h) : h[i].free /\ Fits(h, i, n)}
    IN  IF fitting = {} THEN Outcome(h, 0, {})
        ELSE CurrentNodeAlloc(h, CHOOSE i \in fitting : \A k \in fitting : i <= k, n)

-----------------------------------------------------------------------------
(* Drv_deAlloc                                                             *)

\* The blocks in gone become part of the free block l; r is behind them.
Merged(h, l, gone, r) ==
    LeftOf([a \in Addr |-> IF a \in gone THEN NoBlock
                           ELSE IF a = l THEN [prev |-> h[l].prev, next |-> r, free |-> TRUE]
                           ELSE h[a]], l, r)

IsFree(h, i) == i # 0 /\ h[i].free

\* Mutant: a free neighbour on the right is only merged with one on the left.
FreedLeftFirst(h, b) ==
    LET l == h[b].prev  r == h[b].next IN
    IF IsFree(h, l) /\ IsFree(h, r) THEN Merged(h, l, {b, r}, h[r].next)
    ELSE IF IsFree(h, l) THEN Merged(h, l, {b}, r)
    ELSE [h EXCEPT ![b].free = TRUE]

\* loc_free: FFF, FFR, RFF and RFR.
Freed(h, b) ==
    LET l == h[b].prev  r == h[b].next IN
    IF IsFree(h, l) /\ IsFree(h, r) THEN Merged(h, l, {b, r}, h[r].next)
    ELSE IF IsFree(h, l) THEN Merged(h, l, {b}, r)
    ELSE IF IsFree(h, r) THEN Merged(h, b, {r}, h[r].next)
    ELSE [h EXCEPT ![b].free = TRUE]

-----------------------------------------------------------------------------
(* The calls                                                               *)

\* Bound: nothing is said of a heap whose chain is broken, or of a program
\* that has less memory than it was told.
Whole == upset = {}

\* What is held when a payload is given back, or one of n bytes handed out.
Without(a) == [p \in DOMAIN held \ {a} |-> held[p]]
With(hd, a, n) == [p \in DOMAIN hd \cup {a} |-> IF p = a THEN n ELSE hd[p]]

\* A call for n bytes that ends with res.
Refused(n, res) == IF res = 0 THEN [NoCall EXCEPT !.size = n] ELSE NoCall

\* The size n was asked for, and m after rounding is what is looked for.
Wrapped(n, m) == IF m < n THEN {"wrap"} ELSE {}

Alloc(n) ==
    /\ Whole
    /\ \E o \in {LocAlloc(hdr, RoundUp(n))} :
        /\ hdr' = o.hdr
        /\ held' = IF o.res = 0 THEN held ELSE With(held, o.res, n)
        /\ last' = Refused(n, o.res)
        /\ upset' = upset \cup o.traps \cup Wrapped(n, RoundUp(n))

\* Drv_calloc: the product wraps, and the result is cleared unseen.
Calloc(k, n) ==
    /\ Whole
    /\ \E o \in {LocAlloc(hdr, RoundUp(Word32(k * n)))} :
        /\ hdr' = o.hdr
        /\ held' = IF o.res = 0 THEN held ELSE With(held, o.res, k * n)
        /\ last' = Refused(k * n, o.res)
        /\ upset' = upset \cup o.traps \cup Wrapped(k * n, RoundUp(Word32(k * n)))
                          \cup (IF o.res = 0 THEN {"null"} ELSE {})

\* Drv_deAlloc looks for the alignment in front of the payload, also of NULL.
Release(a, traps) ==
    /\ Whole
    /\ IF a = 0 THEN UNCHANGED <<hdr, held>> ELSE hdr' = Freed(hdr, a - Header) /\ held' = Without(a)
    /\ last' = NoCall
    /\ upset' = traps \cup (IF a = 0 THEN {"null"} ELSE {})

Free(a) == Release(a, {})

\* Drv_realloc, when the block is large enough as it is.
Stay(a, n, room) ==
    /\ UNCHANGED hdr
    /\ held' = [held EXCEPT ![a] = n]
    /\ last' = NoCall
    /\ upset' = upset \cup (IF RoundUp(n) > room THEN {"fits"} ELSE {}) \cup Wrapped(n, RoundUp(n))

\* Drv_realloc, when the right neighbour is free and large enough: the rest of
\* it begins at j, and the block behind it is not told.
Grow(a, n, j) ==
    LET b == a - Header  behind == hdr[hdr[a - Header].next].next IN
    /\ hdr' = IF Proper(b, j)
              THEN [hdr EXCEPT ![b].next = j, ![hdr[b].next] = NoBlock,
                               ![j] = [prev |-> b, next |-> behind, free |-> TRUE]]
              ELSE hdr
    /\ held' = [held EXCEPT ![a] = n]
    /\ last' = NoCall
    /\ upset' = upset \cup Wrapped(n, RoundUp(n))
         \cup (IF Proper(b, j) THEN {} ELSE {"past"})
         \cup (IF behind = 0 THEN {} ELSE {"prev"})

\* Mutant: the old block is freed before the new one is looked for.
MoveFreedFirst(a, n, copied) ==
    \E o \in {LocAlloc(Freed(hdr, a - Header), RoundUp(n))} :
        /\ hdr' = o.hdr
        /\ held' = IF o.res = 0 THEN held ELSE With(Without(a), o.res, n)
        /\ last' = IF o.res = 0 THEN Refused(n, 0)
                   ELSE [size |-> n, res |-> o.res, had |-> held[a], copied |-> copied]
        /\ upset' = upset \cup o.traps \cup Wrapped(n, RoundUp(n))

\* Drv_realloc, when the block must move; the old one stays when there is no
\* new one.
Move(a, n, copied) ==
    \E o \in {LocAlloc(hdr, RoundUp(n))} :
        /\ hdr' = IF o.res = 0 THEN o.hdr ELSE Freed(o.hdr, a - Header)
        /\ held' = IF o.res = 0 THEN held ELSE With(Without(a), o.res, n)
        /\ last' = IF o.res = 0 THEN Refused(n, 0)
                   ELSE [size |-> n, res |-> o.res, had |-> held[a], copied |-> copied]
        /\ upset' = upset \cup o.traps \cup Wrapped(n, RoundUp(n))

\* The right neighbour of b is there and free.
GrowsInto(b) == hdr[b].next # 0 /\ hdr[hdr[b].next].free

\* Mutant: the neighbour is counted although it is taken.
ReachTaken(b) ==
    IF hdr[b].next # 0 THEN Word32(Size(hdr, b) + Size(hdr, hdr[b].next)) ELSE Size(hdr, b)

\* bsize: the block's own size and that of its neighbour, when that is free;
\* the header between them is not counted.
Reach(b) ==
    IF GrowsInto(b) THEN Word32(Size(hdr, b) + Size(hdr, hdr[b].next)) ELSE Size(hdr, b)

\* Drv_realloc: a size of 0 frees, also one that was rounded up to it.
Realloc(a, n) ==
    IF RoundUp(n) = 0 THEN Release(a, Wrapped(n, 0))
    ELSE IF a = 0 THEN Alloc(n)
    ELSE /\ Whole
         /\ \E b \in {a - Header} :
              IF RoundUp(n) <= Size(hdr, b) THEN Stay(a, n, FreeSize(hdr, b))
              ELSE IF GrowsInto(b) /\ Reach(b) >= RoundUp(n)
                   THEN Grow(a, n, Word32(a + RoundUp(n)))
              ELSE Move(a, n, Reach(b))

HeapNext ==
    \/ \E n \in Requests : Alloc(n)
    \/ \E k \in {1, 2}, n \in Requests : Calloc(k, n)
    \/ \E a \in DOMAIN held \cup {0} : Free(a)
    \/ \E a \in DOMAIN held \cup {0}, n \in Requests : Realloc(a, n)

HeapSpec == HeapInit /\ [][HeapNext]_heapVars

-----------------------------------------------------------------------------
(* Properties                                                              *)

\* Type invariant.
HeapTypeOK ==
    /\ hdr \in [Addr -> [prev : Addr \cup {0}, next : Addr \cup {0}, free : BOOLEAN]]
    /\ \A a \in DOMAIN held : a - Header \in Addr /\ held[a] \in 0 .. 2 * Word
    /\ last.copied \in 0 .. 2 * Word
    /\ upset \subseteq Trap

EndOf(b) == IF hdr[b].next = 0 THEN endOfHeap ELSE hdr[b].next

\* The chain holds together: from the first block to the end of the arena
\* every block begins where the one on its left ends and knows it, whatever
\* was allocated, freed, moved or refused before.
ChainSound ==
    Whole =>
        \A b \in Heads(hdr) :
            /\ b + Header <= EndOf(b)
            /\ hdr[b].prev = 0 <=> b = first
            /\ hdr[b].next # 0 => hdr[hdr[b].next].prev = b

\* memory.c:148 "always want to merge free blocks": no two free blocks are
\* neighbours, in whatever order they were freed.
FreeIsMerged ==
    Whole =>
        \A b \in Heads(hdr) : (hdr[b].free /\ hdr[b].next # 0) => ~hdr[hdr[b].next].free

\* The program holds what is reserved: no reserved block is lost, none is
\* handed out twice, and each has the bytes that were asked for.
HeldIsReserved ==
    Whole =>
        /\ {b + Header : b \in {b \in Heads(hdr) : ~hdr[b].free}} = DOMAIN held
        /\ \A a \in DOMAIN held : a + held[a] <= EndOf(a - Header)

\* A request is refused only when no run of bytes between the held blocks has
\* room for it and its header: freed memory always comes together again.
RefusedOnlyWhenFull ==
    (last.size > 0 /\ last.res = 0 /\ upset \subseteq {"null"}) =>
        \A x \in Addr :
            \/ x + Header + RoundUp(last.size) > endOfHeap
            \/ \E a \in DOMAIN held :
                  a - Header < x + Header + RoundUp(last.size) /\ x < EndOf(a - Header)

\* A realloc that moves a block takes along all that was in it, and never
\* writes past its new place.
ReallocKeepsContents ==
    (last.res # 0 /\ Whole) =>
        /\ last.copied >= last.had
        /\ last.res + last.copied <= EndOf(last.res - Header)
=============================================================================
