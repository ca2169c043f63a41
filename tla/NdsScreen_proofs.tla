--------------------------- MODULE NdsScreen_proofs ---------------------------
(***************************************************************************)
(* Proofs about the request ring and about ds2_flipScreen, which runs on   *)
(* it, for every size of the ring and every number of buffers.             *)
(*                                                                         *)
(* The ring is well typed, every used buffer has exactly one request or    *)
(* transfer while none of the known windows is hit, and then no more       *)
(* requests wait than there are buffers.  The flips only take steps of the *)
(* ring, so that its invariant holds for them too; DrawTargetIdle follows  *)
(* from it and from what a flip knows of the buffer it looked up.          *)
(***************************************************************************)
EXTENDS NdsScreen, FiniteSetTheorems, TLAPS

-----------------------------------------------------------------------------
(* The ring                                                                *)

\* Two sequence numbers less than one turn of the ring apart have different
\* slots.
LEMMA IndexApart ==
    ASSUME NEW j \in Nat, NEW k \in Nat, j < k, k - j < RingSize
    PROVE  Index(j) # Index(k)
<1>1. RingSize \in Nat \ {0}
  BY RingAssumption
<1> DEFINE a == j \div RingSize
           b == k \div RingSize
<1>2. /\ a \in Int /\ b \in Int
      /\ j = RingSize * a + Index(j)
      /\ k = RingSize * b + Index(k)
  BY <1>1 DEF Index
<1> SUFFICES ASSUME Index(j) = Index(k) PROVE FALSE
  OBVIOUS
<1>3. k - j = RingSize * (b - a)
  BY <1>1, <1>2 DEF Index
<1> HIDE DEF a, b
<1>4. CASE b - a >= 1
  <2>1. RingSize * (b - a) >= RingSize
    BY <1>1, <1>2, <1>4
  <2> QED BY <2>1, <1>3, <1>1
<1>5. CASE b - a <= 0
  <2>1. RingSize * (b - a) <= 0
    BY <1>1, <1>2, <1>5
  <2> QED BY <2>1, <1>3, <1>1
<1> QED BY <1>2, <1>4, <1>5

\* A slot number is a slot of the ring.
LEMMA IndexInRing ==
    ASSUME NEW k \in Nat
    PROVE  Index(k) \in 0 .. RingSize - 1
BY RingAssumption DEF Index

\* Requests about different buffers are no more than the buffers.
LEMMA Pigeonhole ==
    ASSUME NEW lo \in Nat, NEW hi \in Nat, lo <= hi,
           NEW f \in [lo .. hi - 1 -> Buffers],
           \A i, j \in lo .. hi - 1 : f[i] = f[j] => i = j
    PROVE  hi - lo <= Cardinality(Buffers)
<1>1. f \in Injection(lo .. hi - 1, Buffers)
  BY DEF Injection, IsInjective
<1>2. Cardinality(lo .. hi - 1) <= Cardinality(Buffers)
  BY <1>1, FS_Injection, BuffersAssumption
<1>3. Cardinality(lo .. hi - 1) = IF lo > hi - 1 THEN 0 ELSE hi - 1 - lo + 1
  BY FS_Interval
<1>4. Cardinality(Buffers) \in Nat
  BY FS_CardinalityType, BuffersAssumption
<1> QED BY <1>2, <1>3, <1>4

-----------------------------------------------------------------------------
\* Type correctness of the ring and of both contexts; the nesting counter
\* counts the contexts between the two locked sections.
LEMMA TypeInit == Init => TypeOK /\ CtxInv
<1> SUFFICES ASSUME Init PROVE TypeOK /\ CtxInv
  OBVIOUS
<1>1. TypeOK
  <2>1. isused \in [Buffers -> 0 .. 1]
    BY DEF Init
  <2>2. /\ signal \in BOOLEAN /\ escActive \in BOOLEAN
        /\ draining \in BOOLEAN
    BY DEF Init
  <2> QED BY <2>1, <2>2 DEF Init, TypeOK, Ctx, Hazard
<1>2. CtxInv
  BY DEF Init, CtxInv, Ctx
<1> QED BY <1>1, <1>2

LEMMA TypeStep == TypeOK /\ CtxInv /\ [Next]_vars => TypeOK' /\ CtxInv'
<1> SUFFICES ASSUME TypeOK, CtxInv, [Next]_vars
             PROVE  TypeOK' /\ CtxInv'
  OBVIOUS
<1> USE RingAssumption, BuffersAssumption DEF TypeOK, CtxInv, Ctx
<1>1. ASSUME NEW c \in Ctx, NEW b \in Buffers, Check(c, b)
      PROVE  TypeOK' /\ CtxInv'
  BY <1>1 DEF Check, ndsVars
<1>2. ASSUME NEW c \in Ctx, Reserve(c)
      PROVE  TypeOK' /\ CtxInv'
  <2>1. TypeOK'
    BY <1>2 DEF Reserve, ndsVars, Hazard
  <2>2. CtxInv'
    BY <1>2 DEF Reserve, ndsVars
  <2> QED BY <2>1, <2>2
<1>3. ASSUME NEW c \in Ctx, Fill(c)
      PROVE  TypeOK' /\ CtxInv'
  BY <1>3, IndexInRing DEF Fill, Forget, ndsVars
<1>4. ASSUME NEW c \in Ctx, Unnest(c)
      PROVE  TypeOK' /\ CtxInv'
  BY <1>4 DEF Unnest, ndsVars
<1>5. ASSUME NEW c \in Ctx, Signal(c)
      PROVE  TypeOK' /\ CtxInv'
  BY <1>5 DEF Signal, ndsVars
<1>6. CASE NdsWake
  BY <1>6 DEF NdsWake, cpuVars
<1>7. CASE NdsPoll
  BY <1>7 DEF NdsPoll, cpuVars
<1>8. CASE NdsFetch
  <2>1. slot[Index(r)] \in Buffers \cup {None}
    BY IndexInRing
  <2>2. TypeOK'
    <3>1. CASE w > r
      <4>1. isused' \in [Buffers -> 0 .. 1]
        BY <1>8, <3>1 DEF NdsFetch
      <4>2. xfer' \in (Buffers \ {C0}) \cup {None}
        BY <1>8, <2>1, <3>1 DEF NdsFetch
      <4>3. r' \in Nat /\ w' \in Nat /\ r' <= w'
        BY <1>8, <3>1 DEF NdsFetch
      <4>4. upset' \subseteq Hazard
        BY <1>8, <3>1 DEF NdsFetch, Hazard
      <4>5. known' \in Nat
        BY <1>8 DEF NdsFetch
      <4>7. signal' \in BOOLEAN
        BY <1>8 DEF NdsFetch
      <4>6. UNCHANGED <<slot, nest, pc, arg, wTmp, escActive, draining>>
        BY <1>8 DEF NdsFetch, cpuVars
      <4> QED BY <4>1, <4>2, <4>3, <4>4, <4>5, <4>6, <4>7
    <3>2. CASE ~(w > r)
      <4>1. UNCHANGED <<isused, xfer, r, upset, w, slot>>
        BY <1>8, <3>2 DEF NdsFetch
      <4>2. signal' = FALSE /\ known' \in Nat
        BY <1>8 DEF NdsFetch
      <4>3. UNCHANGED <<nest, pc, arg, wTmp, escActive, draining>>
        BY <1>8 DEF NdsFetch, cpuVars
      <4> QED BY <4>1, <4>2, <4>3
    <3> QED BY <3>1, <3>2
  <2>3. CtxInv'
    BY <1>8 DEF NdsFetch, cpuVars
  <2> QED BY <2>2, <2>3
<1>9. CASE NdsOver
  BY <1>9 DEF NdsOver, cpuVars
<1>10. CASE NdsOverBad
  BY <1>10 DEF NdsOverBad, cpuVars, Hazard
<1>14. CASE NdsUnknown
  BY <1>14 DEF NdsUnknown, cpuVars, ndsVars, Hazard
<1>11. CASE EscEnter
  BY <1>11 DEF EscEnter, ndsVars
<1>12. CASE EscReturn
  BY <1>12 DEF EscReturn, ndsVars
<1>13. CASE UNCHANGED vars
  BY <1>13 DEF vars
<1> QED
  BY <1>1, <1>2, <1>3, <1>4, <1>5, <1>6, <1>7, <1>8, <1>9, <1>10, <1>11,
     <1>12, <1>13, <1>14 DEF Next, CpuStep, Nds

THEOREM TypeCorrect == Spec => []TypeOK
<1>1. TypeOK /\ CtxInv /\ [Next]_vars => (TypeOK /\ CtxInv)'
  BY TypeStep
<1> QED BY TypeInit, <1>1, PTL DEF Spec

-----------------------------------------------------------------------------
\* The invariant of the ring, one lemma per action that moves a request.

\* Nothing else counts as pending, so the ring is never fuller than the
\* buffers allow.
LEMMA RingBound ==
    ASSUME TypeOK,
           \A k \in Pending : Owner(k) \in Buffers,
           \A j, k \in Pending : Owner(j) = Owner(k) => j = k
    PROVE  w - r <= Cardinality(Buffers) /\ w - r <= RingSize
<1> DEFINE f == [k \in r .. w - 1 |-> Owner(k)]
<1>1. r \in Nat /\ w \in Nat /\ r <= w
  BY DEF TypeOK
<1>2. f \in [r .. w - 1 -> Buffers]
  BY DEF Pending
<1>3. \A i, j \in r .. w - 1 : f[i] = f[j] => i = j
  BY DEF Pending
<1>4. w - r <= Cardinality(Buffers)
  <2> HIDE DEF f
  <2> QED BY <1>1, <1>2, <1>3, Pigeonhole
<1>5. Cardinality(Buffers) \in Nat
  BY FS_CardinalityType, BuffersAssumption
<1> QED BY <1>1, <1>4, <1>5, RingAssumption

\* The same for the state a step leads to.
LEMMA RingBoundNext ==
    ASSUME TypeOK',
           \A k \in Pending' : Owner(k)' \in Buffers,
           \A j, k \in Pending' : Owner(j)' = Owner(k)' => j = k
    PROVE  w' - r' <= RingSize
<1> DEFINE f == [k \in r' .. w' - 1 |-> Owner(k)']
<1>1. r' \in Nat /\ w' \in Nat /\ r' <= w'
  BY DEF TypeOK
<1>2. f \in [r' .. w' - 1 -> Buffers]
  BY DEF Pending
<1>3. \A i, j \in r' .. w' - 1 : f[i] = f[j] => i = j
  BY DEF Pending
<1>4. w' - r' <= Cardinality(Buffers)
  <2> HIDE DEF f
  <2> QED BY <1>1, <1>2, <1>3, Pigeonhole
<1>5. Cardinality(Buffers) \in Nat /\ RingSize \in Nat
      /\ Cardinality(Buffers) <= RingSize
  BY FS_CardinalityType, BuffersAssumption, RingAssumption
<1>6. w' - r' \in Int
  BY <1>1
<1> HIDE DEF f
<1> QED BY <1>4, <1>5, <1>6

LEMMA RingReserve ==
    ASSUME IInv, TypeOK', NEW c \in Ctx, Reserve(c)
    PROVE  RingInv'
<1> SUFFICES ASSUME upset' = {} PROVE RingInv'
  BY DEF RingInv
<1> USE DEF TypeOK, Ctx
<1>1. upset = {} /\ arg[c] \in Buffers /\ isused[arg[c]] = 0
  <2>1. pc[c] = "checked" /\ upset = {} /\ isused[arg[c]] # 1
    BY DEF Reserve
  <2>2. arg[c] \in Buffers
    BY <2>1 DEF IInv, CtxInv
  <2>3. isused[arg[c]] \in 0 .. 1
    BY <2>2 DEF IInv
  <2> QED BY <2>1, <2>2, <2>3
<1>2. /\ w \in Nat /\ r \in Nat /\ r <= w
      /\ w' = w + 1 /\ r' = r /\ xfer' = xfer
      /\ isused' = [isused EXCEPT ![arg[c]] = 1]
  BY DEF Reserve, IInv, ndsVars
<1>3. \A k \in Pending : Owner(k)' = Owner(k)
  BY <1>2 DEF Owner, Pending, Reserve, Index
<1>4. \A k \in Nat : k = w => Owner(k)' = arg[c]
  <2>1. /\ pc'[c] = "reserved" /\ wTmp'[c] = w /\ arg'[c] = arg[c]
        /\ \A d \in Ctx \ {c} : pc'[d] = pc[d] /\ wTmp'[d] = wTmp[d]
    BY DEF Reserve, IInv
  <2>2. \A d \in Ctx : pc[d] = "reserved" => wTmp[d] # w
    BY <1>2 DEF IInv, CtxInv
  <2> QED BY <2>1, <2>2 DEF Owner
<1>5. Pending' = Pending \cup {w} /\ w \notin Pending
  BY <1>2 DEF Pending
<1>6. \A k \in Pending : Owner(k) # arg[c]
  BY <1>1 DEF IInv, RingInv
<1>7. xfer # arg[c]
  BY <1>1, BuffersAssumption DEF IInv, RingInv
<1>8. \A k \in Pending' : /\ Owner(k)' \in Buffers
                          /\ isused'[Owner(k)'] = 1
                          /\ Owner(k)' # xfer'
  <2> TAKE k \in Pending'
  <2>1. CASE k = w
    BY <1>1, <1>2, <1>4, <1>7, <2>1 DEF IInv
  <2>2. CASE k \in Pending
    <3>1. /\ Owner(k)' = Owner(k) /\ Owner(k) # arg[c] /\ Owner(k) # xfer
          /\ Owner(k) \in Buffers /\ isused[Owner(k)] = 1
      BY <1>1, <1>3, <1>6, <2>2 DEF IInv, RingInv
    <3> QED BY <1>2, <3>1 DEF IInv
  <2> QED BY <1>5, <2>1, <2>2
<1>9. \A j, k \in Pending' : Owner(j)' = Owner(k)' => j = k
  <2>1. \A j, k \in Pending : Owner(j) = Owner(k) => j = k
    BY <1>1 DEF IInv, RingInv
  <2> TAKE j, k \in Pending'
  <2> HAVE Owner(j)' = Owner(k)'
  <2>2. j \in Nat /\ k \in Nat
    BY <1>2, <1>5 DEF Pending
  <2>3. CASE j = w
    BY <1>3, <1>4, <1>5, <1>6, <2>2, <2>3
  <2>4. CASE k = w
    BY <1>3, <1>4, <1>5, <1>6, <2>2, <2>4
  <2>5. CASE j \in Pending /\ k \in Pending
    BY <1>3, <2>1, <2>5
  <2> QED BY <1>5, <2>3, <2>4, <2>5
<1>10. w' - r' <= RingSize
  BY <1>8, <1>9, RingBoundNext
<1>11. \A d \in Ctx : pc'[d] = "reserved" => r' <= wTmp'[d]
  BY <1>1, <1>2 DEF Reserve, IInv, RingInv
<1>12. xfer' # None => isused'[xfer'] = 1
  BY <1>1, <1>2, <1>7 DEF IInv, RingInv
<1>13. \A b \in Buffers : isused'[b] = 1 =>
          b = xfer' \/ \E k \in Pending' : Owner(k)' = b
  <2> TAKE b \in Buffers
  <2> HAVE isused'[b] = 1
  <2>1. CASE b = arg[c]
    <3>1. PICK k \in Pending' : k = w
      BY <1>5
    <3>2. Owner(k)' = arg[c]
      BY <1>2, <1>4, <3>1
    <3> QED BY <2>1, <3>2
  <2>2. CASE b # arg[c]
    <3>1. isused[b] = 1
      BY <1>2, <2>2 DEF IInv
    <3>2. b = xfer \/ \E k \in Pending : Owner(k) = b
      BY <1>1, <3>1 DEF IInv, RingInv
    <3> QED BY <3>2, <1>2, <1>3, <1>5
  <2> QED BY <2>1, <2>2
<1> QED BY <1>8, <1>9, <1>10, <1>11, <1>12, <1>13 DEF RingInv

LEMMA RingFill ==
    ASSUME IInv, NEW c \in Ctx, Fill(c)
    PROVE  RingInv'
<1> SUFFICES ASSUME upset' = {} PROVE RingInv'
  BY DEF RingInv
<1> USE DEF TypeOK, Ctx
<1>1. /\ upset = {} /\ w' = w /\ r' = r /\ xfer' = xfer /\ isused' = isused
      /\ Pending' = Pending
      /\ w \in Nat /\ r \in Nat
  BY DEF Fill, Pending, IInv, ndsVars
<1>2. /\ pc[c] = "reserved"
      /\ wTmp[c] \in Nat /\ r <= wTmp[c] /\ wTmp[c] < w
      /\ Owner(wTmp[c]) = arg[c]
  BY <1>1 DEF Fill, IInv, CtxInv, RingInv, Owner
<1>3. \A k \in Pending : k # wTmp[c] => Index(k) # Index(wTmp[c])
  BY <1>1, <1>2, IndexApart, RingAssumption DEF IInv, RingInv, Pending
<1>4. ASSUME NEW k \in Pending
      PROVE  Owner(k)' = Owner(k)
  <2>1. k \in Nat /\ Index(k) \in 0 .. RingSize - 1
    BY <1>1, IndexInRing DEF Pending
  <2>2. Index(k)' = Index(k)
    BY DEF Index
  <2>3. CASE k = wTmp[c]
    <3>1. slot'[Index(k)] = arg[c]
      BY <2>1, <2>3 DEF Fill, IInv
    <3>2. Owner(k)' = slot'[Index(k)]
      BY <2>3, <2>2 DEF Fill, Forget, Owner, IInv, CtxInv
    <3> QED BY <3>1, <3>2, <2>3, <1>2
  <2>4. CASE k # wTmp[c]
    <3>1. slot'[Index(k)] = slot[Index(k)]
      BY <2>1, <2>4, <1>3 DEF Fill, IInv
    <3> QED BY <3>1, <2>4, <2>2 DEF Fill, Forget, Owner, IInv
  <2> QED BY <2>3, <2>4
<1>5. \A d \in Ctx : pc'[d] = "reserved" => r' <= wTmp'[d]
  BY <1>1 DEF Fill, Forget, IInv, RingInv
<1> QED BY <1>1, <1>4, <1>5 DEF IInv, RingInv

LEMMA RingFetch ==
    ASSUME IInv, NdsFetch
    PROVE  RingInv'
<1> SUFFICES ASSUME upset' = {} PROVE RingInv'
  BY DEF RingInv
<1> USE DEF TypeOK, Ctx
<1>1. /\ w' = w /\ slot' = slot /\ pc' = pc /\ wTmp' = wTmp /\ arg' = arg
      /\ w \in Nat /\ r \in Nat /\ r <= w /\ xfer = None
  BY DEF NdsFetch, IInv, cpuVars
<1>2. \A k : Owner(k)' = Owner(k)
  BY <1>1 DEF Owner, Index
<1>3. CASE ~(w > r)
  <2>1. upset = {} /\ isused' = isused /\ xfer' = xfer /\ r' = r
    BY <1>3 DEF NdsFetch
  <2> QED BY <1>1, <1>2, <2>1 DEF IInv, RingInv, Pending
<1>4. CASE w > r
  <2> DEFINE b0 == slot[Index(r)]
  <2>1. /\ r' = r + 1 /\ upset = {} /\ ~Unfilled(r)
        /\ isused' = IF b0 = C0 THEN [isused EXCEPT ![C0] = 0] ELSE isused
        /\ xfer' = IF b0 = C0 THEN None ELSE b0
    BY <1>4 DEF NdsFetch
  <2>2. Owner(r) = b0 /\ r \in Pending
    BY <1>1, <1>4, <2>1 DEF Owner, Unfilled, Pending
  <2>3. Pending' = Pending \ {r}
    BY <1>1, <2>1 DEF Pending
  <2>4. /\ b0 \in Buffers /\ isused[b0] = 1
        /\ \A k \in Pending' : /\ Owner(k) \in Buffers
                               /\ isused[Owner(k)] = 1
                               /\ Owner(k) # b0
    BY <2>1, <2>2, <2>3 DEF IInv, RingInv
  <2> HIDE DEF b0
  <2>5. \A d \in Ctx : pc'[d] = "reserved" => r' <= wTmp'[d]
    BY <1>1, <2>1 DEF IInv, RingInv, Unfilled
  <2>6. \A k \in Pending' : /\ Owner(k)' \in Buffers
                            /\ isused'[Owner(k)'] = 1
                            /\ Owner(k)' # xfer'
    BY <1>2, <2>1, <2>4, BuffersAssumption DEF IInv
  <2>7. xfer' # None => isused'[xfer'] = 1
    BY <2>1, <2>4
  <2>8. \A b \in Buffers : isused'[b] = 1 =>
            b = xfer' \/ \E k \in Pending' : Owner(k)' = b
    <3> TAKE b \in Buffers
    <3> HAVE isused'[b] = 1
    <3>1. isused[b] = 1 /\ (b = b0 => b0 # C0)
      BY <2>1, BuffersAssumption DEF IInv
    <3>2. CASE b = b0
      BY <3>1, <3>2, <2>1
    <3>3. CASE b # b0
      <4>1. PICK k \in Pending : Owner(k) = b
        BY <3>1, <1>1, <2>1, BuffersAssumption DEF IInv, RingInv
      <4>2. k \in Pending'
        BY <4>1, <3>3, <2>2, <2>3
      <4> QED BY <4>1, <4>2, <1>2
    <3> QED BY <3>2, <3>3
  <2>9. w' - r' <= RingSize
    BY <1>1, <2>1, RingAssumption DEF IInv, RingInv
  <2>10. \A j, k \in Pending' : Owner(j)' = Owner(k)' => j = k
    BY <1>2, <2>1, <2>3 DEF IInv, RingInv
  <2> QED BY <2>5, <2>6, <2>7, <2>8, <2>9, <2>10 DEF RingInv
<1> QED BY <1>3, <1>4

LEMMA RingOver ==
    ASSUME IInv, NdsOver
    PROVE  RingInv'
<1> SUFFICES ASSUME upset' = {} PROVE RingInv'
  BY DEF RingInv
<1> USE DEF TypeOK
<1>1. /\ w' = w /\ r' = r /\ slot' = slot /\ pc' = pc /\ wTmp' = wTmp
      /\ arg' = arg /\ upset = {}
      /\ isused' = [isused EXCEPT ![xfer] = 0] /\ xfer' = None /\ xfer # None
  BY DEF NdsOver, cpuVars
<1>2. \A k : Owner(k)' = Owner(k)
  BY <1>1 DEF Owner, Index
<1>3. Pending' = Pending
  BY <1>1 DEF Pending
<1>4. \A k \in Pending' : /\ Owner(k)' \in Buffers
                          /\ isused'[Owner(k)'] = 1
                          /\ Owner(k)' # xfer'
  BY <1>1, <1>2, <1>3, BuffersAssumption DEF IInv, RingInv
<1>5. \A b \in Buffers : isused'[b] = 1 =>
          b = xfer' \/ \E k \in Pending' : Owner(k)' = b
  BY <1>1, <1>2, <1>3, BuffersAssumption DEF IInv, RingInv
<1> QED BY <1>1, <1>2, <1>3, <1>4, <1>5 DEF IInv, RingInv

LEMMA RingOther ==
    ASSUME IInv, UNCHANGED <<isused, slot, w, r, xfer, upset>>,
           \/ UNCHANGED <<pc, arg, wTmp>>
           \/ \E c \in Ctx : /\ pc[c] # "reserved"
                             /\ \E p \in {"idle", "checked", "unnested"} :
                                   pc' = [pc EXCEPT ![c] = p]
                             /\ \A d \in Ctx \ {c} : arg'[d] = arg[d]
                             /\ UNCHANGED wTmp
    PROVE  RingInv'
<1> SUFFICES ASSUME upset' = {} PROVE RingInv'
  BY DEF RingInv
<1> USE DEF TypeOK, Ctx
<1>1. \A d \in Ctx : pc'[d] = "reserved" <=> pc[d] = "reserved"
  BY DEF IInv
<1>2. \A d \in Ctx : pc[d] = "reserved" => arg'[d] = arg[d]
  BY DEF IInv
<1>3. \A k : Owner(k)' = Owner(k)
  BY <1>1, <1>2 DEF Owner, Index
<1>4. Pending' = Pending
  BY DEF Pending
<1> QED BY <1>1, <1>3, <1>4 DEF IInv, RingInv

-----------------------------------------------------------------------------
\* Every step of the CPU, the callback and the NDS keeps the invariant.
LEMMA InvStep == IInv /\ [Next]_vars => IInv'
<1> SUFFICES ASSUME IInv, [Next]_vars PROVE IInv'
  OBVIOUS
<1>0. TypeOK' /\ CtxInv'
  BY TypeStep DEF IInv
<1> SUFFICES RingInv'
  BY <1>0 DEF IInv
<1>1. ASSUME NEW c \in Ctx, NEW b \in Buffers, Check(c, b)
      PROVE  RingInv'
  BY <1>1, RingOther DEF Check, ndsVars, IInv, TypeOK
<1>2. ASSUME NEW c \in Ctx, Reserve(c)
      PROVE  RingInv'
  BY <1>0, <1>2, RingReserve
<1>3. ASSUME NEW c \in Ctx, Fill(c)
      PROVE  RingInv'
  BY <1>3, RingFill
<1>4. ASSUME NEW c \in Ctx, Unnest(c)
      PROVE  RingInv'
  BY <1>4, RingOther DEF Unnest, ndsVars
<1>5. ASSUME NEW c \in Ctx, Signal(c)
      PROVE  RingInv'
  BY <1>5, RingOther DEF Signal, ndsVars
<1>6. CASE NdsWake \/ NdsPoll
  <2>1. UNCHANGED <<isused, slot, w, r, xfer, upset, pc, arg, wTmp>>
    BY <1>6 DEF NdsWake, NdsPoll, cpuVars
  <2> QED BY <2>1, RingOther
<1>7. CASE NdsFetch
  BY <1>7, RingFetch
<1>8. CASE NdsOver
  BY <1>8, RingOver
<1>9. CASE NdsOverBad
  BY <1>9 DEF NdsOverBad, RingInv
<1>12. CASE NdsUnknown
  BY <1>12 DEF NdsUnknown, RingInv
<1>10. CASE EscEnter \/ EscReturn
  <2>1. UNCHANGED <<isused, slot, w, r, xfer, upset, pc, arg, wTmp>>
    BY <1>10 DEF EscEnter, EscReturn, ndsVars
  <2> QED BY <2>1, RingOther
<1>11. CASE UNCHANGED vars
  <2>1. UNCHANGED <<isused, slot, w, r, xfer, upset, pc, arg, wTmp>>
    BY <1>11 DEF vars
  <2> QED BY <2>1, RingOther
<1> QED
  BY <1>0, <1>1, <1>2, <1>3, <1>4, <1>5, <1>6, <1>7, <1>8, <1>9, <1>10,
     <1>11, <1>12 DEF Next, CpuStep, Nds, IInv

LEMMA InvInit == Init => IInv
<1> SUFFICES ASSUME Init PROVE IInv
  OBVIOUS
<1>1. TypeOK /\ CtxInv
  BY TypeInit
<1>2. Pending = {} /\ w - r <= RingSize
  BY RingAssumption DEF Init, Pending
<1>3. RingInv
  BY <1>2 DEF Init, RingInv, Ctx
<1> QED BY <1>1, <1>3 DEF IInv

LEMMA Invariant == Spec => []IInv
BY InvInit, InvStep, PTL DEF Spec

\* While no window is hit, no more requests wait than there are buffers
\* (game.c counts on it with a ring of 16 slots for 7 buffers).
THEOREM RingNeverOverruns == Spec => []PendingBound
<1>1. IInv => PendingBound
  <2> SUFFICES ASSUME IInv, upset = {} PROVE w - r <= Cardinality(Buffers)
    BY DEF PendingBound
  <2> QED BY RingBound DEF IInv, RingInv
<1> QED BY <1>1, Invariant, PTL

\* While no window is hit, every used buffer has exactly one request in the
\* ring or is the one being transferred, and a free one has none.
THEOREM UsedBuffersHaveOneRequest == Spec => []OneRequestPerUsedBuffer
<1>1. IInv => OneRequestPerUsedBuffer
  <2> SUFFICES ASSUME IInv, upset = {}, NEW b \in Buffers
               PROVE  Cardinality({k \in Pending : Owner(k) = b})
                        + (IF xfer = b THEN 1 ELSE 0) = isused[b]
    BY DEF OneRequestPerUsedBuffer
  <2> DEFINE K == {k \in Pending : Owner(k) = b}
  <2>1. isused[b] \in {0, 1}
    BY DEF IInv, TypeOK
  <2>2. CASE \E k \in Pending : Owner(k) = b
    <3>1. PICK k \in Pending : Owner(k) = b
      BY <2>2
    <3>2. K = {k} /\ isused[b] = 1 /\ xfer # b
      BY <3>1 DEF IInv, RingInv
    <3>3. Cardinality(K) = 1
      BY <3>2, FS_Singleton
    <3> QED BY <3>2, <3>3
  <2>3. CASE ~\E k \in Pending : Owner(k) = b
    <3>1. K = {}
      BY <2>3
    <3>2. Cardinality(K) = 0
      BY <3>1, FS_EmptySet
    <3>3. CASE xfer = b
      <4>1. isused[b] = 1
        BY <3>3, BuffersAssumption DEF IInv, RingInv
      <4> QED BY <4>1, <3>2, <3>3
    <3>4. CASE xfer # b
      <4>1. isused[b] = 0
        BY <2>1, <2>3, <3>4 DEF IInv, RingInv
      <4> QED BY <4>1, <3>2, <3>4
    <3> QED BY <3>3, <3>4
  <2> QED BY <2>2, <2>3
<1> QED BY <1>1, Invariant, PTL

-----------------------------------------------------------------------------
\* No lost wake-up.  Only 0xc0 lowers the bit, and the NDS sends it while it
\* serves the ring; the context that skips the bit leaves another one behind
\* it that has still to raise it.  Holds whatever windows are hit, but for a
\* command that the handler does not know.
LEMMA SignalStep ==
    TypeOK /\ CtxInv /\ TypeOK' /\ SignalInv /\ [Next]_vars => SignalInv'
<1> SUFFICES ASSUME TypeOK, CtxInv, TypeOK', SignalInv, [Next]_vars
             PROVE  SignalInv'
  OBVIOUS
<1> USE DEF SignalInv, PendingIsSignalled, InIoctl, Ctx
<1>1. ASSUME NEW c \in Ctx, NEW b \in Buffers, Check(c, b)
      PROVE  SignalInv'
  BY <1>1 DEF Check, ndsVars, TypeOK
<1>2. ASSUME NEW c \in Ctx, Reserve(c) \/ Fill(c) \/ Unnest(c)
      PROVE  SignalInv'
  <2>1. \E d \in Ctx : InIoctl(d)'
    BY <1>2 DEF Reserve, Fill, Unnest, TypeOK
  <2>2. known' = known /\ draining' = draining
    BY <1>2 DEF Reserve, Fill, Unnest, ndsVars
  <2> QED BY <2>1, <2>2
<1>3. ASSUME NEW c \in Ctx, Signal(c)
      PROVE  SignalInv'
  <2>1. UNCHANGED <<w, r, known, draining>> /\ pc[c] = "unnested"
    BY <1>3 DEF Signal, ndsVars
  <2>2. CASE nest = 0
    BY <1>3, <2>1, <2>2 DEF Signal
  <2>3. CASE nest # 0
    <3>1. PICK d \in Ctx : pc[d] \in {"reserved", "filled"}
      BY <2>3 DEF CtxInv
    <3>2. d # c /\ InIoctl(d)'
      BY <1>3, <2>1, <3>1 DEF Signal, TypeOK
    <3> QED BY <2>1, <3>2
  <2> QED BY <2>2, <2>3
<1>4. CASE NdsWake
  BY <1>4 DEF NdsWake
<1>5. CASE NdsPoll
  <2>1. /\ draining /\ known' = w - r /\ w' = w /\ r' = r
        /\ (draining' <=> w # r)
    BY <1>5 DEF NdsPoll
  <2>2. w \in Nat /\ r \in Nat /\ r <= w
    BY DEF TypeOK
  <2>3. CASE w = r
    <3>1. ~(w' > r') /\ ~(known' > 0)
      BY <2>1, <2>2, <2>3
    <3> QED BY <3>1
  <2>4. CASE w # r
    BY <2>1, <2>4
  <2> QED BY <2>3, <2>4
<1>6. CASE NdsFetch
  BY <1>6 DEF NdsFetch, TypeOK
<1>7. CASE NdsOver \/ NdsOverBad
  BY <1>7 DEF NdsOver, NdsOverBad, cpuVars
<1>8. CASE EscEnter \/ EscReturn
  BY <1>8 DEF EscEnter, EscReturn, ndsVars
<1>9. CASE UNCHANGED vars
  BY <1>9 DEF vars
<1>10. CASE NdsUnknown
  BY <1>10 DEF NdsUnknown, cpuVars, ndsVars
<1> QED
  BY <1>1, <1>2, <1>3, <1>4, <1>5, <1>6, <1>7, <1>8, <1>9, <1>10
     DEF Next, CpuStep, Nds

THEOREM NoLostWakeup == Spec => []PendingIsSignalled
<1>1. Init => SignalInv
  BY DEF Init, SignalInv, PendingIsSignalled
<1>2. TypeOK /\ CtxInv /\ SignalInv /\ [Next]_vars
        => (TypeOK /\ CtxInv /\ SignalInv)'
  BY TypeStep, SignalStep
<1>3. SignalInv => PendingIsSignalled
  BY DEF SignalInv
<1> QED BY TypeInit, <1>1, <1>2, <1>3, PTL DEF Spec

-----------------------------------------------------------------------------
(* Flips                                                                   *)

Flips == [phase : {"update", "get", "assign", "drain"}, id : Ids, done : 0 .. 2,
          got : Buffers \cup {None}, cur : Screens]

\* A flip is in a phase of its own, and its buffers are those of its screen.  A
\* context in IQE_UPDATE is there for its flip.
FlipInv ==
    /\ handle \in [Screens -> Buffers]
    /\ flip \in [Ctx -> {NoFlip} \cup Flips]
    /\ settled \subseteq Screens
    /\ cuts \subseteq {"ioctl", "assign"}
    /\ \A s \in Screens : handle[s] \in Pair(s)
    /\ \A c \in Ctx : flip[c] # NoFlip => flip[c].got \in Pair(flip[c].cur) \cup {None}
    /\ \A c \in Ctx : flip[c].phase \in {"assign", "drain"} => flip[c].got # None
    /\ \A c \in Ctx : pc[c] = "checked" =>
          flip[c].phase = "get" /\ arg[c] \in Pair(flip[c].cur)
    /\ ~escActive => flip["esc"] = NoFlip

\* A buffer that was looked up stays free until the handle takes it, unless the
\* escape key strikes in between; a settled handle names a free buffer.
DrawInv ==
    "assign" \notin cuts =>
        /\ escActive => flip["main"].phase # "assign"
        /\ \A c \in Ctx : flip[c].phase = "assign" => isused[flip[c].got] = 0
        /\ \A s \in settled : Steady(s) => isused[handle[s]] = 0

-----------------------------------------------------------------------------
\* The four video buffers are four.
LEMMA FourBuffers ==
    /\ Up0 # Down0 /\ Up0 # Down1 /\ Up1 # Down0 /\ Up1 # Down1
    /\ {Up0, Up1, Down0, Down1} \subseteq Buffers
    /\ None \notin Buffers
<1>1. ASSUME NEW x, NEW y, NEW z
      PROVE  Cardinality({x, y, z}) <= 3
  <2>1. /\ IsFiniteSet({z}) /\ Cardinality({z}) = 1
    BY FS_Singleton
  <2>2. /\ IsFiniteSet({z} \cup {y}) /\ Cardinality({z} \cup {y}) \in {1, 2}
    BY <2>1, FS_AddElement
  <2>3. Cardinality(({z} \cup {y}) \cup {x}) \in {1, 2, 3}
    BY <2>2, FS_AddElement
  <2>4. ({z} \cup {y}) \cup {x} = {x, y, z}
    OBVIOUS
  <2> QED BY <2>3, <2>4
<1>2. Cardinality({Up0, Up1, Down0, Down1}) = 4
  BY ScreenAssumption
<1>3. \A x, y, z : {Up0, Up1, Down0, Down1} # {x, y, z}
  <2> SUFFICES ASSUME NEW x, NEW y, NEW z, {Up0, Up1, Down0, Down1} = {x, y, z}
               PROVE  FALSE
    OBVIOUS
  <2>1. Cardinality({Up0, Up1, Down0, Down1}) <= 3
    BY <1>1
  <2> QED BY <2>1, <1>2
<1>4. /\ Up0 = Down0 => {Up0, Up1, Down0, Down1} = {Up0, Up1, Down1}
      /\ Up0 = Down1 => {Up0, Up1, Down0, Down1} = {Up0, Up1, Down0}
      /\ Up1 = Down0 => {Up0, Up1, Down0, Down1} = {Up0, Up1, Down1}
      /\ Up1 = Down1 => {Up0, Up1, Down0, Down1} = {Up0, Up1, Down0}
  OBVIOUS
<1> QED BY <1>3, <1>4, ScreenAssumption, BuffersAssumption

LEMMA PairsApart ==
    /\ \A s \in Screens : Pair(s) \subseteq Buffers /\ None \notin Pair(s)
    /\ \A s, t \in Screens : s # t => Pair(s) \cap Pair(t) = {}
BY FourBuffers DEF Pair, Screens

\* The look-up answers with a free buffer of the screen.
LEMMA GetBufFree ==
    ASSUME NEW s \in Screens, GetBuf(s) # None
    PROVE  GetBuf(s) \in Pair(s) /\ isused[GetBuf(s)] = 0
BY DEF GetBuf, Pair, Screens

LEMMA FlipShape ==
    ASSUME NEW f \in {NoFlip} \cup Flips
    PROVE  /\ f = NoFlip <=> f.phase = "none"
           /\ f # NoFlip => f \in Flips /\ f.cur \in Screens /\ f.id \in Ids
                            /\ f.phase \in {"update", "get", "assign", "drain"}
BY DEF NoFlip, Flips

\* The end of a screen's part: no flip, or the start of the lower screen's.
LEMMA NextFlip ==
    ASSUME FlipInv, NEW c \in Ctx, flip[c] # NoFlip
    PROVE  /\ NextScreen(c) \in [Ctx -> {NoFlip} \cup Flips]
           /\ \A d \in Ctx \ {c} : NextScreen(c)[d] = flip[d]
           /\ \/ NextScreen(c)[c] = NoFlip
              \/ /\ NextScreen(c)[c].phase = "update" /\ NextScreen(c)[c].got = None
                 /\ NextScreen(c)[c] # NoFlip
                 /\ NextScreen(c)[c].cur = "down" /\ flip[c].cur = "up"
<1>1. flip[c] \in Flips /\ flip \in [Ctx -> {NoFlip} \cup Flips]
  BY FlipShape DEF FlipInv
<1> DEFINE g == [flip[c] EXCEPT !.phase = "update", !.cur = "down", !.got = None]
<1>2. g \in Flips /\ g.phase = "update" /\ g.cur = "down" /\ g.got = None
  BY <1>1 DEF Flips, Screens
<1>3. g # NoFlip
  BY <1>2, FlipShape
<1> HIDE DEF g
<1>4. NextScreen(c) = IF flip[c].id = "dual" /\ flip[c].cur = "up"
                      THEN [flip EXCEPT ![c] = g] ELSE [flip EXCEPT ![c] = NoFlip]
  BY DEF NextScreen, g
<1> QED BY <1>1, <1>2, <1>3, <1>4

-----------------------------------------------------------------------------
(* The flips take steps of the ring.                                       *)

LEMMA StepOfRing == FlipInv /\ [ScreenNext]_allVars => [Next]_vars
<1> SUFFICES ASSUME FlipInv, [ScreenNext]_allVars PROVE [Next]_vars
  OBVIOUS
<1>1. ASSUME NEW c \in Ctx, NEW id \in Ids, NEW d \in 0 .. 2, FlipCall(c, id, d)
      PROVE  UNCHANGED vars
  BY <1>1 DEF FlipCall
<1>2. ASSUME NEW c \in Ctx, FlipUpdate(c)
      PROVE  [Next]_vars
  <2>1. flip[c] # NoFlip
    BY <1>2 DEF FlipUpdate, NoFlip
  <2>2. handle[flip[c].cur] \in Buffers
    BY <2>1, FlipShape DEF FlipInv
  <2> QED BY <1>2, <2>2 DEF FlipUpdate, Next
<1>3. ASSUME NEW c \in Ctx, FlipGet(c) \/ FlipAssign(c) \/ FlipDrain(c)
      PROVE  UNCHANGED vars
  BY <1>3 DEF FlipGet, FlipAssign, FlipDrain
<1>4. ASSUME NEW c \in Ctx, Ioctl(c)
      PROVE  Next
  BY <1>4 DEF Ioctl, Next
<1>5. CASE Serve
  BY <1>5 DEF Serve, Next
<1>6. CASE Escape
  BY <1>6 DEF Escape, Next
<1>7. CASE Leave
  BY <1>7 DEF Leave, Next
<1>8. CASE UNCHANGED allVars
  BY <1>8 DEF allVars
<1> QED BY <1>1, <1>2, <1>3, <1>4, <1>5, <1>6, <1>7, <1>8 DEF ScreenNext, FlipStep

-----------------------------------------------------------------------------
(* Every step keeps FlipInv and DrawInv: one lemma per action.             *)

ScreenInv == IInv /\ FlipInv /\ DrawInv

LEMMA CallStep ==
    ASSUME ScreenInv, NEW c \in Ctx, NEW id \in Ids, NEW d \in 0 .. 2, FlipCall(c, id, d)
    PROVE  FlipInv' /\ DrawInv'
<1>1. /\ Start(id, d) \in Flips /\ Start(id, d).phase = "update" /\ Start(id, d).got = None
      /\ Start(id, d) # NoFlip
  BY DEF Start, Flips, Screens, NoFlip
<1>2. /\ flip' = [flip EXCEPT ![c] = Start(id, d)] /\ flip[c] = NoFlip /\ pc[c] = "idle"
      /\ Runs(c) /\ UNCHANGED <<vars, handle, settled, cuts>>
  BY DEF FlipCall
<1> USE DEF ScreenInv
<1>3. FlipInv'
  BY <1>1, <1>2 DEF FlipInv, Runs, vars, Pair
<1>4. DrawInv'
  <2> SUFFICES ASSUME "assign" \notin cuts'
               PROVE  /\ escActive' => flip'["main"].phase # "assign"
                      /\ \A e \in Ctx : flip'[e].phase = "assign" => isused'[flip'[e].got] = 0
                      /\ \A s \in settled' : Steady(s)' => isused'[handle'[s]] = 0
    BY DEF DrawInv
  <2>1. \A e \in Ctx : flip'[e].phase = "assign" => flip'[e] = flip[e]
    BY <1>1, <1>2 DEF FlipInv
  <2>2. \A s : Steady(s)' => Steady(s)
    BY <1>1, <1>2 DEF Steady, FlipInv
  <2> QED BY <1>2, <2>1, <2>2 DEF DrawInv, vars, Ctx
<1> QED BY <1>3, <1>4

LEMMA UpdateStep ==
    ASSUME ScreenInv, NEW c \in Ctx, FlipUpdate(c)
    PROVE  FlipInv' /\ DrawInv'
<1> USE DEF ScreenInv
<1>1. flip[c] # NoFlip /\ flip[c] \in Flips /\ flip[c].cur \in Screens
  BY FlipShape DEF FlipUpdate, FlipInv, NoFlip
<1> DEFINE g == [flip[c] EXCEPT !.phase = "get"]
<1>2. g \in Flips /\ g.phase = "get" /\ g.cur = flip[c].cur /\ g.got = flip[c].got /\ g # NoFlip
  BY <1>1 DEF Flips, NoFlip
<1>3. flip' = [flip EXCEPT ![c] = g] /\ Runs(c) /\ UNCHANGED <<handle, cuts, isused, escActive>>
  BY DEF FlipUpdate, Check, vars
<1>4. settled' = settled \ {flip[c].cur}
  BY DEF FlipUpdate
<1> HIDE DEF g
<1>5. FlipInv'
  <2>1. \A e \in Ctx : pc'[e] = "checked" =>
          flip'[e].phase = "get" /\ arg'[e] \in Pair(flip'[e].cur)
    <3>1. CASE Check(c, handle[flip[c].cur])
      <4>1. /\ pc' = [pc EXCEPT ![c] = "checked"]
            /\ arg' = [arg EXCEPT ![c] = handle[flip[c].cur]]
        BY <3>1 DEF Check
      <4> QED BY <4>1, <1>1, <1>2, <1>3 DEF FlipInv, IInv, TypeOK
    <3>2. CASE UNCHANGED vars
      BY <3>2, <1>2, <1>3 DEF FlipInv, vars, FlipUpdate
    <3> QED BY <3>1, <3>2 DEF FlipUpdate
  <2>2. flip' \in [Ctx -> {NoFlip} \cup Flips] /\ settled' \subseteq Screens
    BY <1>2, <1>3, <1>4 DEF FlipInv
  <2>3. \A e \in Ctx : flip'[e] # NoFlip => flip'[e].got \in Pair(flip'[e].cur) \cup {None}
    BY <1>1, <1>2, <1>3 DEF FlipInv
  <2>4. \A e \in Ctx : flip'[e].phase \in {"assign", "drain"} => flip'[e].got # None
    BY <1>2, <1>3 DEF FlipInv
  <2>5. ~escActive' => flip'["esc"] = NoFlip
    BY <1>3 DEF FlipInv, Runs, Ctx
  <2>6. \A s \in Screens : Pair(s)' = Pair(s)
    BY DEF Pair
  <2> QED BY <1>3, <2>1, <2>2, <2>3, <2>4, <2>5, <2>6 DEF FlipInv
<1>6. DrawInv'
  <2> SUFFICES ASSUME "assign" \notin cuts'
               PROVE  /\ escActive' => flip'["main"].phase # "assign"
                      /\ \A e \in Ctx : flip'[e].phase = "assign" => isused'[flip'[e].got] = 0
                      /\ \A s \in settled' : Steady(s)' => isused'[handle'[s]] = 0
    BY DEF DrawInv
  <2>1. \A e \in Ctx : flip'[e].phase = "assign" => flip'[e] = flip[e]
    BY <1>2, <1>3 DEF FlipInv
  <2>2. \A s : Steady(s)' => Steady(s)
    BY <1>1, <1>2, <1>3 DEF Steady, FlipInv
  <2> QED BY <1>3, <1>4, <2>1, <2>2 DEF DrawInv, Ctx
<1> QED BY <1>5, <1>6

\* A flip that leaves its screen unsettled keeps both invariants.
LEMMA EndKeepsInv ==
    ASSUME ScreenInv, NEW c \in Ctx, flip[c] # NoFlip, Runs(c), pc[c] = "idle",
           UNCHANGED <<vars, handle, cuts>>, flip' = NextScreen(c),
           settled' = settled \ {flip[c].cur}
    PROVE  FlipInv' /\ DrawInv'
<1> USE DEF ScreenInv
<1>1. FlipInv'
  <2>1. flip' \in [Ctx -> {NoFlip} \cup Flips]
    BY NextFlip
  <2>2. \A e \in Ctx : flip'[e] = flip[e] \/ (e = c /\ flip'[e] = NoFlip)
          \/ (e = c /\ flip'[e].phase = "update" /\ flip'[e].got = None /\ flip'[e] # NoFlip)
    BY NextFlip
  <2>3. \A e \in Ctx : flip'[e] # NoFlip => flip'[e].got \in Pair(flip'[e].cur) \cup {None}
    BY <2>2 DEF FlipInv
  <2>4. \A e \in Ctx : flip'[e].phase \in {"assign", "drain"} => flip'[e].got # None
    BY <2>2 DEF FlipInv, NoFlip
  <2>5. \A e \in Ctx : pc'[e] = "checked" =>
          flip'[e].phase = "get" /\ arg'[e] \in Pair(flip'[e].cur)
    BY <2>2 DEF FlipInv, vars
  <2>6. ~escActive' => flip'["esc"] = NoFlip
    BY <2>2 DEF FlipInv, vars, Runs, Ctx
  <2>7. \A s : Pair(s)' = Pair(s)
    BY DEF Pair
  <2> QED BY <2>1, <2>3, <2>4, <2>5, <2>6, <2>7 DEF FlipInv
<1>2. DrawInv'
  <2> SUFFICES ASSUME "assign" \notin cuts'
               PROVE  /\ escActive' => flip'["main"].phase # "assign"
                      /\ \A e \in Ctx : flip'[e].phase = "assign" => isused'[flip'[e].got] = 0
                      /\ \A s \in settled' : Steady(s)' => isused'[handle'[s]] = 0
    BY DEF DrawInv
  <2>1. \A e \in Ctx : flip'[e].phase = "assign" => flip'[e] = flip[e]
    BY NextFlip DEF NoFlip
  <2>2. \A s : s # flip[c].cur /\ Steady(s)' => Steady(s)
    BY NextFlip DEF Steady
  <2> QED BY <2>1, <2>2 DEF DrawInv, vars, Ctx
<1> QED BY <1>1, <1>2

LEMMA GetStep ==
    ASSUME ScreenInv, NEW c \in Ctx, FlipGet(c)
    PROVE  FlipInv' /\ DrawInv'
<1> USE DEF ScreenInv
<1>1. flip[c] # NoFlip /\ flip[c] \in Flips /\ flip[c].cur \in Screens
  BY FlipShape DEF FlipGet, FlipInv, NoFlip
<1>2. /\ Runs(c) /\ pc[c] = "idle" /\ UNCHANGED <<vars, handle, cuts>>
  BY DEF FlipGet
<1>3. CASE GetBuf(flip[c].cur) # None
  <2> DEFINE b == GetBuf(flip[c].cur)
             g == [flip[c] EXCEPT !.got = b,
                                  !.phase = IF flip[c].done = 2 THEN "drain" ELSE "assign"]
  <2>1. b \in Pair(flip[c].cur) /\ isused[b] = 0 /\ b \in Buffers /\ b # None
    BY <1>1, <1>3, GetBufFree, PairsApart
  <2>2. b # None
    BY <1>3
  <2> HIDE DEF b
  <2>3. /\ g \in Flips /\ g.phase \in {"drain", "assign"} /\ g.got = b /\ g.cur = flip[c].cur
        /\ g # NoFlip
    BY <1>1, <2>1 DEF Flips, NoFlip
  <2>4. flip' = [flip EXCEPT ![c] = g] /\ settled' = settled
    BY <1>3 DEF FlipGet, b
  <2> HIDE DEF g
  <2>5. FlipInv'
    BY <1>1, <1>2, <2>1, <2>3, <2>4 DEF FlipInv, vars, Runs, Pair
  <2>6. DrawInv'
    <3> SUFFICES ASSUME "assign" \notin cuts'
                 PROVE  /\ escActive' => flip'["main"].phase # "assign"
                        /\ \A e \in Ctx : flip'[e].phase = "assign" => isused'[flip'[e].got] = 0
                        /\ \A s \in settled' : Steady(s)' => isused'[handle'[s]] = 0
      BY DEF DrawInv
    <3>1. \A e \in Ctx : flip'[e].phase = "assign" => flip'[e] = flip[e] \/ flip'[e].got = b
      BY <2>3, <2>4 DEF FlipInv
    <3>2. \A s : Steady(s)' => Steady(s)
      BY <1>1, <2>3, <2>4 DEF Steady, FlipInv
    <3>3. escActive' => flip'["main"].phase # "assign"
      BY <1>2, <2>4 DEF DrawInv, vars, Ctx, FlipInv, Runs
    <3> QED BY <1>2, <2>1, <2>4, <3>1, <3>2, <3>3 DEF DrawInv, vars, Ctx
  <2> QED BY <2>5, <2>6
<1>4. CASE GetBuf(flip[c].cur) = None
  <2>1. flip' = NextScreen(c) /\ settled' = settled \ {flip[c].cur}
    BY <1>4 DEF FlipGet
  <2> QED BY <1>1, <1>2, <2>1, EndKeepsInv
<1> QED BY <1>3, <1>4

LEMMA AssignStep ==
    ASSUME ScreenInv, NEW c \in Ctx, FlipAssign(c)
    PROVE  FlipInv' /\ DrawInv'
<1> USE DEF ScreenInv
<1>1. flip[c] # NoFlip /\ flip[c] \in Flips /\ flip[c].cur \in Screens
  BY FlipShape DEF FlipAssign, FlipInv, NoFlip
<1>2. /\ Runs(c) /\ flip[c].phase = "assign" /\ UNCHANGED <<vars, cuts>>
      /\ handle' = [handle EXCEPT ![flip[c].cur] = flip[c].got]
      /\ settled' = settled \cup {flip[c].cur} /\ flip' = NextScreen(c)
  BY DEF FlipAssign
<1>3. flip[c].got \in Pair(flip[c].cur) /\ flip[c].got \in Buffers
  BY <1>1, <1>2, PairsApart DEF FlipInv
<1>4. FlipInv'
  <2>1. flip' \in [Ctx -> {NoFlip} \cup Flips]
    BY <1>1, <1>2, NextFlip
  <2>2. \A e \in Ctx : flip'[e] = flip[e] \/ (e = c /\ flip'[e] = NoFlip)
          \/ (e = c /\ flip'[e].phase = "update" /\ flip'[e].got = None /\ flip'[e] # NoFlip)
    BY <1>1, <1>2, NextFlip
  <2>3. \A e \in Ctx : flip'[e] # NoFlip => flip'[e].got \in Pair(flip'[e].cur) \cup {None}
    BY <2>2 DEF FlipInv
  <2>4. \A e \in Ctx : flip'[e].phase \in {"assign", "drain"} => flip'[e].got # None
    BY <2>2 DEF FlipInv, NoFlip
  <2>5. \A e \in Ctx : pc'[e] = "checked" =>
          flip'[e].phase = "get" /\ arg'[e] \in Pair(flip'[e].cur)
    BY <1>1, <1>2, <2>2 DEF FlipInv, vars
  <2>6. ~escActive' => flip'["esc"] = NoFlip
    BY <1>1, <1>2, <2>2 DEF FlipInv, vars, Runs, Ctx
  <2>7. /\ handle' \in [Screens -> Buffers] /\ settled' \subseteq Screens
        /\ \A s \in Screens : handle'[s] \in Pair(s)
    BY <1>1, <1>2, <1>3 DEF FlipInv
  <2>8. \A s : Pair(s)' = Pair(s)
    BY DEF Pair
  <2> QED BY <1>2, <2>1, <2>3, <2>4, <2>5, <2>6, <2>7, <2>8 DEF FlipInv
<1>5. DrawInv'
  <2> SUFFICES ASSUME "assign" \notin cuts'
               PROVE  /\ escActive' => flip'["main"].phase # "assign"
                      /\ \A e \in Ctx : flip'[e].phase = "assign" => isused'[flip'[e].got] = 0
                      /\ \A s \in settled' : Steady(s)' => isused'[handle'[s]] = 0
    BY DEF DrawInv
  <2>1. \A e \in Ctx : flip'[e].phase = "assign" => flip'[e] = flip[e]
    BY <1>1, <1>2, NextFlip DEF NoFlip
  <2>2. isused[flip[c].got] = 0
    BY <1>2 DEF DrawInv
  <2>3. \A s \in Screens \ {flip[c].cur} : Steady(s)' => Steady(s)
    BY <1>1, <1>2, NextFlip DEF Steady
  <2>4. escActive' => flip'["main"].phase # "assign"
    BY <1>2, <2>1 DEF DrawInv, vars, Ctx
  <2>5. ASSUME NEW s \in settled', Steady(s)'
        PROVE  isused'[handle'[s]] = 0
    <3>1. CASE s = flip[c].cur
      BY <3>1, <1>1, <1>2, <2>2 DEF FlipInv, vars
    <3>2. CASE s # flip[c].cur
      BY <3>2, <1>2, <2>3, <2>5 DEF FlipInv, DrawInv, vars
    <3> QED BY <3>1, <3>2
  <2> QED BY <1>2, <2>1, <2>4, <2>5 DEF DrawInv, vars, Ctx
<1> QED BY <1>4, <1>5

LEMMA DrainStep ==
    ASSUME ScreenInv, NEW c \in Ctx, FlipDrain(c)
    PROVE  FlipInv' /\ DrawInv'
<1> USE DEF ScreenInv
<1>1. flip[c] # NoFlip /\ flip[c] \in Flips /\ flip[c].cur \in Screens
  BY FlipShape DEF FlipDrain, FlipInv, NoFlip
<1>2. /\ Runs(c) /\ flip[c].phase = "drain" /\ UNCHANGED <<vars, handle, cuts>>
      /\ settled' = settled \cup {flip[c].cur} /\ flip' = [flip EXCEPT ![c] = NoFlip]
      /\ \A b \in Pair(flip[c].cur) : isused[b] = 0
  BY DEF FlipDrain
<1>3. FlipInv'
  BY <1>1, <1>2 DEF FlipInv, vars, Runs, Pair, NoFlip
<1>4. DrawInv'
  <2> SUFFICES ASSUME "assign" \notin cuts'
               PROVE  /\ escActive' => flip'["main"].phase # "assign"
                      /\ \A e \in Ctx : flip'[e].phase = "assign" => isused'[flip'[e].got] = 0
                      /\ \A s \in settled' : Steady(s)' => isused'[handle'[s]] = 0
    BY DEF DrawInv
  <2>1. \A e \in Ctx : flip'[e].phase = "assign" => flip'[e] = flip[e]
    BY <1>2 DEF NoFlip, FlipInv
  <2>2. \A s \in Screens \ {flip[c].cur} : Steady(s)' => Steady(s)
    BY <1>2 DEF Steady, FlipInv
  <2>3. isused[handle[flip[c].cur]] = 0
    BY <1>1, <1>2 DEF FlipInv
  <2>4. settled \subseteq Screens
    BY DEF FlipInv
  <2> QED BY <1>2, <2>1, <2>2, <2>3, <2>4 DEF DrawInv, vars, Ctx
<1> QED BY <1>3, <1>4

\* A step that leaves the flips alone and marks no buffer used.
LEMMA NoMarkStep ==
    ASSUME ScreenInv, UNCHANGED <<handle, flip, settled, cuts>>,
           \A b \in Buffers : isused[b] = 0 => isused'[b] = 0,
           escActive' => escActive
    PROVE  DrawInv'
<1> USE DEF ScreenInv
<1>1. \A c \in Ctx : flip[c].phase = "assign" => flip[c].got \in Buffers
  BY FlipShape DEF FlipInv, Flips
<1>2. \A s \in settled : handle[s] \in Buffers
  BY DEF FlipInv
<1>3. \A s : Steady(s)' = Steady(s)
  BY DEF Steady
<1> QED BY <1>1, <1>2, <1>3 DEF DrawInv

LEMMA IoctlStep ==
    ASSUME ScreenInv, NEW c \in Ctx, Ioctl(c)
    PROVE  FlipInv' /\ DrawInv'
<1> USE DEF ScreenInv
<1>1. UNCHANGED <<handle, flip, settled, cuts>>
  BY DEF Ioctl, screenVars
<1>2. \A s : Pair(s)' = Pair(s)
  BY DEF Pair
<1>3. \A e \in Ctx : pc'[e] = "checked" => pc[e] = "checked" /\ arg'[e] = arg[e]
  BY DEF Ioctl, CpuStep, Reserve, Fill, Forget, Unnest, Signal, IInv, TypeOK
<1>4. escActive' = escActive /\ Runs(c)
  BY DEF Ioctl, CpuStep, Reserve, Fill, Unnest, Signal
<1>5. FlipInv'
  BY <1>1, <1>2, <1>3, <1>4 DEF FlipInv
<1>6. CASE Reserve(c)
  <2>1. /\ flip[c].phase = "get" /\ flip[c] # NoFlip /\ arg[c] \in Pair(flip[c].cur)
        /\ flip[c].cur \in Screens
    BY <1>6, FlipShape DEF Reserve, FlipInv, NoFlip
  <2>2. \A b \in Buffers \ {arg[c]} : isused'[b] = isused[b]
    BY <1>6 DEF Reserve, IInv, TypeOK
  <2>3. "assign" \notin cuts => \A e \in Ctx : flip[e].phase # "assign"
    BY <1>4, <2>1 DEF DrawInv, Runs, Ctx, FlipInv, NoFlip
  <2>4. \A s \in settled : Steady(s) => handle[s] \in Buffers \ {arg[c]}
    BY <2>1, PairsApart DEF Steady, FlipInv
  <2>5. \A s : Steady(s)' = Steady(s)
    BY <1>1 DEF Steady
  <2>6. DrawInv'
    BY <1>1, <1>4, <2>2, <2>3, <2>4, <2>5 DEF DrawInv, Ctx
  <2> QED BY <1>5, <2>6
<1>7. CASE ~Reserve(c)
  <2>1. isused' = isused
    BY <1>7 DEF Ioctl, CpuStep, Fill, Unnest, Signal
  <2> QED BY <1>1, <1>4, <1>5, <2>1, NoMarkStep
<1> QED BY <1>6, <1>7

LEMMA ServeStep ==
    ASSUME ScreenInv, Serve
    PROVE  FlipInv' /\ DrawInv'
<1> USE DEF ScreenInv
<1>1. UNCHANGED <<handle, flip, settled, cuts>> /\ UNCHANGED <<pc, arg, escActive>>
  BY DEF Serve, screenVars, Nds, NdsWake, NdsPoll, NdsFetch, NdsOver, cpuVars
<1>2. \A b \in Buffers : isused[b] = 0 => isused'[b] = 0
  BY DEF Serve, Nds, NdsWake, NdsPoll, NdsFetch, NdsOver, IInv, TypeOK
<1>3. FlipInv'
  BY <1>1 DEF FlipInv, Pair
<1> QED BY <1>1, <1>2, <1>3, NoMarkStep

LEMMA EscapeStep ==
    ASSUME ScreenInv, Escape
    PROVE  FlipInv' /\ DrawInv'
<1> USE DEF ScreenInv
<1>1. UNCHANGED <<handle, flip, settled, isused, pc, arg>> /\ escActive'
  BY DEF Escape, EscEnter
<1>2. /\ cuts' \subseteq {"ioctl", "assign"} /\ cuts \subseteq cuts'
      /\ flip["main"].phase = "assign" => "assign" \in cuts'
  BY DEF Escape, FlipInv
<1>3. FlipInv'
  BY <1>1, <1>2 DEF FlipInv, Pair
<1>4. \A s : Steady(s)' = Steady(s)
  BY <1>1 DEF Steady
<1>5. DrawInv'
  BY <1>1, <1>2, <1>4 DEF DrawInv
<1> QED BY <1>3, <1>5

LEMMA LeaveStep ==
    ASSUME ScreenInv, Leave
    PROVE  FlipInv' /\ DrawInv'
<1> USE DEF ScreenInv
<1>1. /\ UNCHANGED <<handle, flip, settled, cuts, isused, pc, arg>> /\ ~escActive'
      /\ flip["esc"] = NoFlip
  BY DEF Leave, EscReturn, screenVars
<1>2. FlipInv'
  BY <1>1 DEF FlipInv, Pair
<1> QED BY <1>1, <1>2, NoMarkStep

LEMMA ScreenInvStep == ScreenInv /\ [ScreenNext]_allVars => ScreenInv'
<1> SUFFICES ASSUME ScreenInv, [ScreenNext]_allVars PROVE ScreenInv'
  OBVIOUS
<1>1. IInv'
  BY StepOfRing, InvStep DEF ScreenInv
<1>2. CASE UNCHANGED allVars
  <2>1. UNCHANGED <<handle, flip, settled, cuts, isused, pc, arg, escActive>>
    BY <1>2 DEF allVars, screenVars, vars
  <2>2. FlipInv'
    BY <2>1 DEF ScreenInv, FlipInv, Pair
  <2>3. DrawInv'
    BY <2>1, NoMarkStep
  <2> QED BY <1>1, <2>2, <2>3 DEF ScreenInv
<1>3. CASE ScreenNext
  <2>1. FlipInv' /\ DrawInv'
    BY <1>3, CallStep, UpdateStep, GetStep, AssignStep, DrainStep, IoctlStep, ServeStep,
       EscapeStep, LeaveStep DEF ScreenNext, FlipStep
  <2> QED BY <1>1, <2>1 DEF ScreenInv
<1> QED BY <1>1, <1>2, <1>3 DEF ScreenInv

LEMMA ScreenInvInit == ScreenInit => ScreenInv
<1> SUFFICES ASSUME ScreenInit PROVE ScreenInv
  OBVIOUS
<1>1. IInv
  BY InvInit DEF ScreenInit
<1>2. FlipInv
  BY FourBuffers DEF ScreenInit, Init, FlipInv, NoFlip, Pair, Screens, Ctx
<1>3. DrawInv
  BY DEF ScreenInit, Init, DrawInv, NoFlip, Ctx
<1> QED BY <1>1, <1>2, <1>3 DEF ScreenInv

LEMMA ScreenInvariant == ScreenSpec => []ScreenInv
BY ScreenInvInit, ScreenInvStep, PTL DEF ScreenSpec

-----------------------------------------------------------------------------
\* Handles and flips keep their types, for every set of buffers and every ring:
\* a handle never names a buffer of the other screen.
THEOREM ScreenTypeCorrect == ScreenSpec => []ScreenTypeOK
<1>1. ScreenInv => ScreenTypeOK
  BY FlipShape DEF ScreenInv, FlipInv, ScreenTypeOK
<1> QED BY <1>1, ScreenInvariant, PTL

\* Whatever the flips of both contexts do, what the ring sees of it is a
\* behaviour of IqeQueue, so that every invariant of the ring holds here.
THEOREM ScreensUseRing == ScreenSpec => Spec
<1>1. ScreenInit => Init
  BY DEF ScreenInit
<1>2. ScreenInv /\ [ScreenNext]_allVars => [Next]_vars
  BY StepOfRing DEF ScreenInv
<1> QED BY <1>1, <1>2, ScreenInvariant, PTL DEF ScreenSpec, Spec

\* ds2_flipScreen leaves the program a buffer that the NDS does not read and
\* that no request is about, whatever the console flips in between.
THEOREM DrawTargetsAreIdle == ScreenSpec => []DrawTargetIdle
<1>1. ScreenInv => DrawTargetIdle
  <2> SUFFICES ASSUME ScreenInv, upset = {}, "assign" \notin cuts,
                      NEW s \in settled, Steady(s)
               PROVE  Idle(handle[s])
    BY DEF DrawTargetIdle
  <2>1. isused[handle[s]] = 0
    BY DEF ScreenInv, DrawInv
  <2>2. handle[s] \in Buffers /\ handle[s] # None
    BY FourBuffers DEF ScreenInv, FlipInv
  <2>3. xfer # handle[s]
    BY <2>1, <2>2 DEF ScreenInv, IInv, RingInv
  <2>4. \A k \in Pending : Owner(k) # handle[s]
    BY <2>1 DEF ScreenInv, IInv, RingInv
  <2> QED BY <2>1, <2>3, <2>4 DEF Idle
<1> QED BY <1>1, ScreenInvariant, PTL
=============================================================================
