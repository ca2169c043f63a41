------------------------------ MODULE IqeQueue ------------------------------
(***************************************************************************)
(* The request ring between the CPU of the card and the NDS                *)
(* (src/libsrc/base/nds/game.c).                                           *)
(*                                                                         *)
(* The CPU owns a few transfer buffers (buf_st_list).  To have the NDS     *)
(* fetch one, ioctl(IQE_UPDATE) marks it used, takes the next sequence     *)
(* number of the ring nds_iqe_list, fills that slot OUTSIDE the lock and   *)
(* finally raises a signal bit.  The NDS answers with commands, each of    *)
(* them an interrupt on the CPU: 0xc4 asks how many requests wait, 0xc0    *)
(* takes the oldest slot, 0xc1/0xc2 move the data and end with "transfer   *)
(* over", which frees the buffer; 0xc3 reports a key, and the escape key   *)
(* runs a registered callback INSIDE the interrupt with interrupts enabled *)
(* again, so that the callback's own IQE_UPDATEs nest inside whatever the  *)
(* main program was doing.                                                 *)
(*                                                                         *)
(* Two contexts therefore run the CPU side: "main", and "esc" on top of it *)
(* while the callback is active.  A section under spin_lock_irqsave is one *)
(* step, everything else may be interrupted between two steps.             *)
(***************************************************************************)
EXTENDS Integers, FiniteSets

CONSTANTS
    Buffers,    \* the transfer buffers with isused flags (buf_video_up_0 ...)
    C0,         \* buf_c0_set: its data travels in the ring slot itself
    None,       \* no buffer
    RingSize,   \* slots of nds_iqe_list (16 in the code)
    MaxW        \* bound: requests the CPU makes in all

ASSUME BuffersAssumption ==
    /\ IsFiniteSet(Buffers)
    /\ C0 \in Buffers
    /\ None \notin Buffers
\* game.c declares 16 slots for 7 buffers.
ASSUME RingAssumption ==
    /\ RingSize \in Nat \ {0}
    /\ Cardinality(Buffers) <= RingSize
    /\ MaxW \in Nat

VARIABLES
    isused,      \* [Buffers -> 0..1]  pmain_buf->buf_st_list[].isused
    slot,        \* [0..RingSize-1 -> Buffers \cup {None}]  nds_iqe_list[].num
    w, r,        \* nds_iqe_list_w, nds_iqe_list_r
    nest,        \* _nds_iqe_list_w_nest
    signal,      \* nds_iqe_out_bit of the FPGA's state register
    pc,          \* where each context stands in IQE_UPDATE
    arg,         \* the ioctl's argument, per context
    wTmp,        \* nds_iqe_list_w_tmp, per context
    escActive,   \* _escape_function_lock: the callback is running
    draining,    \* NDS: it has seen the signal and serves the ring
    known,       \* NDS: requests it knows of from the last 0xc4
    xfer,        \* NDS: the buffer whose data it is fetching, or None
    upset        \* history: which hazards have struck so far

cpuVars == <<nest, pc, arg, wTmp, escActive>>
ndsVars == <<draining, known, xfer>>
vars == <<isused, slot, w, r, nest, signal, pc, arg, wTmp, escActive,
          draining, known, xfer, upset>>

Ctx == {"main", "esc"}
Hazard == {"window", "twice", "reset", "unknown"}

\* nds_iqe_list_w & 0xf
Index(k) == k % RingSize

\* The callback runs to its end before the interrupted program goes on.
Runs(c) == escActive <=> (c = "esc")

Init ==
    /\ isused = [b \in Buffers |-> 0]
    /\ slot = [i \in 0 .. RingSize - 1 |-> None]
    /\ w = 0 /\ r = 0
    /\ nest = 0
    /\ signal = FALSE
    /\ pc = [c \in Ctx |-> "idle"]
    /\ arg = [c \in Ctx |-> None]
    /\ wTmp = [c \in Ctx |-> 0]
    /\ escActive = FALSE
    /\ draining = FALSE /\ known = 0 /\ xfer = None
    /\ upset = {}

-----------------------------------------------------------------------------
(* The CPU: update_buf and ioctl(IQE_UPDATE).                              *)

\* update_buf and the ioctl both look at isused before the lock is taken; a
\* used buffer is an error return that changes nothing.
Check(c, b) ==
    /\ Runs(c)
    /\ pc[c] = "idle"
    /\ w < MaxW
    /\ isused[b] = 0
    /\ pc' = [pc EXCEPT ![c] = "checked"]
    /\ arg' = [arg EXCEPT ![c] = b]
    /\ UNCHANGED <<isused, slot, w, r, nest, signal, wTmp, escActive,
                   ndsVars, upset>>

\* Mutant: the buffer is not marked used.
ReserveUnmarked(c) ==
    /\ Runs(c)
    /\ pc[c] = "checked"
    /\ nest' = nest + 1
    /\ wTmp' = [wTmp EXCEPT ![c] = w]
    /\ w' = w + 1
    /\ pc' = [pc EXCEPT ![c] = "reserved"]
    /\ UNCHANGED <<isused, slot, r, signal, arg, escActive, ndsVars, upset>>

\* The first locked section.  The flag is set without looking at it again.
Reserve(c) ==
    /\ Runs(c)
    /\ pc[c] = "checked"
    /\ nest' = nest + 1
    /\ isused' = [isused EXCEPT ![arg[c]] = 1]
    /\ wTmp' = [wTmp EXCEPT ![c] = w]
    /\ w' = w + 1
    /\ pc' = [pc EXCEPT ![c] = "reserved"]
    /\ upset' = IF isused[arg[c]] = 1 THEN upset \cup {"twice"} ELSE upset
    /\ UNCHANGED <<slot, r, signal, arg, escActive, ndsVars>>

\* The rest of the ioctl has no use for its argument and saved number.
Forget(c) ==
    /\ arg' = [arg EXCEPT ![c] = None]
    /\ wTmp' = [wTmp EXCEPT ![c] = 0]

\* Mutant: the slot is chosen with the ring's write number of the moment
\* instead of the one saved under the lock.
FillCurrentW(c) ==
    /\ Runs(c)
    /\ pc[c] = "reserved"
    /\ slot' = [slot EXCEPT ![Index(w - 1)] = arg[c]]
    /\ pc' = [pc EXCEPT ![c] = "filled"]
    /\ Forget(c)
    /\ UNCHANGED <<isused, w, r, nest, signal, escActive, ndsVars, upset>>

\* The slot is filled, and written back from the cache, with interrupts on.
Fill(c) ==
    /\ Runs(c)
    /\ pc[c] = "reserved"
    /\ slot' = [slot EXCEPT ![Index(wTmp[c])] = arg[c]]
    /\ pc' = [pc EXCEPT ![c] = "filled"]
    /\ Forget(c)
    /\ UNCHANGED <<isused, w, r, nest, signal, escActive, ndsVars, upset>>

\* Mutant: an exit that leaves the ioctl without nest--, as its error
\* return for an unknown command does.
UnnestForgotten(c) ==
    /\ Runs(c)
    /\ pc[c] = "filled"
    /\ pc' = [pc EXCEPT ![c] = "unnested"]
    /\ UNCHANGED <<isused, slot, w, r, nest, signal, arg, wTmp, escActive,
                   ndsVars, upset>>

\* The second locked section.
Unnest(c) ==
    /\ Runs(c)
    /\ pc[c] = "filled"
    /\ nest' = nest - 1
    /\ pc' = [pc EXCEPT ![c] = "unnested"]
    /\ UNCHANGED <<isused, slot, w, r, signal, arg, wTmp, escActive,
                   ndsVars, upset>>

\* Mutant: the counter is lowered once more where it is tested.
SignalLowering(c) ==
    /\ Runs(c)
    /\ pc[c] = "unnested"
    /\ nest' = nest - 1
    /\ signal' = (signal \/ nest = 0)
    /\ pc' = [pc EXCEPT ![c] = "idle"]
    /\ UNCHANGED <<isused, slot, w, r, arg, wTmp, escActive, ndsVars, upset>>

\* The counter is read after the lock is released.
Signal(c) ==
    /\ Runs(c)
    /\ pc[c] = "unnested"
    /\ signal' = (signal \/ nest = 0)
    /\ pc' = [pc EXCEPT ![c] = "idle"]
    /\ UNCHANGED <<isused, slot, w, r, nest, arg, wTmp, escActive,
                   ndsVars, upset>>

CpuStep(c) == Reserve(c) \/ Fill(c) \/ Unnest(c) \/ Signal(c)

-----------------------------------------------------------------------------
(* The commands of the NDS: each is one run of cmd_line_interrupt.         *)

\* The NDS sees the bit and starts to serve the ring.
NdsWake ==
    /\ signal /\ ~draining
    /\ draining' = TRUE
    /\ UNCHANGED <<isused, slot, w, r, signal, cpuVars, known, xfer, upset>>

\* 0xc4: the answer is w - r, requests still being filled included.
NdsPoll ==
    /\ draining /\ known = 0 /\ xfer = None
    /\ known' = w - r
    /\ draining' = (w # r)
    /\ UNCHANGED <<isused, slot, w, r, signal, cpuVars, xfer, upset>>

\* Some context owns sequence number k and has not filled its slot yet.
Unfilled(k) == \E c \in Ctx : pc[c] = "reserved" /\ wTmp[c] = k

\* Mutant: the handler of 0xc0 does not free the c0 buffer.
NdsFetchKeepsC0 ==
    /\ known > 0 /\ xfer = None
    /\ known' = known - 1
    /\ signal' = FALSE
    /\ w > r
    /\ xfer' = IF slot[Index(r)] = C0 THEN None ELSE slot[Index(r)]
    /\ r' = r + 1
    /\ upset' = IF Unfilled(r) THEN upset \cup {"window"} ELSE upset
    /\ UNCHANGED <<isused, slot, w, cpuVars, draining>>

\* 0xc0: the slot goes out, the state register is cleared, and a c0 request
\* is complete with that.  With nothing pending only the register changes.
NdsFetch ==
    /\ known > 0 /\ xfer = None
    /\ known' = known - 1
    /\ signal' = FALSE
    /\ IF w > r
       THEN /\ isused' = IF slot[Index(r)] = C0
                         THEN [isused EXCEPT ![C0] = 0] ELSE isused
            /\ xfer' = IF slot[Index(r)] = C0 THEN None ELSE slot[Index(r)]
            /\ r' = r + 1
            /\ upset' = IF Unfilled(r) THEN upset \cup {"window"} ELSE upset
       ELSE UNCHANGED <<isused, xfer, r, upset>>
    /\ UNCHANGED <<slot, w, cpuVars, draining>>

\* 0xc1/0xc2 with a length of 0x800000 or more: transfer over.
NdsOver ==
    /\ xfer # None
    /\ isused' = [isused EXCEPT ![xfer] = 0]
    /\ xfer' = None
    /\ UNCHANGED <<slot, w, r, signal, cpuVars, draining, known, upset>>

\* The same with a buffer number out of range: every video and audio buffer
\* is taken to be free, whatever the ring still holds.
NdsOverBad ==
    /\ xfer # None
    /\ upset \cap {"reset", "unknown"} = {}     \* bound: one of these two
    /\ isused' = [b \in Buffers |-> IF b = C0 THEN isused[b] ELSE 0]
    /\ xfer' = None
    /\ upset' = upset \cup {"reset"}
    /\ UNCHANGED <<slot, w, r, signal, cpuVars, draining, known>>

\* A command that the handler does not know clears the state register like
\* 0xc0, but nothing was fetched.
NdsUnknown ==
    /\ signal
    /\ upset \cap {"reset", "unknown"} = {}     \* bound: one of these two
    /\ signal' = FALSE
    /\ upset' = upset \cup {"unknown"}
    /\ UNCHANGED <<isused, slot, w, r, cpuVars, ndsVars>>

\* 0xc3 with the escape key: the callback starts, interrupts enabled (sti).
EscEnter ==
    /\ ~escActive
    /\ escActive' = TRUE
    /\ UNCHANGED <<isused, slot, w, r, signal, nest, pc, arg, wTmp,
                   ndsVars, upset>>

\* The callback returns and the lock flag is reset.
EscReturn ==
    /\ escActive
    /\ pc["esc"] = "idle"
    /\ escActive' = FALSE
    /\ UNCHANGED <<isused, slot, w, r, signal, nest, pc, arg, wTmp,
                   ndsVars, upset>>

Nds == NdsWake \/ NdsPoll \/ NdsFetch \/ NdsOver

Next ==
    \/ \E c \in Ctx : (\E b \in Buffers : Check(c, b)) \/ CpuStep(c)
    \/ Nds
    \/ NdsOverBad
    \/ NdsUnknown
    \/ EscEnter
    \/ EscReturn

Spec == Init /\ [][Next]_vars

\* The CPU executes instructions of the interrupted program between any two
\* interrupts, however often they come (SF); the NDS, an external device,
\* serves a ring it was told of; whoever looks at the console leaves it.
FairSpec ==
    /\ Spec
    /\ \A c \in Ctx : SF_vars(CpuStep(c))
    /\ WF_vars(Nds)
    /\ WF_vars(EscReturn)

-----------------------------------------------------------------------------
(* What must hold.  upset names the ways in which the code's own windows   *)
(* can be hit: "window", the NDS took a slot before it was filled;         *)
(* "twice", the callback queued the buffer between main's check and main's *)
(* lock; "reset", the NDS named a buffer that does not exist; "unknown",   *)
(* it sent a command that does not exist while the signal was up.          *)

\* The request with sequence number k, wherever its buffer is noted.
Owner(k) ==
    IF pc["main"] = "reserved" /\ wTmp["main"] = k THEN arg["main"]
    ELSE IF pc["esc"] = "reserved" /\ wTmp["esc"] = k THEN arg["esc"]
    ELSE slot[Index(k)]

Pending == r .. w - 1

InIoctl(c) == pc[c] \in {"reserved", "filled", "unnested"}

\* Type invariant: the types of the ring, the flags and both contexts.
TypeOK ==
    /\ isused \in [Buffers -> 0 .. 1]
    /\ slot \in [0 .. RingSize - 1 -> Buffers \cup {None}]
    /\ w \in Nat /\ r \in Nat /\ r <= w
    /\ nest \in Nat
    /\ signal \in BOOLEAN
    /\ pc \in [Ctx -> {"idle", "checked", "reserved", "filled", "unnested"}]
    /\ arg \in [Ctx -> Buffers \cup {None}]
    /\ wTmp \in [Ctx -> Nat]
    /\ escActive \in BOOLEAN
    /\ draining \in BOOLEAN
    /\ known \in Nat
    /\ xfer \in (Buffers \ {C0}) \cup {None}
    /\ upset \subseteq Hazard

\* As long as none of the windows was hit, a buffer is marked used exactly
\* while one request of the ring, or the running transfer, is about it: no
\* request is lost, doubled or overwritten by the ring's wrap-around, and no
\* buffer is handed out for drawing while the NDS still has to read it.
OneRequestPerUsedBuffer ==
    upset = {} =>
        \A b \in Buffers :
            Cardinality({k \in Pending : Owner(k) = b})
                + (IF xfer = b THEN 1 ELSE 0) = isused[b]

\* No more requests wait than there are buffers, unfilled slots included, as
\* long as no window was hit: the ring cannot overtake itself.
PendingBound == upset = {} => w - r <= Cardinality(Buffers)

\* No lost wake-up: when requests wait and the NDS does not serve the ring,
\* the signal is up or a context is still on its way to raise it, although
\* every 0xc0 clears the bit and nested updates skip it.  Only a command that
\* the handler does not know loses it.
PendingIsSignalled ==
    (w > r /\ ~draining /\ "unknown" \notin upset) => signal \/ \E c \in Ctx : InIoctl(c)

\* Its strengthening: the NDS fetches only what it counted while it serves.
SignalInv == (known > 0 => draining) /\ PendingIsSignalled

\* The inductive invariant behind the two: what each context knows of its
\* request, and which request each used buffer belongs to.
CtxInv ==
    /\ \A c \in Ctx :
          /\ pc[c] \in {"checked", "reserved"} => arg[c] \in Buffers
          /\ pc[c] = "reserved" => wTmp[c] < w
    /\ pc["main"] = "reserved" /\ pc["esc"] = "reserved"
          => wTmp["main"] # wTmp["esc"]
    /\ nest = (IF pc["main"] \in {"reserved", "filled"} THEN 1 ELSE 0)
              + (IF pc["esc"] \in {"reserved", "filled"} THEN 1 ELSE 0)

RingInv ==
    upset = {} =>
        /\ \A c \in Ctx : pc[c] = "reserved" => r <= wTmp[c]
        /\ w - r <= RingSize
        /\ \A k \in Pending : /\ Owner(k) \in Buffers
                              /\ isused[Owner(k)] = 1
                              /\ Owner(k) # xfer
        /\ \A j, k \in Pending : Owner(j) = Owner(k) => j = k
        /\ xfer # None => isused[xfer] = 1
        /\ \A b \in Buffers : isused[b] = 1 =>
              b = xfer \/ \E k \in Pending : Owner(k) = b

IInv == TypeOK /\ CtxInv /\ RingInv

\* A buffer the CPU queued becomes free again, as long as no window was hit.
QueuedIsServed ==
    \A b \in Buffers :
        (isused[b] = 1 /\ upset = {}) ~> (isused[b] = 0 \/ upset # {})
=============================================================================
